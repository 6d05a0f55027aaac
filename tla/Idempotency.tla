----------------------------- MODULE Idempotency -----------------------------
(***************************************************************************)
(* POST /orders behind the idempotency interceptor: the Redis entry of a   *)
(* key, the check and the lock (a GET, then a SET), the handler, and the   *)
(* storing of the response or the release of the lock.  createOrder is     *)
(* seen from here as one step that commits an order row or does not, and   *)
(* answers or throws.                                                      *)
(***************************************************************************)
EXTENDS Naturals, FiniteSets

CONSTANTS
    Requests,   \* HTTP requests that carry an x-idempotency-key
    Keys,       \* idempotency keys
    Bodies,     \* request hashes
    Faults,     \* the faults this instance may suffer
    NONE

(***************************************************************************)
(* race:   requests of one key may both be between their GET and their SET *)
(* late:   createOrder throws after it committed the order row             *)
(* redis:  a Redis command errors, with or without effect                  *)
(* crash:  the process dies while it serves the request                    *)
(* expire: the entry's time to live ends while no request of the key runs  *)
(***************************************************************************)
AllFaults == {"race", "late", "redis", "crash", "expire"}

ASSUME IdempotencyConstants ==
    /\ Faults \subseteq AllFaults
    /\ NONE \notin Requests \union Bodies \union Keys

VARIABLES
    entry,      \* per key: "absent", "locked" or "stored"
    entryBody,  \* per key: the request hash kept in the entry
    entryResp,  \* per key: the request whose response is kept
    pc, key, body,   \* per request: control state, key and hash
    parsed,     \* per request: the hash storeResponse read
    created,    \* per request: it committed an order row
    replayOf,   \* per request: the request whose response it was given
    slips       \* per key: what went wrong so far that may cost exclusion

redisVars == <<entry, entryBody, entryResp>>
requestVars == <<key, body>>
vars == <<redisVars, requestVars, pc, parsed, created, replayOf, slips>>

\* race: two requests were between GET and SET; late: createOrder threw after
\* its commit; unstored: storeResponse failed; expired: the entry's time ended.
Slips == {"race", "late", "unstored", "expired"}

ActivePcs == {"get", "set", "handle", "storeGet", "storeSet", "release"}
FinalPcs  == {"done", "replayed", "conflict", "error", "dead"}
\* Control states after the lock was taken and before it is given up.
HoldingPcs == {"handle", "storeGet", "storeSet", "release"}

TypeOK ==
    /\ entry \in [Keys -> {"absent", "locked", "stored"}]
    /\ entryBody \in [Keys -> Bodies \union {NONE}]
    /\ entryResp \in [Keys -> Requests \union {NONE}]
    /\ pc \in [Requests -> {"idle"} \union ActivePcs \union FinalPcs]
    /\ key \in [Requests -> Keys \union {NONE}]
    /\ body \in [Requests -> Bodies \union {NONE}]
    /\ parsed \in [Requests -> Bodies \union {NONE}]
    /\ created \in [Requests -> BOOLEAN]
    /\ replayOf \in [Requests -> Requests \union {NONE}]
    /\ slips \in [Keys -> SUBSET Slips]

Init ==
    /\ entry = [k \in Keys |-> "absent"]
    /\ entryBody = [k \in Keys |-> NONE]
    /\ entryResp = [k \in Keys |-> NONE]
    /\ pc = [r \in Requests |-> "idle"]
    /\ key = [r \in Requests |-> NONE]
    /\ body = [r \in Requests |-> NONE]
    /\ parsed = [r \in Requests |-> NONE]
    /\ created = [r \in Requests |-> FALSE]
    /\ replayOf = [r \in Requests |-> NONE]
    /\ slips = [k \in Keys |-> {}]

Goto(r, from, to) == pc[r] = from /\ pc' = [pc EXCEPT ![r] = to]

PutEntry(k, state, b, resp) ==
    /\ entry' = [entry EXCEPT ![k] = state]
    /\ entryBody' = [entryBody EXCEPT ![k] = b]
    /\ entryResp' = [entryResp EXCEPT ![k] = resp]

Slip(k, what) == slips' = [slips EXCEPT ![k] = @ \union {what}]

DeleteEntry(k) == PutEntry(k, "absent", NONE, NONE)

-----------------------------------------------------------------------------
Arrive(r, k, b) ==
    /\ Goto(r, "idle", "get")
    /\ key' = [key EXCEPT ![r] = k]
    /\ body' = [body EXCEPT ![r] = b]
    /\ UNCHANGED <<redisVars, parsed, created, replayOf, slips>>

\* Another request of the key has read the entry and not yet written it.
BetweenGetAndSet(r, k) ==
    \E q \in Requests \ {r} : pc[q] = "set" /\ key[q] = k

GetMayRace(r, k) ==
    \/ ~BetweenGetAndSet(r, k) /\ UNCHANGED slips
    \/ "race" \in Faults /\ BetweenGetAndSet(r, k) /\ Slip(k, "race")

\* Variant: the pipe with catchError also wraps checkAndLock, so that a
\* conflict releases the key.
CheckKeyConflictReleases(r, k) ==
    /\ key[r] = k
    /\ GetMayRace(r, k)
    /\ Goto(r, "get", CASE entry[k] = "absent" -> "set"
                        [] entry[k] = "stored" /\ entryBody[k] = body[r] -> "replayed"
                        [] OTHER -> "release")
    /\ replayOf' = [replayOf EXCEPT ![r] = entryResp[k]]
    /\ UNCHANGED <<redisVars, requestVars, parsed, created>>

\* Variant: the hash of the request is not compared.
CheckKeyIgnoresBody(r, k) ==
    /\ key[r] = k
    /\ GetMayRace(r, k)
    /\ Goto(r, "get", CASE entry[k] = "absent" -> "set"
                        [] entry[k] = "stored" -> "replayed"
                        [] OTHER -> "conflict")
    /\ replayOf' = [replayOf EXCEPT ![r] = entryResp[k]]
    /\ UNCHANGED <<redisVars, requestVars, parsed, created>>

\* checkAndLock up to its GET: conflict, the stored response, or a new key.
CheckKey(r, k) ==
    /\ key[r] = k
    /\ GetMayRace(r, k)
    /\ \/ entry[k] = "absent" /\ Goto(r, "get", "set") /\ UNCHANGED replayOf
       \/ /\ \/ entry[k] = "locked"
             \/ entry[k] = "stored" /\ entryBody[k] # body[r]
          /\ Goto(r, "get", "conflict")
          /\ UNCHANGED replayOf
       \/ /\ entry[k] = "stored" /\ entryBody[k] = body[r]
          /\ Goto(r, "get", "replayed")
          /\ replayOf' = [replayOf EXCEPT ![r] = entryResp[k]]
    /\ UNCHANGED <<redisVars, requestVars, parsed, created>>

\* The SET of checkAndLock; its error leaves intercept before the pipe.
LockKey(r, k) ==
    /\ key[r] = k
    /\ PutEntry(k, "locked", body[r], NONE)
    /\ \/ Goto(r, "set", "handle")
       \/ "redis" \in Faults /\ Goto(r, "set", "error")
    /\ UNCHANGED <<requestVars, parsed, created, replayOf, slips>>

\* Variant: the response of a failed createOrder is stored as well.
HandleRequestStoresErrors(r) ==
    /\ Goto(r, "handle", "storeGet")
    /\ created' \in {created, [created EXCEPT ![r] = TRUE]}
    /\ UNCHANGED <<redisVars, requestVars, parsed, replayOf, slips>>

\* createOrder: answered, refused before its commit, or failed after it.
HandleRequest(r) ==
    /\ \/ /\ Goto(r, "handle", "storeGet")
          /\ created' = [created EXCEPT ![r] = TRUE]
          /\ UNCHANGED slips
       \/ Goto(r, "handle", "release") /\ UNCHANGED <<created, slips>>
       \/ /\ "late" \in Faults
          /\ Goto(r, "handle", "release")
          /\ created' = [created EXCEPT ![r] = TRUE]
          /\ Slip(key[r], "late")
    /\ UNCHANGED <<redisVars, requestVars, parsed, replayOf>>

\* Variant: storeResponse treats a locked entry as checkAndLock does.
ReadEntryRefusesLocked(r, k) ==
    /\ key[r] = k
    /\ \/ entry[k] = "absent" /\ Goto(r, "storeGet", "done")
       \/ entry[k] = "locked" /\ Goto(r, "storeGet", "release")
       \/ entry[k] = "stored" /\ Goto(r, "storeGet", "storeSet")
    /\ parsed' = [parsed EXCEPT ![r] = entryBody[k]]
    /\ UNCHANGED <<redisVars, requestVars, created, replayOf, slips>>

\* storeResponse up to its GET: an entry that is gone is not stored again.
ReadEntry(r, k) ==
    /\ key[r] = k
    /\ \/ entry[k] = "absent" /\ Goto(r, "storeGet", "done") /\ UNCHANGED parsed
       \/ /\ entry[k] # "absent"
          /\ Goto(r, "storeGet", "storeSet")
          /\ parsed' = [parsed EXCEPT ![r] = entryBody[k]]
    /\ UNCHANGED <<redisVars, requestVars, created, replayOf, slips>>

\* Variant: the key is released when the request is answered.
StoreResponseReleases(r, k) ==
    /\ key[r] = k
    /\ DeleteEntry(k)
    /\ Goto(r, "storeSet", "done")
    /\ UNCHANGED <<requestVars, parsed, created, replayOf, slips>>

\* Variant: hash and response change places.
StoreResponseSwapped(r, k) ==
    /\ key[r] = k
    /\ PutEntry(k, "stored", r, parsed[r])
    /\ Goto(r, "storeSet", "done")
    /\ UNCHANGED <<requestVars, parsed, created, replayOf, slips>>

\* The SET of storeResponse: unlocked, with the response.
StoreResponse(r, k) ==
    /\ key[r] = k
    /\ PutEntry(k, "stored", parsed[r], r)
    /\ \/ Goto(r, "storeSet", "done") /\ UNCHANGED slips
       \/ "redis" \in Faults /\ Goto(r, "storeSet", "release") /\ Slip(k, "unstored")
    /\ UNCHANGED <<requestVars, parsed, created, replayOf>>

\* catchError: DEL of the key, whoever wrote its entry.
ReleaseKey(r, k) ==
    /\ key[r] = k
    /\ DeleteEntry(k)
    /\ Goto(r, "release", "error")
    /\ UNCHANGED <<requestVars, parsed, created, replayOf, slips>>

\* A command that errors without effect: before the handler, and in the
\* release, the request just fails; in storeResponse it goes to catchError.
RedisError(r) ==
    /\ "redis" \in Faults
    /\ \/ /\ \E from \in {"get", "set", "release"} : Goto(r, from, "error")
          /\ UNCHANGED slips
       \/ /\ \E from \in {"storeGet", "storeSet"} : Goto(r, from, "release")
          /\ Slip(key[r], "unstored")
    /\ UNCHANGED <<redisVars, requestVars, parsed, created, replayOf>>

Crash(r) ==
    /\ "crash" \in Faults
    /\ \E from \in ActivePcs : Goto(r, from, "dead")
    /\ UNCHANGED <<redisVars, requestVars, parsed, created, replayOf, slips>>

\* Variant: only a stored response has a time to live.
ExpireStoredOnly(k) ==
    /\ "expire" \in Faults
    /\ entry[k] = "stored"
    /\ \A r \in Requests : key[r] = k => pc[r] \in FinalPcs
    /\ DeleteEntry(k)
    /\ Slip(k, "expired")
    /\ UNCHANGED <<requestVars, pc, parsed, created, replayOf>>

\* 24 hours are longer than any request: the entry outlives its request.
Expire(k) ==
    /\ "expire" \in Faults
    /\ entry[k] # "absent"
    /\ \A r \in Requests : key[r] = k => pc[r] \in FinalPcs
    /\ DeleteEntry(k)
    /\ Slip(k, "expired")
    /\ UNCHANGED <<requestVars, pc, parsed, created, replayOf>>

RequestProgress(r, k) ==
    \/ CheckKey(r, k) \/ LockKey(r, k) \/ ReadEntry(r, k)
    \/ StoreResponse(r, k) \/ ReleaseKey(r, k)
    \/ key[r] = k /\ HandleRequest(r)

Next ==
    \/ \E r \in Requests, k \in Keys :
          \/ \E b \in Bodies : Arrive(r, k, b)
          \/ RequestProgress(r, k)
    \/ \E r \in Requests : RedisError(r) \/ Crash(r)
    \/ \E k \in Keys : Expire(k)

Spec == Init /\ [][Next]_vars

\* A request that runs goes on, and Redis expires what has a time to live.
Fairness ==
    /\ \A r \in Requests : WF_vars(\E k \in Keys : RequestProgress(r, k))
    /\ \A k \in Keys : WF_vars(Expire(k))

FairSpec == Spec /\ Fairness

-----------------------------------------------------------------------------
SameKey(q, r) == key[q] # NONE /\ key[q] = key[r]

\* The key is a lock: of the requests of a key at most one is past its GET of
\* a new key and not yet answered, whatever fails meanwhile, unless two of
\* them raced between GET and SET (checkAndLock, releaseLock).
HoldersExclusive ==
    \A q, r \in Requests :
        /\ SameKey(q, r) /\ "race" \notin slips[key[r]]
        /\ pc[q] \in HoldingPcs \union {"set"}
        /\ pc[r] \in HoldingPcs \union {"set"}
        => q = r

\* A replayed response is always one that another request with the same key
\* was given, or would have been, for an order it created: an error is never
\* replayed, even when requests race.
ReplayHasOrder ==
    \A r \in Requests : pc[r] = "replayed" =>
        LET q == replayOf[r]
        IN  q \in Requests \ {r} /\ SameKey(q, r) /\ created[q]

\* Without races the replayed response also answers the same content: a key
\* reused with other parameters is a conflict (storeResponse keeps the hash
\* it read, which must still be the hash of its own request).
ReplayHasSameContent ==
    \A r \in Requests :
        pc[r] = "replayed" /\ "race" \notin slips[key[r]] =>
            body[replayOf[r]] = body[r]

\* DESIGN.md, section 3: duplicate requests do not create duplicate orders.
OneOrderPerKey ==
    \A q, r \in Requests :
        created[q] /\ created[r] /\ SameKey(q, r) => q = r

\* What the code does provide: a second order for a key takes a race, a
\* failure after the order was committed, or the end of the entry's time; a
\* crash at any point, a refused order or an error of Redis before the order
\* is not enough.
SecondOrderNeedsSlip ==
    \A q, r \in Requests :
        created[q] /\ created[r] /\ SameKey(q, r) /\ q # r => slips[key[r]] # {}

\* An error or a conflict tells the client that no order was left behind and
\* that it may send the request again, unless something failed after the
\* commit of the order.
ErrorLeavesNoOrder ==
    \A r \in Requests :
        pc[r] \in {"error", "conflict"} /\ created[r] =>
            slips[key[r]] \intersect {"late", "unstored"} # {}

\* A key whose holder died is usable again once its entry has expired, and
\* every other lock is given up by its holder.
NoKeyLockedForever == \A k \in Keys : entry[k] = "locked" ~> entry[k] # "locked"

=============================================================================
