-------------------------- MODULE IdempotencyProofs --------------------------
(***************************************************************************)
(* Theorems about Idempotency, for every number of requests and keys and   *)
(* every combination of faults.                                            *)
(***************************************************************************)
EXTENDS Idempotency, TLAPS

\* Between the GET that found the key new and the end of the request.
Busy(r) == pc[r] \in HoldingPcs \union {"set"}

Raced(k) == "race" \in slips[k]

\* What a request has done at each point; an order without an answer is on
\* record among the slips of its key.
RequestFacts ==
    \A r \in Requests :
        /\ pc[r] = "idle" => key[r] = NONE
        /\ pc[r] # "idle" => key[r] \in Keys
        /\ created[r] => pc[r] \in {"storeGet", "storeSet", "release", "done", "error", "dead"}
        /\ pc[r] \in {"storeGet", "storeSet"} => created[r]
        /\ created[r] /\ pc[r] \in {"release", "error"} =>
              slips[key[r]] \intersect {"late", "unstored"} # {}

\* A stored response is that of a request of the key that created an order,
\* and without races the entry keeps the hash of that request.
EntryFacts ==
    \A k \in Keys : entry[k] = "stored" =>
        /\ entryResp[k] \in Requests
        /\ key[entryResp[k]] = k /\ created[entryResp[k]]
        /\ ~Raced(k) => entryBody[k] = body[entryResp[k]]

\* Without races the entry tells who is busy: nobody has written it while a
\* request is about to, and it stays with the hash of its holder.
LockFacts ==
    \A r \in Requests : Busy(r) /\ ~Raced(key[r]) =>
        /\ pc[r] = "set" => entry[key[r]] = "absent"
        /\ pc[r] # "set" => entry[key[r]] # "absent" /\ entryBody[key[r]] = body[r]
        /\ pc[r] = "storeSet" => parsed[r] = body[r]

\* While nothing went wrong, a key with an order is taken, and no other
\* request of it has an order or may get one.
OrderFacts ==
    \A r \in Requests : created[r] /\ slips[key[r]] = {} =>
        /\ entry[key[r]] # "absent"
        /\ \A q \in Requests \ {r} : key[q] = key[r] => ~Busy(q) /\ ~created[q]

KeyInv ==
    /\ TypeOK /\ RequestFacts /\ EntryFacts /\ LockFacts /\ OrderFacts
    /\ HoldersExclusive /\ ReplayHasOrder /\ ReplayHasSameContent

-----------------------------------------------------------------------------
LEMMA InitKeys == Init => KeyInv
BY DEF Init, KeyInv, TypeOK, RequestFacts, EntryFacts, LockFacts, OrderFacts, Busy,
       HoldingPcs, HoldersExclusive, ReplayHasOrder, ReplayHasSameContent

\* A request comes in, with a key and a hash.
LEMMA ArriveKeys ==
    ASSUME KeyInv, NEW r \in Requests, NEW k \in Keys, NEW b \in Bodies, Arrive(r, k, b)
    PROVE  KeyInv'
<1>1. /\ pc[r] = "idle" /\ pc' = [pc EXCEPT ![r] = "get"]
      /\ key' = [key EXCEPT ![r] = k] /\ body' = [body EXCEPT ![r] = b]
      /\ entry' = entry /\ entryBody' = entryBody /\ entryResp' = entryResp
      /\ parsed' = parsed /\ created' = created /\ replayOf' = replayOf /\ slips' = slips
  BY DEF Arrive, Goto, redisVars
<1>2. /\ key[r] = NONE /\ ~created[r] /\ NONE \notin Keys
      /\ \A q \in Requests \ {r} : pc'[q] = pc[q] /\ key'[q] = key[q] /\ body'[q] = body[q]
      /\ pc'[r] = "get" /\ key'[r] = k
  BY <1>1, IdempotencyConstants DEF KeyInv, TypeOK, RequestFacts
<1>3. TypeOK'
  BY <1>1 DEF KeyInv, TypeOK, ActivePcs
<1>4. RequestFacts'
  BY <1>1, <1>2 DEF KeyInv, RequestFacts
<1>5. EntryFacts'
  BY <1>1, <1>2 DEF KeyInv, EntryFacts, Raced
<1>6. LockFacts'
  BY <1>1, <1>2 DEF KeyInv, LockFacts, Raced, Busy, HoldingPcs
<1>7. OrderFacts'
  BY <1>1, <1>2 DEF KeyInv, OrderFacts, Busy, HoldingPcs
<1>8. HoldersExclusive'
  BY <1>1, <1>2 DEF KeyInv, HoldersExclusive, SameKey, HoldingPcs
<1>9. ReplayHasOrder' /\ ReplayHasSameContent'
  BY <1>1, <1>2 DEF KeyInv, ReplayHasOrder, ReplayHasSameContent, SameKey
<1> QED BY <1>3, <1>4, <1>5, <1>6, <1>7, <1>8, <1>9 DEF KeyInv

\* The GET of checkAndLock: the entry and the busy requests decide.
LEMMA CheckKeys ==
    ASSUME KeyInv, NEW r \in Requests, NEW k \in Keys, CheckKey(r, k)
    PROVE  KeyInv'
<1>1. /\ pc[r] = "get" /\ key[r] = k
      /\ key' = key /\ body' = body /\ parsed' = parsed /\ created' = created
      /\ entry' = entry /\ entryBody' = entryBody /\ entryResp' = entryResp
  BY DEF CheckKey, Goto, redisVars, requestVars
<1>2. \/ ~BetweenGetAndSet(r, k) /\ slips' = slips
      \/ BetweenGetAndSet(r, k) /\ slips' = [slips EXCEPT ![k] = @ \union {"race"}]
  BY DEF CheckKey, GetMayRace, Slip
<1>3. \/ entry[k] = "absent" /\ pc' = [pc EXCEPT ![r] = "set"] /\ replayOf' = replayOf
      \/ pc' = [pc EXCEPT ![r] = "conflict"] /\ replayOf' = replayOf
      \/ /\ entry[k] = "stored" /\ entryBody[k] = body[r]
         /\ pc' = [pc EXCEPT ![r] = "replayed"]
         /\ replayOf' = [replayOf EXCEPT ![r] = entryResp[k]]
  BY DEF CheckKey, Goto
<1>4. /\ ~created[r] /\ pc'[r] \in {"set", "conflict", "replayed"}
      /\ \A q \in Requests \ {r} : pc'[q] = pc[q] /\ replayOf'[q] = replayOf[q]
      /\ \A j \in Keys : slips[j] \subseteq slips'[j] /\ (j # k => slips'[j] = slips[j])
      /\ \A j \in Keys : slips'[j] \in {slips[j], slips[j] \union {"race"}}
      /\ pc'[r] = "set" /\ ~Raced(k)' => ~BetweenGetAndSet(r, k) /\ entry[k] = "absent"
  BY <1>1, <1>2, <1>3 DEF KeyInv, TypeOK, RequestFacts, Raced
<1>5. TypeOK'
  BY <1>1, <1>2, <1>3 DEF KeyInv, TypeOK, ActivePcs, FinalPcs, Slips
<1>6. RequestFacts'
  BY <1>1, <1>4 DEF KeyInv, RequestFacts
<1>7. EntryFacts'
  BY <1>1, <1>4 DEF KeyInv, EntryFacts, Raced
<1>8. LockFacts'
  BY <1>1, <1>4 DEF KeyInv, LockFacts, Raced, Busy, HoldingPcs, RequestFacts
<1>9. OrderFacts'
  BY <1>1, <1>2, <1>4 DEF KeyInv, OrderFacts, Busy, HoldingPcs, RequestFacts, Raced
<1>10. HoldersExclusive'
  BY <1>1, <1>4 DEF KeyInv, HoldersExclusive, SameKey, HoldingPcs, RequestFacts, LockFacts,
     Busy, Raced, BetweenGetAndSet
<1>11. ReplayHasOrder'
  <2>1. k # NONE
    BY IdempotencyConstants
  <2>2. CASE pc'[r] = "replayed"
    <3>1. entry[k] = "stored" /\ replayOf'[r] = entryResp[k]
      BY <1>3, <2>2 DEF KeyInv, TypeOK
    <3>2. entryResp[k] \in Requests \ {r} /\ key[entryResp[k]] = k /\ created[entryResp[k]]
      BY <1>4, <3>1 DEF KeyInv, EntryFacts
    <3> QED BY <1>1, <1>4, <2>1, <3>1, <3>2 DEF KeyInv, ReplayHasOrder, SameKey
  <2>3. CASE pc'[r] # "replayed"
    BY <1>1, <1>4, <2>3 DEF KeyInv, ReplayHasOrder, SameKey
  <2> QED BY <2>2, <2>3
<1>12. ReplayHasSameContent'
  BY <1>1, <1>3, <1>4
     DEF KeyInv, ReplayHasSameContent, EntryFacts, TypeOK, Raced, RequestFacts
<1> QED BY <1>5, <1>6, <1>7, <1>8, <1>9, <1>10, <1>11, <1>12 DEF KeyInv

\* The SET of checkAndLock, with or without its answer.
LEMMA LockKeys ==
    ASSUME KeyInv, NEW r \in Requests, NEW k \in Keys, LockKey(r, k)
    PROVE  KeyInv'
<1>1. /\ pc[r] = "set" /\ key[r] = k
      /\ key' = key /\ body' = body /\ parsed' = parsed /\ created' = created
      /\ replayOf' = replayOf /\ slips' = slips
      /\ entry' = [entry EXCEPT ![k] = "locked"]
      /\ entryBody' = [entryBody EXCEPT ![k] = body[r]]
      /\ entryResp' = [entryResp EXCEPT ![k] = NONE]
      /\ pc' = [pc EXCEPT ![r] = "handle"] \/ pc' = [pc EXCEPT ![r] = "error"]
  BY DEF LockKey, PutEntry, Goto, requestVars
<1>2. /\ ~created[r] /\ pc'[r] \in {"handle", "error"}
      /\ \A q \in Requests \ {r} : pc'[q] = pc[q]
      /\ entry'[k] = "locked" /\ entryBody'[k] = body[r]
      /\ \A j \in Keys \ {k} : entry'[j] = entry[j] /\ entryBody'[j] = entryBody[j]
                              /\ entryResp'[j] = entryResp[j]
  BY <1>1 DEF KeyInv, TypeOK, RequestFacts
<1>3. k # NONE /\ \A q \in Requests : Busy(q) /\ key[q] = k /\ ~Raced(k) => q = r
  BY <1>1, IdempotencyConstants DEF KeyInv, HoldersExclusive, SameKey, Busy, Raced
<1>4. TypeOK'
  BY <1>1 DEF KeyInv, TypeOK, ActivePcs, FinalPcs
<1>5. RequestFacts'
  BY <1>1, <1>2 DEF KeyInv, RequestFacts
<1>6. EntryFacts'
  BY <1>1, <1>2 DEF KeyInv, EntryFacts, Raced
<1>7. LockFacts'
  <2> SUFFICES ASSUME NEW q \in Requests, Busy(q)', ~Raced(key[q])
               PROVE  /\ pc'[q] = "set" => entry'[key[q]] = "absent"
                      /\ pc'[q] # "set" => entry'[key[q]] # "absent"
                                          /\ entryBody'[key[q]] = body[q]
                      /\ pc'[q] = "storeSet" => parsed[q] = body[q]
    BY <1>1 DEF LockFacts, Raced
  <2>1. CASE q = r
    BY <1>1, <1>2, <2>1
  <2>2. CASE q # r
    <3>1. Busy(q) /\ key[q] # k
      BY <1>2, <1>3, <2>2 DEF Busy
    <3>2. key[q] \in Keys
      BY <3>1 DEF KeyInv, RequestFacts, Busy, HoldingPcs
    <3> QED BY <1>2, <2>2, <3>1, <3>2 DEF KeyInv, LockFacts
  <2> QED BY <2>1, <2>2
<1>8. OrderFacts'
  BY <1>1, <1>2 DEF KeyInv, OrderFacts, Busy, HoldingPcs, RequestFacts
<1>9. HoldersExclusive'
  BY <1>1, <1>2 DEF KeyInv, HoldersExclusive, SameKey, HoldingPcs
<1>10. ReplayHasOrder' /\ ReplayHasSameContent'
  BY <1>1, <1>2 DEF KeyInv, ReplayHasOrder, ReplayHasSameContent, SameKey
<1> QED BY <1>4, <1>5, <1>6, <1>7, <1>8, <1>9, <1>10 DEF KeyInv

\* createOrder, which may commit its order and throw.
LEMMA HandleKeys ==
    ASSUME KeyInv, NEW r \in Requests, HandleRequest(r)
    PROVE  KeyInv'
<1> DEFINE k == key[r]
<1>1. /\ pc[r] = "handle" /\ key' = key /\ body' = body /\ parsed' = parsed
      /\ replayOf' = replayOf
      /\ entry' = entry /\ entryBody' = entryBody /\ entryResp' = entryResp
      /\ \/ /\ pc' = [pc EXCEPT ![r] = "storeGet"]
            /\ created' = [created EXCEPT ![r] = TRUE] /\ slips' = slips
         \/ pc' = [pc EXCEPT ![r] = "release"] /\ created' = created /\ slips' = slips
         \/ /\ pc' = [pc EXCEPT ![r] = "release"]
            /\ created' = [created EXCEPT ![r] = TRUE]
            /\ slips' = [slips EXCEPT ![k] = @ \union {"late"}]
  BY DEF HandleRequest, Goto, Slip, redisVars, requestVars
<1>2. /\ k \in Keys /\ k # NONE /\ ~created[r]
      /\ pc'[r] \in {"storeGet", "release"}
      /\ \A q \in Requests \ {r} : pc'[q] = pc[q] /\ created'[q] = created[q]
      /\ \A j \in Keys : slips'[j] \in {slips[j], slips[j] \union {"late"}}
  BY <1>1, IdempotencyConstants DEF KeyInv, TypeOK, RequestFacts
<1>3. \A j \in Keys : Raced(j)' <=> Raced(j)
  BY <1>2 DEF Raced
<1>4. TypeOK'
  <2>1. slips' \in [Keys -> SUBSET Slips]
    BY <1>1, <1>2 DEF KeyInv, TypeOK, Slips
  <2>2. pc' \in [Requests -> {"idle"} \union ActivePcs \union FinalPcs]
        /\ created' \in [Requests -> BOOLEAN]
    BY <1>1 DEF KeyInv, TypeOK, ActivePcs
  <2> QED BY <1>1, <2>1, <2>2 DEF KeyInv, TypeOK
<1>5. RequestFacts'
  <2>1. created'[r] /\ pc'[r] = "release" => "late" \in slips'[k]
    BY <1>1, <1>2 DEF KeyInv, TypeOK
  <2> QED BY <1>1, <1>2, <2>1 DEF KeyInv, TypeOK, RequestFacts
<1>6. EntryFacts'
  BY <1>1, <1>2, <1>3 DEF KeyInv, TypeOK, EntryFacts
<1>7. LockFacts'
  BY <1>1, <1>2, <1>3 DEF KeyInv, LockFacts, Busy, HoldingPcs, RequestFacts
<1>8. HoldersExclusive'
  BY <1>1, <1>2, <1>3 DEF KeyInv, HoldersExclusive, SameKey, HoldingPcs, Raced, RequestFacts
<1>9. OrderFacts'
  <2> SUFFICES ASSUME NEW q \in Requests, created'[q], slips'[key[q]] = {}
               PROVE  /\ entry[key[q]] # "absent"
                      /\ \A p \in Requests \ {q} : key[p] = key[q] => ~Busy(p)' /\ ~created'[p]
    BY <1>1 DEF OrderFacts
  <2>1. key[q] \in Keys /\ slips[key[q]] = {} /\ ~Raced(key[q])
    BY <1>2 DEF KeyInv, RequestFacts, Raced
  <2>2. CASE q = r
    <3>1. entry[k] # "absent" /\ \A p \in Requests \ {r} : key[p] = k => ~Busy(p)
      BY <1>1, <1>2, <2>1, <2>2
         DEF KeyInv, LockFacts, HoldersExclusive, SameKey, Busy, HoldingPcs, Raced
    <3>2. \A p \in Requests \ {r} : key[p] = k => ~created[p]
      BY <1>1, <2>1, <2>2 DEF KeyInv, OrderFacts, Busy, HoldingPcs
    <3> QED BY <1>2, <2>2, <3>1, <3>2 DEF Busy
  <2>3. CASE q # r
    <3>1. created[q] /\ key[q] # k
      BY <1>1, <1>2, <2>1, <2>3 DEF KeyInv, OrderFacts, Busy, HoldingPcs
    <3> QED BY <1>2, <2>1, <2>3, <3>1 DEF KeyInv, OrderFacts, Busy
  <2> QED BY <2>2, <2>3
<1>10. ReplayHasOrder' /\ ReplayHasSameContent'
  BY <1>1, <1>2, <1>3
     DEF KeyInv, TypeOK, ReplayHasOrder, ReplayHasSameContent, SameKey, RequestFacts, Raced
<1> QED BY <1>4, <1>5, <1>6, <1>7, <1>8, <1>9, <1>10 DEF KeyInv

\* A request that goes on or ends without touching the entry: the GET of
\* storeResponse, a command that errors without effect, the end of the process.
LEMMA QuietKeys ==
    ASSUME KeyInv, NEW r \in Requests, NEW to \in ActivePcs \union FinalPcs,
           UNCHANGED <<redisVars, requestVars, created, replayOf>>,
           pc' = [pc EXCEPT ![r] = to], pc[r] \in ActivePcs,
           \/ to = "storeSet" /\ pc[r] = "storeGet"
           \/ to = "release" /\ pc[r] \in {"storeGet", "storeSet"}
           \/ to = "done" /\ pc[r] = "storeGet"
           \/ to = "error" /\ pc[r] \in {"get", "set", "release"}
           \/ to = "dead",
           \/ slips' = slips /\ to # "release"
           \/ /\ slips' = [slips EXCEPT ![key[r]] = @ \union {"unstored"}]
              /\ to = "release",
           \/ parsed' = parsed /\ to # "storeSet"
           \/ parsed' = [parsed EXCEPT ![r] = entryBody[key[r]]] /\ to = "storeSet"
    PROVE  KeyInv'
<1>1. /\ key' = key /\ body' = body /\ created' = created /\ replayOf' = replayOf
      /\ entry' = entry /\ entryBody' = entryBody /\ entryResp' = entryResp
  BY DEF redisVars, requestVars
<1>2. /\ key[r] \in Keys /\ pc'[r] = to
      /\ \A q \in Requests \ {r} : pc'[q] = pc[q] /\ parsed'[q] = parsed[q]
      /\ \A j \in Keys : slips'[j] \in {slips[j], slips[j] \union {"unstored"}}
      /\ to = "release" => "unstored" \in slips'[key[r]]
      /\ to = "storeSet" => parsed'[r] = entryBody[key[r]]
  BY DEF KeyInv, TypeOK, RequestFacts, ActivePcs
<1>3. /\ \A j \in Keys : Raced(j)' <=> Raced(j)
      /\ \A q \in Requests : Busy(q)' => Busy(q)
  BY <1>2 DEF Raced, Busy, HoldingPcs
<1>4. TypeOK'
  <2>1. slips' \in [Keys -> SUBSET Slips]
    BY <1>2 DEF KeyInv, TypeOK, Slips
  <2>2. pc' \in [Requests -> {"idle"} \union ActivePcs \union FinalPcs]
        /\ parsed' \in [Requests -> Bodies \union {NONE}]
    BY <1>2 DEF KeyInv, TypeOK
  <2> QED BY <1>1, <2>1, <2>2 DEF KeyInv, TypeOK
<1>5. RequestFacts'
  BY <1>1, <1>2 DEF KeyInv, RequestFacts, ActivePcs
<1>6. EntryFacts'
  BY <1>1, <1>3 DEF KeyInv, EntryFacts
<1>7. LockFacts'
  BY <1>1, <1>2, <1>3 DEF KeyInv, LockFacts, RequestFacts, Busy, HoldingPcs
<1>8. OrderFacts'
  BY <1>1, <1>2, <1>3 DEF KeyInv, OrderFacts, RequestFacts
<1>9. HoldersExclusive'
  BY <1>1, <1>2, <1>3 DEF KeyInv, HoldersExclusive, SameKey, Busy, Raced, RequestFacts, HoldingPcs
<1>10. ReplayHasOrder' /\ ReplayHasSameContent'
  BY <1>1, <1>2, <1>3
     DEF KeyInv, ReplayHasOrder, ReplayHasSameContent, SameKey, Raced, FinalPcs, ActivePcs, RequestFacts
<1> QED BY <1>4, <1>5, <1>6, <1>7, <1>8, <1>9, <1>10 DEF KeyInv

\* The SET of storeResponse, with or without its answer.
LEMMA StoreKeys ==
    ASSUME KeyInv, NEW r \in Requests, NEW k \in Keys, StoreResponse(r, k)
    PROVE  KeyInv'
<1>1. /\ pc[r] = "storeSet" /\ key[r] = k
      /\ key' = key /\ body' = body /\ parsed' = parsed /\ created' = created
      /\ replayOf' = replayOf
      /\ entry' = [entry EXCEPT ![k] = "stored"]
      /\ entryBody' = [entryBody EXCEPT ![k] = parsed[r]]
      /\ entryResp' = [entryResp EXCEPT ![k] = r]
      /\ \/ pc' = [pc EXCEPT ![r] = "done"] /\ slips' = slips
         \/ /\ pc' = [pc EXCEPT ![r] = "release"]
            /\ slips' = [slips EXCEPT ![k] = @ \union {"unstored"}]
  BY DEF StoreResponse, PutEntry, Goto, Slip, requestVars
<1>2. /\ created[r] /\ pc'[r] \in {"done", "release"}
      /\ pc'[r] = "release" => "unstored" \in slips'[k]
      /\ \A q \in Requests \ {r} : pc'[q] = pc[q]
      /\ entry'[k] = "stored" /\ entryBody'[k] = parsed[r] /\ entryResp'[k] = r
      /\ \A j \in Keys \ {k} : entry'[j] = entry[j] /\ entryBody'[j] = entryBody[j]
                              /\ entryResp'[j] = entryResp[j]
      /\ \A j \in Keys : slips'[j] \in {slips[j], slips[j] \union {"unstored"}}
  BY <1>1 DEF KeyInv, TypeOK, RequestFacts
<1>3. /\ k # NONE
      /\ \A j \in Keys : Raced(j)' <=> Raced(j)
      /\ \A q \in Requests : Busy(q)' => Busy(q)
      /\ \A q \in Requests : Busy(q) /\ key[q] = k /\ ~Raced(k) => q = r
      /\ ~Raced(k) => parsed[r] = body[r]
  BY <1>1, <1>2, IdempotencyConstants
     DEF KeyInv, HoldersExclusive, LockFacts, SameKey, Busy, Raced, HoldingPcs
<1>4. TypeOK'
  <2>1. slips' \in [Keys -> SUBSET Slips]
    BY <1>1 DEF KeyInv, TypeOK, Slips
  <2>2. /\ pc' \in [Requests -> {"idle"} \union ActivePcs \union FinalPcs]
        /\ entry' \in [Keys -> {"absent", "locked", "stored"}]
        /\ entryBody' \in [Keys -> Bodies \union {NONE}]
        /\ entryResp' \in [Keys -> Requests \union {NONE}]
    BY <1>1 DEF KeyInv, TypeOK, ActivePcs, FinalPcs
  <2> QED BY <1>1, <2>1, <2>2 DEF KeyInv, TypeOK
<1>5. RequestFacts'
  BY <1>1, <1>2 DEF KeyInv, RequestFacts
<1>6. EntryFacts'
  BY <1>1, <1>2, <1>3 DEF KeyInv, EntryFacts
<1>7. LockFacts'
  <2> SUFFICES ASSUME NEW q \in Requests, Busy(q)', ~Raced(key[q])
               PROVE  /\ pc'[q] = "set" => entry'[key[q]] = "absent"
                      /\ pc'[q] # "set" => entry'[key[q]] # "absent"
                                          /\ entryBody'[key[q]] = body[q]
                      /\ pc'[q] = "storeSet" => parsed[q] = body[q]
    BY <1>1, <1>2 DEF LockFacts, Raced, KeyInv, RequestFacts, Busy, HoldingPcs
  <2>1. CASE q = r
    BY <1>1, <1>2, <1>3, <2>1
  <2>2. CASE q # r
    <3>1. Busy(q) /\ key[q] # k
      BY <1>3, <2>2
    <3>2. key[q] \in Keys
      BY <3>1 DEF KeyInv, RequestFacts, Busy, HoldingPcs
    <3> QED BY <1>2, <2>2, <3>1, <3>2 DEF KeyInv, LockFacts
  <2> QED BY <2>1, <2>2
<1>8. OrderFacts'
  BY <1>1, <1>2, <1>3 DEF KeyInv, OrderFacts, RequestFacts
<1>9. HoldersExclusive'
  BY <1>1, <1>2, <1>3 DEF KeyInv, HoldersExclusive, SameKey, Busy, Raced, RequestFacts, HoldingPcs
<1>10. ReplayHasOrder' /\ ReplayHasSameContent'
  BY <1>1, <1>2, <1>3
     DEF KeyInv, ReplayHasOrder, ReplayHasSameContent, SameKey, Raced, RequestFacts
<1> QED BY <1>4, <1>5, <1>6, <1>7, <1>8, <1>9, <1>10 DEF KeyInv

\* The entry disappears: released by a request whose key no other one holds, or
\* at the end of its time, when no request of the key runs.
LEMMA DeleteKeys ==
    ASSUME KeyInv, NEW k \in Keys, DeleteEntry(k),
           UNCHANGED <<requestVars, parsed, created, replayOf>>,
           \/ /\ pc' = pc
              /\ \A r \in Requests : key[r] = k => pc[r] \in FinalPcs
              /\ slips' = [slips EXCEPT ![k] = @ \union {"expired"}]
           \/ /\ slips' = slips
              /\ \E r \in Requests : /\ key[r] = k /\ pc[r] = "release"
                                     /\ pc' = [pc EXCEPT ![r] = "error"]
    PROVE  KeyInv'
<1>1. /\ key' = key /\ body' = body /\ parsed' = parsed /\ created' = created
      /\ replayOf' = replayOf
      /\ entry' = [entry EXCEPT ![k] = "absent"]
      /\ entryBody' = [entryBody EXCEPT ![k] = NONE]
      /\ entryResp' = [entryResp EXCEPT ![k] = NONE]
  BY DEF DeleteEntry, PutEntry, requestVars
<1>2. /\ entry'[k] = "absent"
      /\ \A j \in Keys \ {k} : entry'[j] = entry[j] /\ entryBody'[j] = entryBody[j]
                              /\ entryResp'[j] = entryResp[j]
      /\ \A j \in Keys : slips'[j] \in {slips[j], slips[j] \union {"expired"}}
      /\ \A q \in Requests : pc'[q] = pc[q] \/ (pc[q] = "release" /\ pc'[q] = "error")
  BY <1>1 DEF KeyInv, TypeOK
<1>3. /\ k # NONE
      /\ \A j \in Keys : Raced(j)' <=> Raced(j)
      /\ \A q \in Requests : Busy(q)' => Busy(q) /\ pc'[q] = pc[q]
  BY <1>2, IdempotencyConstants DEF Busy, Raced, HoldingPcs
<1>4. ASSUME NEW q \in Requests, key[q] = k, ~Raced(k) PROVE ~Busy(q)'
  <2>1. CASE \A r \in Requests : key[r] = k => pc[r] \in FinalPcs
    BY <1>3, <1>4, <2>1 DEF Busy, HoldingPcs, FinalPcs
  <2>2. ASSUME NEW r \in Requests, key[r] = k, pc[r] = "release", pc' = [pc EXCEPT ![r] = "error"]
        PROVE  ~Busy(q)'
    BY <1>3, <1>4, <2>2 DEF KeyInv, TypeOK, HoldersExclusive, SameKey, Busy, Raced, HoldingPcs
  <2> QED BY <2>1, <2>2
<1>5. TypeOK'
  <2>1. slips' \in [Keys -> SUBSET Slips]
    BY DEF KeyInv, TypeOK, Slips
  <2>2. pc' \in [Requests -> {"idle"} \union ActivePcs \union FinalPcs]
    BY DEF KeyInv, TypeOK, FinalPcs
  <2>3. /\ entry' \in [Keys -> {"absent", "locked", "stored"}]
        /\ entryBody' \in [Keys -> Bodies \union {NONE}]
        /\ entryResp' \in [Keys -> Requests \union {NONE}]
    BY <1>1 DEF KeyInv, TypeOK
  <2> QED BY <1>1, <2>1, <2>2, <2>3 DEF KeyInv, TypeOK
<1>6. RequestFacts'
  BY <1>1, <1>2 DEF KeyInv, RequestFacts
<1>7. EntryFacts'
  BY <1>1, <1>2, <1>3 DEF KeyInv, EntryFacts
<1>8. LockFacts'
  <2> SUFFICES ASSUME NEW q \in Requests, Busy(q)', ~Raced(key[q])
               PROVE  /\ pc'[q] = "set" => entry'[key[q]] = "absent"
                      /\ pc'[q] # "set" => entry'[key[q]] # "absent"
                                          /\ entryBody'[key[q]] = body[q]
                      /\ pc'[q] = "storeSet" => parsed[q] = body[q]
    BY <1>1, <1>3 DEF LockFacts, KeyInv, RequestFacts, Busy, HoldingPcs
  <2>1. Busy(q) /\ key[q] \in Keys \ {k} /\ pc'[q] = pc[q]
    BY <1>3, <1>4 DEF KeyInv, RequestFacts, Busy, HoldingPcs
  <2> QED BY <1>2, <2>1 DEF KeyInv, LockFacts
<1>9. OrderFacts'
  <2> SUFFICES ASSUME NEW q \in Requests, created[q], slips'[key[q]] = {}
               PROVE  /\ entry'[key[q]] # "absent"
                      /\ \A p \in Requests \ {q} : key[p] = key[q] => ~Busy(p)' /\ ~created[p]
    BY <1>1 DEF OrderFacts
  <2>1. key[q] \in Keys /\ slips[key[q]] = {}
    BY <1>2 DEF KeyInv, RequestFacts
  <2>2. key[q] # k
    <3> SUFFICES ASSUME key[q] = k PROVE FALSE
      OBVIOUS
    <3>1. ASSUME slips' = [slips EXCEPT ![k] = @ \union {"expired"}] PROVE FALSE
      <4>1. "expired" \in slips'[k]
        BY <3>1 DEF KeyInv, TypeOK
      <4>2. slips'[k] = {}
        OBVIOUS
      <4> QED BY <4>1, <4>2
    <3>2. ASSUME NEW r \in Requests, key[r] = k, pc[r] = "release" PROVE FALSE
      <4>1. CASE r = q
        BY <2>1, <3>2, <4>1 DEF KeyInv, RequestFacts
      <4>2. CASE r # q
        BY <2>1, <3>2, <4>2 DEF KeyInv, OrderFacts, Busy, HoldingPcs
      <4> QED BY <4>1, <4>2
    <3> QED BY <3>1, <3>2
  <2> QED BY <1>2, <1>3, <2>1, <2>2 DEF KeyInv, OrderFacts
<1>10. HoldersExclusive'
  BY <1>1, <1>3 DEF KeyInv, HoldersExclusive, SameKey, Busy, Raced, RequestFacts, HoldingPcs
<1>11. ReplayHasOrder' /\ ReplayHasSameContent'
  BY <1>1, <1>2, <1>3
     DEF KeyInv, ReplayHasOrder, ReplayHasSameContent, SameKey, Raced, RequestFacts
<1> QED BY <1>5, <1>6, <1>7, <1>8, <1>9, <1>10, <1>11 DEF KeyInv

LEMMA KeysStep == KeyInv /\ [Next]_vars => KeyInv'
<1> SUFFICES ASSUME KeyInv, [Next]_vars PROVE KeyInv'
  OBVIOUS
<1>1. ASSUME NEW r \in Requests, NEW k \in Keys, RequestProgress(r, k) PROVE KeyInv'
  <2>1. CASE ReadEntry(r, k)
    BY <2>1, QuietKeys DEF ReadEntry, Goto, ActivePcs, FinalPcs
  <2>2. CASE ReleaseKey(r, k)
    BY <2>2, DeleteKeys DEF ReleaseKey, Goto
  <2> QED BY <1>1, <2>1, <2>2, CheckKeys, LockKeys, StoreKeys, HandleKeys DEF RequestProgress
<1>2. ASSUME NEW r \in Requests, RedisError(r) PROVE KeyInv'
  BY <1>2, QuietKeys DEF RedisError, Goto, Slip, ActivePcs, FinalPcs
<1>3. ASSUME NEW r \in Requests, Crash(r) PROVE KeyInv'
  BY <1>3, QuietKeys DEF Crash, Goto, ActivePcs, FinalPcs
<1>4. ASSUME NEW k \in Keys, Expire(k) PROVE KeyInv'
  BY <1>4, DeleteKeys DEF Expire, Slip
<1>5. CASE UNCHANGED vars
  BY <1>5 DEF vars, redisVars, requestVars, KeyInv, TypeOK, RequestFacts, EntryFacts,
     LockFacts, OrderFacts, HoldersExclusive, ReplayHasOrder, ReplayHasSameContent,
     Busy, Raced, SameKey
<1> QED BY <1>1, <1>2, <1>3, <1>4, <1>5, ArriveKeys DEF Next

LEMMA KeysAlways == Spec => []KeyInv
BY InitKeys, KeysStep, PTL DEF Spec

\* Every variable of the protocol keeps its type, under every fault.
THEOREM TypeCorrect == Spec => []TypeOK
BY KeysAlways, PTL DEF KeyInv

\* Short of a race, a key excludes, for any number of requests, errors of
\* Redis, crashes and expiries.
THEOREM HoldersExclude == Spec => []HoldersExclusive
BY KeysAlways, PTL DEF KeyInv

\* A replayed response is always one to an order that another request created.
THEOREM ReplaysHaveOrders == Spec => []ReplayHasOrder
BY KeysAlways, PTL DEF KeyInv

\* Short of a race, a response is replayed only for the content it answered.
THEOREM ReplaysAnswerTheirContent == Spec => []ReplayHasSameContent
BY KeysAlways, PTL DEF KeyInv

LEMMA OrdersNeedSlips == KeyInv => SecondOrderNeedsSlip
BY DEF KeyInv, OrderFacts, SecondOrderNeedsSlip, SameKey

\* A second order for a key takes a race, a failure after a commit, or the end
\* of the entry's time.
THEOREM SecondOrdersNeedSlips == Spec => []SecondOrderNeedsSlip
BY KeysAlways, OrdersNeedSlips, PTL

LEMMA ErrorsLeaveNothing == KeyInv => ErrorLeavesNoOrder
BY DEF KeyInv, RequestFacts, ErrorLeavesNoOrder

\* An error or a conflict leaves no order behind that is not on record as a
\* failure after its commit.
THEOREM ErrorsLeaveNoOrder == Spec => []ErrorLeavesNoOrder
BY KeysAlways, ErrorsLeaveNothing, PTL

-----------------------------------------------------------------------------
(* What each guarantee costs: the slips that the faults can cause.         *)

\* A slip takes the fault it comes from; a crash causes none.
SlipsHaveCauses ==
    \A k \in Keys :
        /\ "race" \in slips[k] => "race" \in Faults
        /\ "late" \in slips[k] => "late" \in Faults
        /\ "unstored" \in slips[k] => "redis" \in Faults
        /\ "expired" \in slips[k] => "expire" \in Faults

LEMMA CausesNext ==
    ASSUME KeyInv, SlipsHaveCauses, [Next]_vars
    PROVE  SlipsHaveCauses'
<1> USE DEF SlipsHaveCauses, Slip
<1>1. slips \in [Keys -> SUBSET Slips]
  BY DEF KeyInv, TypeOK
<1>2. CASE UNCHANGED slips
  BY <1>2
<1>3. ASSUME NEW r \in Requests, NEW k \in Keys, RequestProgress(r, k)
      PROVE  SlipsHaveCauses'
  <2>1. CASE CheckKey(r, k)
    BY <1>1, <1>2, <2>1 DEF CheckKey, GetMayRace
  <2>2. CASE LockKey(r, k) \/ ReadEntry(r, k) \/ ReleaseKey(r, k)
    BY <1>2, <2>2 DEF LockKey, ReadEntry, ReleaseKey
  <2>3. CASE StoreResponse(r, k)
    BY <1>1, <1>2, <2>3 DEF StoreResponse
  <2>4. CASE key[r] = k /\ HandleRequest(r)
    BY <1>1, <1>2, <2>4 DEF HandleRequest
  <2> QED BY <1>3, <2>1, <2>2, <2>3, <2>4 DEF RequestProgress
<1>4. ASSUME NEW r \in Requests, RedisError(r) PROVE SlipsHaveCauses'
  BY <1>1, <1>2, <1>4 DEF RedisError
<1>5. ASSUME NEW k \in Keys, Expire(k) PROVE SlipsHaveCauses'
  BY <1>1, <1>5 DEF Expire
<1>6. ASSUME NEW r \in Requests, NEW k \in Keys, NEW b \in Bodies,
             Arrive(r, k, b) \/ Crash(r)
      PROVE  UNCHANGED slips
  BY <1>6 DEF Arrive, Crash
<1>7. ASSUME NEW r \in Requests, Crash(r) PROVE UNCHANGED slips
  BY <1>7 DEF Crash
<1>8. UNCHANGED vars => UNCHANGED slips
  BY DEF vars
<1> QED BY <1>2, <1>3, <1>4, <1>5, <1>6, <1>7, <1>8 DEF Next

\* Every slip on record has its fault.
THEOREM SlipsAreCaused == Spec => []SlipsHaveCauses
<1>1. Init => SlipsHaveCauses
  BY DEF Init, SlipsHaveCauses
<1> QED BY <1>1, CausesNext, KeysAlways, PTL DEF Spec

\* What DESIGN.md promises holds once GET and SET are one command, Redis answers,
\* entries outlive the retries and createOrder does not fail after its commit: a
\* key never has two orders, whatever crashes.
THEOREM OneOrderShortOfFaults ==
    ASSUME Faults \subseteq {"crash"}
    PROVE  Spec => []OneOrderPerKey
<1>1. ASSUME KeyInv, SlipsHaveCauses PROVE OneOrderPerKey
  <2>1. \A k \in Keys : slips[k] = {}
    BY <1>1 DEF KeyInv, TypeOK, SlipsHaveCauses, Slips
  <2>2. \A r \in Requests : created[r] => key[r] \in Keys
    BY <1>1 DEF KeyInv, RequestFacts
  <2> QED BY <1>1, <2>1, <2>2, OrdersNeedSlips DEF SecondOrderNeedsSlip, OneOrderPerKey
<1> QED BY <1>1, KeysAlways, SlipsAreCaused, PTL

\* What HoldersExclusive and ReplayHasSameContent say, without the exception.
Exclusive ==
    \A q, r \in Requests : SameKey(q, r) /\ Busy(q) /\ Busy(r) => q = r

SameContent ==
    \A r \in Requests : pc[r] = "replayed" => body[replayOf[r]] = body[r]

\* No two requests of a key are ever busy at once, and no response answers other
\* content, once GET and SET are one command: neither crashes, errors of Redis,
\* expiries nor late failures cost the exclusion.
THEOREM ExclusiveShortOfRaces ==
    ASSUME "race" \notin Faults
    PROVE  Spec => [](Exclusive /\ SameContent)
<1>1. ASSUME KeyInv, SlipsHaveCauses PROVE Exclusive /\ SameContent
  <2>1. \A r \in Requests : pc[r] # "idle" => "race" \notin slips[key[r]]
    BY <1>1 DEF KeyInv, RequestFacts, SlipsHaveCauses
  <2>2. Exclusive
    BY <1>1, <2>1 DEF KeyInv, HoldersExclusive, Exclusive, Busy, HoldingPcs
  <2>3. SameContent
    BY <1>1, <2>1 DEF KeyInv, ReplayHasSameContent, SameContent
  <2> QED BY <2>2, <2>3
<1> QED BY <1>1, KeysAlways, SlipsAreCaused, PTL

\* What ErrorLeavesNoOrder says, without the exception.
CleanErrors == \A r \in Requests : pc[r] \in {"error", "conflict"} => ~created[r]

\* An error or a conflict never leaves an order behind when Redis answers and
\* createOrder does not fail after its commit: the client may retry, races,
\* crashes and expiries included.
THEOREM ErrorsAreClean ==
    ASSUME Faults \intersect {"late", "redis"} = {}
    PROVE  Spec => []CleanErrors
<1>1. ASSUME KeyInv, SlipsHaveCauses PROVE CleanErrors
  <2>1. \A r \in Requests : pc[r] # "idle" => slips[key[r]] \intersect {"late", "unstored"} = {}
    BY <1>1 DEF KeyInv, RequestFacts, SlipsHaveCauses
  <2> QED BY <1>1, <2>1, ErrorsLeaveNothing DEF ErrorLeavesNoOrder, CleanErrors
<1> QED BY <1>1, KeysAlways, SlipsAreCaused, PTL

-----------------------------------------------------------------------------
(***************************************************************************)
(* The contract of a key.  With GET and SET in one command, a Redis that   *)
(* answers, entries that outlive the retries and a createOrder that does   *)
(* not fail after its commit, Idempotency implements IdempotencyContract,  *)
(* wherever requests die.                                                  *)
(***************************************************************************)
PhaseOf(k) == IF entry[k] = "absent" THEN "free"
              ELSE IF entry[k] = "locked" THEN "held"
              ELSE "answered"

OrdersOf(k) == {r \in Requests : created[r] /\ key[r] = k}

ToldOf(r) == IF pc[r] = "done" THEN r
             ELSE IF pc[r] = "replayed" THEN replayOf[r]
             ELSE NONE

Contract == INSTANCE IdempotencyContract WITH
    wants <- key,
    content <- body,
    phase <- [k \in Keys |-> PhaseOf(k)],
    orders <- [k \in Keys |-> OrdersOf(k)],
    told <- [r \in Requests |-> ToldOf(r)],
    refused <- {r \in Requests : pc[r] \in {"conflict", "error"}}

ContractKept == Contract!Spec

\* A stored response has been given to its own request.
AnswersAreGiven == \A k \in Keys : entry[k] = "stored" => pc[entryResp[k]] = "done"

ContractInv == KeyInv /\ SlipsHaveCauses /\ AnswersAreGiven

LEMMA AnswersNext ==
    ASSUME ContractInv, Faults \subseteq {"crash"}, [Next]_vars
    PROVE  AnswersAreGiven'
<1> USE DEF AnswersAreGiven, Goto
<1>1. /\ TypeOK /\ EntryFacts /\ AnswersAreGiven
      /\ {"race", "late", "redis", "expire"} \intersect Faults = {}
  BY DEF ContractInv, KeyInv
<1>2. ASSUME UNCHANGED redisVars, \A r \in Requests : pc[r] = "done" => pc'[r] = "done"
      PROVE  AnswersAreGiven'
  BY <1>1, <1>2 DEF redisVars, EntryFacts
<1>3. ASSUME NEW r \in Requests, NEW k \in Keys, RequestProgress(r, k)
      PROVE  AnswersAreGiven'
  <2>1. CASE CheckKey(r, k) \/ ReadEntry(r, k)
    BY <1>1, <1>2, <2>1 DEF CheckKey, ReadEntry, TypeOK
  <2>2. CASE HandleRequest(r)
    BY <1>1, <1>2, <2>2 DEF HandleRequest, TypeOK
  <2>3. CASE LockKey(r, k) \/ ReleaseKey(r, k)
    BY <1>1, <2>3 DEF LockKey, ReleaseKey, DeleteEntry, PutEntry, TypeOK, EntryFacts
  <2>4. CASE StoreResponse(r, k)
    BY <1>1, <2>4 DEF StoreResponse, PutEntry, TypeOK, EntryFacts
  <2> QED BY <1>3, <2>1, <2>2, <2>3, <2>4 DEF RequestProgress
<1>4. ASSUME NEW r \in Requests, NEW k \in Keys, NEW b \in Bodies, Arrive(r, k, b)
      PROVE  AnswersAreGiven'
  BY <1>1, <1>2, <1>4 DEF Arrive, TypeOK
<1>5. ASSUME NEW r \in Requests, RedisError(r) \/ Crash(r) PROVE AnswersAreGiven'
  BY <1>1, <1>2, <1>5 DEF RedisError, Crash, ActivePcs, TypeOK
<1>6. ASSUME NEW k \in Keys PROVE ~Expire(k)
  BY <1>1 DEF Expire
<1>7. UNCHANGED vars => AnswersAreGiven'
  BY <1>2 DEF vars
<1> QED BY <1>3, <1>4, <1>5, <1>6, <1>7 DEF Next

\* The invariant, read at a request that runs: the key is held for it from its
\* lock on, and it is the only one that may have an order.
LEMMA Held ==
    ASSUME ContractInv, Faults \subseteq {"crash"},
           NEW r \in Requests, NEW k \in Keys, key[r] = k, Busy(r)
    PROVE  /\ pc[r] = "set" => PhaseOf(k) = "free" /\ OrdersOf(k) = {}
           /\ pc[r] # "set" => PhaseOf(k) = "held"
           /\ pc[r] \in {"storeGet", "storeSet"} => OrdersOf(k) = {r}
           /\ pc[r] \in {"handle", "release"} => OrdersOf(k) = {}
           /\ pc[r] = "storeSet" => parsed[r] = body[r]
<1>1. slips[k] = {}
  BY DEF ContractInv, KeyInv, TypeOK, SlipsHaveCauses, Slips
<1>2. /\ pc[r] = "set" => entry[k] = "absent"
      /\ pc[r] # "set" => entry[k] # "absent"
      /\ pc[r] = "storeSet" => parsed[r] = body[r]
  BY <1>1 DEF ContractInv, KeyInv, LockFacts, Raced
<1>3. \A q \in Requests \ {r} : key[q] = k => ~created[q]
  BY <1>1 DEF ContractInv, KeyInv, OrderFacts
<1>4. /\ pc[r] \in {"set", "handle", "release"} => ~created[r]
      /\ pc[r] \in {"storeGet", "storeSet"} => created[r]
  BY <1>1 DEF ContractInv, KeyInv, RequestFacts
<1>5. entry[k] # "stored"
  <2>1. ASSUME entry[k] = "stored" PROVE FALSE
    <3>1. /\ entryResp[k] \in Requests /\ key[entryResp[k]] = k
          /\ created[entryResp[k]] /\ pc[entryResp[k]] = "done"
      BY <2>1 DEF ContractInv, KeyInv, EntryFacts, AnswersAreGiven
    <3>2. entryResp[k] # r
      BY <3>1 DEF Busy, HoldingPcs
    <3> QED BY <1>3, <3>1, <3>2
  <2> QED BY <2>1
<1>6. entry[k] \in {"absent", "locked", "stored"}
  BY DEF ContractInv, KeyInv, TypeOK
<1>7. /\ pc[r] = "set" => PhaseOf(k) = "free"
      /\ pc[r] # "set" => PhaseOf(k) = "held"
  BY <1>2, <1>5, <1>6 DEF PhaseOf
<1>8. /\ pc[r] \in {"set", "handle", "release"} => OrdersOf(k) = {}
      /\ pc[r] \in {"storeGet", "storeSet"} => OrdersOf(k) = {r}
  BY <1>3, <1>4 DEF OrdersOf
<1> QED BY <1>2, <1>7, <1>8

\* The invariant, read at a key that has an answer.
LEMMA Answered ==
    ASSUME ContractInv, Faults \subseteq {"crash"}, NEW k \in Keys, entry[k] = "stored"
    PROVE  /\ entryResp[k] \in Requests
           /\ pc[entryResp[k]] = "done"
           /\ OrdersOf(k) = {entryResp[k]}
           /\ entryBody[k] = body[entryResp[k]]
<1>1. slips[k] = {}
  BY DEF ContractInv, KeyInv, TypeOK, SlipsHaveCauses, Slips
<1>2. /\ entryResp[k] \in Requests /\ key[entryResp[k]] = k /\ created[entryResp[k]]
      /\ entryBody[k] = body[entryResp[k]] /\ pc[entryResp[k]] = "done"
  BY <1>1 DEF ContractInv, KeyInv, EntryFacts, Raced, AnswersAreGiven
<1>3. \A q \in Requests \ {entryResp[k]} : key[q] = k => ~created[q]
  BY <1>1, <1>2 DEF ContractInv, KeyInv, OrderFacts
<1> QED BY <1>2, <1>3 DEF OrdersOf

LEMMA InitContract == Init => Contract!Init
<1> SUFFICES ASSUME Init PROVE Contract!Init
  OBVIOUS
<1>1. [k \in Keys |-> PhaseOf(k)] = [k \in Keys |-> "free"]
  BY DEF Init, PhaseOf
<1>2. [k \in Keys |-> OrdersOf(k)] = [k \in Keys |-> {}]
  BY DEF Init, OrdersOf
<1>3. [r \in Requests |-> ToldOf(r)] = [r \in Requests |-> NONE]
  BY DEF Init, ToldOf
<1>4. {r \in Requests : pc[r] \in {"conflict", "error"}} = {}
  BY DEF Init
<1> QED BY <1>1, <1>2, <1>3, <1>4 DEF Init, Contract!Init

\* A request that runs waits for its answer, in the contract's eyes.
LEMMA Waiting ==
    ASSUME ContractInv, NEW r \in Requests, NEW k \in Keys, key[r] = k, pc[r] \in ActivePcs
    PROVE  Contract!Waits(r, k)
BY DEF Contract!Waits, ToldOf, ActivePcs

\* What does not end the request leaves the answers alone; what ends it gives one.
LEMMA Untold ==
    ASSUME ContractInv, NEW r \in Requests, pc[r] \in {"idle"} \union ActivePcs,
           NEW to, pc' = [pc EXCEPT ![r] = to], replayOf' = replayOf,
           to \in ActivePcs \union {"dead"}
    PROVE  /\ [q \in Requests |-> ToldOf(q)]' = [q \in Requests |-> ToldOf(q)]
           /\ {q \in Requests : pc'[q] \in {"conflict", "error"}} =
              {q \in Requests : pc[q] \in {"conflict", "error"}}
<1>1. pc'[r] = to /\ \A q \in Requests \ {r} : pc'[q] = pc[q]
  BY DEF ContractInv, KeyInv, TypeOK
<1>2. \A q \in Requests : ToldOf(q)' = ToldOf(q)
  BY <1>1 DEF ToldOf, ActivePcs
<1>3. [q \in Requests |-> ToldOf(q)]' = [q \in Requests |-> ToldOf(q)]
  BY <1>2
<1> QED BY <1>1, <1>3 DEF ActivePcs

LEMMA Refusal ==
    ASSUME ContractInv, NEW r \in Requests, pc[r] \in ActivePcs,
           NEW to \in {"conflict", "error"}, pc' = [pc EXCEPT ![r] = to], replayOf' = replayOf
    PROVE  /\ [q \in Requests |-> ToldOf(q)]' = [q \in Requests |-> ToldOf(q)]
           /\ {q \in Requests : pc'[q] \in {"conflict", "error"}} =
              {q \in Requests : pc[q] \in {"conflict", "error"}} \union {r}
<1>1. pc'[r] = to /\ \A q \in Requests \ {r} : pc'[q] = pc[q]
  BY DEF ContractInv, KeyInv, TypeOK
<1>2. \A q \in Requests : ToldOf(q)' = ToldOf(q)
  BY <1>1 DEF ToldOf, ActivePcs
<1>3. [q \in Requests |-> ToldOf(q)]' = [q \in Requests |-> ToldOf(q)]
  BY <1>2
<1> QED BY <1>1, <1>3

LEMMA Telling ==
    ASSUME ContractInv, NEW r \in Requests, pc[r] \in ActivePcs,
           NEW to \in {"done", "replayed"}, pc' = [pc EXCEPT ![r] = to],
           \A q \in Requests \ {r} : replayOf'[q] = replayOf[q]
    PROVE  /\ [q \in Requests |-> ToldOf(q)]' =
              [[q \in Requests |-> ToldOf(q)] EXCEPT
                  ![r] = IF to = "done" THEN r ELSE replayOf'[r]]
           /\ {q \in Requests : pc'[q] \in {"conflict", "error"}} =
              {q \in Requests : pc[q] \in {"conflict", "error"}}
<1>1. pc'[r] = to /\ \A q \in Requests \ {r} : pc'[q] = pc[q]
  BY DEF ContractInv, KeyInv, TypeOK
<1>2. /\ \A q \in Requests \ {r} : ToldOf(q)' = ToldOf(q)
      /\ ToldOf(r)' = IF to = "done" THEN r ELSE replayOf'[r]
  BY <1>1 DEF ToldOf
<1> QED BY <1>1, <1>2 DEF ActivePcs

\* What the entries and the orders become.
LEMMA SamePhases ==
    ASSUME entry' = entry
    PROVE  [k \in Keys |-> PhaseOf(k)]' = [k \in Keys |-> PhaseOf(k)]
BY DEF PhaseOf

LEMMA NewPhase ==
    ASSUME TypeOK, NEW k \in Keys, NEW state, entry' = [entry EXCEPT ![k] = state]
    PROVE  [j \in Keys |-> PhaseOf(j)]' =
           [[j \in Keys |-> PhaseOf(j)] EXCEPT
               ![k] = IF state = "absent" THEN "free"
                      ELSE IF state = "locked" THEN "held" ELSE "answered"]
BY DEF PhaseOf, TypeOK

LEMMA SameOrders ==
    ASSUME created' = created, key' = key
    PROVE  [k \in Keys |-> OrdersOf(k)]' = [k \in Keys |-> OrdersOf(k)]
BY DEF OrdersOf

-----------------------------------------------------------------------------
(* Each step is one of the contract, or nothing that the contract sees.    *)

LEMMA ArriveContract ==
    ASSUME ContractInv, NEW r \in Requests, NEW k \in Keys, NEW b \in Bodies, Arrive(r, k, b)
    PROVE  Contract!Ask(r, k, b)
<1>1. /\ pc[r] = "idle" /\ pc' = [pc EXCEPT ![r] = "get"] /\ replayOf' = replayOf
      /\ entry' = entry /\ created' = created
      /\ key' = [key EXCEPT ![r] = k] /\ body' = [body EXCEPT ![r] = b]
  BY DEF Arrive, Goto, redisVars
<1>2. key[r] = NONE /\ ~created[r]
  BY <1>1 DEF ContractInv, KeyInv, RequestFacts
<1>3. \A j \in Keys : OrdersOf(j)' = OrdersOf(j)
  BY <1>1, <1>2 DEF OrdersOf, ContractInv, KeyInv, TypeOK
<1>4. [j \in Keys |-> OrdersOf(j)]' = [j \in Keys |-> OrdersOf(j)]
  BY <1>3
<1>5. "get" \in ActivePcs
  BY DEF ActivePcs
<1> QED BY <1>1, <1>2, <1>4, <1>5, SamePhases, Untold DEF Contract!Ask

LEMMA CheckContract ==
    ASSUME ContractInv, Faults \subseteq {"crash"},
           NEW r \in Requests, NEW k \in Keys, CheckKey(r, k)
    PROVE  Contract!Replay(r, k) \/ Contract!Refuse(r, k) \/ UNCHANGED Contract!contractVars
<1>1. /\ key[r] = k /\ pc[r] = "get" /\ pc[r] \in ActivePcs
      /\ entry' = entry /\ created' = created /\ key' = key /\ body' = body
  BY DEF CheckKey, Goto, redisVars, requestVars, ActivePcs
<1>2. Contract!Waits(r, k)
  BY <1>1, Waiting
<1>3. CASE entry[k] = "absent" /\ Goto(r, "get", "set") /\ UNCHANGED replayOf
  <2>1. "set" \in ActivePcs
    BY DEF ActivePcs
  <2> QED BY <1>1, <1>3, <2>1, SamePhases, SameOrders, Untold DEF Goto, Contract!contractVars
<1>4. CASE /\ \/ entry[k] = "locked"
              \/ entry[k] = "stored" /\ entryBody[k] # body[r]
           /\ Goto(r, "get", "conflict")
           /\ UNCHANGED replayOf
  <2>1. CASE entry[k] = "locked"
    BY <1>1, <1>2, <1>4, <2>1, SamePhases, SameOrders, Refusal
       DEF Goto, Contract!Refuse, PhaseOf
  <2>2. CASE entry[k] = "stored" /\ entryBody[k] # body[r]
    <3>1. \A q \in OrdersOf(k) : body[q] # body[r]
      BY <2>2, Answered
    <3> QED BY <1>1, <1>2, <1>4, <2>2, <3>1, SamePhases, SameOrders, Refusal
            DEF Goto, Contract!Refuse, PhaseOf
  <2> QED BY <1>4, <2>1, <2>2
<1>5. CASE /\ entry[k] = "stored" /\ entryBody[k] = body[r]
           /\ Goto(r, "get", "replayed")
           /\ replayOf' = [replayOf EXCEPT ![r] = entryResp[k]]
  <2> DEFINE q == entryResp[k]
  <2>1. q \in Requests \ {r} /\ OrdersOf(k) = {q} /\ body[q] = body[r]
    BY <1>1, <1>5, Answered
  <2>2. replayOf'[r] = q /\ \A p \in Requests \ {r} : replayOf'[p] = replayOf[p]
    BY <1>5 DEF ContractInv, KeyInv, TypeOK
  <2>3. PhaseOf(k) = "answered"
    BY <1>5 DEF PhaseOf
  <2>4. /\ [p \in Requests |-> ToldOf(p)]' = [[p \in Requests |-> ToldOf(p)] EXCEPT ![r] = q]
        /\ {p \in Requests : pc'[p] \in {"conflict", "error"}} =
           {p \in Requests : pc[p] \in {"conflict", "error"}}
    BY <1>1, <1>5, <2>2, Telling DEF Goto
  <2>5. Contract!Replay(r, k)
    BY <1>1, <1>2, <2>1, <2>3, <2>4, SamePhases, SameOrders DEF Contract!Replay
  <2> QED BY <2>5
<1> QED BY <1>3, <1>4, <1>5 DEF CheckKey

LEMMA LockContract ==
    ASSUME ContractInv, Faults \subseteq {"crash"},
           NEW r \in Requests, NEW k \in Keys, LockKey(r, k)
    PROVE  Contract!Take(r, k)
<1>1. /\ key[r] = k /\ pc[r] = "set" /\ pc' = [pc EXCEPT ![r] = "handle"]
      /\ entry' = [entry EXCEPT ![k] = "locked"]
      /\ key' = key /\ body' = body /\ created' = created /\ replayOf' = replayOf
  BY DEF LockKey, PutEntry, Goto, requestVars
<1>2. pc[r] \in ActivePcs /\ "handle" \in ActivePcs /\ Busy(r)
  BY <1>1 DEF ActivePcs, Busy
<1>3. TypeOK
  BY DEF ContractInv, KeyInv
<1> QED BY <1>1, <1>2, <1>3, Waiting, Held, NewPhase, SameOrders, Untold DEF Contract!Take

LEMMA HandleContract ==
    ASSUME ContractInv, Faults \subseteq {"crash"},
           NEW r \in Requests, NEW k \in Keys, key[r] = k, HandleRequest(r)
    PROVE  Contract!Create(r, k) \/ UNCHANGED Contract!contractVars
<1>1. /\ pc[r] = "handle" /\ entry' = entry /\ key' = key /\ body' = body
      /\ replayOf' = replayOf
  BY DEF HandleRequest, Goto, redisVars, requestVars
<1>2. pc[r] \in ActivePcs /\ {"storeGet", "release"} \subseteq ActivePcs /\ Busy(r)
  BY <1>1 DEF ActivePcs, Busy, HoldingPcs
<1>3. CASE pc' = [pc EXCEPT ![r] = "storeGet"] /\ created' = [created EXCEPT ![r] = TRUE]
  <2>1. PhaseOf(k) = "held" /\ OrdersOf(k) = {} /\ Contract!Waits(r, k)
    BY <1>1, <1>2, Held, Waiting
  <2>2. \A j \in Keys : OrdersOf(j)' = IF j = k THEN {r} ELSE OrdersOf(j)
    BY <1>1, <1>3, <2>1 DEF OrdersOf, ContractInv, KeyInv, TypeOK
  <2>3. [j \in Keys |-> OrdersOf(j)]' = [[j \in Keys |-> OrdersOf(j)] EXCEPT ![k] = {r}]
    BY <2>2
  <2> QED BY <1>1, <1>2, <1>3, <2>1, <2>3, SamePhases, Untold DEF Contract!Create
<1>4. CASE pc' = [pc EXCEPT ![r] = "release"] /\ created' = created
  BY <1>1, <1>2, <1>4, SamePhases, SameOrders, Untold DEF Contract!contractVars
<1> QED BY <1>3, <1>4 DEF HandleRequest, Goto

LEMMA StoreContract ==
    ASSUME ContractInv, Faults \subseteq {"crash"},
           NEW r \in Requests, NEW k \in Keys, ReadEntry(r, k) \/ StoreResponse(r, k)
    PROVE  Contract!Answer(r, k) \/ UNCHANGED Contract!contractVars
<1>1. /\ key[r] = k /\ pc[r] \in {"storeGet", "storeSet"}
      /\ key' = key /\ body' = body /\ created' = created /\ replayOf' = replayOf
  BY DEF ReadEntry, StoreResponse, Goto, requestVars
<1>2. pc[r] \in ActivePcs /\ "storeSet" \in ActivePcs /\ Busy(r) /\ TypeOK
  BY <1>1 DEF ActivePcs, Busy, HoldingPcs, ContractInv, KeyInv
<1>3. PhaseOf(k) = "held" /\ OrdersOf(k) = {r} /\ Contract!Waits(r, k)
  BY <1>1, <1>2, Held, Waiting
<1>4. CASE ReadEntry(r, k)
  <2>1. entry[k] # "absent"
    BY <1>3 DEF PhaseOf
  <2>2. pc' = [pc EXCEPT ![r] = "storeSet"] /\ entry' = entry
    BY <1>4, <2>1 DEF ReadEntry, Goto, redisVars
  <2> QED BY <1>1, <1>2, <2>2, SamePhases, SameOrders, Untold DEF Contract!contractVars
<1>5. CASE StoreResponse(r, k)
  <2>1. pc' = [pc EXCEPT ![r] = "done"] /\ entry' = [entry EXCEPT ![k] = "stored"]
    BY <1>5 DEF StoreResponse, PutEntry, Goto
  <2>2. /\ [q \in Requests |-> ToldOf(q)]' = [[q \in Requests |-> ToldOf(q)] EXCEPT ![r] = r]
        /\ {q \in Requests : pc'[q] \in {"conflict", "error"}} =
           {q \in Requests : pc[q] \in {"conflict", "error"}}
    BY <1>1, <1>2, <2>1, Telling
  <2>3. [j \in Keys |-> PhaseOf(j)]' = [[j \in Keys |-> PhaseOf(j)] EXCEPT ![k] = "answered"]
    BY <1>2, <2>1 DEF PhaseOf, TypeOK
  <2>4. Contract!Answer(r, k)
    BY <1>1, <1>3, <2>2, <2>3, SameOrders DEF Contract!Answer
  <2> QED BY <2>4
<1> QED BY <1>4, <1>5

LEMMA ReleaseContract ==
    ASSUME ContractInv, Faults \subseteq {"crash"},
           NEW r \in Requests, NEW k \in Keys, ReleaseKey(r, k)
    PROVE  Contract!GiveUp(r, k)
<1>1. /\ key[r] = k /\ pc[r] = "release" /\ pc' = [pc EXCEPT ![r] = "error"]
      /\ entry' = [entry EXCEPT ![k] = "absent"]
      /\ key' = key /\ body' = body /\ created' = created /\ replayOf' = replayOf
  BY DEF ReleaseKey, DeleteEntry, PutEntry, Goto, requestVars
<1>2. pc[r] \in ActivePcs /\ Busy(r) /\ TypeOK
  BY <1>1 DEF ActivePcs, Busy, HoldingPcs, ContractInv, KeyInv
<1> QED BY <1>1, <1>2, Waiting, Held, NewPhase, SameOrders, Refusal DEF Contract!GiveUp

LEMMA StepContract ==
    ASSUME ContractInv, Faults \subseteq {"crash"}, [Next]_vars
    PROVE  [Contract!Next]_(Contract!contractVars)
<1>1. ASSUME NEW r \in Requests, NEW k \in Keys, RequestProgress(r, k)
      PROVE  [Contract!Next]_(Contract!contractVars)
  BY <1>1, CheckContract, LockContract, HandleContract, StoreContract, ReleaseContract
     DEF RequestProgress, Contract!Next
<1>2. ASSUME NEW r \in Requests, NEW k \in Keys, NEW b \in Bodies, Arrive(r, k, b)
      PROVE  Contract!Next
  BY <1>2, ArriveContract DEF Contract!Next
<1>3. ASSUME NEW r \in Requests, Crash(r) PROVE UNCHANGED Contract!contractVars
  <2>1. /\ pc[r] \in ActivePcs /\ pc' = [pc EXCEPT ![r] = "dead"]
        /\ entry' = entry /\ key' = key /\ body' = body
        /\ created' = created /\ replayOf' = replayOf
    BY <1>3 DEF Crash, Goto, redisVars, requestVars
  <2> QED BY <2>1, SamePhases, SameOrders, Untold DEF Contract!contractVars
<1>4. \A r \in Requests : ~RedisError(r)
  BY DEF RedisError
<1>5. \A k \in Keys : ~Expire(k)
  BY DEF Expire
<1>6. ASSUME UNCHANGED vars PROVE UNCHANGED Contract!contractVars
  <2>1. /\ entry' = entry /\ key' = key /\ body' = body /\ pc' = pc
        /\ created' = created /\ replayOf' = replayOf
    BY <1>6 DEF vars, redisVars, requestVars
  <2>2. [q \in Requests |-> ToldOf(q)]' = [q \in Requests |-> ToldOf(q)]
    BY <2>1 DEF ToldOf
  <2> QED BY <2>1, <2>2, SamePhases, SameOrders DEF Contract!contractVars
<1>7. CASE Next
  BY <1>1, <1>2, <1>3, <1>4, <1>5, <1>7 DEF Next
<1>8. CASE UNCHANGED vars
  BY <1>6, <1>8
<1> QED BY <1>7, <1>8

\* What DESIGN.md promises of a key, kept once GET and SET are one command, Redis
\* answers, entries outlive the retries and createOrder does not fail after its
\* commit: one order per key, whose creation every later answer with the same
\* content repeats, and a key that is given up only without one
\* (checkAndLock, storeResponse, releaseLock).
THEOREM ContractImplemented ==
    ASSUME Faults \subseteq {"crash"}
    PROVE  Spec => ContractKept
<1>1. Init => ContractInv
  BY InitKeys DEF Init, ContractInv, SlipsHaveCauses, AnswersAreGiven
<1>2. ContractInv /\ [Next]_vars => ContractInv'
  BY KeysStep, CausesNext, AnswersNext DEF ContractInv
<1>3. ContractInv /\ [Next]_vars => [Contract!Next]_(Contract!contractVars)
  BY StepContract
<1> QED BY <1>1, <1>2, <1>3, InitContract, PTL DEF Spec, ContractKept, Contract!Spec

=============================================================================
