------------------------------ MODULE ClobAuth ------------------------------
(***************************************************************************)
(* The clients that PolymarketClobService keeps: one for the server's      *)
(* wallet and one for each user's.  A client is created when a call first  *)
(* needs it, with an API key asked of the exchange; calls that run side by *)
(* side each create one.  The exchange may revoke a wallet's key at any    *)
(* time, and a call goes on with the client it got, however old it is.     *)
(***************************************************************************)
EXTENDS Naturals, FiniteSets

CONSTANTS
    Calls,           \* calls of the service that may run at once
    Server,          \* the server's wallet
    Users,           \* wallets of users
    MaxRevocations,  \* bound: revocations of keys, per wallet
    MaxUnsaid        \* bound: refusals of one revoked key in other words

ASSUME AuthConstants ==
    /\ IsFiniteSet(Calls)
    /\ Server \notin Users
    /\ MaxRevocations \in Nat /\ MaxUnsaid \in Nat

VARIABLES
    valid,           \* per wallet: the generation of its key that is valid
    client,          \* per wallet: the key of the cached client, or 0
                     \* (authenticatedClient, userClients)
    pc,              \* per call: control state
    op,              \* per call: what it does
    wallet,          \* per call: whose client it uses
    key,             \* per call: the key it was answered, or its client's
    lost,            \* orders placed with a revoked key since the server's was
                     \* revoked, none of which the exchange takes (history)
    unsaid           \* those of them that were not refused for the signature

vars == <<valid, client, pc, op, wallet, key, lost, unsaid>>

Wallets == {Server} \union Users
Keys == 1 .. (MaxRevocations + 1)

\* Orders are placed and orders and trades are listed with the server's client
\* only: executeRealOrder passes no wallet.
Operations == {<<"cancel", w>> : w \in Wallets} \union {<<"place", Server>>, <<"list", Server>>}

\* With this many calls at once: of n keys answered before the revocation, the
\* i-th to be stored is used by at most i calls before a refusal removes it.
MaxRefusals == (Cardinality(Calls) * (Cardinality(Calls) + 1)) \div 2

TypeOK ==
    /\ valid \in [Wallets -> Keys]
    /\ client \in [Wallets -> {0} \union Keys]
    /\ pc \in [Calls -> {"idle", "derive", "store", "send"}]
    /\ op \in [Calls -> {"place", "cancel", "list"}]
    /\ wallet \in [Calls -> Wallets]
    /\ key \in [Calls -> {0} \union Keys]
    /\ lost \in Nat
    /\ unsaid \in 0 .. MaxUnsaid

Init ==
    /\ valid = [w \in Wallets |-> 1]
    /\ client = [w \in Wallets |-> 0]
    /\ pc = [c \in Calls |-> "idle"]
    /\ op = [c \in Calls |-> "list"]
    /\ wallet = [c \in Calls |-> Server]
    /\ key = [c \in Calls |-> 0]
    /\ lost = 0
    /\ unsaid = 0

Goto(c, from, to) == pc[c] = from /\ pc' = [pc EXCEPT ![c] = to]

\* A call ends, for the caller with a result or with an error.
End(c) ==
    /\ Goto(c, "send", "idle")
    /\ op' = [op EXCEPT ![c] = "list"]
    /\ wallet' = [wallet EXCEPT ![c] = Server]
    /\ key' = [key EXCEPT ![c] = 0]

-----------------------------------------------------------------------------
Revoke(w) ==
    /\ valid[w] <= MaxRevocations
    /\ valid' = [valid EXCEPT ![w] = @ + 1]
    /\ IF w = Server THEN lost' = 0 /\ unsaid' = 0 ELSE UNCHANGED <<lost, unsaid>>
    /\ UNCHANGED <<client, pc, op, wallet, key>>

\* placeOrder, cancelOrder, getOpenOrders, getTrades: the cached client, if
\* there is one.
StartCall(c, o) ==
    /\ op' = [op EXCEPT ![c] = o[1]]
    /\ wallet' = [wallet EXCEPT ![c] = o[2]]
    /\ \/ client[o[2]] # 0 /\ Goto(c, "idle", "send")
       \/ client[o[2]] = 0 /\ Goto(c, "idle", "derive")
    /\ key' = [key EXCEPT ![c] = client[o[2]]]
    /\ UNCHANGED <<valid, client, lost, unsaid>>

\* createOrDeriveApiKey: the exchange answers the key that is valid now.
AnswerKey(c) ==
    /\ Goto(c, "derive", "store")
    /\ key' = [key EXCEPT ![c] = valid[wallet[c]]]
    /\ UNCHANGED <<valid, client, op, wallet, lost, unsaid>>

\* It fails, or answers none: the call throws, nothing is cached.
RefuseKey(c) ==
    /\ Goto(c, "derive", "idle")
    /\ UNCHANGED <<valid, client, op, wallet, key, lost, unsaid>>

\* The new client replaces whatever is cached by now.
StoreClient(c) ==
    /\ Goto(c, "store", "send")
    /\ client' = [client EXCEPT ![wallet[c]] = key[c]]
    /\ UNCHANGED <<valid, op, wallet, key, lost, unsaid>>

\* With a key that was revoked before the call used it.
Revoked(c) == key[c] # valid[wallet[c]]

\* The exchange does what was asked, or the call fails, which leaves the client
\* where it is.
FinishCall(c) ==
    /\ op[c] = "place" => ~Revoked(c)
    /\ End(c)
    /\ UNCHANGED <<valid, client, lost, unsaid>>

\* Variant: the client is kept.
ClientKept == client

\* Variant: the entry is deleted.
ClientDeleted == [w \in Users |-> client[w]]

\* What a refusal for its signature leaves of the client that is cached, which
\* need not be the one that was refused.
ClientAfterRefusal == [client EXCEPT ![Server] = 0]

\* The placement is refused with a word about a signature, or answered without
\* an order id but with an error.  Any order may be.
RefusePlacement(c) ==
    /\ op[c] = "place"
    /\ End(c)
    /\ client' = ClientAfterRefusal
    /\ lost' = IF Revoked(c) THEN lost + 1 ELSE lost
    /\ UNCHANGED <<valid, unsaid>>

\* A revoked key is refused in other words, or the request throws: the client
\* stays for the next order.
LosePlacement(c) ==
    /\ op[c] = "place" /\ Revoked(c) /\ unsaid < MaxUnsaid
    /\ End(c)
    /\ lost' = lost + 1 /\ unsaid' = unsaid + 1
    /\ UNCHANGED <<valid, client>>

-----------------------------------------------------------------------------
Progress(c) ==
    \/ AnswerKey(c) \/ RefuseKey(c) \/ StoreClient(c)
    \/ FinishCall(c) \/ RefusePlacement(c) \/ LosePlacement(c)

Next ==
    \/ \E w \in Wallets : Revoke(w)
    \/ \E c \in Calls : Progress(c) \/ \E o \in Operations : StartCall(c, o)

Spec == Init /\ [][Next]_vars

-----------------------------------------------------------------------------
\* A revoked key costs a bounded number of orders, each of which the processor
\* fails for good, on top of those refused in words that placeOrder does not
\* know: calls that hold or have been answered the old key may use it or put it
\* back into the cache, but nobody can after them (placeOrder clears
\* authenticatedClient, getAuthenticatedClient fills it).  The orders lost to
\* other words are not bounded: nothing removes the client.
RefusalsBounded == lost <= MaxRefusals + unsaid

=============================================================================
