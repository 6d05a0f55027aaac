--------------------------- MODULE ClobAuthProofs ---------------------------
(***************************************************************************)
(* Theorems about ClobAuth, for any number of calls, users and revocations.*)
(***************************************************************************)
EXTENDS ClobAuth, FiniteSetTheorems, TLAPS

\* The 1 + 2 + ... + k uses that k keys answered before a revocation allow.
Triangle(k) == (k * (k + 1)) \div 2

\* Calls for the server that have a key which is revoked by now, at pc.
StaleAt(at) ==
    {c \in Calls : wallet[c] = Server /\ pc[c] = at /\ key[c] # valid[Server]}

\* Those about to put it into the cache, those about to send with it, and the
\* calls that cannot put one into the cache any more, whatever they do.
Storing == StaleAt("store")
Sending == StaleAt("send")
Through == Calls \ Storing

ClientStale == client[Server] \notin {0, valid[Server]}

\* The refusals still to come while the cache is left alone: with a stale
\* client in it every call that is through may use that.
Refusable == IF ClientStale THEN Cardinality(Through) ELSE Cardinality(Sending)

CallFacts == \A c \in Calls : op[c] = "place" => wallet[c] = Server

\* The orders lost to refusals for the signature.
Refusals == lost - unsaid

RefusalFacts == Refusals + Refusable <= Triangle(Cardinality(Through))

AuthInv == TypeOK /\ CallFacts /\ RefusalFacts

-----------------------------------------------------------------------------
(* The arithmetic.                                                         *)

LEMMA HalfOfEven ==
    ASSUME NEW a \in Nat, NEW b \in Nat
    PROVE  (a + 2 * b) \div 2 = a \div 2 + b /\ a \div 2 \in Nat
OBVIOUS

LEMMA HalfGrows ==
    ASSUME NEW a \in Nat, NEW b \in Nat, a <= b
    PROVE  a \div 2 <= b \div 2
OBVIOUS

LEMMA TriangleNext ==
    ASSUME NEW k \in Nat
    PROVE  Triangle(k) \in Nat /\ Triangle(k + 1) = Triangle(k) + k + 1
<1>1. k * (k + 1) \in Nat
  OBVIOUS
<1>2. (k + 1) * ((k + 1) + 1) = k * (k + 1) + 2 * (k + 1)
  OBVIOUS
<1>3. (k * (k + 1) + 2 * (k + 1)) \div 2 = (k * (k + 1)) \div 2 + (k + 1)
  BY <1>1, HalfOfEven
<1>4. (k * (k + 1)) \div 2 \in Nat
  BY <1>1, HalfOfEven
<1> QED BY <1>2, <1>3, <1>4 DEF Triangle

LEMMA TriangleGrows ==
    ASSUME NEW j \in Nat, NEW k \in Nat, j <= k
    PROVE  Triangle(j) <= Triangle(k)
<1>1. j * (j + 1) <= k * (k + 1) /\ j * (j + 1) \in Nat /\ k * (k + 1) \in Nat
  OBVIOUS
<1> QED BY <1>1, HalfGrows DEF Triangle

LEMMA TriangleCovers ==
    ASSUME NEW k \in Nat
    PROVE  k <= Triangle(k)
<1>1. 2 * k <= k * (k + 1) /\ k * (k + 1) \in Nat /\ 2 * k \in Nat
  OBVIOUS
<1>2. (2 * k) \div 2 = k
  OBVIOUS
<1> QED BY <1>1, <1>2, HalfGrows DEF Triangle

LEMMA MaxRefusalsIsTriangle ==
    /\ Cardinality(Calls) \in Nat
    /\ MaxRefusals = Triangle(Cardinality(Calls))
    /\ MaxRefusals \in Nat
<1>1. Cardinality(Calls) \in Nat
  BY AuthConstants, FS_CardinalityType
<1>2. MaxRefusals = Triangle(Cardinality(Calls))
  BY DEF MaxRefusals, Triangle
<1> QED BY <1>1, <1>2, TriangleNext

-----------------------------------------------------------------------------
(* Types.                                                                  *)

LEMMA InitTypeOK == Init => TypeOK
BY MaxRefusalsIsTriangle, AuthConstants DEF Init, TypeOK, Wallets, Keys

LEMMA NextTypeOK == TypeOK /\ [Next]_vars => TypeOK'
<1> SUFFICES ASSUME TypeOK, [Next]_vars PROVE TypeOK'
  OBVIOUS
<1> USE MaxRefusalsIsTriangle, AuthConstants DEF TypeOK, Goto, End
<1>1. CASE UNCHANGED vars
  BY <1>1 DEF vars
<1>2. ASSUME NEW w \in Wallets, Revoke(w) PROVE TypeOK'
  BY <1>2 DEF Revoke, Keys
<1>3. ASSUME NEW c \in Calls, NEW o \in Operations, StartCall(c, o) PROVE TypeOK'
  <2>1. o[1] \in {"place", "cancel", "list"} /\ o[2] \in Wallets
    BY DEF Operations, Wallets
  <2> QED BY <1>3, <2>1 DEF StartCall
<1>4. ASSUME NEW c \in Calls, Progress(c) PROVE TypeOK'
  <2>1. Server \in Wallets
    BY DEF Wallets
  <2>2. CASE AnswerKey(c) \/ RefuseKey(c)
    BY <2>2 DEF AnswerKey, RefuseKey
  <2>3. CASE StoreClient(c)
    BY <2>3 DEF StoreClient
  <2>4. CASE FinishCall(c)
    BY <2>1, <2>4 DEF FinishCall
  <2>5. CASE RefusePlacement(c)
    <3>1. client' \in [Wallets -> {0} \union Keys]
      BY <2>5 DEF RefusePlacement, ClientAfterRefusal
    <3>2. lost' \in Nat
      BY <2>5 DEF RefusePlacement
    <3> QED BY <2>1, <2>5, <3>1, <3>2 DEF RefusePlacement
  <2>6. CASE LosePlacement(c)
    BY <2>1, <2>6 DEF LosePlacement
  <2> QED BY <1>4, <2>2, <2>3, <2>4, <2>5, <2>6 DEF Progress
<1> QED BY <1>1, <1>2, <1>3, <1>4 DEF Next

\* Every variable of the client cache keeps its type.
THEOREM TypeCorrect == Spec => []TypeOK
BY InitTypeOK, NextTypeOK, PTL DEF Spec

-----------------------------------------------------------------------------
(* Refusals.                                                               *)

CountFacts ==
    /\ Cardinality(Sending) \in Nat /\ Cardinality(Through) \in Nat
    /\ Cardinality(Sending) <= Cardinality(Through)
    /\ Cardinality(Through) <= Cardinality(Calls)
    /\ Refusable \in Nat /\ Cardinality(Sending) <= Refusable
    /\ Refusable <= Cardinality(Through)

LEMMA Counts == CountFacts
<1>1. Sending \subseteq Through /\ Through \subseteq Calls
  BY DEF Sending, Storing, Through, StaleAt
<1>2. IsFiniteSet(Through) /\ Cardinality(Through) <= Cardinality(Calls)
  BY <1>1, AuthConstants, FS_Subset
<1>3. IsFiniteSet(Sending) /\ Cardinality(Sending) <= Cardinality(Through)
  BY <1>1, <1>2, FS_Subset
<1>4. Cardinality(Sending) \in Nat /\ Cardinality(Through) \in Nat
  BY <1>2, <1>3, FS_CardinalityType
<1> QED BY <1>2, <1>3, <1>4 DEF CountFacts, Refusable

LEMMA InitAuth == Init => AuthInv
<1> SUFFICES ASSUME Init PROVE AuthInv
  OBVIOUS
<1>1. CallFacts
  BY DEF Init, CallFacts
<1>2. Refusals = 0
  BY DEF Init, Refusals
<1>3. RefusalFacts
  BY <1>2, Counts, TriangleCovers, TriangleNext DEF RefusalFacts, CountFacts
<1> QED BY <1>1, <1>3, InitTypeOK DEF AuthInv

LEMMA CallFactsNext ==
    ASSUME TypeOK, CallFacts, [Next]_vars
    PROVE  CallFacts'
<1> USE DEF TypeOK, CallFacts, Goto, End
<1>1. CASE UNCHANGED vars
  BY <1>1 DEF vars
<1>2. ASSUME NEW w \in Wallets, Revoke(w) PROVE CallFacts'
  BY <1>2 DEF Revoke
<1>3. ASSUME NEW c \in Calls, NEW o \in Operations, StartCall(c, o) PROVE CallFacts'
  <2>1. o[1] = "place" => o[2] = Server
    BY DEF Operations
  <2> QED BY <1>3, <2>1 DEF StartCall
<1>4. ASSUME NEW c \in Calls, Progress(c) PROVE CallFacts'
  BY <1>4 DEF Progress, AnswerKey, RefuseKey, StoreClient, FinishCall, RefusePlacement,
               LosePlacement
<1> QED BY <1>1, <1>2, <1>3, <1>4 DEF Next

\* A step that puts no stale client into the cache, is no refusal for the
\* signature and, unless the cache is stale, gives no call a revoked key to send
\* with.
Steady ==
    /\ Refusals' = Refusals
    /\ Storing' = Storing
    /\ ClientStale' => ClientStale
    /\ ~ClientStale' => Sending' \subseteq Sending

LEMMA SteadyKeeps ==
    ASSUME AuthInv, Steady
    PROVE  RefusalFacts'
<1> USE DEF AuthInv, RefusalFacts, Steady
<1>1. Through' = Through
  BY DEF Through
<1>2. Refusals \in Int
  BY AuthConstants DEF TypeOK, Refusals
<1>3. Triangle(Cardinality(Through)) \in Nat
  BY Counts, TriangleNext DEF CountFacts
<1>4. CASE ClientStale'
  BY <1>1, <1>4 DEF Refusable
<1>5. CASE ~ClientStale'
  <2>1. IsFiniteSet(Sending)
    BY AuthConstants, FS_Subset DEF Sending, StaleAt
  <2>2. Cardinality(Sending') <= Cardinality(Sending) /\ IsFiniteSet(Sending')
    BY <1>5, <2>1, FS_Subset
  <2>3. Refusable' = Cardinality(Sending') /\ Cardinality(Sending') \in Nat
    BY <1>5, <2>2, FS_CardinalityType DEF Refusable
  <2> QED BY <1>1, <1>2, <1>3, <2>2, <2>3, Counts DEF CountFacts
<1> QED BY <1>4, <1>5

\* A revocation starts the count again: each call that is through may use the
\* client that is now stale, or a key of its own.
LEMMA RevokeKeeps ==
    ASSUME AuthInv, Revoke(Server)
    PROVE  RefusalFacts'
<1>1. Refusals' = 0
  BY DEF Revoke, Refusals
<1>2. CountFacts'
  BY Counts, PTL
<1>3. Cardinality(Through') <= Triangle(Cardinality(Through'))
  BY <1>2, TriangleCovers DEF CountFacts
<1> QED BY <1>1, <1>2, <1>3, TriangleNext DEF RefusalFacts, CountFacts

\* A key that was revoked on its way into the cache: one more call is through.
LEMMA StoreStaleKeeps ==
    ASSUME AuthInv, NEW c \in Calls, StoreClient(c), c \in Storing
    PROVE  RefusalFacts'
<1> USE DEF AuthInv, StoreClient, Goto, TypeOK
<1>1. Through' = Through \union {c} /\ c \notin Through
  BY DEF Through, Storing, StaleAt
<1>2. Through \subseteq Calls
  BY DEF Through
<1>3. IsFiniteSet(Through)
  BY <1>2, AuthConstants, FS_Subset
<1>4. Cardinality(Through') = Cardinality(Through) + 1
  BY <1>1, <1>3, FS_AddElement
<1>5. Refusals' = Refusals /\ Refusals \in Int
  BY AuthConstants DEF Refusals
<1>6. CountFacts /\ CountFacts'
  BY Counts, PTL
<1>7. Triangle(Cardinality(Through')) = Triangle(Cardinality(Through)) + Cardinality(Through) + 1
  BY <1>4, <1>6, TriangleNext DEF CountFacts
<1>8. Triangle(Cardinality(Through)) \in Nat
  BY <1>6, TriangleNext DEF CountFacts
<1> QED BY <1>4, <1>5, <1>6, <1>7, <1>8 DEF RefusalFacts, CountFacts

\* A refusal that counts is that of a call which cannot be refused again, and
\* takes a stale client out of the cache.
LEMMA RefuseKeeps ==
    ASSUME AuthInv, NEW c \in Calls, RefusePlacement(c), Revoked(c)
    PROVE  RefusalFacts'
<1> USE DEF AuthInv, TypeOK
<1>1. Refusals \in Int /\ Refusals' = Refusals + 1
  BY AuthConstants DEF RefusePlacement, Refusals
<1>2. key[c] # valid[Server] /\ op[c] = "place" /\ pc[c] = "send" /\ wallet[c] = Server
  BY DEF RefusePlacement, Revoked, End, Goto, CallFacts
<1>3. c \in Sending
  BY <1>2 DEF Sending, StaleAt
<1>4. Storing' = Storing /\ Through' = Through
  BY <1>2 DEF RefusePlacement, End, Goto, Storing, StaleAt, Through
<1>5. Sending' = Sending \ {c}
  BY <1>2 DEF RefusePlacement, End, Goto, Sending, StaleAt
<1>6. client'[Server] = 0
  BY DEF RefusePlacement, ClientAfterRefusal, Wallets
<1>7. Refusable' = Cardinality(Sending')
  BY <1>6 DEF Refusable, ClientStale
<1>8. IsFiniteSet(Sending)
  BY AuthConstants, FS_Subset DEF Sending, StaleAt
<1>9. Cardinality(Sending') = Cardinality(Sending) - 1
  BY <1>3, <1>5, <1>8, FS_RemoveElement
<1>10. CountFacts
  BY Counts
<1>11. Triangle(Cardinality(Through)) \in Nat
  BY <1>10, TriangleNext DEF CountFacts
<1> QED BY <1>1, <1>4, <1>7, <1>9, <1>10, <1>11 DEF RefusalFacts, CountFacts

\* All other steps are steady.
LEMMA CallSteady ==
    ASSUME AuthInv, NEW c \in Calls,
           \/ AnswerKey(c) \/ RefuseKey(c) \/ FinishCall(c) \/ LosePlacement(c)
           \/ \E o \in Operations : StartCall(c, o)
           \/ StoreClient(c) /\ c \notin Storing
           \/ RefusePlacement(c) /\ ~Revoked(c)
    PROVE  Steady
<1> USE DEF AuthInv, TypeOK, Goto, Storing, Sending, StaleAt, Steady, ClientStale, Refusals
<1>1. Server \in Wallets
  BY DEF Wallets
<1>2. CASE AnswerKey(c) \/ RefuseKey(c)
  BY <1>2 DEF AnswerKey, RefuseKey
<1>3. CASE FinishCall(c) \/ LosePlacement(c)
  <2>1. lost \in Int /\ unsaid \in Int
    BY AuthConstants
  <2> QED BY <1>3, <2>1 DEF FinishCall, LosePlacement, End
<1>4. ASSUME NEW o \in Operations, StartCall(c, o) PROVE Steady
  <2>1. o[2] \in Wallets
    BY DEF Operations, Wallets
  <2> QED BY <1>1, <1>4, <2>1 DEF StartCall
<1>5. CASE StoreClient(c) /\ c \notin Storing
  BY <1>1, <1>5 DEF StoreClient
<1>6. CASE RefusePlacement(c) /\ ~Revoked(c)
  <2>1. client'[Server] = 0
    BY <1>1, <1>6 DEF RefusePlacement, ClientAfterRefusal
  <2> QED BY <1>6, <2>1 DEF RefusePlacement, End
<1> QED BY <1>2, <1>3, <1>4, <1>5, <1>6

LEMMA AuthNext == AuthInv /\ [Next]_vars => AuthInv'
<1> SUFFICES ASSUME AuthInv, [Next]_vars PROVE AuthInv'
  OBVIOUS
<1>1. TypeOK' /\ CallFacts'
  BY NextTypeOK, CallFactsNext DEF AuthInv
<1>2. CASE UNCHANGED vars
  <2>1. Steady
    BY <1>2 DEF vars, Steady, Refusals, Storing, Sending, StaleAt, ClientStale
  <2> QED BY <1>1, <2>1, SteadyKeeps DEF AuthInv
<1>3. ASSUME NEW w \in Wallets, Revoke(w) PROVE RefusalFacts'
  <2>1. CASE w # Server
    <3>1. Steady
      BY <1>3, <2>1 DEF Revoke, AuthInv, TypeOK, Wallets, Steady, Refusals, Storing, Sending, StaleAt,
                        ClientStale
    <3> QED BY <3>1, SteadyKeeps
  <2> QED BY <1>3, <2>1, RevokeKeeps
<1>4. ASSUME NEW c \in Calls, Progress(c) PROVE RefusalFacts'
  <2> QED BY <1>4, CallSteady, SteadyKeeps, StoreStaleKeeps, RefuseKeeps DEF Progress
<1>5. ASSUME NEW c \in Calls, NEW o \in Operations, StartCall(c, o) PROVE RefusalFacts'
  BY <1>5, CallSteady, SteadyKeeps
<1> QED BY <1>1, <1>2, <1>3, <1>4, <1>5 DEF AuthInv, Next

\* A revoked key costs at most 1 + 2 + ... + n orders, n being the calls that run
\* at once, on top of those refused without a word about the signature, however
\* often keys are revoked and clients removed and put back (placeOrder clears
\* authenticatedClient, a slow getAuthenticatedClient fills it).
THEOREM RefusalsAreBounded == Spec => []RefusalsBounded
<1>1. ASSUME AuthInv PROVE RefusalsBounded
  <2>1. CountFacts
    BY Counts
  <2>2. Triangle(Cardinality(Through)) <= MaxRefusals /\ Triangle(Cardinality(Through)) \in Nat
    BY <2>1, MaxRefusalsIsTriangle, TriangleGrows, TriangleNext DEF CountFacts
  <2>3. lost \in Int /\ unsaid \in Int /\ MaxRefusals \in Nat
    BY <1>1, MaxRefusalsIsTriangle, AuthConstants DEF AuthInv, TypeOK
  <2> QED BY <1>1, <2>1, <2>2, <2>3 DEF AuthInv, RefusalFacts, Refusals, CountFacts, RefusalsBounded
<1> QED BY <1>1, InitAuth, AuthNext, PTL DEF Spec

=============================================================================
