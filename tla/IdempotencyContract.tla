------------------------- MODULE IdempotencyContract -------------------------
(***************************************************************************)
(* What an idempotency key promises (DESIGN.md, section 3): while a key is *)
(* held at most one order is created for it; the key is given up only if   *)
(* there is none, and is answered for good once its order is; whoever asks *)
(* then with the same content is told of that order, whoever asks with     *)
(* other content, or while the key is held, is refused.                    *)
(***************************************************************************)
EXTENDS Naturals

CONSTANTS Requests, Keys, Bodies, NONE

VARIABLES
    wants, content,   \* per request: its key and what it asks for
    phase,            \* per key: "free", "held" or "answered"
    orders,           \* per key: the requests that created an order
    told,             \* per request: whose order it was answered with
    refused           \* requests that were told there is none for them

contractVars == <<wants, content, phase, orders, told, refused>>

Init ==
    /\ wants = [r \in Requests |-> NONE]
    /\ content = [r \in Requests |-> NONE]
    /\ phase = [k \in Keys |-> "free"]
    /\ orders = [k \in Keys |-> {}]
    /\ told = [r \in Requests |-> NONE]
    /\ refused = {}

\* A request of the key that waits for its answer.
Waits(r, k) == wants[r] = k /\ told[r] = NONE /\ r \notin refused

Ask(r, k, b) ==
    /\ wants[r] = NONE
    /\ wants' = [wants EXCEPT ![r] = k]
    /\ content' = [content EXCEPT ![r] = b]
    /\ UNCHANGED <<phase, orders, told, refused>>

Take(r, k) ==
    /\ Waits(r, k) /\ phase[k] = "free" /\ orders[k] = {}
    /\ phase' = [phase EXCEPT ![k] = "held"]
    /\ UNCHANGED <<wants, content, orders, told, refused>>

Create(r, k) ==
    /\ Waits(r, k) /\ phase[k] = "held" /\ orders[k] = {}
    /\ orders' = [orders EXCEPT ![k] = {r}]
    /\ UNCHANGED <<wants, content, phase, told, refused>>

Answer(r, k) ==
    /\ Waits(r, k) /\ phase[k] = "held" /\ orders[k] = {r}
    /\ phase' = [phase EXCEPT ![k] = "answered"]
    /\ told' = [told EXCEPT ![r] = r]
    /\ UNCHANGED <<wants, content, orders, refused>>

GiveUp(r, k) ==
    /\ Waits(r, k) /\ phase[k] = "held" /\ orders[k] = {}
    /\ phase' = [phase EXCEPT ![k] = "free"]
    /\ refused' = refused \union {r}
    /\ UNCHANGED <<wants, content, orders, told>>

Replay(r, k) ==
    /\ Waits(r, k) /\ phase[k] = "answered"
    /\ \E q \in Requests \ {r} :
          /\ orders[k] = {q} /\ content[q] = content[r]
          /\ told' = [told EXCEPT ![r] = q]
    /\ UNCHANGED <<wants, content, phase, orders, refused>>

Refuse(r, k) ==
    /\ Waits(r, k)
    /\ \/ phase[k] = "held"
       \/ phase[k] = "answered" /\ \A q \in orders[k] : content[q] # content[r]
    /\ refused' = refused \union {r}
    /\ UNCHANGED <<wants, content, phase, orders, told>>

Next == \E r \in Requests, k \in Keys :
    \/ \E b \in Bodies : Ask(r, k, b)
    \/ Take(r, k) \/ Create(r, k) \/ Answer(r, k) \/ GiveUp(r, k)
    \/ Replay(r, k) \/ Refuse(r, k)

Spec == Init /\ [][Next]_contractVars
=============================================================================
