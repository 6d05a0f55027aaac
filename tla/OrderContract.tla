---------------------------- MODULE OrderContract ----------------------------
(***************************************************************************)
(* What the order API promises while no execution fails: an order is       *)
(* executed by at most one claim, taken while it was open; the claim pays  *)
(* at most once and places at most once, never before it paid; its outcome *)
(* is final.  A cancellation ends an order nobody claimed: it may still    *)
(* succeed after the claim and then be overridden by the outcome, or come  *)
(* before the order is queued and be overridden by that.                   *)
(***************************************************************************)
EXTENDS Naturals

CONSTANTS Orders, Funded, RealTrading

VARIABLES
    state,   \* what GET /orders/:id shows
    claim,   \* "none", then "held" by the execution, then "spent"
    paid,    \* transfers of the user's USDC
    live     \* orders the exchange accepted

contractVars == <<state, claim, paid, live>>

Open == {"PENDING", "QUEUED"}

Init ==
    /\ state = [o \in Orders |-> "ABSENT"]
    /\ claim = [o \in Orders |-> "none"]
    /\ paid = [o \in Orders |-> 0]
    /\ live = [o \in Orders |-> 0]

Accept(o) ==
    /\ state[o] = "ABSENT"
    /\ state' = [state EXCEPT ![o] = "PENDING"]
    /\ UNCHANGED <<claim, paid, live>>

Queue(o) ==
    /\ state[o] \in {"PENDING", "CANCELLED"}
    /\ claim[o] = "none"
    /\ state' = [state EXCEPT ![o] = "QUEUED"]
    /\ UNCHANGED <<claim, paid, live>>

Cancel(o) ==
    /\ state[o] \in Open
    /\ state' = [state EXCEPT ![o] = "CANCELLED"]
    /\ UNCHANGED <<claim, paid, live>>

Claim(o) ==
    /\ state[o] \in Open
    /\ claim[o] = "none"
    /\ claim' = [claim EXCEPT ![o] = "held"]
    /\ UNCHANGED <<state, paid, live>>

Pay(o) ==
    /\ RealTrading /\ o \in Funded
    /\ claim[o] = "held" /\ paid[o] = 0 /\ live[o] = 0
    /\ paid' = [paid EXCEPT ![o] = 1]
    /\ UNCHANGED <<state, claim, live>>

Place(o) ==
    /\ RealTrading
    /\ claim[o] = "held" /\ live[o] = 0
    /\ o \in Funded => paid[o] = 1
    /\ live' = [live EXCEPT ![o] = 1]
    /\ UNCHANGED <<state, claim, paid>>

Settle(o) ==
    /\ claim[o] = "held"
    /\ \/ /\ RealTrading => live[o] = 1
          /\ state' = [state EXCEPT ![o] = "FILLED"]
       \/ state' = [state EXCEPT ![o] = "FAILED"]
    /\ claim' = [claim EXCEPT ![o] = "spent"]
    /\ UNCHANGED <<paid, live>>

Next == \E o \in Orders :
    \/ Accept(o) \/ Queue(o) \/ Cancel(o) \/ Claim(o)
    \/ Pay(o) \/ Place(o) \/ Settle(o)

Spec == Init /\ [][Next]_contractVars
=============================================================================
