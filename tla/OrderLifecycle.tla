--------------------------- MODULE OrderLifecycle ---------------------------
(***************************************************************************)
(* What the order module promises of an order's status: it is placed as    *)
(* PENDING and then moves along one edge of the lifecycle table at a time, *)
(* and its history rows are exactly the statuses it has gone through.      *)
(***************************************************************************)
EXTENDS OrderTransitions, Sequences

CONSTANTS Orders,
          NotPlaced   \* status of an order that does not exist yet

VARIABLES status,     \* per order: its status, or NotPlaced
          history     \* per order: the toStatus of its history rows, oldest first

lifecycleVars == <<status, history>>

Init == /\ status = [o \in Orders |-> NotPlaced]
        /\ history = [o \in Orders |-> <<>>]

Enter(o, s) == /\ status' = [status EXCEPT ![o] = s]
               /\ history' = [history EXCEPT ![o] = Append(@, s)]

Place(o) == status[o] = NotPlaced /\ Enter(o, "PENDING")

Transition(o) == \E s \in OrderStatus :
  /\ status[o] # NotPlaced
  /\ CanTransition(status[o], s)
  /\ Enter(o, s)

Next == \E o \in Orders : Place(o) \/ Transition(o)

Spec == Init /\ [][Next]_lifecycleVars
=============================================================================
