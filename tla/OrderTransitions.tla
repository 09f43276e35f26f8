-------------------------- MODULE OrderTransitions --------------------------
(* The order lifecycle table of order.transitions.js. *)

OrderStatus ==
  {"PENDING", "CONFIRMED", "PROCESSING", "PACKED", "SHIPPED", "OUT_FOR_DELIVERY", "DELIVERED",
   "RETURN_REQUESTED", "RETURN_APPROVED", "RETURNED", "REFUNDED", "CANCELLED"}

TRANSITIONS ==
  [PENDING          |-> {"CONFIRMED", "CANCELLED"},
   CONFIRMED        |-> {"PROCESSING", "CANCELLED"},
   PROCESSING       |-> {"PACKED", "CANCELLED"},
   PACKED           |-> {"SHIPPED"},
   SHIPPED          |-> {"OUT_FOR_DELIVERY"},
   OUT_FOR_DELIVERY |-> {"DELIVERED"},
   DELIVERED        |-> {"RETURN_REQUESTED"},
   RETURN_REQUESTED |-> {"RETURN_APPROVED"},
   RETURN_APPROVED  |-> {"RETURNED"},
   RETURNED         |-> {"REFUNDED"},
   CANCELLED        |-> {},
   REFUNDED         |-> {}]

CanTransition(from, to) == to \in TRANSITIONS[from]
=============================================================================
