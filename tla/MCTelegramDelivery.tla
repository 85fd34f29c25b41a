-------------------------- MODULE MCTelegramDelivery --------------------------
(***************************************************************************)
(* A small instance of TelegramDelivery: a high and a low delivery in a    *)
(* queue with one place.                                                   *)
(***************************************************************************)
EXTENDS TelegramDelivery

CONSTANTS high, low, p1

MCPriority == [d \in Deliveries |-> IF d = high THEN 2 ELSE 4]

(* Both say the same.                                                      *)
MCContent == [d \in Deliveries |-> "a"]

=============================================================================
