----------------------------- MODULE Inventory -----------------------------
(***************************************************************************)
(* What RfidController's inventory interface promises its callers: at any  *)
(* time there is no inventory, or one of the two kinds --- the open-ended  *)
(* one of startInventory, which reads until it is stopped, or the counted  *)
(* one of inventory(count), which ends by itself.  One kind never turns    *)
(* into the other without the reader having come to rest in between.       *)
(***************************************************************************)
VARIABLE mode    \* "off", "loop" or "count"

Init == mode = "off"

Begin == mode = "off" /\ mode' \in {"loop", "count"}

(* Stopped by its caller, or (a counted one) at its end. *)
End == mode # "off" /\ mode' = "off"

Next == Begin \/ End

Spec == Init /\ [][Next]_mode
=============================================================================
