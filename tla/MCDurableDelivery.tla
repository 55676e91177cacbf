------------------------- MODULE MCDurableDelivery --------------------------
(* Small instances of DurableDelivery for TLC. *)
EXTENDS DurableDelivery, TLC

(* The processes are alike, and so are their clients.                      *)
Alike == Permutations(Processes)
=============================================================================
