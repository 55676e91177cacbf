---------------------------- MODULE MCLoginFlow -----------------------------
(* Small instances of LoginFlow for TLC. *)
EXTENDS LoginFlow

MCUserOf == [c \in Calls |-> IF c = "call1" THEN "anna" ELSE "ben"]
=============================================================================
