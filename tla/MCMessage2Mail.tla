--------------------------- MODULE MCMessage2Mail ---------------------------
(* Small instances of Message2Mail for TLC. *)
EXTENDS Message2Mail

MCFirstVersion == [core |-> "c1", flag |-> FALSE, detail |-> "d1"]
MCOversized == {[id |-> 2, core |-> "c1", detail |-> "d2"]}
=============================================================================
