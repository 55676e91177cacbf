--------------------------- MODULE MCTokenSidecar ---------------------------
(* Small instances of TokenSidecar for TLC. *)
EXTENDS TokenSidecar
=============================================================================
