------------------------------ MODULE MCWebcal ------------------------------
(* Small instances of Webcal for TLC. *)
EXTENDS Webcal
=============================================================================
