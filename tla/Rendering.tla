----------------------------- MODULE Rendering ------------------------------
(***************************************************************************)
(* What goes out to readers: the calendar file (CalendarFile) and the mark *)
(* by which a forwarded message is known again (MessageIdentity).  They    *)
(* share no state: the second has its turn when an empty calendar has been *)
(* rendered.                                                               *)
(***************************************************************************)
EXTENDS CalendarFile, MessageIdentity

RenderingInit == FileInit /\ IdentityInit

RenderingNext ==
  \/ FileNext /\ UNCHANGED identityVars
  \/ /\ IdentityNext
     /\ events = <<>> /\ values = <<>> /\ phase = "done"
     /\ UNCHANGED <<vars, foldVars, values>>

RenderingSpec == RenderingInit /\ [][RenderingNext]_<<vars, foldVars, values, identityVars>>
=============================================================================
