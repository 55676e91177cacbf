---------------------------- MODULE CalendarFile ----------------------------
(***************************************************************************)
(* ical.Render from the list of events to the file: the selection and the  *)
(* order of the events (ICalendar), and the text of a property on its way  *)
(* into the file (CalendarText).  Neither reads what the other writes, so  *)
(* a behaviour is about one of the two, and the other has nothing to do.   *)
(***************************************************************************)
EXTENDS ICalendar, CalendarText

FileInit ==
  \/ events = <<>> /\ Init /\ TextInit
  \/ values = <<>> /\ TextInit /\ Init

FileNext ==
  \/ Next /\ UNCHANGED <<foldVars, values>>
  \/ FoldNext /\ UNCHANGED <<vars, values>>

FileSpec == FileInit /\ [][FileNext]_<<vars, foldVars, values>>
=============================================================================
