----------------------------- MODULE ICalendar ------------------------------
(***************************************************************************)
(* Which events ical.Render writes and in which order.  The events pass    *)
(* through a Go map, whose iteration order is another one each time, and   *)
(* still the rendering must be a function of the list: the ETag of webcal  *)
(* is a digest of it.                                                      *)
(***************************************************************************)
EXTENDS Naturals, Sequences, FiniteSets

CONSTANTS
  IDs,          \* event identifiers, numbers in their order; 0 is the empty one
  Stamps,       \* values of the modification time, in their order
  Starts,       \* values of the start, in their order
  MaxEvents     \* bound on the length of the list

ASSUME CalendarAssumption ==
  IDs \subseteq Nat /\ Stamps \subseteq Nat /\ Starts \subseteq Nat /\ MaxEvents \in Nat

Event == [id : IDs, modified : Stamps, start : Starts, sound : BOOLEAN]

VARIABLES
  events,      \* the list that upstream returned
  phase,       \* where Render is
  index,       \* the event that deduplicate looks at
  byID,        \* its map
  withoutID,   \* its list of events without an identifier
  result,      \* the list it returns
  output       \* what Render returns

vars == <<events, phase, index, byID, withoutID, result, output>>

Init ==
  /\ events \in UNION {[1..n -> Event] : n \in 0..MaxEvents}
  /\ phase = "collect"
  /\ index = 1
  /\ byID = <<>>
  /\ withoutID = <<>>
  /\ result = <<>>
  /\ output = <<>>

Supersedes(new, old) == new.modified > old.modified

Put(map, e) == [id \in DOMAIN map \union {e.id} |-> IF id = e.id THEN e ELSE map[id]]

Collect ==
  /\ phase = "collect"
  /\ index <= Len(events)
  /\ LET e == events[index] IN
       IF e.id = 0
       THEN withoutID' = Append(withoutID, e) /\ UNCHANGED byID
       ELSE /\ byID' = IF e.id \notin DOMAIN byID \/ Supersedes(e, byID[e.id]) THEN Put(byID, e) ELSE byID
            /\ UNCHANGED withoutID
  /\ index' = index + 1
  /\ UNCHANGED <<events, phase, result, output>>

Collected ==
  /\ phase = "collect"
  /\ index > Len(events)
  /\ phase' = "iterate"
  /\ UNCHANGED <<events, index, byID, withoutID, result, output>>

(* The iteration over the map goes on with any key it has not had.         *)
Iterate ==
  /\ phase = "iterate"
  /\ \E id \in DOMAIN byID : result' = Append(result, byID[id]) /\ byID' = [i \in DOMAIN byID \ {id} |-> byID[i]]
  /\ UNCHANGED <<events, phase, index, withoutID, output>>

Iterated ==
  /\ phase = "iterate"
  /\ DOMAIN byID = {}
  /\ result' = result \o withoutID
  /\ phase' = "sort"
  /\ UNCHANGED <<events, index, byID, withoutID, output>>

(* Mutation: events that start together are left as they come. *)
ByStart(a, b) == a.start < b.start

Before(a, b) == a.start < b.start \/ (a.start = b.start /\ a.id < b.id)

(* sort.SliceStable: what is not ordered stays in its order.               *)
StableSort(list) ==
  LET Precedes(i, j) == Before(list[i], list[j]) \/ (~Before(list[j], list[i]) /\ i < j)
      Position(i) == Cardinality({j \in DOMAIN list : Precedes(j, i)}) + 1
  IN  [k \in DOMAIN list |-> list[CHOOSE i \in DOMAIN list : Position(i) = k]]

Sort ==
  /\ phase = "sort"
  /\ result' = StableSort(result)
  /\ phase' = "write"
  /\ UNCHANGED <<events, index, byID, withoutID, output>>

(* One event with a bad time, or an end before its start, fails them all.  *)
Write ==
  /\ phase = "write"
  /\ IF \A i \in DOMAIN result : result[i].sound
     THEN phase' = "done" /\ output' = result
     ELSE phase' = "failed" /\ UNCHANGED output
  /\ UNCHANGED <<events, index, byID, withoutID, result>>

Next == Collect \/ Collected \/ Iterate \/ Iterated \/ Sort \/ Write

Spec == Init /\ [][Next]_vars

(***************************************************************************)
(* Properties.                                                             *)
(***************************************************************************)
Listed == {i \in DOMAIN events : events[i].id = 0}

(* The first of the latest versions of each event, and all without an      *)
(* identifier.                                                             *)
Kept ==
  Listed \union
  {i \in DOMAIN events \ Listed :
     \A j \in DOMAIN events :
       events[j].id = events[i].id =>
         \/ events[j].modified < events[i].modified
         \/ (events[j].modified = events[i].modified /\ j >= i)}

(* The calendar that a list stands for, whatever the order of the map: the *)
(* kept events by start, then identifier, then place in the list.          *)
IsRendering(out) ==
  LET Earlier(i, j) ==
        \/ events[i].start < events[j].start
        \/ events[i].start = events[j].start /\ events[i].id < events[j].id
        \/ events[i].start = events[j].start /\ events[i].id = events[j].id /\ i < j
  IN  /\ Len(out) = Cardinality(Kept)
      /\ \A i \in Kept : out[Cardinality({j \in Kept : Earlier(j, i)}) + 1] = events[i]

(* Rendering is a function of the event list, although its events pass     *)
(* through a map, and it fails if one of the kept events does              *)
(* (ical.go:55-61, 74-78, 148-166).                                        *)
RenderedOnce ==
  /\ phase = "done" => IsRendering(output) /\ \A i \in Kept : events[i].sound
  /\ phase = "failed" => \E i \in Kept : ~events[i].sound
=============================================================================
