---------------------------- MODULE LineFolding -----------------------------
(***************************************************************************)
(* ical.writeLine: a content line is written character by character, and   *)
(* folded so that no line of the file is longer than the limit and no      *)
(* character is cut.                                                       *)
(***************************************************************************)
EXTENDS Naturals, Sequences

CONSTANTS
  Char,        \* characters
  Space,       \* the one that begins a continued line
  Octets,      \* octets of each character in UTF-8
  Limit        \* octets in a line of the file: 75

ASSUME FoldAssumption ==
  /\ Limit \in Nat /\ Limit >= 5
  /\ Octets \in [Char -> 1..4] /\ Space \in Char

VARIABLES
  line,        \* what is left of the content line
  lineBytes,   \* the counter of octets
  written,     \* the lines of the file
  octets,      \* octets in the last of them
  closed       \* octets in the ones before it

foldVars == <<line, lineBytes, written, octets, closed>>

FoldInit ==
  /\ line \in Seq(Char)
  /\ lineBytes = 0
  /\ written = << <<>> >>
  /\ octets = 0
  /\ closed = <<>>

(* Mutation: the space of a continued line is not counted. *)
AfterFoldUncounted == 0

(* A continued line begins with a space.                                   *)
AfterFold == 1

Overflows(size) == lineBytes > 0 /\ lineBytes + size > Limit

WriteRune ==
  /\ line # <<>>
  /\ LET size == Octets[Head(line)] IN
       IF Overflows(size)
       THEN /\ written' = Append(written, <<Space, Head(line)>>)
            /\ lineBytes' = AfterFold + size
            /\ octets' = 1 + size
            /\ closed' = Append(closed, octets)
       ELSE /\ written' = [written EXCEPT ![Len(written)] = Append(@, Head(line))]
            /\ lineBytes' = lineBytes + size
            /\ octets' = octets + size
            /\ UNCHANGED closed
  /\ line' = Tail(line)

FoldNext == WriteRune

FoldSpec == FoldInit /\ [][FoldNext]_foldVars

(***************************************************************************)
(* Properties.                                                             *)
(***************************************************************************)

(* No line of the file has more octets than the limit, wherever characters *)
(* of several octets fall (ical.go:222-228).                               *)
FitsLimit == octets <= Limit /\ \A i \in DOMAIN closed : closed[i] <= Limit
=============================================================================
