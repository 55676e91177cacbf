---------------------------- MODULE CalendarText ----------------------------
(***************************************************************************)
(* The text of an event on its way into the file: escapeText and           *)
(* escapeTextList make one content line of it, writeLine folds that line.  *)
(* A reader of the calendar goes the way back, by RFC 5545.                *)
(***************************************************************************)
EXTENDS LineFolding, SequencesExt

CONSTANT Values      \* lists of texts: the title alone, or the names of groups

ASSUME TextAssumption ==
  /\ {"\\", ";", ",", "CR", "LF", "n"} \subseteq Char /\ Space \notin {"CR", "LF"}
  /\ Values \subseteq Seq(Seq(Char))

VARIABLE values      \* the list that is written

(* strings.ReplaceAll for one character. *)
Substitute(s, c, by) == FlattenSeq([i \in DOMAIN s |-> IF s[i] = c THEN by ELSE <<s[i]>>])

(* strings.ReplaceAll(value, "\r\n", "\n"). *)
JoinLineEnds(s) ==
  FlattenSeq([i \in DOMAIN s |->
    IF s[i] = "CR" /\ i < Len(s) /\ s[i + 1] = "LF" THEN <<>> ELSE <<s[i]>>])

Newlines(s) == Substitute(JoinLineEnds(s), "CR", <<"LF">>)

Punctuated(s) == Substitute(Substitute(s, ";", <<"\\", ";">>), ",", <<"\\", ",">>)

(* Mutation: the backslash is doubled after the others are escaped. *)
EscapeTextLate(value) ==
  Substitute(Substitute(Punctuated(Newlines(value)), "LF", <<"\\", "n">>), "\\", <<"\\", "\\">>)

EscapeText(value) ==
  Substitute(Punctuated(Newlines(Substitute(value, "\\", <<"\\", "\\">>))), "LF", <<"\\", "n">>)

EscapeTextList(list) ==
  FlattenSeq([i \in DOMAIN list |-> (IF i = 1 THEN <<>> ELSE <<",">>) \o EscapeText(list[i])])

TextInit ==
  /\ values \in Values
  /\ line = EscapeTextList(values)
  /\ FoldInit

(***************************************************************************)
(* What a reader makes of the file.                                        *)
(***************************************************************************)
Unfolded ==
  FlattenSeq([i \in DOMAIN written |-> IF i = 1 THEN written[i] ELSE Tail(written[i])])

AddTo(list, c) == [list EXCEPT ![Len(list)] = Append(@, c)]

(* A backslash takes the next character out of its function. *)
ReadChar(state, c) ==
  CASE state.escaped -> [list |-> AddTo(state.list, IF c = "n" THEN "LF" ELSE c), escaped |-> FALSE]
    [] ~state.escaped /\ c = "\\" -> [state EXCEPT !.escaped = TRUE]
    [] ~state.escaped /\ c = "," -> [state EXCEPT !.list = Append(@, <<>>)]
    [] OTHER -> [state EXCEPT !.list = AddTo(@, c)]

ReadBack == FoldLeft(ReadChar, [list |-> << <<>> >>, escaped |-> FALSE], Unfolded).list

(* Every text is read as it was, except that each kind of line end is a    *)
(* newline, and a list has the elements it had, wherever the line is       *)
(* folded and whatever is escaped (ical.go:201-232).                       *)
TextSurvives ==
  line = <<>> /\ values # <<>> =>
    /\ \A i \in DOMAIN written : \A j \in DOMAIN written[i] : written[i][j] \notin {"CR", "LF"}
    /\ ReadBack = [i \in DOMAIN values |-> Newlines(values[i])]
=============================================================================
