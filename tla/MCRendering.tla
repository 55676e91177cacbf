---------------------------- MODULE MCRendering -----------------------------
(* Small instances of Rendering for TLC. *)
EXTENDS Rendering

MCOctets == [c \in {"a", "n", " ", "\\", ";", ",", "CR", "LF"} |-> 1]
            @@ ("two" :> 2) @@ ("three" :> 3) @@ ("four" :> 4)
MCChar == DOMAIN MCOctets

(* Widths alone, then everything escapeText is about, then a list. *)
MCValues ==
  {<<>>}
  \union {<<t>> : t \in SeqOf({"a", "two", "three", "four"}, 5)}
  \union {<<t>> : t \in SeqOf({"n", " ", "\\", ";", ",", "CR", "LF", "three"}, 4)}
  \union {<<t, u>> : t, u \in SeqOf({"a", "\\", ",", "LF"}, 2)}

(* A blank, two spellings that are one name, and two that differ in case. *)
MCTrimmed == ("Reds" :> "Reds") @@ (" Reds" :> "Reds") @@ ("reds" :> "reds")
             @@ ("Blues" :> "Blues") @@ (" " :> "")
MCNames == DOMAIN MCTrimmed
MCFolded == ("Blues" :> "blues") @@ ("Reds" :> "reds") @@ ("reds" :> "reds")
MCSortOrder == <<"Blues", "Reds", "reds">>
MCRank == ("2f" :> 1) @@ ("c0" :> 2)
MCFileIDs == DOMAIN MCRank
=============================================================================
