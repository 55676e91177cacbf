--------------------------- MODULE MessageIdentity ---------------------------
(***************************************************************************)
(* By what message2mail knows a message again: Revision is a digest of the *)
(* item's detail, it is written into the mail, and the mailbox is asked    *)
(* for it.  Upstream lists groups and attachments in an order of its own,  *)
(* which may be another one the next time.                                 *)
(*                                                                         *)
(* A digest is what goes into it: digests of different strings differ, and *)
(* no group has the name of an attachment's identifier.                    *)
(***************************************************************************)
EXTENDS Naturals, SequencesExt

CONSTANTS
  Texts,            \* the other fields of an item, taken together; 1 at first
  Names,            \* names of groups as upstream spells them
  Trimmed,          \* the same without the spaces around them
  Folded,           \* trimmed names in lower case
  SortOrder,        \* trimmed names in the order of sort.Strings
  FileIDs,          \* identifiers of attachments
  Rank,             \* their place in the order of strings
  FileStates,       \* name, type and modification time of an attachment
  MaxGroups,        \* bound on the groups of an item
  MaxFiles          \* bound on its attachments

ASSUME IdentityAssumption ==
  /\ DOMAIN Trimmed = Names
  /\ SortOrder \in Seq({Trimmed[n] : n \in Names} \ {""})
  /\ ToSet(SortOrder) = {Trimmed[n] : n \in Names} \ {""}
  /\ DOMAIN Folded = ToSet(SortOrder)
  /\ Rank \in [FileIDs -> Nat] /\ \A a, b \in FileIDs : Rank[a] = Rank[b] => a = b
  /\ FileIDs \cap (ToSet(SortOrder) \union {""}) = {}
  /\ 1 \in Texts

NotSent == <<>>

VARIABLES
  text,          \* the detail of the item as upstream would return it now:
  groups,        \* the list of group names
  attachments,   \* and the list of attachments
  marker,        \* the X-StayInformed-Revision of the mail in the mailbox
  mailed         \* history: what that mail says, and whether unambiguously

detail == <<text, groups, attachments>>
identityVars == <<detail, marker, mailed>>

IdentityInit ==
  /\ text = 1
  /\ groups = <<>>
  /\ attachments = <<>>
  /\ marker = NotSent
  /\ mailed = NotSent

(***************************************************************************)
(* groupNames: blanks are dropped, of names that differ in case only the   *)
(* first one listed is kept, and the result is sorted.                     *)
(***************************************************************************)
(* What stands at the places in s, in its order.                           *)
At(s, places) == FlattenSeq([i \in DOMAIN s |-> IF i \in places THEN <<s[i]>> ELSE <<>>])

Labels(list) ==
  LET trimmed == [i \in DOMAIN list |-> Trimmed[list[i]]] IN At(trimmed, {i \in DOMAIN list : trimmed[i] # ""})

IsFirst(labels, i) == \A j \in 1..i - 1 : Folded[labels[j]] # Folded[labels[i]]

Spellings(labels) == At(labels, {i \in DOMAIN labels : IsFirst(labels, i)})

(* Mutation: the names stay in the order in which they are listed. *)
GroupNamesListed(list) == Spellings(Labels(list))

GroupNames(list) ==
  LET kept == ToSet(Spellings(Labels(list))) IN At(SortOrder, {i \in DOMAIN SortOrder : SortOrder[i] \in kept})

(* sort.Slice by identifier, which leaves equal ones in any order.         *)
SortedByID(list) ==
  {sorted \in {[i \in DOMAIN list |-> list[p[i]]] : p \in Bijection(DOMAIN list, DOMAIN list)} :
     \A i \in 1..Len(list) - 1 : Rank[sorted[i].id] <= Rank[sorted[i + 1].id]}

(* Revision: what it may digest.  Names are joined by the octet that also  *)
(* ends each string of the digest; no name at all is one empty string.     *)
Revisions ==
  LET names == GroupNames(groups) IN
    {<<text>> \o (IF names = <<>> THEN <<"">> ELSE names)
       \o FlattenSeq([i \in DOMAIN files |-> <<files[i].id, files[i].state>>]) :
     files \in SortedByID(attachments)}

(***************************************************************************)
(* Upstream.                                                               *)
(***************************************************************************)
Swapped(s, i) == [s EXCEPT ![i] = s[i + 1], ![i + 1] = s[i]]

(* Groups and attachments are the same, in another order. *)
Relist ==
  /\ \/ \E i \in 1..Len(groups) - 1 : groups' = Swapped(groups, i) /\ UNCHANGED attachments
     \/ \E i \in 1..Len(attachments) - 1 : attachments' = Swapped(attachments, i) /\ UNCHANGED groups
  /\ UNCHANGED <<text, marker, mailed>>

EditGroups ==
  /\ \/ \E n \in Names : Len(groups) < MaxGroups /\ groups' = Append(groups, n)
     \/ groups # <<>> /\ groups' = Front(groups)
  /\ UNCHANGED <<text, attachments, marker, mailed>>

EditFiles ==
  /\ \/ \E id \in FileIDs, state \in FileStates :
          Len(attachments) < MaxFiles /\ attachments' = Append(attachments, [id |-> id, state |-> state])
     \/ attachments # <<>> /\ attachments' = Front(attachments)
  /\ UNCHANGED <<text, groups, marker, mailed>>

EditText == text' \in Texts \ {text} /\ UNCHANGED <<groups, attachments, marker, mailed>>

(***************************************************************************)
(* What an item says, and the mail about it.                               *)
(***************************************************************************)
Meaning ==
  [text |-> text, groups |-> ToSet(Labels(groups)), files |-> ToSet(attachments)]

(* No two names differ in case only, and no two attachments share an       *)
(* identifier.                                                             *)
Unambiguous ==
  /\ \A l, m \in ToSet(Labels(groups)) : Folded[l] = Folded[m] => l = m
  /\ \A i, j \in DOMAIN attachments : attachments[i].id = attachments[j].id => i = j

(* deliver has built the mail from what upstream returned. *)
Deliver ==
  /\ marker = NotSent
  /\ marker' \in Revisions
  /\ mailed' = [says |-> Meaning, plain |-> Unambiguous]
  /\ UNCHANGED detail

IdentityNext == Relist \/ EditGroups \/ EditFiles \/ EditText \/ Deliver

IdentitySpec == IdentityInit /\ [][IdentityNext]_identityVars

(***************************************************************************)
(* Properties.                                                             *)
(***************************************************************************)

(* The mail is found again for exactly the items that say what it says, in *)
(* whatever order upstream lists their groups and attachments, also after  *)
(* an edit that has been taken back (message.go:58-73, models.go:155-172). *)
FoundAgain ==
  marker # NotSent /\ mailed.plain /\ Unambiguous =>
    \A r \in Revisions : r = marker <=> Meaning = mailed.says
=============================================================================
