----------------------------- MODULE StateStore -----------------------------
(***************************************************************************)
(* What the service may assume of its StateStore: versions of the state    *)
(* follow each other one by one, and a version whose Save has synced the   *)
(* directory is never lost.  Any later version, of a Save that returned    *)
(* nil all the same or of one that did not return, may be there or not.    *)
(***************************************************************************)
EXTENDS Naturals

VARIABLES
  stored,   \* number of the version that a Load returns, 0 when there is none
  synced    \* number of the last version that is on the disk for certain

Init == stored = 0 /\ synced = 0

Save == stored' = stored + 1 /\ UNCHANGED synced

Kept == synced' = stored /\ UNCHANGED stored

PowerLoss == stored' \in synced..stored /\ synced' = stored'

Next == Save \/ Kept \/ PowerLoss

Spec == Init /\ [][Next]_<<stored, synced>>
=============================================================================
