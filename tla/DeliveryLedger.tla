--------------------------- MODULE DeliveryLedger ---------------------------
(***************************************************************************)
(* What message2mail promises of its durable delivery ledger, without the  *)
(* steps by which Service.Sync keeps the promise.  The ledger has one      *)
(* entry per list fingerprint.  An entry is created by seeding, by an      *)
(* SMTP attempt or by finding the message in the mailbox; it counts its    *)
(* attempts up to MaxAttempts; and once it is seeded, delivered or failed  *)
(* it never changes again.  "delivered" is recorded only for a revision    *)
(* that has been in the target mailbox.                                    *)
(***************************************************************************)
EXTENDS Naturals

CONSTANTS
  Fingerprint,   \* the ledger's keys
  Revision,      \* what a mail says it carries
  None,          \* no revision recorded
  MaxAttempts    \* Service.MaxAttempts

VARIABLES
  initialized,   \* the first run is over (State.Initialized)
  deliveries,    \* the entry of each fingerprint (State.Deliveries)
  arrived        \* revisions the mailbox has held at some time

vars == <<initialized, deliveries, arrived>>

Absent == [status |-> "none", rev |-> None, attempts |-> 0]

Init ==
  /\ initialized = FALSE
  /\ deliveries = [f \in Fingerprint |-> Absent]
  /\ arrived = {}

(* The entry may still change: not yet there, or unconfirmed. *)
Open(f) == deliveries[f].status \in {"none", "pending", "retry_wait"}

SetEntry(f, status, r, attempts) ==
  deliveries' = [deliveries EXCEPT ![f] = [status |-> status, rev |-> r, attempts |-> attempts]]

(* A mail carrying revision r reaches the mailbox. *)
Arrive(r) ==
  /\ arrived' = arrived \cup {r}
  /\ UNCHANGED <<initialized, deliveries>>

(* The first run records the messages in S without forwarding them. *)
Initialize(S) ==
  /\ ~initialized
  /\ initialized' = TRUE
  /\ deliveries' = [f \in Fingerprint |-> IF f \in S THEN [Absent EXCEPT !.status = "seeded"] ELSE deliveries[f]]
  /\ UNCHANGED arrived

(* One more SMTP attempt, for revision r, is recorded. *)
Attempt(f, r) ==
  /\ initialized
  /\ Open(f)
  /\ deliveries[f].attempts < MaxAttempts
  /\ \/ SetEntry(f, "pending", r, deliveries[f].attempts + 1)
     \/ /\ deliveries[f].attempts + 1 < MaxAttempts
        /\ SetEntry(f, "retry_wait", r, deliveries[f].attempts + 1)
     \/ /\ deliveries[f].attempts + 1 = MaxAttempts
        /\ SetEntry(f, "failed", r, deliveries[f].attempts + 1)
  /\ UNCHANGED <<initialized, arrived>>

(* Revision r was seen in the mailbox. *)
Confirm(f, r) ==
  /\ initialized
  /\ Open(f)
  /\ r \in arrived
  /\ SetEntry(f, "delivered", r, deliveries[f].attempts)
  /\ UNCHANGED <<initialized, arrived>>

(* The attempts are used up and the message never showed. *)
GiveUp(f) ==
  /\ initialized
  /\ deliveries[f].status \in {"pending", "retry_wait"}
  /\ deliveries[f].attempts = MaxAttempts
  /\ SetEntry(f, "failed", deliveries[f].rev, MaxAttempts)
  /\ UNCHANGED <<initialized, arrived>>

Next ==
  \/ \E r \in Revision : Arrive(r)
  \/ \E S \in SUBSET Fingerprint : Initialize(S)
  \/ \E f \in Fingerprint, r \in Revision : Attempt(f, r) \/ Confirm(f, r)
  \/ \E f \in Fingerprint : GiveUp(f)

Spec == Init /\ [][Next]_vars
=============================================================================
