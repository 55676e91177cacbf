------------------------- MODULE Message2MailProofs -------------------------
(***************************************************************************)
(* Proofs about Message2Mail, for every value of its constants.            *)
(***************************************************************************)
EXTENDS Message2Mail, FiniteSetTheorems, TLAPS

LEMMA AbsentType == Absent \in Delivery
BY DEF Absent, Delivery, Statuses

LEMMA EmptyStateType == EmptyState \in State
BY AbsentType DEF EmptyState, State

(* What the two ways of changing an entry do, without EXCEPT.              *)
LEMMA WithEntryType ==
  ASSUME NEW s \in State, NEW f \in Fingerprint, NEW status \in Statuses,
         NEW r \in Revision \cup {None}, NEW attempts \in Nat
  PROVE  /\ WithEntry(s, f, status, r, attempts) \in State
         /\ WithEntry(s, f, status, r, attempts).initialized = s.initialized
         /\ WithEntry(s, f, status, r, attempts).deliveries =
              [s.deliveries EXCEPT ![f] = [status |-> status, rev |-> r, attempts |-> attempts]]
BY DEF WithEntry, State, Delivery

LEMMA WithStatusType ==
  ASSUME NEW s \in State, NEW f \in Fingerprint, NEW status \in Statuses
  PROVE  /\ WithStatus(s, f, status) \in State
         /\ WithStatus(s, f, status).initialized = s.initialized
         /\ WithStatus(s, f, status).deliveries =
              [s.deliveries EXCEPT ![f] =
                 [status |-> status, rev |-> s.deliveries[f].rev, attempts |-> s.deliveries[f].attempts]]
<1>1. s.deliveries \in [Fingerprint -> Delivery] BY DEF State
<1>2. s.deliveries[f] \in Delivery BY <1>1
<1>3. WithStatus(s, f, status) =
        [s EXCEPT !.deliveries = [s.deliveries EXCEPT ![f] = [s.deliveries[f] EXCEPT !.status = status]]]
  BY DEF WithStatus
<1>4. [s.deliveries[f] EXCEPT !.status = status] =
        [status |-> status, rev |-> s.deliveries[f].rev, attempts |-> s.deliveries[f].attempts]
  BY <1>2 DEF Delivery
<1>5. [s.deliveries[f] EXCEPT !.status = status] \in Delivery BY <1>2 DEF Delivery
<1> QED BY <1>1, <1>3, <1>4, <1>5 DEF State

LEMMA DigestType ==
  ASSUME item \in [News -> Version], NEW n \in News
  PROVE  ListFingerprint(n) \in Fingerprint /\ RevisionOf(n) \in Revision
BY DEF ListFingerprint, RevisionOf, Version, Fingerprint, Revision

LEMMA ListedType ==
  ASSUME NEW i \in Listed
  PROVE  i.fp \in Fingerprint /\ i.page \in Nat /\ i.fp.id \in News
BY DEF Listed, Fingerprint

(* Sync has the type of its idle state when it returns.                    *)
LEMMA EndSyncType ==
  ASSUME EndSync
  PROVE  /\ pc' = "idle" /\ offset' \in Nat /\ items' = {} /\ left' = {} /\ todo' = {} /\ waiting' = {}
         /\ cur' = None /\ rev' = None /\ ledger' = EmptyState
BY DEF EndSync

Delivering == {"check", "submit", "accepted", "refused", "confirm"}

(* TypeOK is inductive as it stands: Init implies it and every action      *)
(* keeps it, because whatever is saved goes to memory and file at once.    *)
LEMMA TypeOKStep == TypeOK /\ [Next]_vars => TypeOK'
<1> SUFFICES ASSUME TypeOK, [Next]_vars PROVE TypeOK'
  OBVIOUS
<1> USE DEF TypeOK, upstream, progress, mail, attempted, history
<1>1. CASE StartSync
  <2>1. {ListFingerprint(n) : n \in Published} \subseteq Fingerprint
    BY DigestType DEF Published
  <2> QED BY <1>1, <2>1 DEF StartSync, Phases
<1>2. CASE ListPage
  <2>1. CASE EndSync
    BY <1>2, <2>1, EndSyncType DEF ListPage, Phases
  <2>2. CASE ~EndSync
    <3>1. {[fp |-> ListFingerprint(n), page |-> offset] : n \in PageItems(offset)} \subseteq Listed
      BY DigestType DEF PageItems, Published, Listed
    <3> QED BY <1>2, <2>2, <3>1 DEF ListPage, Phases
  <2> QED BY <2>1, <2>2
<1>m. ASSUME NEW mails, Recount(mails) PROVE copies' \in [Mail -> Nat]
  BY <1>m DEF Recount
<1>3. CASE Seed
  <2>1. disk' \in State
    BY <1>3, AbsentType DEF Seed, State, Delivery, Statuses, Absent
  <2> QED BY <1>3, <2>1, EndSyncType DEF Seed, Phases
<1>4. CASE LoadState
  <2>1. [disk EXCEPT !.initialized = TRUE] \in State
    BY DEF State
  <2> QED BY <1>4, <2>1 DEF LoadState, Save, Phases
<1>5. ASSUME NEW f \in Fingerprint, Reconcile(f) PROVE TypeOK'
  <2>1. WithStatus(ledger, f, "delivered") \in State
    BY <1>5, WithStatusType DEF Reconcile, Statuses
  <2> QED BY <1>5, <2>1 DEF Reconcile, Save, Phases
<1>6. ASSUME NEW i \in left, SkipItem(i) PROVE TypeOK'
  BY <1>6 DEF SkipItem, Phases
<1>7. ASSUME NEW i \in left, GiveUp(i) PROVE TypeOK'
  <2>1. WithStatus(ledger, i.fp, "failed") \in State
    BY <1>7, ListedType, WithStatusType DEF GiveUp, AtItem, Statuses
  <2> QED BY <1>7, <2>1 DEF GiveUp, AtItem, Save, Phases
<1>8. ASSUME NEW i \in left, FetchItem(i) PROVE TypeOK'
  <2>1. CASE EndSync
    BY <1>8, <2>1, EndSyncType DEF FetchItem, Phases
  <2>2. CASE ~EndSync
    <3>1. i.fp \in Fingerprint /\ RevisionOf(i.fp.id) \in Revision
      BY ListedType, DigestType
    <3> QED BY <1>8, <2>2, <3>1 DEF FetchItem, AtItem, Phases
  <2> QED BY <2>1, <2>2
<1>9. CASE FinishSync
  BY <1>9, EndSyncType DEF FinishSync, Phases
<1>10. CASE CheckMailbox
  <2>1. pc = "check" => Entry(cur).attempts \in Nat
    BY DEF Entry, State, Delivery
  <2>2. pc = "check" => WithEntry(ledger, cur, "delivered", rev, Entry(cur).attempts) \in State
    BY <2>1, WithEntryType DEF Statuses
  <2> QED BY <1>10, <2>2 DEF CheckMailbox, Save, Phases
<1>11. CASE TooLarge
  BY <1>11, EndSyncType DEF TooLarge, Phases
<1>12. CASE Submit
  <2>1. [fp |-> cur, rev |-> rev] \in Mail
    BY <1>12 DEF Submit, Mail
  <2> QED BY <1>12, <2>1 DEF Submit, Phases
<1>13. CASE RecordError
  <2>1. cur \in Fingerprint /\ rev \in Revision /\ ledger \in State /\ Entry(cur).attempts + 1 \in Nat
    BY <1>13 DEF RecordError, Entry, State, Delivery
  <2>2. disk' \in State
    <3> DEFINE status == IF Entry(cur).attempts + 1 >= MaxAttempts THEN "failed" ELSE "retry_wait"
    <3>1. status \in Statuses
      BY DEF Statuses
    <3>2. WithEntry(ledger, cur, status, rev, Entry(cur).attempts + 1) \in State
      BY <2>1, <3>1, WithEntryType
    <3> QED BY <1>13, <3>2 DEF RecordError
  <2> QED BY <1>13, <2>2, EndSyncType DEF RecordError, Phases
<1>14. CASE RecordSent
  <2>1. cur \in Fingerprint /\ rev \in Revision /\ ledger \in State /\ Entry(cur).attempts + 1 \in Nat
    BY <1>14 DEF RecordSent, Entry, State, Delivery
  <2>2. WithEntry(ledger, cur, "pending", rev, Entry(cur).attempts + 1) \in State
    BY <2>1, WithEntryType DEF Statuses
  <2> QED BY <1>14, <2>2 DEF RecordSent, Save, Phases
<1>15. CASE ConfirmSent
  <2>1. WithStatus(ledger, cur, "delivered") \in State
    BY <1>15, WithStatusType DEF ConfirmSent, Statuses
  <2> QED BY <1>15, <2>1 DEF ConfirmSent, Save, Phases
<1>16. CASE Interrupt
  BY <1>16, <1>m, EndSyncType DEF Interrupt, Phases
<1>17. ASSUME NEW n \in News, Publish(n) \/ Edit(n) \/ Delete(n) PROVE TypeOK'
  <2>1. CASE Publish(n)
    BY <2>1 DEF Publish
  <2>2. CASE Edit(n)
    BY <2>2 DEF Edit, LeaveArchive
  <2>3. CASE Delete(n)
    BY <2>3 DEF Delete, LeaveArchive
  <2> QED BY <1>17, <2>1, <2>2, <2>3
<1>18. ASSUME NEW m \in transit, ArriveMail(m) \/ LoseMail(m) PROVE TypeOK'
  <2>1. m.rev \in Revision
    BY DEF Mail
  <2> QED BY <1>18, <1>m, <2>1 DEF ArriveMail, LoseMail
<1>18r. ASSUME NEW r \in inbox, RemoveMail(r) PROVE TypeOK'
  BY <1>18r, <1>m DEF RemoveMail
<1>19. CASE Tick
  <2>1. \A t \in Nat : Older(t) \in Nat
    BY DEF Older
  <2> QED BY <1>19, <1>m, <2>1 DEF Tick
<1>20. CASE UNCHANGED vars
  BY <1>20 DEF vars
<1> QED BY <1>1, <1>2, <1>3, <1>4, <1>5, <1>6, <1>7, <1>8, <1>9, <1>10, <1>11, <1>12,
           <1>13, <1>14, <1>15, <1>16, <1>17, <1>18, <1>18r, <1>19, <1>20
        DEF Next, SyncStep, ListStep, LoopStep, DeliverStep

LEMMA TypeOKInit == Init => TypeOK
BY EmptyStateType, VersionAssumption, LimitAssumption
   DEF Init, TypeOK, Phases

THEOREM TypeCorrect == Spec => []TypeOK
BY TypeOKInit, TypeOKStep, PTL DEF Spec

(***************************************************************************)
(* The inductive invariant.  The ledger alone is not enough: what a step   *)
(* of deliver may assume of the entry it changes was checked some calls    *)
(* earlier, by Reconcile, FetchItem or RecordSent.                         *)
(***************************************************************************)
EntriesSound ==
  /\ inbox \subseteq arrived
  /\ ~disk.initialized => \A f \in Fingerprint : disk.deliveries[f] = Absent
  /\ \A f \in Fingerprint :
       /\ disk.deliveries[f].attempts <= MaxAttempts
       /\ disk.deliveries[f].status = "none" => disk.deliveries[f].attempts = 0
       /\ disk.deliveries[f].status = "delivered" => disk.deliveries[f].rev \in arrived

RunSound ==
  /\ pc \in Delivering \cup {"loop"} => disk.initialized
  /\ todo # {} => pc = "loop"
  /\ \A f \in todo : disk.deliveries[f].status \in Unconfirmed
  /\ pc \in {"check", "submit", "accepted", "refused"} =>
       /\ disk.deliveries[cur].status \in {"none"} \cup Unconfirmed
       /\ disk.deliveries[cur].attempts < MaxAttempts
  /\ pc = "confirm" => disk.deliveries[cur].status = "pending" /\ disk.deliveries[cur].rev = rev

(* Every attempt is in the ledger, was lost with an interrupted run, or is *)
(* about to be recorded.                                                   *)
InFlight(f) == IF pc \in {"accepted", "refused"} /\ cur = f THEN 1 ELSE 0

AttemptsAccounted ==
  \A f \in Fingerprint : submits[f] = disk.deliveries[f].attempts + unrecorded[f] + InFlight(f)

(* What the loop has left behind is settled, or in its wait.               *)
OrderSound ==
  pc \in Delivering \cup {"loop"} =>
    /\ left \subseteq items
    /\ \A i \in items \ left :
         disk.deliveries[i.fp].status \in Terminal \/ i.fp \in waiting \/ i.fp = cur
    /\ \A f \in Fingerprint : age[f] < RetryGrace => f \in waiting
    /\ pc = "confirm" => cur \in waiting
    /\ cur # None => \A j \in left : cur.id <= j.fp.id

IInv == EntriesSound /\ RunSound /\ AttemptsAccounted /\ OrderSound

(* A step outside the run, and what is seen of it inside.                  *)
LEMMA OutsideStep ==
  ASSUME IInv, UNCHANGED <<disk, pc, items, left, todo, waiting, cur, rev, submits, unrecorded>>,
         \A f \in Fingerprint : age'[f] < RetryGrace => age[f] < RetryGrace,
         inbox' \subseteq arrived', arrived \subseteq arrived'
  PROVE  IInv'
BY DEF IInv, EntriesSound, RunSound, AttemptsAccounted, InFlight, OrderSound, Unconfirmed

(* A run that ends with nothing in flight leaves the invariant to the file. *)
LEMMA EndStep ==
  ASSUME TypeOK, IInv, EndSync, UNCHANGED <<disk, inbox, arrived, submits>>,
         \A f \in Fingerprint : unrecorded'[f] = unrecorded[f] + InFlight(f)
  PROVE  IInv'
<1>1. EntriesSound' BY DEF IInv, EntriesSound
<1>2. RunSound' BY EndSyncType DEF RunSound, Delivering
<1>3. AttemptsAccounted'
  <2>1. \A f \in Fingerprint : InFlight(f) \in Nat /\ unrecorded[f] \in Nat /\ disk.deliveries[f].attempts \in Nat
    BY DEF InFlight, TypeOK, State, Delivery
  <2> QED BY <2>1, EndSyncType DEF IInv, AttemptsAccounted, InFlight
<1>4. OrderSound' BY EndSyncType DEF OrderSound, Delivering
<1> QED BY <1>1, <1>2, <1>3, <1>4 DEF IInv

(* The type of the entries, for the arithmetic on attempts.                *)
LEMMA EntryType ==
  ASSUME TypeOK, NEW f \in Fingerprint
  PROVE  /\ disk.deliveries \in [Fingerprint -> Delivery]
         /\ disk.deliveries[f] \in Delivery
         /\ disk.deliveries[f].attempts \in Nat
         /\ submits[f] \in Nat /\ unrecorded[f] \in Nat
BY DEF TypeOK, State, Delivery

(* A run that changes the entry of f to d, which is sound, and no other.   *)
Changed(f, d) ==
  /\ disk'.initialized = disk.initialized
  /\ disk'.deliveries = [disk.deliveries EXCEPT ![f] = d]
  /\ UNCHANGED <<inbox, arrived>>

LEMMA EntryStep ==
  ASSUME TypeOK, IInv, disk.initialized, NEW f \in Fingerprint, NEW d \in Delivery, Changed(f, d),
         d.status # "none", d.attempts <= MaxAttempts, d.status = "delivered" => d.rev \in arrived
  PROVE  /\ EntriesSound'
         /\ \A g \in Fingerprint : disk'.deliveries[g] = IF g = f THEN d ELSE disk.deliveries[g]
<1>1. \A g \in Fingerprint : disk'.deliveries[g] = IF g = f THEN d ELSE disk.deliveries[g]
  BY EntryType DEF Changed
<1>2. EntriesSound'
  BY <1>1 DEF Changed, IInv, EntriesSound
<1> QED BY <1>1, <1>2

(* The two ways Sync has of changing an entry.                             *)
LEMMA SaveEntry ==
  ASSUME TypeOK, NEW f \in Fingerprint, NEW status \in Statuses, NEW r \in Revision, NEW attempts \in Nat,
         disk' = WithEntry(disk, f, status, r, attempts), UNCHANGED <<inbox, arrived>>
  PROVE  /\ Changed(f, [status |-> status, rev |-> r, attempts |-> attempts])
         /\ [status |-> status, rev |-> r, attempts |-> attempts] \in Delivery
<1>1. disk \in State /\ r \in Revision \cup {None}
  BY DEF TypeOK
<1>2. /\ disk'.initialized = disk.initialized
      /\ disk'.deliveries = [disk.deliveries EXCEPT ![f] = [status |-> status, rev |-> r, attempts |-> attempts]]
  BY <1>1, WithEntryType
<1> QED BY <1>1, <1>2 DEF Changed, Delivery

LEMMA SaveStatus ==
  ASSUME TypeOK, NEW f \in Fingerprint, NEW status \in Statuses,
         disk' = WithStatus(disk, f, status), UNCHANGED <<inbox, arrived>>
  PROVE  LET d == [status |-> status, rev |-> disk.deliveries[f].rev, attempts |-> disk.deliveries[f].attempts]
         IN  Changed(f, d) /\ d \in Delivery
<1>1. disk \in State /\ disk.deliveries[f] \in Delivery
  BY EntryType DEF TypeOK
<1>2. /\ disk'.initialized = disk.initialized
      /\ disk'.deliveries = [disk.deliveries EXCEPT ![f] =
           [status |-> status, rev |-> disk.deliveries[f].rev, attempts |-> disk.deliveries[f].attempts]]
  BY <1>1, WithStatusType
<1> QED BY <1>1, <1>2 DEF Changed, Delivery

LEMMA IInvStep == TypeOK /\ TypeOK' /\ IInv /\ [Next]_vars => IInv'
<1> SUFFICES ASSUME TypeOK, TypeOK', IInv, [Next]_vars PROVE IInv'
  OBVIOUS
<1> USE DEF upstream, progress, mail, attempted, history
<1> USE LimitAssumption
<1>1. CASE StartSync
  BY <1>1 DEF StartSync, IInv, EntriesSound, RunSound, AttemptsAccounted, InFlight, OrderSound, Delivering,
              TypeOK
<1>2. CASE ListPage
  <2>1. CASE EndSync
    BY <1>2, <2>1, EndStep, EntryType DEF ListPage, InFlight
  <2>2. CASE ~EndSync
    BY <1>2, <2>2 DEF ListPage, IInv, EntriesSound, RunSound, AttemptsAccounted, InFlight, OrderSound, Delivering
  <2> QED BY <2>1, <2>2
<1>3. CASE Seed
  <2>1. \A f \in Fingerprint :
          \/ disk'.deliveries[f] = [status |-> "seeded", rev |-> None, attempts |-> 0]
          \/ disk'.deliveries[f] = disk.deliveries[f]
    BY <1>3 DEF Seed, Absent
  <2>2. disk'.initialized /\ inbox' = inbox /\ arrived' = arrived
    BY <1>3 DEF Seed
  <2>3. ASSUME NEW f \in Fingerprint
        PROVE  /\ disk'.deliveries[f].attempts <= MaxAttempts
               /\ disk'.deliveries[f].status = "none" => disk'.deliveries[f].attempts = 0
               /\ disk'.deliveries[f].status = "delivered" => disk'.deliveries[f].rev \in arrived
    BY <2>1 DEF IInv, EntriesSound
  <2>4. EntriesSound'
    BY <2>2, <2>3 DEF IInv, EntriesSound
  <2>5. RunSound' /\ OrderSound'
    BY <1>3, EndSyncType DEF Seed, RunSound, OrderSound, Delivering
  <2>6. ASSUME NEW f \in Fingerprint
        PROVE  disk'.deliveries[f].attempts = 0 /\ submits[f] = unrecorded[f]
    BY <1>3, <2>1, EntryType DEF Seed, IInv, EntriesSound, AttemptsAccounted, InFlight, Absent
  <2>7. AttemptsAccounted'
    BY <1>3, <2>6, EndSyncType, EntryType DEF Seed, AttemptsAccounted, InFlight
  <2> QED BY <2>4, <2>5, <2>7 DEF IInv
<1>4. CASE LoadState
  <2>1. disk'.initialized /\ disk'.deliveries = disk.deliveries
    BY <1>4 DEF LoadState, Save, TypeOK, State
  <2>2. EntriesSound'
    BY <1>4, <2>1 DEF LoadState, IInv, EntriesSound
  <2>3. RunSound'
    BY <1>4, <2>1 DEF LoadState, RunSound, Delivering
  <2>4. AttemptsAccounted'
    BY <1>4, <2>1 DEF LoadState, IInv, AttemptsAccounted, InFlight
  <2>5. OrderSound'
    BY <1>4, <2>1, NoneAssumption DEF LoadState, OrderSound, TypeOK
  <2> QED BY <2>2, <2>3, <2>4, <2>5 DEF IInv
<1>5. ASSUME NEW f \in Fingerprint, Reconcile(f) PROVE IInv'
  <2>1. /\ pc = "loop" /\ pc' = "loop" /\ f \in todo /\ todo' = todo \ {f} /\ ledger = disk
        /\ disk.deliveries[f].status \in Unconfirmed
        /\ UNCHANGED <<items, left, waiting, age, cur, inbox, arrived, submits, unrecorded>>
    BY <1>5 DEF Reconcile, TypeOK, IInv, RunSound
  <2>2. CASE ~Contains(Entry(f).rev)
    <3>1. disk' = disk
      BY <1>5, <2>2 DEF Reconcile
    <3> QED BY <2>1, <3>1 DEF IInv, EntriesSound, RunSound, AttemptsAccounted, InFlight, OrderSound, Delivering
  <2>3. CASE Contains(Entry(f).rev)
    <3> DEFINE d == [status |-> "delivered", rev |-> disk.deliveries[f].rev,
                     attempts |-> disk.deliveries[f].attempts]
    <3>1. disk' = WithStatus(disk, f, "delivered") /\ UNCHANGED <<inbox, arrived>>
      BY <1>5, <2>1, <2>3 DEF Reconcile, Save
    <3>2. Changed(f, d) /\ d \in Delivery
      BY <3>1, SaveStatus DEF Statuses
    <3>3. d.rev \in arrived /\ d.attempts <= MaxAttempts
      BY <2>1, <2>3 DEF Contains, Entry, IInv, EntriesSound
    <3>4. EntriesSound' /\ \A g \in Fingerprint : disk'.deliveries[g] = IF g = f THEN d ELSE disk.deliveries[g]
      <4>1. disk.initialized
        BY <2>1 DEF IInv, RunSound
      <4> HIDE DEF d
      <4>2. d.status = "delivered"
        BY DEF d
      <4> QED BY <3>2, <3>3, <4>1, <4>2, EntryStep
    <3>5. RunSound'
      BY <2>1, <3>2, <3>4 DEF IInv, RunSound, TypeOK, Changed, Delivering
    <3>6. AttemptsAccounted'
      BY <2>1, <3>4 DEF IInv, AttemptsAccounted, InFlight
    <3>7. OrderSound'
      BY <2>1, <3>4, ListedType DEF IInv, OrderSound, TypeOK, Terminal
    <3> QED BY <3>4, <3>5, <3>6, <3>7 DEF IInv
  <2> QED BY <2>2, <2>3
<1>6. ASSUME NEW i \in left, SkipItem(i) PROVE IInv'
  <2>1. /\ pc = "loop" /\ pc' = "loop" /\ todo' = todo /\ left' = left \ {i} /\ ledger = disk
        /\ disk.deliveries[i.fp].status \in Terminal \/ ~Waited(i.fp)
        /\ UNCHANGED <<disk, items, waiting, age, cur, inbox, arrived, submits, unrecorded>>
    BY <1>6 DEF SkipItem, AtItem, Entry, TypeOK
  <2>2. disk.deliveries[i.fp].status \in Terminal \/ i.fp \in waiting
    <3>1. i.fp \in Fingerprint /\ age[i.fp] \in Nat /\ RetryGrace \in Nat
      BY ListedType DEF TypeOK
    <3> QED BY <2>1, <3>1 DEF Waited, IInv, OrderSound
  <2> QED BY <2>1, <2>2 DEF IInv, EntriesSound, RunSound, AttemptsAccounted, InFlight, OrderSound, Delivering, TypeOK
<1>7. ASSUME NEW i \in left, GiveUp(i) PROVE IInv'
  <2> DEFINE f == i.fp
             d == [status |-> "failed", rev |-> disk.deliveries[f].rev,
                   attempts |-> disk.deliveries[f].attempts]
  <2>1. /\ pc = "loop" /\ pc' = "loop" /\ todo = {} /\ todo' = todo /\ left' = left \ {i} /\ ledger = disk
        /\ f \in Fingerprint
        /\ UNCHANGED <<items, waiting, age, cur, inbox, arrived, submits, unrecorded>>
    BY <1>7, ListedType DEF GiveUp, AtItem, TypeOK
  <2>2. disk' = WithStatus(disk, f, "failed")
    BY <1>7, <2>1 DEF GiveUp, Save
  <2>3. Changed(f, d) /\ d \in Delivery
    BY <2>1, <2>2, SaveStatus DEF Statuses
  <2>4. EntriesSound' /\ \A g \in Fingerprint : disk'.deliveries[g] = IF g = f THEN d ELSE disk.deliveries[g]
    <3>1. disk.initialized /\ d.attempts <= MaxAttempts
      BY <2>1 DEF IInv, RunSound, EntriesSound
    <3>2. d.status = "failed"
      OBVIOUS
    <3> HIDE DEF d, f
    <3> QED BY <2>1, <2>3, <3>1, <3>2, EntryStep
  <2>5. RunSound'
    BY <2>1, <2>3, <2>4 DEF IInv, RunSound, TypeOK, Changed, Delivering
  <2>6. AttemptsAccounted'
    BY <2>1, <2>4 DEF IInv, AttemptsAccounted, InFlight
  <2>7. OrderSound'
    BY <2>1, <2>4, ListedType DEF IInv, OrderSound, TypeOK, Terminal
  <2> QED BY <2>4, <2>5, <2>6, <2>7 DEF IInv
<1>8. ASSUME NEW i \in left, FetchItem(i) PROVE IInv'
  <2>1. CASE EndSync
    BY <1>8, <2>1, EndStep, EntryType DEF FetchItem, AtItem, InFlight
  <2>2. CASE ~EndSync
    <3>1. /\ pc = "loop" /\ pc' = "check" /\ todo = {} /\ todo' = {} /\ left' = left \ {i} /\ ledger = disk
          /\ cur = None /\ cur' = i.fp /\ i.fp \in Fingerprint
          /\ \A j \in left : ~Before(j, i)
          /\ UNCHANGED <<disk, items, waiting, age, inbox, arrived, submits, unrecorded>>
      BY <1>8, <2>2, ListedType DEF FetchItem, AtItem, TypeOK
    <3>2. /\ disk.deliveries[i.fp].status \in {"none"} \cup Unconfirmed
          /\ disk.deliveries[i.fp].attempts < MaxAttempts
      BY <1>8, <3>1, EntryType DEF FetchItem, Due, UsedUp, Entry, IInv, EntriesSound
    <3>3. EntriesSound' /\ RunSound' /\ AttemptsAccounted'
      BY <3>1, <3>2 DEF IInv, EntriesSound, RunSound, AttemptsAccounted, InFlight, Delivering
    <3>4. \A j \in left : i.fp.id <= j.fp.id
      <4> SUFFICES ASSUME NEW j \in left PROVE i.fp.id <= j.fp.id
        OBVIOUS
      <4>1. i.fp.id \in Nat /\ j.fp.id \in Nat
        BY ListedType, NewsAssumption DEF TypeOK
      <4> QED BY <3>1, <4>1 DEF Before
    <3>5. \A k \in items : k.fp # None
      BY ListedType, NoneAssumption DEF TypeOK
    <3>6. OrderSound'
      BY <3>1, <3>4, <3>5 DEF IInv, OrderSound
    <3> QED BY <3>3, <3>6 DEF IInv
  <2> QED BY <2>1, <2>2
<1>9. CASE FinishSync
  BY <1>9, EndStep, EntryType DEF FinishSync, InFlight
<1>10. CASE CheckMailbox
  <2>1. /\ pc = "check" /\ ledger = disk /\ cur \in Fingerprint /\ rev \in Revision
        /\ UNCHANGED <<items, left, todo, waiting, age, inbox, arrived, submits, unrecorded>>
    BY <1>10 DEF CheckMailbox, TypeOK
  <2>2. CASE ~Contains(rev)
    <3>1. pc' = "submit" /\ UNCHANGED <<cur, rev, disk>>
      BY <1>10, <2>2 DEF CheckMailbox
    <3> QED BY <2>1, <3>1 DEF IInv, EntriesSound, RunSound, AttemptsAccounted, InFlight, OrderSound, Delivering
  <2>3. CASE Contains(rev)
    <3> DEFINE d == [status |-> "delivered", rev |-> rev, attempts |-> disk.deliveries[cur].attempts]
    <3>1. /\ pc' = "loop" /\ cur' = None
          /\ disk' = WithEntry(disk, cur, "delivered", rev, disk.deliveries[cur].attempts)
      BY <1>10, <2>1, <2>3 DEF CheckMailbox, Save, Entry
    <3>2. Changed(cur, d) /\ d \in Delivery
      BY <2>1, <3>1, SaveEntry, EntryType DEF Statuses
    <3>3. EntriesSound' /\ \A g \in Fingerprint : disk'.deliveries[g] = IF g = cur THEN d ELSE disk.deliveries[g]
      <4>1. disk.initialized /\ d.attempts <= MaxAttempts /\ d.rev \in arrived
        BY <2>1, <2>3 DEF IInv, RunSound, EntriesSound, Delivering, Contains
      <4>2. d.status = "delivered"
        OBVIOUS
      <4> HIDE DEF d
      <4> QED BY <2>1, <3>2, <4>1, <4>2, EntryStep
    <3>4. RunSound'
      BY <2>1, <3>1, <3>2 DEF IInv, RunSound, Changed, Delivering
    <3>5. AttemptsAccounted'
      BY <2>1, <3>1, <3>3 DEF IInv, AttemptsAccounted, InFlight
    <3>6. OrderSound'
      <4>1. OrderSound /\ pc = "check" /\ items \subseteq Listed /\ d.status \in Terminal
        BY <2>1 DEF IInv, TypeOK, Terminal
      <4>2. \A i \in items' \ left' : disk'.deliveries[i.fp].status \in Terminal \/ i.fp \in waiting'
        <5> HIDE DEF d
        <5> QED BY <2>1, <3>3, <4>1, ListedType DEF OrderSound, Delivering
      <4> QED BY <2>1, <3>1, <4>1, <4>2 DEF OrderSound, Delivering
    <3> QED BY <3>3, <3>4, <3>5, <3>6 DEF IInv
  <2> QED BY <2>2, <2>3
<1>11. CASE TooLarge
  BY <1>11, EndStep, EntryType DEF TooLarge, InFlight
<1>12. CASE Submit
  <2>1. /\ pc = "submit" /\ pc' \in {"accepted", "refused"} /\ cur \in Fingerprint
        /\ submits' = [submits EXCEPT ![cur] = @ + 1]
        /\ UNCHANGED <<items, left, todo, waiting, age, cur, rev, disk, inbox, arrived, unrecorded>>
    BY <1>12 DEF Submit, TypeOK
  <2>2. EntriesSound' /\ RunSound' /\ OrderSound'
    BY <2>1 DEF IInv, EntriesSound, RunSound, OrderSound, Delivering
  <2>3. AttemptsAccounted'
    BY <2>1, EntryType DEF IInv, AttemptsAccounted, InFlight, TypeOK
  <2> QED BY <2>2, <2>3 DEF IInv
<1>13. CASE RecordError
  <2> DEFINE attempts == disk.deliveries[cur].attempts + 1
             status == IF attempts >= MaxAttempts THEN "failed" ELSE "retry_wait"
             d == [status |-> status, rev |-> rev, attempts |-> attempts]
  <2>1. /\ pc = "refused" /\ ledger = disk /\ cur \in Fingerprint /\ rev \in Revision
        /\ UNCHANGED <<inbox, arrived, submits, unrecorded>>
    BY <1>13 DEF RecordError, TypeOK
  <2>2. disk' = WithEntry(disk, cur, status, rev, attempts)
    BY <1>13, <2>1 DEF RecordError, Entry
  <2>3. attempts \in Nat /\ status \in Statuses
    BY <2>1, EntryType DEF Statuses
  <2>4. Changed(cur, d) /\ d \in Delivery
    <3> HIDE DEF attempts, status
    <3> QED BY <2>1, <2>2, <2>3, SaveEntry
  <2>5. EntriesSound' /\ \A g \in Fingerprint : disk'.deliveries[g] = IF g = cur THEN d ELSE disk.deliveries[g]
    <3>1. disk.initialized /\ d.attempts <= MaxAttempts
      BY <2>1, EntryType DEF IInv, RunSound, Delivering
    <3>2. d.status # "none" /\ d.status # "delivered"
      OBVIOUS
    <3> HIDE DEF d
    <3> QED BY <2>1, <2>4, <3>1, <3>2, EntryStep
  <2>6. RunSound' /\ OrderSound'
    BY <1>13, EndSyncType DEF RecordError, RunSound, OrderSound, Delivering
  <2>7. AttemptsAccounted'
    <3> SUFFICES ASSUME NEW g \in Fingerprint
                 PROVE  submits'[g] = disk'.deliveries[g].attempts + unrecorded'[g] + InFlight(g)'
      BY DEF AttemptsAccounted
    <3>1. disk'.deliveries[g].attempts = disk.deliveries[g].attempts + InFlight(g)
      BY <2>1, <2>5, EntryType DEF InFlight
    <3>2. InFlight(g)' = 0
      BY <1>13, EndSyncType DEF RecordError, InFlight
    <3>3. submits[g] = disk.deliveries[g].attempts + unrecorded[g] + InFlight(g)
      BY DEF IInv, AttemptsAccounted
    <3>4. InFlight(g) \in Nat /\ disk.deliveries[g].attempts \in Nat /\ unrecorded[g] \in Nat
      BY EntryType DEF InFlight
    <3> QED BY <2>1, <3>1, <3>2, <3>3, <3>4
  <2> QED BY <2>5, <2>6, <2>7 DEF IInv
<1>14. CASE RecordSent
  <2> DEFINE attempts == disk.deliveries[cur].attempts + 1
             d == [status |-> "pending", rev |-> rev, attempts |-> attempts]
  <2>1. /\ pc = "accepted" /\ pc' = "confirm" /\ ledger = disk /\ cur \in Fingerprint /\ rev \in Revision
        /\ waiting' = waiting \cup {cur} /\ age' = [age EXCEPT ![cur] = 0]
        /\ UNCHANGED <<items, left, todo, cur, rev, inbox, arrived, submits, unrecorded>>
    BY <1>14 DEF RecordSent, TypeOK
  <2>2. disk' = WithEntry(disk, cur, "pending", rev, attempts)
    BY <1>14, <2>1 DEF RecordSent, Save, Entry
  <2>3. attempts \in Nat
    BY <2>1, EntryType
  <2>4. Changed(cur, d) /\ d \in Delivery
    <3> HIDE DEF attempts
    <3> QED BY <2>1, <2>2, <2>3, SaveEntry DEF Statuses
  <2>5. EntriesSound' /\ \A g \in Fingerprint : disk'.deliveries[g] = IF g = cur THEN d ELSE disk.deliveries[g]
    <3>1. disk.initialized /\ d.attempts <= MaxAttempts
      BY <2>1, EntryType DEF IInv, RunSound, Delivering
    <3>2. d.status = "pending"
      OBVIOUS
    <3> HIDE DEF d
    <3> QED BY <2>1, <2>4, <3>1, <3>2, EntryStep
  <2>6. RunSound'
    BY <2>1, <2>4, <2>5 DEF IInv, RunSound, Changed, Delivering
  <2>7. AttemptsAccounted'
    <3> SUFFICES ASSUME NEW g \in Fingerprint
                 PROVE  submits'[g] = disk'.deliveries[g].attempts + unrecorded'[g] + InFlight(g)'
      BY DEF AttemptsAccounted
    <3>1. disk'.deliveries[g].attempts = disk.deliveries[g].attempts + InFlight(g)
      BY <2>1, <2>5, EntryType DEF InFlight
    <3>2. InFlight(g)' = 0
      BY <2>1 DEF InFlight
    <3>3. submits[g] = disk.deliveries[g].attempts + unrecorded[g] + InFlight(g)
      BY DEF IInv, AttemptsAccounted
    <3>4. InFlight(g) \in Nat /\ disk.deliveries[g].attempts \in Nat /\ unrecorded[g] \in Nat
      BY EntryType DEF InFlight
    <3> QED BY <2>1, <3>1, <3>2, <3>3, <3>4
  <2>8. OrderSound'
    <3>1. \A f \in Fingerprint : age'[f] < RetryGrace => f \in waiting'
      BY <2>1 DEF IInv, OrderSound, TypeOK, Delivering
    <3> QED BY <2>1, <2>5, <3>1, ListedType DEF IInv, OrderSound, TypeOK, Delivering
  <2> QED BY <2>5, <2>6, <2>7, <2>8 DEF IInv
<1>15. CASE ConfirmSent
  <2>1. /\ pc = "confirm" /\ pc' = "loop" /\ cur' = None /\ ledger = disk
        /\ cur \in Fingerprint /\ rev \in Revision
        /\ disk.deliveries[cur].status = "pending" /\ disk.deliveries[cur].rev = rev
        /\ UNCHANGED <<items, left, todo, waiting, age, inbox, arrived, submits, unrecorded>>
    BY <1>15 DEF ConfirmSent, TypeOK, IInv, RunSound
  <2>2. CASE ~Contains(rev)
    <3>1. UNCHANGED disk
      BY <1>15, <2>2 DEF ConfirmSent
    <3>2. EntriesSound' /\ RunSound' /\ AttemptsAccounted'
      BY <2>1, <3>1 DEF IInv, EntriesSound, RunSound, AttemptsAccounted, InFlight, Delivering
    <3>3. OrderSound'
      BY <2>1, <3>1, ListedType DEF IInv, OrderSound, TypeOK, Delivering
    <3> QED BY <3>2, <3>3 DEF IInv
  <2>3. CASE Contains(rev)
    <3> DEFINE d == [status |-> "delivered", rev |-> disk.deliveries[cur].rev,
                     attempts |-> disk.deliveries[cur].attempts]
    <3>1. disk' = WithStatus(disk, cur, "delivered")
      BY <1>15, <2>1, <2>3 DEF ConfirmSent, Save
    <3>2. Changed(cur, d) /\ d \in Delivery
      BY <2>1, <3>1, SaveStatus DEF Statuses
    <3>3. EntriesSound' /\ \A g \in Fingerprint : disk'.deliveries[g] = IF g = cur THEN d ELSE disk.deliveries[g]
      <4>1. disk.initialized /\ d.attempts <= MaxAttempts /\ d.rev \in arrived
        BY <2>1, <2>3 DEF IInv, RunSound, EntriesSound, Delivering, Contains
      <4>2. d.status = "delivered"
        OBVIOUS
      <4> HIDE DEF d
      <4> QED BY <2>1, <3>2, <4>1, <4>2, EntryStep
    <3>4. RunSound'
      BY <2>1, <3>2 DEF IInv, RunSound, Changed, Delivering
    <3>5. AttemptsAccounted'
      BY <2>1, <3>3 DEF IInv, AttemptsAccounted, InFlight
    <3>6. OrderSound'
      BY <2>1, <3>3, ListedType DEF IInv, OrderSound, TypeOK, Delivering
    <3> QED BY <3>3, <3>4, <3>5, <3>6 DEF IInv
  <2> QED BY <2>2, <2>3
<1>16. CASE Interrupt
  <2>1. \A f \in Fingerprint : unrecorded'[f] = unrecorded[f] + InFlight(f)
    BY <1>16, EntryType DEF Interrupt, InFlight, TypeOK
  <2> QED BY <1>16, <2>1, EndStep DEF Interrupt
<1>17. ASSUME NEW n \in News, Publish(n) \/ Edit(n) \/ Delete(n) PROVE IInv'
  <2>1. UNCHANGED <<disk, pc, items, left, todo, waiting, age, cur, rev, submits, unrecorded, inbox, arrived>>
    BY <1>17 DEF Publish, Edit, Delete
  <2> QED BY <2>1, OutsideStep DEF IInv, EntriesSound
<1>18. ASSUME NEW m \in transit, ArriveMail(m) \/ LoseMail(m) PROVE IInv'
  <2>1. /\ UNCHANGED <<disk, pc, items, left, todo, waiting, age, cur, rev, submits, unrecorded>>
        /\ inbox' \subseteq arrived' /\ arrived \subseteq arrived'
    BY <1>18 DEF ArriveMail, LoseMail, IInv, EntriesSound
  <2> QED BY <2>1, OutsideStep
<1>18r. ASSUME NEW r \in inbox, RemoveMail(r) PROVE IInv'
  <2>1. /\ UNCHANGED <<disk, pc, items, left, todo, waiting, age, cur, rev, submits, unrecorded>>
        /\ inbox' \subseteq arrived' /\ arrived \subseteq arrived'
    BY <1>18r DEF RemoveMail, IInv, EntriesSound
  <2> QED BY <2>1, OutsideStep
<1>19. CASE Tick
  <2>1. \A f \in Fingerprint : age'[f] < RetryGrace => age[f] < RetryGrace
    BY <1>19 DEF Tick, Older, TypeOK
  <2> QED BY <1>19, <2>1, OutsideStep DEF Tick, IInv, EntriesSound
<1>20. CASE UNCHANGED vars
  BY <1>20, OutsideStep DEF vars, IInv, EntriesSound
<1> QED BY <1>1, <1>2, <1>3, <1>4, <1>5, <1>6, <1>7, <1>8, <1>9, <1>10, <1>11, <1>12,
           <1>13, <1>14, <1>15, <1>16, <1>17, <1>18, <1>18r, <1>19, <1>20
        DEF Next, SyncStep, ListStep, LoopStep, DeliverStep

LEMMA IInvInit == Init => IInv
BY LimitAssumption
   DEF Init, IInv, EntriesSound, RunSound, AttemptsAccounted, InFlight, OrderSound, Delivering,
       EmptyState, Absent

THEOREM Invariant == Spec => [](TypeOK /\ IInv)
BY TypeOKInit, TypeOKStep, IInvInit, IInvStep, PTL DEF Spec

(* The ledger's count bounds the SMTP attempts made for a listed item.     *)
THEOREM AttemptsAreBounded == Spec => []AttemptsBounded
<1>1. TypeOK /\ IInv => AttemptsBounded
  <2> SUFFICES ASSUME TypeOK, IInv, NEW f \in Fingerprint
               PROVE  submits[f] <= MaxAttempts + unrecorded[f]
    BY DEF AttemptsBounded
  <2>1. disk.deliveries[f].attempts + InFlight(f) <= MaxAttempts
    BY EntryType, LimitAssumption DEF IInv, EntriesSound, RunSound, InFlight
  <2> QED BY <2>1, EntryType, LimitAssumption DEF IInv, AttemptsAccounted, InFlight
<1> QED BY <1>1, Invariant, PTL

(* "delivered" is never recorded on the word of the SMTP server.           *)
THEOREM DeliveredIsSeen == Spec => []DeliveredWasSeen
<1>1. IInv => DeliveredWasSeen
  BY DEF IInv, EntriesSound, DeliveredWasSeen
<1> QED BY <1>1, Invariant, PTL

(* An item is delivered after everything older of its listing is settled,  *)
(* except what waits for its retry.                                        *)
THEOREM OldestIsFirst == Spec => []OldestFirst
<1>1. TypeOK /\ IInv => OldestFirst
  <2> SUFFICES ASSUME TypeOK, IInv, cur # None, NEW i \in items, i.fp.id < cur.id
               PROVE  disk.deliveries[i.fp].status \in Terminal \/ i.fp \in waiting
    BY DEF OldestFirst
  <2>1. pc \in Delivering /\ cur \in Fingerprint
    BY DEF TypeOK, Delivering
  <2>2. i.fp.id \in Nat /\ cur.id \in Nat
    BY <2>1, ListedType, NewsAssumption DEF TypeOK, Fingerprint
  <2>3. i \notin left /\ i.fp # cur
    BY <2>1, <2>2 DEF IInv, OrderSound
  <2> QED BY <2>1, <2>3 DEF IInv, OrderSound
<1> QED BY <1>1, Invariant, PTL

(***************************************************************************)
(* Message2Mail implements DeliveryLedger, and two properties that rest on *)
(* what the mailbox is asked before a submission.                          *)
(***************************************************************************)
LEMMA LedgerInit == Init => Ledger!Init
BY DEF Init, Ledger!Init, EmptyState, Absent, Ledger!Absent

(* Nothing the abstract ledger knows of has changed.                       *)
LEMMA Stutter ==
  ASSUME UNCHANGED <<disk, arrived>>
  PROVE  [Ledger!Next]_(Ledger!vars)
BY DEF Ledger!vars

(* The run sees in the mailbox what it records as delivered.               *)
LEMMA ConfirmStep ==
  ASSUME TypeOK, IInv, disk.initialized, NEW f \in Fingerprint, NEW r \in Revision, r \in arrived,
         disk.deliveries[f].status \in {"none"} \cup Unconfirmed,
         Changed(f, [status |-> "delivered", rev |-> r, attempts |-> disk.deliveries[f].attempts])
  PROVE  Ledger!Next
<1>1. Ledger!Confirm(f, r)
  BY DEF Ledger!Confirm, Ledger!Open, Ledger!SetEntry, Changed, Unconfirmed
<1> QED BY <1>1 DEF Ledger!Next

(* The run records the outcome of one attempt.                             *)
LEMMA AttemptStep ==
  ASSUME TypeOK, IInv, disk.initialized, NEW f \in Fingerprint, NEW r \in Revision, NEW status,
         disk.deliveries[f].status \in {"none"} \cup Unconfirmed,
         disk.deliveries[f].attempts < MaxAttempts,
         \/ status = "pending"
         \/ status = "failed" /\ disk.deliveries[f].attempts + 1 >= MaxAttempts
         \/ status = "retry_wait" /\ ~(disk.deliveries[f].attempts + 1 >= MaxAttempts),
         Changed(f, [status |-> status, rev |-> r, attempts |-> disk.deliveries[f].attempts + 1])
  PROVE  Ledger!Next
<1>1. disk.deliveries[f].attempts \in Nat /\ MaxAttempts \in Nat
  BY EntryType, LimitAssumption
<1>2. Ledger!Attempt(f, r)
  BY <1>1 DEF Ledger!Attempt, Ledger!Open, Ledger!SetEntry, Changed, Unconfirmed
<1> QED BY <1>2 DEF Ledger!Next

LEMMA LedgerStep == TypeOK /\ IInv /\ [Next]_vars => [Ledger!Next]_(Ledger!vars)
<1> SUFFICES ASSUME TypeOK, IInv, [Next]_vars PROVE [Ledger!Next]_(Ledger!vars)
  OBVIOUS
<1> USE DEF upstream, progress, mail, attempted, history
<1>1. CASE StartSync \/ ListPage \/ FinishSync \/ TooLarge \/ Submit \/ Interrupt \/ Tick \/ UNCHANGED vars
  <2>1. UNCHANGED <<disk, arrived>>
    BY <1>1 DEF StartSync, ListPage, FinishSync, TooLarge, Submit, Interrupt, Tick, vars
  <2> QED BY <2>1, Stutter
<1>2. CASE Seed
  <2> DEFINE S == {i.fp : i \in items}
  <2>1. S \in SUBSET Fingerprint
    BY ListedType DEF TypeOK
  <2>2. Ledger!Initialize(S)
    BY <1>2 DEF Seed, Ledger!Initialize, Absent, Ledger!Absent
  <2> QED BY <2>1, <2>2 DEF Ledger!Next
<1>3. CASE LoadState
  <2>1. disk'.initialized = TRUE /\ disk'.deliveries = disk.deliveries /\ arrived' = arrived
    BY <1>3 DEF LoadState, Save, TypeOK, State
  <2>2. CASE disk.initialized
    <3>1. disk.initialized = TRUE
      BY <2>2 DEF TypeOK, State
    <3> QED BY <2>1, <3>1 DEF Ledger!vars
  <2>3. CASE ~disk.initialized
    <3>1. Ledger!Initialize({})
      <4>1. disk.deliveries = [g \in Fingerprint |-> disk.deliveries[g]]
        BY DEF TypeOK, State
      <4>2. disk.deliveries = [g \in Fingerprint |-> IF g \in {} THEN [Ledger!Absent EXCEPT !.status = "seeded"]
                                                      ELSE disk.deliveries[g]]
        BY <4>1
      <4> QED BY <2>1, <2>3, <4>2 DEF Ledger!Initialize
    <3> QED BY <3>1 DEF Ledger!Next
  <2> QED BY <2>2, <2>3
<1>4. ASSUME NEW f \in Fingerprint, Reconcile(f) PROVE [Ledger!Next]_(Ledger!vars)
  <2>1. /\ pc = "loop" /\ ledger = disk /\ disk.initialized /\ UNCHANGED <<inbox, arrived>>
        /\ disk.deliveries[f].status \in Unconfirmed
    BY <1>4 DEF Reconcile, TypeOK, IInv, RunSound
  <2>2. CASE ~Contains(Entry(f).rev)
    <3>1. UNCHANGED <<disk, arrived>>
      BY <1>4, <2>2 DEF Reconcile
    <3> QED BY <3>1, Stutter
  <2>3. CASE Contains(Entry(f).rev)
    <3>1. disk' = WithStatus(disk, f, "delivered")
      BY <1>4, <2>1, <2>3 DEF Reconcile, Save
    <3>2. disk.deliveries[f].rev \in Revision /\ disk.deliveries[f].rev \in arrived
      BY <2>1, <2>3 DEF Contains, Entry, IInv, EntriesSound, TypeOK
    <3> QED BY <2>1, <3>1, <3>2, SaveStatus, ConfirmStep DEF Statuses
  <2> QED BY <2>2, <2>3
<1>5. ASSUME NEW i \in left, SkipItem(i) \/ FetchItem(i) PROVE [Ledger!Next]_(Ledger!vars)
  BY <1>5, Stutter DEF SkipItem, FetchItem
<1>6. ASSUME NEW i \in left, GiveUp(i) PROVE [Ledger!Next]_(Ledger!vars)
  <2> DEFINE f == i.fp
  <2>1. /\ ledger = disk /\ disk.initialized /\ UNCHANGED <<inbox, arrived>> /\ f \in Fingerprint
        /\ disk.deliveries[f].status \in Unconfirmed
        /\ disk' = WithStatus(disk, f, "failed")
    BY <1>6, ListedType DEF GiveUp, AtItem, Save, Entry, TypeOK, IInv, RunSound
  <2>2. disk.deliveries[f].attempts = MaxAttempts
    <3>1. disk.deliveries[f].attempts >= MaxAttempts
      BY <1>6, <2>1 DEF GiveUp, UsedUp, Entry
    <3> QED BY <2>1, <3>1, EntryType, LimitAssumption DEF IInv, EntriesSound
  <2> HIDE DEF f
  <2>3. Changed(f, [status |-> "failed", rev |-> disk.deliveries[f].rev, attempts |-> MaxAttempts])
    BY <2>1, <2>2, SaveStatus DEF Statuses
  <2>4. Ledger!GiveUp(f)
    BY <2>1, <2>2, <2>3 DEF Ledger!GiveUp, Ledger!SetEntry, Changed, Unconfirmed
  <2> QED BY <2>1, <2>4 DEF Ledger!Next
<1>7. CASE CheckMailbox
  <2>1. /\ pc = "check" /\ ledger = disk /\ disk.initialized /\ UNCHANGED <<inbox, arrived>>
        /\ cur \in Fingerprint /\ rev \in Revision
        /\ disk.deliveries[cur].status \in {"none"} \cup Unconfirmed
    BY <1>7 DEF CheckMailbox, TypeOK, IInv, RunSound, Delivering
  <2>2. CASE ~Contains(rev)
    BY <1>7, <2>2, Stutter DEF CheckMailbox
  <2>3. CASE Contains(rev)
    <3>1. disk' = WithEntry(disk, cur, "delivered", rev, disk.deliveries[cur].attempts)
      BY <1>7, <2>1, <2>3 DEF CheckMailbox, Save, Entry
    <3>2. Changed(cur, [status |-> "delivered", rev |-> rev, attempts |-> disk.deliveries[cur].attempts])
      BY <2>1, <3>1, SaveEntry, EntryType DEF Statuses
    <3>3. rev \in arrived
      BY <2>3 DEF Contains, IInv, EntriesSound
    <3> QED BY <2>1, <3>2, <3>3, ConfirmStep
  <2> QED BY <2>2, <2>3
<1>8. CASE RecordError
  <2> DEFINE attempts == disk.deliveries[cur].attempts + 1
             status == IF attempts >= MaxAttempts THEN "failed" ELSE "retry_wait"
  <2>1. /\ ledger = disk /\ disk.initialized /\ UNCHANGED <<inbox, arrived>>
        /\ cur \in Fingerprint /\ rev \in Revision
        /\ disk.deliveries[cur].status \in {"none"} \cup Unconfirmed
        /\ disk.deliveries[cur].attempts < MaxAttempts
    BY <1>8 DEF RecordError, TypeOK, IInv, RunSound, Delivering
  <2>2. disk' = WithEntry(disk, cur, status, rev, attempts)
    BY <1>8, <2>1 DEF RecordError, Entry
  <2>3. attempts \in Nat /\ status \in Statuses
    BY <2>1, EntryType DEF Statuses
  <2>4. Changed(cur, [status |-> status, rev |-> rev, attempts |-> attempts])
    <3> HIDE DEF attempts, status
    <3> QED BY <2>1, <2>2, <2>3, SaveEntry
  <2>5. \/ status = "failed" /\ disk.deliveries[cur].attempts + 1 >= MaxAttempts
        \/ status = "retry_wait" /\ ~(disk.deliveries[cur].attempts + 1 >= MaxAttempts)
    OBVIOUS
  <2> HIDE DEF status
  <2> QED BY <2>1, <2>4, <2>5, AttemptStep
<1>9. CASE RecordSent
  <2>1. /\ ledger = disk /\ disk.initialized /\ UNCHANGED <<inbox, arrived>>
        /\ cur \in Fingerprint /\ rev \in Revision
        /\ disk.deliveries[cur].status \in {"none"} \cup Unconfirmed
        /\ disk.deliveries[cur].attempts < MaxAttempts
    BY <1>9 DEF RecordSent, TypeOK, IInv, RunSound, Delivering
  <2>2. disk' = WithEntry(disk, cur, "pending", rev, disk.deliveries[cur].attempts + 1)
    BY <1>9, <2>1 DEF RecordSent, Save, Entry
  <2>3. disk.deliveries[cur].attempts + 1 \in Nat
    BY <2>1, EntryType
  <2>4. Changed(cur, [status |-> "pending", rev |-> rev, attempts |-> disk.deliveries[cur].attempts + 1])
    BY <2>1, <2>2, <2>3, SaveEntry DEF Statuses
  <2> QED BY <2>1, <2>4, AttemptStep
<1>10. CASE ConfirmSent
  <2>1. /\ pc = "confirm" /\ ledger = disk /\ disk.initialized /\ UNCHANGED <<inbox, arrived>>
        /\ cur \in Fingerprint /\ rev \in Revision
        /\ disk.deliveries[cur].status = "pending" /\ disk.deliveries[cur].rev = rev
    BY <1>10 DEF ConfirmSent, TypeOK, IInv, RunSound, Delivering
  <2>2. CASE ~Contains(rev)
    BY <1>10, <2>2, Stutter DEF ConfirmSent
  <2>3. CASE Contains(rev)
    <3>1. disk' = WithStatus(disk, cur, "delivered")
      BY <1>10, <2>1, <2>3 DEF ConfirmSent, Save
    <3>2. Changed(cur, [status |-> "delivered", rev |-> rev, attempts |-> disk.deliveries[cur].attempts])
      BY <2>1, <3>1, SaveStatus DEF Statuses
    <3>3. rev \in arrived
      BY <2>3 DEF Contains, IInv, EntriesSound
    <3> QED BY <2>1, <3>2, <3>3, ConfirmStep DEF Unconfirmed
  <2> QED BY <2>2, <2>3
<1>11. ASSUME NEW n \in News, Publish(n) \/ Edit(n) \/ Delete(n) PROVE [Ledger!Next]_(Ledger!vars)
  BY <1>11, Stutter DEF Publish, Edit, Delete
<1>12. ASSUME NEW m \in transit, ArriveMail(m) \/ LoseMail(m) PROVE [Ledger!Next]_(Ledger!vars)
  <2>1. CASE ArriveMail(m)
    <3>1. Ledger!Arrive(m.rev) /\ m.rev \in Revision
      BY <2>1 DEF ArriveMail, Ledger!Arrive, TypeOK, Mail
    <3> QED BY <3>1 DEF Ledger!Next
  <2>2. CASE LoseMail(m)
    BY <2>2, Stutter DEF LoseMail
  <2> QED BY <1>12, <2>1, <2>2
<1>13. ASSUME NEW r \in inbox, RemoveMail(r) PROVE [Ledger!Next]_(Ledger!vars)
  BY <1>13, Stutter DEF RemoveMail
<1> QED BY <1>1, <1>2, <1>3, <1>4, <1>5, <1>6, <1>7, <1>8, <1>9, <1>10, <1>11, <1>12, <1>13
        DEF Next, SyncStep, ListStep, LoopStep, DeliverStep

(* The service keeps the ledger that DeliveryLedger promises: entries only *)
(* move forward, attempts are counted one by one up to MaxAttempts, and a  *)
(* settled entry stays as it is.                                           *)
THEOREM ImplementsLedger == Spec => LedgerSpec
BY LedgerInit, LedgerStep, Invariant, PTL DEF Spec, LedgerSpec, Ledger!Spec

(***************************************************************************)
(* The mailbox still shows what it has shown and nobody has removed, so    *)
(* the check before a submission rules out every revision recorded as      *)
(* delivered, and no entry changes between that check and the submission.  *)
(***************************************************************************)
Kept ==
  /\ arrived \subseteq inbox \cup removed
  /\ pc = "submit" =>
       \A f \in Fingerprint :
         disk.deliveries[f].status = "delivered" => disk.deliveries[f].rev # rev \/ rev \in removed

LEMMA KeptStep ==
  ASSUME TypeOK, IInv, Kept, [Next]_vars
  PROVE  Kept'
<1> USE DEF upstream, progress, mail, attempted, history
<1>1. arrived' \subseteq inbox' \cup removed' /\ removed \subseteq removed'
  BY DEF Kept, Next, SyncStep, ListStep, LoopStep, DeliverStep, StartSync, ListPage, Seed, LoadState, Reconcile,
         SkipItem, GiveUp, FetchItem, FinishSync, CheckMailbox, TooLarge, Submit, RecordError, RecordSent,
         ConfirmSent, Interrupt, Publish, Edit, Delete, ArriveMail, LoseMail, RemoveMail, Tick, vars
<1>2. ASSUME pc' = "submit"
      PROVE  \/ pc = "check" /\ ~Contains(rev) /\ UNCHANGED <<disk, rev>>
             \/ pc = "submit" /\ UNCHANGED <<disk, rev>>
  BY <1>2, EndSyncType
     DEF Next, SyncStep, ListStep, LoopStep, DeliverStep, StartSync, ListPage, Seed, LoadState, Reconcile,
         SkipItem, GiveUp, FetchItem, FinishSync, CheckMailbox, TooLarge, Submit, RecordError, RecordSent,
         ConfirmSent, Interrupt, Publish, Edit, Delete, ArriveMail, LoseMail, RemoveMail, Tick, vars, AtItem
<1>3. ASSUME pc' = "submit", NEW f \in Fingerprint, disk'.deliveries[f].status = "delivered"
      PROVE  disk'.deliveries[f].rev # rev' \/ rev' \in removed'
  BY <1>1, <1>2, <1>3 DEF Kept, Contains, IInv, EntriesSound
<1> QED BY <1>1, <1>3 DEF Kept

(* Unless its mail was removed from the mailbox, a revision recorded as    *)
(* delivered is never submitted again, under whichever fingerprint it      *)
(* comes up.                                                               *)
THEOREM NeverResent == Spec => DeliveredNeverResent
<1>1. Init => Kept
  BY DEF Init, Kept
<1>2. TypeOK /\ IInv /\ Kept /\ [Next]_vars => Kept'
  BY KeptStep
<1>3. TypeOK /\ Kept /\ [Next]_vars => [SubmitsNoDelivered]_vars
  <2> SUFFICES ASSUME TypeOK, Kept, [Next]_vars, NEW r \in Revision, NEW f \in Fingerprint,
                      sends'[r] # sends[r], disk.deliveries[f].status = "delivered",
                      disk.deliveries[f].rev = r
               PROVE  r \in removed
    BY DEF SubmitsNoDelivered
  <2>1. Submit
    BY DEF Next, SyncStep, ListStep, LoopStep, DeliverStep, StartSync, ListPage, Seed, LoadState, Reconcile,
           SkipItem, GiveUp, FetchItem, FinishSync, CheckMailbox, TooLarge, RecordError, RecordSent,
           ConfirmSent, Interrupt, Publish, Edit, Delete, ArriveMail, LoseMail, RemoveMail, Tick, vars, attempted
  <2>2. pc = "submit" /\ r = rev
    BY <2>1 DEF Submit, TypeOK
  <2> QED BY <2>2 DEF Kept
<1> QED BY <1>1, <1>2, <1>3, Invariant, PTL DEF Spec, DeliveredNeverResent

(***************************************************************************)
(* What is sent again, and when.  From here on the steps are told apart by *)
(* what they do to attempts, mail and time.                                *)
(***************************************************************************)
HasEntry(f) == disk.deliveries[f].status # "none"

EntriesStay == \A f \in Fingerprint : HasEntry(f) => HasEntry(f)'

Trying == {"check", "submit", "accepted", "refused"}

AtServer(f) == pc \in {"accepted", "refused"} /\ cur = f

Chosen(f) == pc \in {"check", "submit"} /\ cur = f

mailTime == <<age, sendAge, transit, inbox, copies, submits>>

(* Nothing of that sort happens, and nothing is tried that was not before. *)
Quiet ==
  /\ UNCHANGED <<mailTime, unrecorded>> /\ EntriesStay
  /\ \/ UNCHANGED <<pc, cur, rev>>
     \/ pc \notin {"accepted", "refused"} /\ pc' \notin Trying

Fetched ==
  /\ pc = "loop" /\ pc' = "check"
  /\ cur' \in Fingerprint /\ rev' \in Revision
  /\ disk.deliveries[cur'].status = "none" \/ age[cur'] >= RetryGrace
  /\ UNCHANGED <<mailTime, unrecorded, disk>>

Checked ==
  /\ pc = "check" /\ pc' = "submit" /\ rev \notin inbox
  /\ UNCHANGED <<mailTime, unrecorded, disk, cur, rev>>

Recorded ==
  /\ pc \in {"accepted", "refused"} /\ pc' \notin Trying
  /\ age' = [age EXCEPT ![cur] = 0]
  /\ EntriesStay /\ disk'.deliveries[cur].status # "none"
  /\ UNCHANGED <<sendAge, transit, inbox, copies, submits, unrecorded>>

Cut ==
  /\ pc' = "idle"
  /\ \A f \in Fingerprint : unrecorded'[f] = unrecorded[f] + InFlight(f)
  /\ \A m \in Mail : copies'[m] = IF AtServer(m.fp) THEN 0 ELSE copies[m]
  /\ UNCHANGED <<age, sendAge, transit, inbox, submits, disk>>

(* A mail of which copies still count has not left but for the mailbox.    *)
Moved ==
  /\ \A m \in Mail :
       \/ copies'[m] = 0
       \/ /\ copies'[m] = copies[m]
          /\ m \in transit => m \in transit' \/ m.rev \in inbox'
          /\ m.rev \in inbox => m.rev \in inbox'
  /\ UNCHANGED <<age, sendAge, submits, unrecorded, disk, pc, cur, rev>>

Ticked ==
  /\ age' = [f \in Fingerprint |-> Older(age[f])]
  /\ sendAge' = [f \in Fingerprint |-> Older(sendAge[f])]
  /\ \A m \in Mail : copies'[m] = IF m \in Late THEN 0 ELSE copies[m]
  /\ UNCHANGED <<transit, inbox, submits, unrecorded, disk, pc, cur, rev>>

LEMMA SavedStays ==
  ASSUME TypeOK, NEW f \in Fingerprint, NEW d \in Delivery, Changed(f, d), d.status # "none"
  PROVE  EntriesStay /\ disk'.deliveries[f].status # "none"
<1>1. \A g \in Fingerprint : disk'.deliveries[g] = IF g = f THEN d ELSE disk.deliveries[g]
  BY EntryType DEF Changed
<1> QED BY <1>1 DEF EntriesStay, HasEntry

(* Both ways of saving keep the entries there are.                         *)
LEMMA SavesStay ==
  ASSUME TypeOK, NEW f \in Fingerprint, UNCHANGED <<inbox, arrived>>,
         \/ \E status \in Statuses \ {"none"} : disk' = WithStatus(disk, f, status)
         \/ \E status \in Statuses \ {"none"}, r \in Revision, attempts \in Nat :
              disk' = WithEntry(disk, f, status, r, attempts)
  PROVE  EntriesStay /\ disk'.deliveries[f].status # "none"
<1>1. ASSUME NEW status \in Statuses \ {"none"}, disk' = WithStatus(disk, f, status)
      PROVE  EntriesStay /\ disk'.deliveries[f].status # "none"
  <2> DEFINE d == [status |-> status, rev |-> disk.deliveries[f].rev, attempts |-> disk.deliveries[f].attempts]
  <2>1. Changed(f, d) /\ d \in Delivery
    BY <1>1, SaveStatus
  <2>2. d.status # "none"
    OBVIOUS
  <2> HIDE DEF d
  <2> QED BY <2>1, <2>2, SavedStays
<1>2. ASSUME NEW status \in Statuses \ {"none"}, NEW r \in Revision, NEW attempts \in Nat,
             disk' = WithEntry(disk, f, status, r, attempts)
      PROVE  EntriesStay /\ disk'.deliveries[f].status # "none"
  <2> DEFINE d == [status |-> status, rev |-> r, attempts |-> attempts]
  <2>1. Changed(f, d) /\ d \in Delivery
    BY <1>2, SaveEntry
  <2>2. d.status # "none"
    OBVIOUS
  <2> HIDE DEF d
  <2> QED BY <2>1, <2>2, SavedStays
<1> QED BY <1>1, <1>2

LEMMA SameStays == ASSUME UNCHANGED disk PROVE EntriesStay
BY DEF EntriesStay, HasEntry

LEMMA Kinds ==
  ASSUME TypeOK, IInv, [Next]_vars
  PROVE  Quiet \/ Fetched \/ Checked \/ Submit \/ Recorded \/ Cut \/ Moved \/ Ticked
<1> USE DEF upstream, progress, mail, attempted, history, mailTime
<1>1. CASE StartSync \/ FinishSync \/ TooLarge
  BY <1>1, SameStays, EndSyncType DEF StartSync, FinishSync, TooLarge, Quiet, Trying
<1>2. CASE ListPage
  BY <1>2, SameStays, EndSyncType DEF ListPage, Quiet, Trying
<1>3. CASE Seed
  <2>1. EntriesStay
    BY <1>3 DEF Seed, EntriesStay, HasEntry, Absent
  <2> QED BY <1>3, <2>1, EndSyncType DEF Seed, Quiet, Trying
<1>4. CASE LoadState
  <2>1. EntriesStay
    BY <1>4 DEF LoadState, Save, EntriesStay, HasEntry, TypeOK, State
  <2> QED BY <1>4, <2>1 DEF LoadState, Quiet, Trying
<1>5. ASSUME NEW f \in Fingerprint, Reconcile(f) PROVE Quiet
  <2>1. CASE UNCHANGED disk
    BY <1>5, <2>1, SameStays DEF Reconcile, Quiet
  <2>2. CASE disk' = WithStatus(disk, f, "delivered")
    BY <1>5, <2>2, SavesStay DEF Reconcile, Quiet, Statuses
  <2> QED BY <1>5, <2>1, <2>2 DEF Reconcile, Save, TypeOK
<1>6. ASSUME NEW i \in left, SkipItem(i) PROVE Quiet
  BY <1>6, SameStays DEF SkipItem, Quiet
<1>7. ASSUME NEW i \in left, GiveUp(i) PROVE Quiet
  <2>1. disk' = WithStatus(disk, i.fp, "failed") /\ i.fp \in Fingerprint
    BY <1>7, ListedType DEF GiveUp, AtItem, Save, TypeOK
  <2> QED BY <1>7, <2>1, SavesStay DEF GiveUp, Quiet, Statuses
<1>8. ASSUME NEW i \in left, FetchItem(i) PROVE Quiet \/ Fetched
  <2>1. CASE EndSync
    BY <1>8, <2>1, SameStays, EndSyncType DEF FetchItem, AtItem, Quiet, Trying
  <2>2. CASE ~EndSync
    <3>1. pc = "loop" /\ pc' = "check" /\ cur' = i.fp /\ rev' = RevisionOf(i.fp.id) /\ Due(i.fp)
          /\ UNCHANGED <<mailTime, unrecorded, disk>>
      BY <1>8, <2>2 DEF FetchItem, AtItem
    <3>2. i.fp \in Fingerprint /\ RevisionOf(i.fp.id) \in Revision /\ RevisionOf(i.fp.id).id = i.fp.id
      BY ListedType, DigestType DEF TypeOK, RevisionOf
    <3>3. disk.deliveries[i.fp].status = "none" \/ age[i.fp] >= RetryGrace
      BY <3>1 DEF Due, Entry, Waited, TypeOK
    <3> QED BY <3>1, <3>2, <3>3 DEF Fetched
  <2> QED BY <2>1, <2>2
<1>9. CASE CheckMailbox
  <2>1. CASE Contains(rev)
    <3>1. disk' = WithEntry(disk, cur, "delivered", rev, disk.deliveries[cur].attempts)
          /\ cur \in Fingerprint /\ rev \in Revision
      BY <1>9, <2>1 DEF CheckMailbox, Save, Entry, TypeOK
    <3>2. disk.deliveries[cur].attempts \in Nat
      BY <3>1, EntryType
    <3> QED BY <1>9, <2>1, <3>1, <3>2, SavesStay DEF CheckMailbox, Quiet, Trying, Statuses
  <2>2. CASE ~Contains(rev)
    BY <1>9, <2>2 DEF CheckMailbox, Checked, Contains
  <2> QED BY <2>1, <2>2
<1>10. CASE RecordError \/ RecordSent
  <2>1. cur \in Fingerprint /\ rev \in Revision /\ disk.deliveries[cur].attempts + 1 \in Nat
    BY <1>10, EntryType DEF RecordError, RecordSent, TypeOK
  <2>2. PICK status \in Statuses \ {"none"} : disk' = WithEntry(disk, cur, status, rev, disk.deliveries[cur].attempts + 1)
    BY <1>10 DEF RecordError, RecordSent, Save, Entry, TypeOK, Statuses
  <2>3. EntriesStay /\ disk'.deliveries[cur].status # "none"
    BY <1>10, <2>1, <2>2, SavesStay DEF RecordError, RecordSent
  <2> QED BY <1>10, <2>3, EndSyncType DEF RecordError, RecordSent, Recorded, Trying
<1>11. CASE ConfirmSent
  <2>1. CASE UNCHANGED disk
    BY <1>11, <2>1, SameStays DEF ConfirmSent, Quiet, Trying
  <2>2. CASE disk' = WithStatus(disk, cur, "delivered")
    <3>1. cur \in Fingerprint
      BY <1>11 DEF ConfirmSent, TypeOK
    <3> QED BY <1>11, <2>2, <3>1, SavesStay DEF ConfirmSent, Quiet, Trying, Statuses
  <2> QED BY <1>11, <2>1, <2>2 DEF ConfirmSent, Save, TypeOK
<1>12. CASE Interrupt
  <2>1. \A f \in Fingerprint : unrecorded'[f] = unrecorded[f] + InFlight(f)
    BY <1>12, EntryType DEF Interrupt, InFlight, TypeOK
  <2>2. \A m \in Mail : copies'[m] = IF AtServer(m.fp) THEN 0 ELSE copies[m]
    BY <1>12 DEF Interrupt, Recount, AtServer
  <2> QED BY <1>12, <2>1, <2>2, EndSyncType DEF Interrupt, Cut
<1>13. ASSUME NEW n \in News, Publish(n) \/ Edit(n) \/ Delete(n) PROVE Quiet
  BY <1>13, SameStays DEF Publish, Edit, Delete, Quiet
<1>14. ASSUME NEW k \in transit, ArriveMail(k) \/ LoseMail(k) PROVE Moved
  <2>1. CASE ArriveMail(k)
    BY <2>1 DEF ArriveMail, Moved
  <2>2. CASE LoseMail(k)
    BY <2>2 DEF LoseMail, Recount, Moved
  <2> QED BY <1>14, <2>1, <2>2
<1>14r. ASSUME NEW r \in inbox, RemoveMail(r) PROVE Moved
  BY <1>14r DEF RemoveMail, Recount, Moved
<1>15. CASE Tick
  BY <1>15 DEF Tick, Recount, Ticked
<1>16. CASE UNCHANGED vars
  BY <1>16, SameStays DEF vars, Quiet
<1> QED BY <1>1, <1>2, <1>3, <1>4, <1>5, <1>6, <1>7, <1>8, <1>9, <1>10, <1>11, <1>12, <1>13, <1>14, <1>14r,
           <1>15, <1>16
        DEF Next, SyncStep, ListStep, LoopStep, DeliverStep

(***************************************************************************)
(* The entry of a fingerprint is at least as recent as every attempt made  *)
(* for it that is not lost or just going on, so the wait that the entry    *)
(* imposes is a wait for each of them.                                     *)
(***************************************************************************)
EntryIsRecent(f) ==
  \/ unrecorded[f] > 0
  \/ AtServer(f)
  \/ HasEntry(f) /\ age[f] <= sendAge[f] /\ (Chosen(f) => age[f] >= RetryGrace)

TimeInv == \A f \in Fingerprint : submits[f] > 0 => EntryIsRecent(f)

LEMMA TimeStep ==
  ASSUME TypeOK, IInv, TimeInv, [Next]_vars
  PROVE  TimeInv'
<1> SUFFICES ASSUME NEW f \in Fingerprint, submits'[f] > 0
             PROVE  EntryIsRecent(f)'
  BY DEF TimeInv
<1> USE DEF mailTime, Trying, AtServer, Chosen, HasEntry
<1>1. /\ age[f] \in Nat /\ sendAge[f] \in Nat /\ unrecorded[f] \in Nat /\ RetryGrace \in Nat
      /\ submits \in [Fingerprint -> Nat] /\ age \in [Fingerprint -> Nat] /\ sendAge \in [Fingerprint -> Nat]
  BY LimitAssumption DEF TypeOK
<1>2. CASE Submit
  <2>1. CASE f = cur
    BY <1>2, <2>1 DEF Submit, EntryIsRecent
  <2>2. CASE f # cur
    <3>1. submits[f] > 0 /\ sendAge'[f] = sendAge[f]
      BY <1>1, <1>2, <2>2 DEF Submit
    <3> QED BY <1>2, <2>2, <3>1 DEF TimeInv, EntryIsRecent, Submit, history
  <2> QED BY <2>1, <2>2
<1>3. ASSUME ~Submit PROVE EntryIsRecent(f)
  <2>1. submits' = submits
    BY <1>3, Kinds DEF Quiet, Fetched, Checked, Recorded, Cut, Moved, Ticked
  <2> QED BY <2>1 DEF TimeInv
<1>4. CASE Quiet /\ ~Submit
  BY <1>3, <1>4 DEF Quiet, EntryIsRecent, EntriesStay
<1>5. CASE Fetched /\ ~Submit
  BY <1>3, <1>5 DEF Fetched, EntryIsRecent
<1>6. CASE Checked /\ ~Submit
  BY <1>3, <1>6 DEF Checked, EntryIsRecent
<1>7. CASE Recorded /\ ~Submit
  <2>1. age'[f] = IF f = cur THEN 0 ELSE age[f]
    BY <1>1, <1>7 DEF Recorded
  <2>2. f = cur => HasEntry(f)'
    BY <1>7 DEF Recorded
  <2>3. sendAge' = sendAge /\ unrecorded' = unrecorded /\ pc' \notin Trying /\ (HasEntry(f) => HasEntry(f)')
    BY <1>7 DEF Recorded, EntriesStay
  <2> QED BY <1>1, <1>3, <1>7, <2>1, <2>2, <2>3 DEF EntryIsRecent
<1>8. CASE Cut /\ ~Submit
  <2>1. unrecorded'[f] = unrecorded[f] + InFlight(f) /\ InFlight(f) \in Nat /\ (AtServer(f) => InFlight(f) = 1)
    BY <1>8 DEF Cut, InFlight
  <2>2. CASE AtServer(f) \/ unrecorded[f] > 0
    BY <1>1, <2>1, <2>2 DEF EntryIsRecent
  <2>3. CASE ~(AtServer(f) \/ unrecorded[f] > 0)
    BY <1>3, <1>8, <2>3 DEF Cut, EntryIsRecent
  <2> QED BY <2>2, <2>3
<1>9. CASE Moved /\ ~Submit
  BY <1>3, <1>9 DEF Moved, EntryIsRecent
<1>10. CASE Ticked /\ ~Submit
  <2>1. age'[f] = Older(age[f]) /\ sendAge'[f] = Older(sendAge[f])
    BY <1>10 DEF Ticked
  <2>2. /\ age[f] <= sendAge[f] => age'[f] <= sendAge'[f]
        /\ age[f] >= RetryGrace => age'[f] >= RetryGrace
    BY <1>1, <2>1 DEF Older
  <2> QED BY <1>3, <1>10, <2>2 DEF Ticked, EntryIsRecent
<1> QED BY <1>2, <1>4, <1>5, <1>6, <1>7, <1>8, <1>9, <1>10, Kinds

(* Another attempt for a fingerprint is made only when RetryGrace has      *)
(* passed since the last one, unless one was lost before it was saved.     *)
THEOREM GraceIsKept == Spec => GraceKept
<1> DEFINE Graced == \A f \in Fingerprint :
       submits'[f] # submits[f] /\ submits[f] > 0 => sendAge[f] >= RetryGrace \/ unrecorded[f] > 0
<1>1. Init => TimeInv
  BY DEF Init, TimeInv
<1>2. TypeOK /\ IInv /\ TimeInv /\ [Next]_vars => TimeInv'
  BY TimeStep
<1>3. TypeOK /\ IInv /\ TimeInv /\ [Next]_vars => [Graced]_vars
  <2> SUFFICES ASSUME TypeOK, IInv, TimeInv, [Next]_vars,
                      NEW f \in Fingerprint, submits'[f] # submits[f], submits[f] > 0
               PROVE  sendAge[f] >= RetryGrace \/ unrecorded[f] > 0
    OBVIOUS
  <2>1. Submit
    BY Kinds DEF Quiet, Fetched, Checked, Recorded, Cut, Moved, Ticked, mailTime
  <2>2. pc = "submit" /\ f = cur
    BY <2>1 DEF Submit, TypeOK
  <2>3. EntryIsRecent(f)
    BY DEF TimeInv
  <2>4. age[f] \in Nat /\ sendAge[f] \in Nat /\ RetryGrace \in Nat
    BY LimitAssumption DEF TypeOK
  <2> QED BY <2>2, <2>3, <2>4 DEF EntryIsRecent, AtServer, Chosen
<1> QED BY <1>1, <1>2, <1>3, Invariant, PTL DEF Spec, GraceKept

(***************************************************************************)
(* Where the copy that counts is: the mailbox shows it, or it is on its    *)
(* way and not late, and its entry is not chosen before it is.             *)
(***************************************************************************)
CopyPlace(m) ==
  \/ m.rev \in inbox
  \/ /\ m \in transit /\ sendAge[m.fp] < RetryGrace
     /\ AtServer(m.fp) \/ (HasEntry(m.fp) /\ age[m.fp] <= sendAge[m.fp] /\ ~Chosen(m.fp))

CopiesSound(m) == copies[m] = 0 \/ (copies[m] = 1 /\ CopyPlace(m))

OnceInv ==
  /\ pc = "submit" => copies[[fp |-> cur, rev |-> rev]] = 0
  /\ \A m \in Mail : CopiesSound(m)

(* The check of the mailbox rules out a copy that counts.                  *)
LEMMA BeforeSubmit ==
  ASSUME TypeOK, IInv, OnceInv, [Next]_vars, pc' = "submit"
  PROVE  copies'[[fp |-> cur', rev |-> rev']] = 0
<1>1. PICK m : m = [fp |-> cur, rev |-> rev]
  OBVIOUS
<1>2. ASSUME pc \in Trying PROVE m \in Mail /\ m.fp = cur /\ m.rev = rev
  BY <1>1, <1>2 DEF Trying, TypeOK, Mail
<1>3. CASE Checked
  <2>1. CopiesSound(m) /\ ~CopyPlace(m)
    BY <1>2, <1>3 DEF Checked, OnceInv, CopyPlace, AtServer, Chosen, Trying
  <2> QED BY <1>1, <1>3, <2>1 DEF Checked, CopiesSound, mailTime
<1>4. CASE ~Checked
  <2>1. pc = "submit" /\ UNCHANGED <<rev, cur>>
    BY <1>4, Kinds DEF Quiet, Fetched, Submit, Recorded, Cut, Moved, Ticked, mailTime, Trying
  <2>2. copies[m] = 0 /\ m \in Mail
    BY <1>1, <1>2, <2>1 DEF OnceInv, Trying
  <2>3. copies'[m] = 0
    BY <1>4, <2>1, <2>2, Kinds DEF Quiet, Fetched, Submit, Recorded, Cut, Moved, Ticked, mailTime, Trying
  <2> QED BY <1>1, <2>1, <2>3
<1> QED BY <1>3, <1>4

LEMMA OnceStep ==
  ASSUME TypeOK, IInv, OnceInv, [Next]_vars
  PROVE  OnceInv'
<1>1. pc' = "submit" => copies'[[fp |-> cur', rev |-> rev']] = 0
  BY BeforeSubmit
<1>2. ASSUME NEW m \in Mail PROVE CopiesSound(m)'
  <2> USE DEF mailTime, Trying, AtServer, Chosen, HasEntry
  <2>1. /\ m.fp \in Fingerprint /\ m.rev \in Revision /\ m = [fp |-> m.fp, rev |-> m.rev]
        /\ age[m.fp] \in Nat /\ sendAge[m.fp] \in Nat /\ copies[m] \in Nat /\ RetryGrace \in Nat \ {0}
        /\ copies \in [Mail -> Nat] /\ age \in [Fingerprint -> Nat] /\ sendAge \in [Fingerprint -> Nat]
    BY LimitAssumption DEF TypeOK, Mail
  <2>2. CopiesSound(m)
    BY DEF OnceInv
  <2>3. CASE Submit
    <3>1. /\ pc = "submit" /\ pc' \in {"accepted", "refused"} /\ cur' = cur
          /\ UNCHANGED <<inbox, age, disk>> /\ transit \subseteq transit'
      BY <2>3 DEF Submit
    <3>2. CASE m = [fp |-> cur, rev |-> rev]
      <4>1. copies[m] = 0 /\ m.fp = cur
        BY <3>1, <3>2 DEF OnceInv
      <4>2. CASE copies' = copies
        BY <4>1, <4>2 DEF CopiesSound
      <4>3. CASE copies' # copies
        <5>1. copies'[m] = 1 /\ m \in transit' /\ sendAge'[m.fp] = 0
          BY <2>1, <2>3, <3>2, <4>1, <4>3 DEF Submit
        <5> QED BY <2>1, <3>1, <4>1, <5>1 DEF CopiesSound, CopyPlace
      <4> QED BY <4>2, <4>3
    <3>3. CASE m # [fp |-> cur, rev |-> rev]
      <4>1. copies'[m] = copies[m] /\ (m.fp # cur => sendAge'[m.fp] = sendAge[m.fp])
        BY <2>1, <2>3, <3>3 DEF Submit
      <4>2. CopyPlace(m) => CopyPlace(m)'
        BY <3>1, <4>1 DEF CopyPlace
      <4> QED BY <2>2, <4>1, <4>2 DEF CopiesSound
    <3> QED BY <3>2, <3>3
  <2>4. CASE Recorded
    <3>1. age'[m.fp] = IF m.fp = cur THEN 0 ELSE age[m.fp]
      BY <2>1, <2>4 DEF Recorded
    <3>2. m.fp = cur => HasEntry(m.fp)'
      BY <2>4 DEF Recorded
    <3>3. /\ UNCHANGED <<sendAge, copies, transit, inbox>> /\ pc' \notin Trying
          /\ HasEntry(m.fp) => HasEntry(m.fp)'
      BY <2>1, <2>4 DEF Recorded, EntriesStay
    <3>4. CopyPlace(m) => CopyPlace(m)'
      BY <2>1, <3>1, <3>2, <3>3 DEF CopyPlace
    <3> QED BY <2>2, <3>3, <3>4 DEF CopiesSound
  <2>5. CASE Cut
    <3>1. CopyPlace(m) /\ ~AtServer(m.fp) => CopyPlace(m)'
      BY <2>5 DEF Cut, CopyPlace
    <3> QED BY <2>2, <2>5, <3>1 DEF Cut, CopiesSound
  <2>6. CASE Ticked
    <3>1. age'[m.fp] = Older(age[m.fp]) /\ sendAge'[m.fp] = Older(sendAge[m.fp])
      BY <2>1, <2>6 DEF Ticked
    <3>2. /\ age[m.fp] <= sendAge[m.fp] => age'[m.fp] <= sendAge'[m.fp]
          /\ sendAge[m.fp] + 1 # RetryGrace /\ sendAge[m.fp] < RetryGrace => sendAge'[m.fp] < RetryGrace
      BY <2>1, <3>1 DEF Older
    <3>3. CopyPlace(m) /\ m \notin Late => CopyPlace(m)'
      BY <2>6, <3>2 DEF Ticked, CopyPlace, Late
    <3> QED BY <2>2, <2>6, <3>3 DEF Ticked, CopiesSound
  <2>7. CASE Moved
    BY <2>2, <2>7 DEF Moved, CopiesSound, CopyPlace
  <2>8. CASE Fetched
    <3>1. CopyPlace(m) => CopyPlace(m)'
      BY <2>1, <2>8 DEF Fetched, CopyPlace
    <3> QED BY <2>2, <2>8, <3>1 DEF Fetched, CopiesSound
  <2>9. CASE Checked
    <3>1. CopyPlace(m) => CopyPlace(m)'
      BY <2>9 DEF Checked, CopyPlace
    <3> QED BY <2>2, <2>9, <3>1 DEF Checked, CopiesSound
  <2>10. CASE Quiet
    <3>1. CopyPlace(m) => CopyPlace(m)'
      BY <2>1, <2>10 DEF Quiet, CopyPlace, EntriesStay
    <3> QED BY <2>2, <2>10, <3>1 DEF Quiet, CopiesSound
  <2> QED BY <2>3, <2>4, <2>5, <2>6, <2>7, <2>8, <2>9, <2>10, Kinds
<1> QED BY <1>1, <1>2 DEF OnceInv

(* For each fingerprint the mail server accepts a revision at most once,   *)
(* until a copy is late, lost or removed, or an attempt was lost before it *)
(* was saved, whatever upstream does meanwhile.                            *)
THEOREM SentAtMostOnce == Spec => []AtMostOnce
<1>1. Init => OnceInv
  BY DEF Init, OnceInv, CopiesSound
<1>2. TypeOK /\ IInv /\ OnceInv /\ [Next]_vars => OnceInv'
  BY OnceStep
<1>3. OnceInv => AtMostOnce
  BY DEF OnceInv, CopiesSound, AtMostOnce
<1> QED BY <1>1, <1>2, <1>3, Invariant, PTL DEF Spec

(***************************************************************************)
(* Paging.  An item of rank r is on page r \div PageSize, and every page   *)
(* before it is full, so that no announcement of a next page stops the     *)
(* listing before it.                                                      *)
(***************************************************************************)
(* A set of naturals has a least element. *)
LEMMA Smallest ==
  ASSUME NEW T \in SUBSET Nat, T # {}
  PROVE  \E x \in T : \A y \in T : x <= y
<1> DEFINE R == {ss \in Nat \X Nat : ss[1] < ss[2]}
<1>1. IsWellFoundedOn(R, Nat)
  <2>1. R = OpToRel(<, Nat)
    BY Zenon DEF OpToRel
  <2> QED BY <2>1, NatLessThanWellFounded
<1>2. \E x \in T : \A y \in T : <<y, x>> \notin R
  <2> HIDE DEF R
  <2> QED BY <1>1, WFMin
<1>3. PICK x \in T : \A y \in T : <<y, x>> \notin R
  BY <1>2
<1>4. \A y \in T : ~(y < x)
  BY <1>3
<1> QED BY <1>4

(* What a set of numbers has beyond n. *)
Above(P, n) == {m \in P : m > n}

LEMMA AboveType ==
  ASSUME NEW P, IsFiniteSet(P), NEW n
  PROVE  IsFiniteSet(Above(P, n)) /\ Cardinality(Above(P, n)) \in Nat
<1>1. Above(P, n) \in SUBSET P
  BY DEF Above
<1>2. IsFiniteSet(Above(P, n))
  BY <1>1, FS_Subset
<1> QED BY <1>2, FS_CardinalityType

LEMMA AboveLess ==
  ASSUME NEW P \in SUBSET Nat, IsFiniteSet(P), NEW x \in P, NEW y \in P, x < y
  PROVE  Cardinality(Above(P, y)) < Cardinality(Above(P, x))
<1>1. /\ IsFiniteSet(Above(P, x)) /\ Cardinality(Above(P, x)) \in Nat
      /\ IsFiniteSet(Above(P, y)) /\ Cardinality(Above(P, y)) \in Nat
  BY AboveType
<1>2. Above(P, y) \cup {y} \in SUBSET Above(P, x) /\ y \notin Above(P, y)
  <2>1. P \subseteq Nat /\ x \in Nat /\ y \in Nat
    OBVIOUS
  <2>2. ASSUME NEW z \in P, z > y PROVE z > x
    <3>1. z \in Nat
      BY <2>1
    <3> QED BY <2>1, <2>2, <3>1
  <2>3. ~(y > y)
    BY <2>1
  <2> QED BY <2>2, <2>3 DEF Above
<1>3. Cardinality(Above(P, y) \cup {y}) = Cardinality(Above(P, y)) + 1
  BY <1>1, <1>2, FS_AddElement
<1>4. Cardinality(Above(P, y) \cup {y}) <= Cardinality(Above(P, x))
  BY <1>1, <1>2, FS_Subset
<1> QED BY <1>1, <1>3, <1>4

(* The ranks have no gaps. *)
LEMMA EveryRank ==
  ASSUME NEW P \in SUBSET Nat, IsFiniteSet(P), NEW n \in P, NEW k \in Nat, k <= Cardinality(Above(P, n))
  PROVE  \E x \in P : Cardinality(Above(P, x)) = k
<1> DEFINE C(x) == Cardinality(Above(P, x))
           T == {C(x) : x \in {y \in P : k <= C(y)}}
<1>1. \A x \in P : C(x) \in Nat /\ IsFiniteSet(Above(P, x))
  BY AboveType
<1>2. T \in SUBSET Nat /\ T # {}
  BY <1>1
<1>3. \E r \in T : \A q \in T : r <= q
  <2> HIDE DEF T
  <2> QED BY <1>2, Smallest
<1>4. PICK x \in P : k <= C(x) /\ \A y \in P : k <= C(y) => C(x) <= C(y)
  BY <1>3
<1>5. CASE C(x) = k
  BY <1>5
<1>6. CASE C(x) # k
  <2>1. C(x) > 0
    BY <1>1, <1>4, <1>6
  <2>2. Above(P, x) # {}
    BY <2>1, FS_EmptySet
  <2>3. Above(P, x) \in SUBSET Nat
    BY DEF Above
  <2>4. PICK y \in Above(P, x) : \A z \in Above(P, x) : y <= z
    BY <2>2, <2>3, Smallest
  <2>5. Above(P, x) = Above(P, y) \cup {y} /\ y \notin Above(P, y) /\ y \in P
    <3>1. P \subseteq Nat /\ x \in Nat /\ y \in P /\ y \in Nat /\ y > x
      BY <2>4 DEF Above
    <3>2. \A z \in P : z > x <=> z > y \/ z = y
      <4> SUFFICES ASSUME NEW z \in P PROVE z > x <=> z > y \/ z = y
        OBVIOUS
      <4>1. z \in Nat
        BY <3>1
      <4>2. z > x => y <= z
        BY <2>4 DEF Above
      <4>3. x \in Nat /\ y \in Nat /\ y > x
        BY <3>1
      <4> QED BY <4>1, <4>2, <4>3
    <3>3. ~(y > y) /\ y \in P /\ y > x
      BY <3>1
    <3> QED BY <3>2, <3>3 DEF Above
  <2>6. C(x) = C(y) + 1
    BY <1>1, <2>5, FS_AddElement
  <2> QED BY <1>1, <1>4, <1>6, <2>5, <2>6
<1> QED BY <1>5, <1>6

(* A page before an item is full. *)
LEMMA FullPage ==
  ASSUME NEW P \in SUBSET Nat, IsFiniteSet(P), NEW n \in P, NEW a \in Nat, NEW s \in Nat \ {0},
         a + s <= Cardinality(Above(P, n))
  PROVE  Cardinality({x \in P : a <= Cardinality(Above(P, x)) /\ Cardinality(Above(P, x)) < a + s}) = s
<1> DEFINE C(x) == Cardinality(Above(P, x))
           Page == {x \in P : a <= C(x) /\ C(x) < a + s}
           M == [x \in Page |-> C(x)]
<1>1. \A x \in P : C(x) \in Nat
  BY AboveType
<1>2. M \in [Page -> a .. (a + s - 1)]
  <2>1. \A x \in Page : C(x) \in a .. (a + s - 1)
    BY <1>1
  <2> QED BY <2>1
<1>3. \A x, y \in Page : M[x] = M[y] => x = y
  <2> SUFFICES ASSUME NEW x \in Page, NEW y \in Page, C(x) = C(y) PROVE x = y
    OBVIOUS
  <2>1. ~(x < y) /\ ~(y < x)
    BY <1>1, AboveLess
  <2> QED BY <2>1
<1>4. \A r \in a .. (a + s - 1) : \E x \in Page : M[x] = r
  <2> SUFFICES ASSUME NEW r \in a .. (a + s - 1) PROVE \E x \in Page : M[x] = r
    OBVIOUS
  <2>1. r \in Nat /\ r <= C(n)
    BY <1>1
  <2>2. PICK x \in P : C(x) = r
    BY <2>1, EveryRank
  <2> QED BY <2>2
<1>5. M \in Bijection(Page, a .. (a + s - 1))
  <2> HIDE DEF M
  <2> QED BY <1>2, <1>3, <1>4 DEF Bijection, Injection, Surjection, IsInjective
<1>6. IsFiniteSet(Page)
  BY FS_Subset
<1>7. Cardinality(a .. (a + s - 1)) = s
  BY FS_Interval
<1>8. Cardinality(a .. (a + s - 1)) = Cardinality(Page)
  <2> HIDE DEF Page, M
  <2> QED BY <1>5, <1>6, FS_Bijection DEF ExistsBijection
<1> QED BY <1>7, <1>8

LEMMA PublishedType ==
  /\ Published \in SUBSET Nat /\ IsFiniteSet(Published)
  /\ \A n \in News : Rank(n) = Cardinality(Above(Published, n)) /\ Rank(n) \in Nat
<1>1. Published \in SUBSET News
  BY DEF Published
<1>2. IsFiniteSet(Published) /\ Published \subseteq Nat
  BY <1>1, NewsAssumption, FS_Subset
<1>3. \A n \in News : Rank(n) = Cardinality(Above(Published, n))
  BY DEF Rank, Above
<1> QED BY <1>2, <1>3, AboveType

(* An item that the pages so far have not reached is on this one, or there *)
(* is another page to come.                                                *)
LEMMA PageReaches ==
  ASSUME NEW n \in Published, NEW p \in Nat, p * PageSize <= Rank(n)
  PROVE  n \in PageItems(p) \/ (HasMore(p) /\ (p + 1) * PageSize <= Rank(n))
<1> DEFINE a == p * PageSize
<1>1. /\ PageSize \in Nat \ {0} /\ a \in Nat /\ (p + 1) * PageSize = a + PageSize
      /\ Rank(n) \in Nat /\ n \in News
  <2>1. n \in News
    BY DEF Published
  <2>2. PageSize \in Nat \ {0} /\ a \in Nat /\ (p + 1) * PageSize = a + PageSize
    BY LimitAssumption
  <2> HIDE DEF a
  <2> QED BY <2>1, <2>2, PublishedType
<1>2. CASE Rank(n) < a + PageSize
  BY <1>1, <1>2 DEF PageItems
<1>3. CASE ~(Rank(n) < a + PageSize)
  <2>1. a + PageSize <= Rank(n)
    BY <1>1, <1>3
  <2>2. PageItems(p) = {x \in Published : a <= Cardinality(Above(Published, x))
                                          /\ Cardinality(Above(Published, x)) < a + PageSize}
    BY <1>1, PublishedType DEF PageItems, Published
  <2>3. Cardinality(PageItems(p)) = PageSize
    <3>1. a + PageSize <= Cardinality(Above(Published, n))
      BY <1>1, <2>1, PublishedType
    <3> HIDE DEF a
    <3> QED BY <1>1, <2>2, <3>1, PublishedType, FullPage
  <2>4. PageItems(p) # {}
    BY <1>1, <2>3, FS_EmptySet
  <2>5. Cardinality(Published) \in Nat /\ Rank(n) < Cardinality(Published)
    <3>1. Above(Published, n) \in SUBSET Published /\ n \in Published /\ n \notin Above(Published, n)
      BY PublishedType DEF Above
    <3>2. Cardinality(Above(Published, n)) <= Cardinality(Published)
          /\ Cardinality(Published) # Cardinality(Above(Published, n))
      BY <3>1, PublishedType, FS_Subset
    <3>3. Cardinality(Published) \in Nat
      BY PublishedType, FS_CardinalityType
    <3> QED BY <1>1, <3>2, <3>3, PublishedType
  <2>6. HasMore(p)
    <3>1. (p + 1) * PageSize < Cardinality(Published)
      BY <1>1, <2>1, <2>5
    <3> QED BY <2>3, <2>4, <3>1, EnvironmentAssumption DEF HasMore
  <2> QED BY <1>1, <2>1, <2>6
<1> QED BY <1>2, <1>3

(* What is published moves an item to a later page, never to an earlier.   *)
LEMMA RankGrows ==
  ASSUME Published \subseteq Published', NEW n \in News
  PROVE  Rank(n) <= Rank(n)' /\ Rank(n)' \in Nat
<1>1. Published' \in SUBSET News
  BY DEF Published
<1>2. IsFiniteSet(Published')
  BY <1>1, NewsAssumption, FS_Subset
<1>3. {m \in Published : m > n} \in SUBSET {m \in Published' : m > n}
  OBVIOUS
<1>4. {m \in Published' : m > n} \in SUBSET (Published')
  OBVIOUS
<1>5. IsFiniteSet({m \in Published' : m > n})
  BY <1>2, <1>4, FS_Subset
<1>6. Cardinality({m \in Published : m > n}) <= Cardinality({m \in Published' : m > n})
  BY <1>3, <1>5, FS_Subset
<1>7. Cardinality({m \in Published' : m > n}) \in Nat
  BY <1>5, FS_CardinalityType
<1> QED BY <1>6, <1>7 DEF Rank

(***************************************************************************)
(* What was there when the first run began and has not changed since is    *)
(* listed, or the pages have not reached it yet.  Once the run has         *)
(* recorded its listing, it is seeded, and stays so.                       *)
(***************************************************************************)
Remains(f) == f.id \in Published /\ f = ListFingerprint(f.id)

Reached(f) == \E i \in items : i.fp = f

(* Upstream deletes at most the item behind all others. *)
OnlyOldestDeletable == \A d \in Deletable, n \in News : d <= n

ArchiveInv ==
  /\ pc = "idle" => offset = 0
  /\ disk.initialized =>
       \A f \in archive : disk.deliveries[f].status = "seeded" /\ submits[f] = 0
  /\ ~disk.initialized =>
       /\ \A f \in Fingerprint : submits[f] = 0
       /\ pc \in {"list", "load"} =>
            \A f \in archive :
              Remains(f) /\ (Reached(f) \/ (pc = "list" /\ offset * PageSize <= Rank(f.id)))

(* After the first run a seeded entry stays, and its item is not sent.     *)
LEMMA SeededStays ==
  ASSUME TypeOK, IInv, [Next]_vars, disk.initialized,
         NEW f \in Fingerprint, disk.deliveries[f].status = "seeded"
  PROVE  disk'.initialized /\ disk'.deliveries[f].status = "seeded" /\ submits'[f] = submits[f]
<1>1. disk'.initialized /\ disk'.deliveries[f].status = "seeded"
  <2>1. [Ledger!Next]_(Ledger!vars) /\ disk.deliveries \in [Fingerprint -> Delivery]
    BY LedgerStep, EntryType
  <2> QED BY <2>1 DEF Ledger!Next, Ledger!vars, Ledger!Arrive, Ledger!Initialize, Ledger!Attempt, Ledger!Confirm,
                      Ledger!GiveUp, Ledger!SetEntry, Ledger!Open
<1>2. submits'[f] = submits[f]
  <2>1. CASE Submit
    <3>1. cur # f
      BY <2>1 DEF Submit, IInv, RunSound, Unconfirmed
    <3> QED BY <2>1, <3>1 DEF Submit, TypeOK
  <2>2. CASE ~Submit
    BY <2>2 DEF Next, SyncStep, ListStep, LoopStep, DeliverStep, StartSync, ListPage, Seed, LoadState, Reconcile,
           SkipItem, GiveUp, FetchItem, FinishSync, CheckMailbox, TooLarge, RecordError, RecordSent,
           ConfirmSent, Interrupt, Publish, Edit, Delete, ArriveMail, LoseMail, RemoveMail, Tick, vars, attempted
  <2> QED BY <2>1, <2>2
<1> QED BY <1>1, <1>2

(* A run of which nothing is left has its offset at the first page.        *)
LEMMA IdleStep ==
  ASSUME ArchiveInv, [Next]_vars
  PROVE  pc' = "idle" => offset' = 0
BY DEF ArchiveInv, EndSync, progress, Next, SyncStep, ListStep, LoopStep, DeliverStep, StartSync, ListPage, Seed, LoadState,
       Reconcile, SkipItem, GiveUp, FetchItem, AtItem, FinishSync, CheckMailbox, TooLarge, Submit, RecordError,
       RecordSent, ConfirmSent, Interrupt, Publish, Edit, Delete, ArriveMail, LoseMail, RemoveMail, Tick, vars

LEMMA ArchiveStep ==
  ASSUME ~ForwardExisting, OnlyOldestDeletable, TypeOK, TypeOK', IInv, IInv', ArchiveInv, [Next]_vars
  PROVE  ArchiveInv'
<1> USE DEF upstream, progress, mail, attempted, history
<1>1. CASE disk.initialized
  <2>1. archive' = archive
    BY <1>1 DEF LeaveArchive, Next, SyncStep, ListStep, LoopStep, DeliverStep, StartSync, ListPage, Seed, LoadState,
       Reconcile, SkipItem, GiveUp, FetchItem, FinishSync, CheckMailbox, TooLarge, Submit, RecordError,
       RecordSent, ConfirmSent, Interrupt, Publish, Edit, Delete, ArriveMail, LoseMail, RemoveMail, Tick, vars
  <2>2. \A f \in archive : disk'.deliveries[f].status = "seeded" /\ submits'[f] = 0
    BY <1>1, SeededStays DEF ArchiveInv, TypeOK
  <2>3. disk'.initialized
    <3>1. [Ledger!Next]_(Ledger!vars)
      BY LedgerStep
    <3> QED BY <1>1, <3>1 DEF Ledger!Next, Ledger!vars, Ledger!Arrive, Ledger!Initialize, Ledger!Attempt,
                              Ledger!Confirm, Ledger!GiveUp
  <2> QED BY <2>1, <2>2, <2>3, IdleStep DEF ArchiveInv
<1>2. CASE ~disk.initialized
  <2>1. pc \in {"idle", "list", "load"} /\ todo = {} /\ cur = None /\ offset \in Nat /\ PageSize \in Nat \ {0}
        /\ archive \subseteq Fingerprint
    BY <1>2, LimitAssumption DEF IInv, RunSound, Delivering, TypeOK, Phases
  <2>2. CASE StartSync
    <3>1. archive' = {ListFingerprint(n) : n \in Published} /\ offset' = 0
      BY <1>2, <2>2 DEF StartSync, ArchiveInv
    <3>2. \A n \in Published : ListFingerprint(n)' = ListFingerprint(n) /\ ListFingerprint(n).id = n
          /\ n \in Published' /\ n \in News /\ Rank(n)' = Rank(n)
      BY <2>2 DEF StartSync, ListFingerprint, Published, Rank
    <3>3. \A n \in Published : offset' * PageSize <= Rank(n)'
      BY <2>1, <3>1, <3>2, PublishedType
    <3>4. \A f \in archive' : Remains(f)' /\ offset' * PageSize <= Rank(f.id)'
      <4> SUFFICES ASSUME NEW n \in Published
                   PROVE  Remains(ListFingerprint(n))' /\ offset' * PageSize <= Rank(ListFingerprint(n).id)'
        BY <3>1, <3>2
      <4> QED BY <3>2, <3>3 DEF Remains
    <3> QED BY <1>2, <2>2, <3>1, <3>4 DEF StartSync, ArchiveInv
  <2>3. CASE ListPage
    <3>1. UNCHANGED <<disk, submits, archive, stage, item>> /\ pc = "list"
      BY <2>3 DEF ListPage
    <3>2. CASE EndSync
      BY <1>2, <3>1, <3>2 DEF EndSync, ArchiveInv
    <3>3. CASE ~EndSync
      <4>1. /\ items' = items \cup {[fp |-> ListFingerprint(n), page |-> offset] : n \in PageItems(offset)}
            /\ pc' = IF HasMore(offset) THEN "list" ELSE "load"
            /\ offset' = IF HasMore(offset) THEN offset + 1 ELSE offset
        BY <2>3, <3>3 DEF ListPage
      <4>2. ASSUME NEW f \in archive
            PROVE  Remains(f)' /\ (Reached(f)' \/ (pc' = "list" /\ offset' * PageSize <= Rank(f.id)'))
        <5>1. Remains(f) /\ (Reached(f) \/ offset * PageSize <= Rank(f.id))
          BY <1>2, <3>1, <4>2 DEF ArchiveInv
        <5>2. Remains(f)' /\ Rank(f.id)' = Rank(f.id)
          BY <3>1, <5>1 DEF Remains, ListFingerprint, Published, Rank
        <5>3. CASE Reached(f)
          BY <4>1, <5>2, <5>3 DEF Reached
        <5>4. CASE f.id \in PageItems(offset)
          <6>1. [fp |-> ListFingerprint(f.id), page |-> offset] \in items'
            BY <4>1, <5>4
          <6>2. Reached(f)'
            BY <5>1, <6>1 DEF Reached, Remains
          <6> QED BY <5>2, <6>2
        <5>5. CASE ~Reached(f) /\ f.id \notin PageItems(offset)
          <6>1. HasMore(offset) /\ (offset + 1) * PageSize <= Rank(f.id)
            BY <2>1, <5>1, <5>5, PageReaches DEF Remains
          <6> QED BY <4>1, <5>2, <6>1
        <5> QED BY <5>3, <5>4, <5>5
      <4> QED BY <1>2, <3>1, <4>1, <4>2 DEF ArchiveInv
    <3> QED BY <3>2, <3>3
  <2>4. CASE Seed
    <3>1. \A f \in archive : Reached(f) /\ submits[f] = 0
      BY <1>2, <2>1, <2>4 DEF Seed, ArchiveInv
    <3>2. disk'.initialized /\ archive' = archive /\ submits' = submits /\ pc' = "idle" /\ offset' = 0
      BY <2>4 DEF Seed, EndSync
    <3>3. \A f \in archive : disk'.deliveries[f].status = "seeded"
      BY <2>1, <2>4, <3>1 DEF Seed, Absent, Reached
    <3> QED BY <3>1, <3>2, <3>3 DEF ArchiveInv
  <2>5. CASE Interrupt
    BY <1>2, <2>5 DEF Interrupt, EndSync, ArchiveInv
  <2>6. ASSUME NEW n \in News, Publish(n) PROVE ArchiveInv'
    <3>1. Published \subseteq Published' /\ UNCHANGED <<disk, submits, archive, pc, offset, items, item>>
      BY <2>6 DEF Publish, Published, TypeOK
    <3>2. ASSUME NEW f \in archive, pc \in {"list", "load"}
          PROVE  Remains(f)' /\ (Reached(f)' \/ (pc' = "list" /\ offset' * PageSize <= Rank(f.id)'))
      <4>1. Remains(f) /\ (Reached(f) \/ (pc = "list" /\ offset * PageSize <= Rank(f.id)))
        BY <1>2, <3>2 DEF ArchiveInv
      <4>2. f.id \in News /\ Rank(f.id) \in Nat /\ offset * PageSize \in Nat
        <5>1. f.id \in Published
          BY <4>1 DEF Remains
        <5>2. f.id \in News /\ Rank(f.id) \in Nat
          BY <5>1, PublishedType DEF Published
        <5>3. offset * PageSize \in Nat
          BY <2>1
        <5> QED BY <5>2, <5>3
      <4>3. Rank(f.id) <= Rank(f.id)' /\ Rank(f.id)' \in Nat
        BY <3>1, <4>2, RankGrows
      <4> QED BY <3>1, <4>1, <4>2, <4>3 DEF Remains, Reached, ListFingerprint
    <3> QED BY <1>2, <3>1, <3>2 DEF ArchiveInv
  <2>7. ASSUME NEW n \in News, Edit(n) PROVE ArchiveInv'
    <3>1. archive' = {f \in archive : f.id # n} /\ UNCHANGED <<disk, submits, pc, offset, items, stage>>
          /\ (\A m \in News : m # n => item'[m] = item[m])
      BY <1>2, <2>7 DEF Edit, LeaveArchive, TypeOK
    <3>2. Published' = Published /\ \A m \in News : Rank(m)' = Rank(m)
      BY <3>1 DEF Published, Rank
    <3>3. ASSUME NEW f \in archive, f.id # n, pc \in {"list", "load"}
          PROVE  Remains(f)' /\ (Reached(f)' \/ (pc' = "list" /\ offset' * PageSize <= Rank(f.id)'))
      <4>1. Remains(f) /\ (Reached(f) \/ (pc = "list" /\ offset * PageSize <= Rank(f.id))) /\ f.id \in News
        BY <1>2, <3>3 DEF ArchiveInv, Remains, Published
      <4>2. Remains(f)'
        BY <3>1, <3>2, <3>3, <4>1 DEF Remains, ListFingerprint
      <4> QED BY <3>1, <3>2, <4>1, <4>2 DEF Reached
    <3> QED BY <1>2, <3>1, <3>3 DEF ArchiveInv
  <2>8. ASSUME NEW n \in News, Delete(n) PROVE ArchiveInv'
    <3>1. /\ archive' = {f \in archive : f.id # n} /\ UNCHANGED <<disk, submits, pc, offset, items, item>>
          /\ n \in Deletable /\ (\A m \in News : m # n => stage'[m] = stage[m]) /\ stage'[n] = "deleted"
      BY <1>2, <2>8 DEF Delete, LeaveArchive, TypeOK
    <3>2. Published' = Published \ {n}
      BY <3>1 DEF Published
    <3>3. ASSUME NEW m \in News PROVE Rank(m)' = Rank(m)
      <4>1. n <= m /\ n \in Nat /\ m \in Nat
        BY <3>1, NewsAssumption DEF OnlyOldestDeletable
      <4>2. {k \in Published' : k > m} = {k \in Published : k > m}
        BY <3>2, <4>1
      <4> QED BY <4>2 DEF Rank
    <3>4. ASSUME NEW f \in archive, f.id # n, pc \in {"list", "load"}
          PROVE  Remains(f)' /\ (Reached(f)' \/ (pc' = "list" /\ offset' * PageSize <= Rank(f.id)'))
      <4>1. Remains(f) /\ (Reached(f) \/ (pc = "list" /\ offset * PageSize <= Rank(f.id))) /\ f.id \in News
        BY <1>2, <3>4 DEF ArchiveInv, Remains, Published
      <4>2. Remains(f)'
        BY <3>1, <3>2, <3>4, <4>1 DEF Remains, ListFingerprint
      <4> QED BY <3>1, <3>3, <4>1, <4>2 DEF Reached
    <3> QED BY <1>2, <3>1, <3>4 DEF ArchiveInv
  <2>9. CASE \/ \E m \in transit : ArriveMail(m) \/ LoseMail(m)
             \/ \E r \in inbox : RemoveMail(r)
             \/ Tick
             \/ UNCHANGED vars
    <3>1. UNCHANGED <<disk, submits, archive, pc, offset, items, stage, item>>
      BY <2>9 DEF ArriveMail, LoseMail, RemoveMail, Tick, vars
    <3>2. \A f \in archive : (Remains(f) => Remains(f)') /\ (Reached(f) => Reached(f)') /\ Rank(f.id)' = Rank(f.id)
      BY <3>1 DEF Remains, Reached, ListFingerprint, Published, Rank
    <3> QED BY <1>2, <3>1, <3>2 DEF ArchiveInv
  <2>10. ~LoadState /\ ~LoopStep /\ ~DeliverStep
    BY <1>2, <2>1 DEF LoadState, LoopStep, DeliverStep, Reconcile, AtItem, SkipItem, GiveUp, FetchItem, FinishSync,
       CheckMailbox, TooLarge, Submit, RecordError, RecordSent, ConfirmSent
  <2> QED BY <2>2, <2>3, <2>4, <2>5, <2>6, <2>7, <2>8, <2>9, <2>10 DEF Next, SyncStep, ListStep
<1> QED BY <1>1, <1>2

(* If nothing is deleted but the item behind all others, whatever is there *)
(* from the beginning of the first run to its end is never forwarded, for  *)
(* every number of items, size of a page and way of announcing the next    *)
(* page.                                                                   *)
THEOREM ArchiveIsKept ==
  ASSUME ~ForwardExisting, OnlyOldestDeletable
  PROVE  Spec => []ArchiveNotForwarded
<1>1. Init => ArchiveInv
  BY DEF Init, ArchiveInv, EmptyState
<1>2. TypeOK /\ IInv /\ TypeOK' /\ IInv' /\ ArchiveInv /\ [Next]_vars => ArchiveInv'
  BY ArchiveStep
<1>3. ArchiveInv => ArchiveNotForwarded
  BY DEF ArchiveInv, ArchiveNotForwarded
<1> QED BY <1>1, <1>2, <1>3, Invariant, PTL DEF Spec
=============================================================================
