---------------------------- MODULE Message2Mail ----------------------------
(***************************************************************************)
(* The forwarding service of internal/message2mail: Service.Sync lists the *)
(* news of the upstream application page by page, reconciles unconfirmed   *)
(* entries of its ledger with the target mailbox, and delivers what is     *)
(* left oldest first, one SMTP attempt per item and run.  A run may stop   *)
(* at any call: every error ends Sync, and a crash loses the same memory.  *)
(*                                                                         *)
(* Around it are modelled, as far as Sync can observe them: the upstream   *)
(* application, whose news are published, edited and deleted while a run   *)
(* is in progress; the SMTP server, which may accept a message and still   *)
(* report an error; and the mailbox, which shows an accepted message late, *)
(* not at all, or only until somebody files it away.                       *)
(*                                                                         *)
(* The ledger is keyed by a fingerprint of the LISTED item, while mails    *)
(* are recognised by the revision of the DETAIL that is fetched later.     *)
(* The two digests overlap but neither determines the other.               *)
(***************************************************************************)
EXTENDS Naturals, FiniteSets

CONSTANTS
  News,            \* identifiers, numbered in the order of (Date, Identifier)
  InitialNews,     \* the news that are there when the service first starts
  Cores,           \* values of the fields both digests read (title, content, ...)
  Flags,           \* values of HasAttachments: only ListFingerprint reads it
  Details,         \* values of the fields only Revision reads (attachments, ...)
  FirstVersion,    \* the version an item is published with
  None,            \* no item, no revision
  ForwardExisting, \* Service.ForwardExisting
  MaxAttempts,     \* Service.MaxAttempts
  RetryGrace,      \* Service.RetryGrace, in clock ticks
  PageSize,        \* Service.PageSize
  MaxPages,        \* Service.MaxPages
  Paging,          \* how upstream announces a next page: "count", "more", "size"
  Oversized,       \* revisions whose attachments exceed Service.MaxMessageSize
  Deletable,       \* news upstream may delete
  MaxEdits,        \* bound on upstream edits and deletions
  MaxFaults        \* bound on interrupted runs and lost or removed mail

Version == [core : Cores, flag : Flags, detail : Details]
Fingerprint == [id : News, core : Cores, flag : Flags]
Revision == [id : News, core : Cores, detail : Details]

(* A mail: what it says, and the entry of the ledger it was sent for. *)
Mail == [fp : Fingerprint, rev : Revision]

ASSUME NewsAssumption == News \subseteq Nat /\ IsFiniteSet(News) /\ InitialNews \subseteq News
ASSUME VersionAssumption == FirstVersion \in Version
ASSUME NoneAssumption == None \notin Fingerprint /\ None \notin Revision
ASSUME LimitAssumption ==
  /\ MaxAttempts \in Nat \ {0}
  /\ RetryGrace \in Nat \ {0}
  /\ PageSize \in Nat \ {0}
  /\ MaxPages \in Nat \ {0}
ASSUME BoundAssumption == MaxEdits \in Nat /\ MaxFaults \in Nat
ASSUME EnvironmentAssumption ==
  /\ ForwardExisting \in BOOLEAN
  /\ Paging \in {"count", "more", "size"}

VARIABLES
  stage,       \* of each item upstream: "unpublished", "published", "deleted"
  item,        \* the current version of each item upstream
  edits,       \* upstream edits and deletions so far
  pc,          \* where Sync is; "idle" when no run is in progress
  offset,      \* the page listAll asks for next
  items,       \* the listing: the fingerprint of an item and its page
  left,        \* the listed items the delivery loop has not come to
  todo,        \* the entries reconcilePending has not come to
  waiting,     \* history: entries that this run has found, or put, in their wait
  cur,         \* the fingerprint of the item being delivered
  rev,         \* its revision
  ledger,      \* the State in the memory of the run
  disk,        \* the State in the state file
  age,         \* time since the LastAttempt of an entry, up to RetryGrace
  transit,     \* mails accepted by SMTP and not yet in the mailbox
  inbox,       \* revisions the mailbox shows
  arrived,     \* history: revisions the mailbox has shown
  removed,     \* history: revisions somebody has removed from it
  submits,     \* history: SMTP attempts made for each fingerprint
  unrecorded,  \* history: those whose outcome never reached the state file
  sends,       \* history: SMTP attempts made for each revision
  copies,      \* history: how often SMTP accepted each mail, since a copy of it
               \* was late or lost or an attempt for its entry went unrecorded
  sendAge,     \* history: time since the last attempt for each fingerprint,
               \* up to RetryGrace
  archive,     \* history: what was there, unchanged, all through the first run
  faults       \* interrupted runs and lost or removed mail so far

upstream == <<stage, item, edits>>
progress == <<offset, items, waiting>>
mail == <<transit, inbox, arrived, removed>>
attempted == <<submits, sends, copies, sendAge>>
history == <<unrecorded, archive, faults>>
vars == <<upstream, pc, progress, left, todo, cur, rev, ledger, disk, age,
          mail, attempted, history>>

(***************************************************************************)
(* Digests and the state file.                                             *)
(***************************************************************************)
ListFingerprint(n) == [id |-> n, core |-> item[n].core, flag |-> item[n].flag]
RevisionOf(n) == [id |-> n, core |-> item[n].core, detail |-> item[n].detail]

Listed == [fp : Fingerprint, page : Nat]

Statuses == {"none", "seeded", "pending", "delivered", "retry_wait", "failed"}
Delivery == [status : Statuses, rev : Revision \cup {None}, attempts : Nat]
State == [initialized : BOOLEAN, deliveries : [Fingerprint -> Delivery]]

Absent == [status |-> "none", rev |-> None, attempts |-> 0]
EmptyState == [initialized |-> FALSE, deliveries |-> [f \in Fingerprint |-> Absent]]

(* Save replaces the file atomically or leaves it alone and fails; a       *)
(* failure is an Interrupt of the run, so a step that saves has saved.     *)
Save(s) == ledger' = s /\ disk' = s

WithEntry(s, f, status, r, attempts) ==
  [s EXCEPT !.deliveries[f] = [status |-> status, rev |-> r, attempts |-> attempts]]

WithStatus(s, f, status) == [s EXCEPT !.deliveries[f].status = status]

Terminal == {"delivered", "seeded", "failed"}
Unconfirmed == {"pending", "retry_wait"}

Entry(f) == ledger.deliveries[f]

(* IMAPMailbox.Contains: SEARCH by header, or the newest headers. *)
Contains(r) == r \in inbox

(***************************************************************************)
(* The listing.  Upstream serves the newest items first, by page number.   *)
(***************************************************************************)
Published == {n \in News : stage[n] = "published"}
Rank(n) == Cardinality({m \in Published : m > n})
PageItems(p) == {n \in Published : p * PageSize <= Rank(n) /\ Rank(n) < (p + 1) * PageSize}

HasMore(p) ==
  /\ PageItems(p) # {}
  /\ CASE Paging = "count" -> (p + 1) * PageSize < Cardinality(Published)
       [] Paging = "more" -> TRUE
       [] Paging = "size" -> Cardinality(PageItems(p)) = PageSize

(***************************************************************************)
(* Sync returns: what it held in memory is gone.                           *)
(***************************************************************************)
EndSync ==
  /\ pc' = "idle"
  /\ offset' = 0
  /\ items' = {}
  /\ left' = {}
  /\ todo' = {}
  /\ waiting' = {}
  /\ cur' = None
  /\ rev' = None
  /\ ledger' = EmptyState

Init ==
  /\ stage = [n \in News |-> IF n \in InitialNews THEN "published" ELSE "unpublished"]
  /\ item = [n \in News |-> FirstVersion]
  /\ edits = 0
  /\ pc = "idle"
  /\ offset = 0
  /\ items = {}
  /\ left = {}
  /\ todo = {}
  /\ waiting = {}
  /\ cur = None
  /\ rev = None
  /\ ledger = EmptyState
  /\ disk = EmptyState
  /\ age = [f \in Fingerprint |-> RetryGrace]
  /\ transit = {}
  /\ inbox = {}
  /\ arrived = {}
  /\ removed = {}
  /\ submits = [f \in Fingerprint |-> 0]
  /\ unrecorded = [f \in Fingerprint |-> 0]
  /\ sends = [r \in Revision |-> 0]
  /\ copies = [m \in Mail |-> 0]
  /\ sendAge = [f \in Fingerprint |-> RetryGrace]
  /\ archive = {}
  /\ faults = 0

(* A trigger or the ticker starts a run; the session opens. *)
StartSync ==
  /\ pc = "idle"
  /\ pc' = "list"
  /\ archive' = IF disk.initialized THEN archive ELSE {ListFingerprint(n) : n \in Published}
  /\ UNCHANGED <<upstream, progress, left, todo, cur, rev, ledger, disk, age, mail,
                 attempted, unrecorded, faults>>

(* listAll fetches one page; too many pages are an error. *)
ListPage ==
  /\ pc = "list"
  /\ \/ /\ HasMore(offset) /\ offset + 1 = MaxPages
        /\ EndSync
     \/ /\ HasMore(offset) => offset + 1 < MaxPages
        /\ items' = items \cup {[fp |-> ListFingerprint(n), page |-> offset] : n \in PageItems(offset)}
        /\ pc' = IF HasMore(offset) THEN "list" ELSE "load"
        /\ offset' = IF HasMore(offset) THEN offset + 1 ELSE offset
        /\ UNCHANGED <<left, todo, waiting, cur, rev, ledger>>
  /\ UNCHANGED <<upstream, disk, age, mail, attempted, history>>

(* Mutation: the state is saved before the listing is recorded in it. *)
SeedAfterSave ==
  /\ pc = "load"
  /\ ~disk.initialized
  /\ ~ForwardExisting
  /\ disk' = [disk EXCEPT !.initialized = TRUE]
  /\ EndSync
  /\ UNCHANGED <<upstream, age, mail, attempted, history>>

(* The first run without ForwardExisting records what it listed and ends. *)
Seed ==
  /\ pc = "load"
  /\ ~disk.initialized
  /\ ~ForwardExisting
  /\ disk' = [initialized |-> TRUE,
              deliveries |-> [f \in Fingerprint |->
                 IF \E i \in items : i.fp = f THEN [Absent EXCEPT !.status = "seeded"]
                                              ELSE disk.deliveries[f]]]
  /\ EndSync
  /\ UNCHANGED <<upstream, age, mail, attempted, history>>

(* Every other run goes on to reconcile and deliver. *)
LoadState ==
  /\ pc = "load"
  /\ disk.initialized \/ ForwardExisting
  /\ Save([disk EXCEPT !.initialized = TRUE])
  /\ pc' = "loop"
  /\ left' = items
  /\ todo' = {f \in Fingerprint : disk.deliveries[f].status \in Unconfirmed}
  /\ waiting' = {f \in Fingerprint : age[f] < RetryGrace}
  /\ UNCHANGED <<upstream, offset, items, cur, rev, age, mail, attempted, history>>

(* Mutation: what was reconciled is not saved. *)
ReconcileUnsaved(f) ==
  /\ pc = "loop"
  /\ f \in todo
  /\ todo' = todo \ {f}
  /\ ledger' = IF Contains(Entry(f).rev) THEN WithStatus(ledger, f, "delivered") ELSE ledger
  /\ UNCHANGED <<upstream, pc, progress, left, cur, rev, disk, age, mail, attempted, history>>

(* reconcilePending asks the mailbox for the revision of one entry. *)
Reconcile(f) ==
  /\ pc = "loop"
  /\ f \in todo
  /\ todo' = todo \ {f}
  /\ IF Contains(Entry(f).rev) THEN Save(WithStatus(ledger, f, "delivered"))
                               ELSE UNCHANGED <<ledger, disk>>
  /\ UNCHANGED <<upstream, pc, progress, left, cur, rev, age, mail, attempted, history>>

(***************************************************************************)
(* The delivery loop, oldest item first.                                   *)
(***************************************************************************)
(* Mutation: the listing keeps its order, newest item first. *)
BeforeUnsorted(i, j) == i.page < j.page \/ (i.page = j.page /\ i.fp.id > j.fp.id)

Before(i, j) == i.fp.id < j.fp.id \/ (i.fp.id = j.fp.id /\ i.page < j.page)

AtItem(i) ==
  /\ pc = "loop"
  /\ todo = {}
  /\ i \in left
  /\ \A j \in left : ~Before(j, i)

(* Mutation: the wait before a retry is not observed. *)
WaitedNever(f) == TRUE

Waited(f) == age[f] >= RetryGrace

(* Mutation: off by one. *)
UsedUpLate(f) == Entry(f).attempts > MaxAttempts

UsedUp(f) == Entry(f).attempts >= MaxAttempts

(* The entry is settled, or its last attempt is too recent. *)
SkipItem(i) ==
  /\ AtItem(i)
  /\ \/ Entry(i.fp).status \in Terminal
     \/ Entry(i.fp).status \in Unconfirmed /\ ~Waited(i.fp)
  /\ left' = left \ {i}
  /\ UNCHANGED <<upstream, pc, progress, todo, cur, rev, ledger, disk, age, mail, attempted, history>>

(* Mutation: giving up is not saved. *)
GiveUpUnsaved(i) ==
  /\ AtItem(i)
  /\ Entry(i.fp).status \in Unconfirmed
  /\ Waited(i.fp)
  /\ UsedUp(i.fp)
  /\ left' = left \ {i}
  /\ UNCHANGED <<upstream, pc, progress, todo, cur, rev, ledger, disk, age, mail, attempted, history>>

(* The attempts are used up and the mailbox never showed the message. *)
GiveUp(i) ==
  /\ AtItem(i)
  /\ Entry(i.fp).status \in Unconfirmed
  /\ Waited(i.fp)
  /\ UsedUp(i.fp)
  /\ Save(WithStatus(ledger, i.fp, "failed"))
  /\ left' = left \ {i}
  /\ UNCHANGED <<upstream, pc, progress, todo, cur, rev, age, mail, attempted, history>>

Due(f) ==
  \/ Entry(f).status = "none"
  \/ /\ Entry(f).status \in Unconfirmed
     /\ Waited(f)
     /\ ~UsedUp(f)

(* deliver fetches the detail; it is an error if upstream has deleted it. *)
FetchItem(i) ==
  /\ AtItem(i)
  /\ Due(i.fp)
  /\ \/ /\ i.fp.id \in Published
        /\ pc' = "check"
        /\ cur' = i.fp
        /\ rev' = RevisionOf(i.fp.id)
        /\ left' = left \ {i}
        /\ UNCHANGED <<progress, todo, ledger>>
     \/ /\ i.fp.id \notin Published
        /\ EndSync
  /\ UNCHANGED <<upstream, disk, age, mail, attempted, history>>

(* Mutation: the mailbox is not asked again before a delivery. *)
SubmitUnchecked ==
  /\ pc = "check"
  /\ pc' = "submit"
  /\ UNCHANGED <<upstream, progress, left, todo, cur, rev, ledger, disk, age, mail, attempted, history>>

(* A mail with the revision is already there; or the message is built. *)
CheckMailbox ==
  /\ pc = "check"
  /\ IF Contains(rev)
     THEN /\ Save(WithEntry(ledger, cur, "delivered", rev, Entry(cur).attempts))
          /\ pc' = "loop" /\ cur' = None /\ rev' = None
     ELSE /\ pc' = "submit"
          /\ UNCHANGED <<cur, rev, ledger, disk>>
  /\ UNCHANGED <<upstream, progress, left, todo, age, mail, attempted, history>>

TooLarge ==
  /\ pc = "submit"
  /\ rev \in Oversized
  /\ EndSync
  /\ UNCHANGED <<upstream, disk, age, mail, attempted, history>>

(* Mailer.Send: accepted; accepted, but QUIT or the context fails; or not. *)
Submit ==
  /\ pc = "submit"
  /\ rev \notin Oversized
  /\ submits' = [submits EXCEPT ![cur] = @ + 1]
  /\ sends' = [sends EXCEPT ![rev] = @ + 1]
  /\ sendAge' = [sendAge EXCEPT ![cur] = 0]
  /\ \/ /\ pc' \in {"accepted", "refused"}
        /\ transit' = transit \cup {[fp |-> cur, rev |-> rev]}
        /\ copies' = [copies EXCEPT ![[fp |-> cur, rev |-> rev]] = @ + 1]
     \/ /\ pc' = "refused"
        /\ UNCHANGED <<transit, copies>>
  /\ UNCHANGED <<upstream, progress, left, todo, cur, rev, ledger, disk, age,
                 inbox, arrived, removed, history>>

(* Mutation: the last attempt is to be retried as well. *)
RecordRetrying ==
  /\ pc = "refused"
  /\ disk' = WithEntry(ledger, cur, "retry_wait", rev, Entry(cur).attempts + 1)
  /\ age' = [age EXCEPT ![cur] = 0]
  /\ EndSync
  /\ UNCHANGED <<upstream, mail, attempted, history>>

(* An attempt that reported an error is recorded and ends the run. *)
RecordError ==
  /\ pc = "refused"
  /\ LET attempts == Entry(cur).attempts + 1
         status == IF attempts >= MaxAttempts THEN "failed" ELSE "retry_wait"
     IN disk' = WithEntry(ledger, cur, status, rev, attempts)
  /\ age' = [age EXCEPT ![cur] = 0]
  /\ EndSync
  /\ UNCHANGED <<upstream, mail, attempted, history>>

(* An accepted message is pending until the mailbox shows it. *)
RecordSent ==
  /\ pc = "accepted"
  /\ Save(WithEntry(ledger, cur, "pending", rev, Entry(cur).attempts + 1))
  /\ age' = [age EXCEPT ![cur] = 0]
  /\ waiting' = waiting \cup {cur}
  /\ pc' = "confirm"
  /\ UNCHANGED <<upstream, offset, items, left, todo, cur, rev, mail, attempted, history>>

(* Mutation: acceptance by SMTP is taken for delivery. *)
ConfirmUnseen ==
  /\ pc = "confirm"
  /\ Save(WithStatus(ledger, cur, "delivered"))
  /\ pc' = "loop" /\ cur' = None /\ rev' = None
  /\ UNCHANGED <<upstream, progress, left, todo, age, mail, attempted, history>>

ConfirmSent ==
  /\ pc = "confirm"
  /\ IF Contains(rev) THEN Save(WithStatus(ledger, cur, "delivered"))
                      ELSE UNCHANGED <<ledger, disk>>
  /\ pc' = "loop" /\ cur' = None /\ rev' = None
  /\ UNCHANGED <<upstream, progress, left, todo, age, mail, attempted, history>>

(* Every listed item has been looked at. *)
FinishSync ==
  /\ pc = "loop"
  /\ todo = {} /\ left = {}
  /\ EndSync
  /\ UNCHANGED <<upstream, disk, age, mail, attempted, history>>

(* Some copies are accounted for, and the next one is the first again. *)
Recount(mails) == copies' = [m \in Mail |-> IF m \in mails THEN 0 ELSE copies[m]]

(* A call fails, saving included, or the process dies. *)
Interrupt ==
  /\ pc # "idle"
  /\ faults < MaxFaults
  /\ faults' = faults + 1
  /\ unrecorded' = IF pc \in {"accepted", "refused"}
                   THEN [unrecorded EXCEPT ![cur] = @ + 1] ELSE unrecorded
  /\ Recount({m \in Mail : pc \in {"accepted", "refused"} /\ m.fp = cur})
  /\ EndSync
  /\ UNCHANGED <<upstream, disk, age, mail, submits, sends, sendAge, archive>>

(***************************************************************************)
(* The world outside the process.                                          *)
(***************************************************************************)
Publish(n) ==
  /\ stage[n] = "unpublished"
  /\ stage' = [stage EXCEPT ![n] = "published"]
  /\ UNCHANGED <<item, edits, pc, progress, left, todo, cur, rev, ledger, disk, age,
                 mail, attempted, history>>

(* Until the first run is over, a changed item leaves the archive. *)
LeaveArchive(n) == archive' = IF disk.initialized THEN archive ELSE {f \in archive : f.id # n}

Edit(n) ==
  /\ edits < MaxEdits
  /\ stage[n] = "published"
  /\ \E v \in Version \ {item[n]} : item' = [item EXCEPT ![n] = v]
  /\ edits' = edits + 1
  /\ LeaveArchive(n)
  /\ UNCHANGED <<stage, pc, progress, left, todo, cur, rev, ledger, disk, age,
                 mail, attempted, unrecorded, faults>>

Delete(n) ==
  /\ edits < MaxEdits
  /\ n \in Deletable
  /\ stage[n] = "published"
  /\ stage' = [stage EXCEPT ![n] = "deleted"]
  /\ edits' = edits + 1
  /\ LeaveArchive(n)
  /\ UNCHANGED <<item, pc, progress, left, todo, cur, rev, ledger, disk, age,
                 mail, attempted, unrecorded, faults>>

ArriveMail(m) ==
  /\ m \in transit
  /\ transit' = transit \ {m}
  /\ inbox' = inbox \cup {m.rev}
  /\ arrived' = arrived \cup {m.rev}
  /\ UNCHANGED <<upstream, pc, progress, left, todo, cur, rev, ledger, disk, age, removed,
                 attempted, history>>

LoseMail(m) ==
  /\ faults < MaxFaults
  /\ faults' = faults + 1
  /\ m \in transit
  /\ transit' = transit \ {m}
  /\ Recount({m})
  /\ UNCHANGED <<upstream, pc, progress, left, todo, cur, rev, ledger, disk, age,
                 inbox, arrived, removed, submits, sends, sendAge, unrecorded, archive>>

(* Somebody reads a mail and files it away. *)
RemoveMail(r) ==
  /\ faults < MaxFaults
  /\ faults' = faults + 1
  /\ r \in inbox
  /\ inbox' = inbox \ {r}
  /\ removed' = removed \cup {r}
  /\ Recount({m \in Mail : m.rev = r})
  /\ UNCHANGED <<upstream, pc, progress, left, todo, cur, rev, ledger, disk, age, transit, arrived,
                 submits, sends, sendAge, unrecorded, archive>>

Older(t) == IF t < RetryGrace THEN t + 1 ELSE t

(* Mail that is on its way when the wait of its entry ends is late. *)
Late == {m \in transit : sendAge[m.fp] + 1 = RetryGrace}

Tick ==
  /\ \E f \in Fingerprint : age[f] < RetryGrace \/ sendAge[f] < RetryGrace
  /\ age' = [f \in Fingerprint |-> Older(age[f])]
  /\ sendAge' = [f \in Fingerprint |-> Older(sendAge[f])]
  /\ Recount(Late)
  /\ UNCHANGED <<upstream, pc, progress, left, todo, cur, rev, ledger, disk,
                 mail, submits, sends, history>>

ListStep == ListPage \/ Seed \/ LoadState
LoopStep ==
  \/ \E f \in Fingerprint : Reconcile(f)
  \/ \E i \in left : SkipItem(i) \/ GiveUp(i) \/ FetchItem(i)
  \/ FinishSync
DeliverStep == CheckMailbox \/ TooLarge \/ Submit \/ RecordError \/ RecordSent \/ ConfirmSent

SyncStep == StartSync \/ ListStep \/ LoopStep \/ DeliverStep

Next ==
  \/ SyncStep
  \/ Interrupt
  \/ \E n \in News : Publish(n) \/ Edit(n) \/ Delete(n)
  \/ \E m \in transit : ArriveMail(m) \/ LoseMail(m)
  \/ \E r \in inbox : RemoveMail(r)
  \/ Tick

Spec == Init /\ [][Next]_vars

(* Runs are started again and again by the ticker, a run that is not       *)
(* interrupted goes on (every call has a timeout), and time passes.        *)
FairSpec == Spec /\ WF_vars(SyncStep) /\ WF_vars(Tick)
(***************************************************************************)
(* Properties.                                                             *)
(***************************************************************************)
Phases == {"idle", "list", "load", "loop", "check", "submit", "accepted", "refused", "confirm"}

(* Every variable has its type; the item being delivered and its revision  *)
(* are known exactly while deliver runs, and a run that has loaded the     *)
(* state holds what the file holds (service.go:61, 162-246).               *)
TypeOK ==
  /\ stage \in [News -> {"unpublished", "published", "deleted"}]
  /\ item \in [News -> Version]
  /\ edits \in Nat /\ faults \in Nat
  /\ pc \in Phases
  /\ offset \in Nat
  /\ items \subseteq Listed /\ left \subseteq Listed
  /\ todo \subseteq Fingerprint /\ waiting \subseteq Fingerprint
  /\ IF pc \in {"check", "submit", "accepted", "refused", "confirm"}
     THEN cur \in Fingerprint /\ rev \in Revision
     ELSE cur = None /\ rev = None
  /\ disk \in State
  /\ ledger = IF pc \in {"idle", "list", "load"} THEN EmptyState ELSE disk
  /\ age \in [Fingerprint -> Nat]
  /\ transit \subseteq Mail /\ inbox \subseteq Revision /\ arrived \subseteq Revision /\ removed \subseteq Revision
  /\ submits \in [Fingerprint -> Nat] /\ unrecorded \in [Fingerprint -> Nat]
  /\ sends \in [Revision -> Nat] /\ copies \in [Mail -> Nat]
  /\ sendAge \in [Fingerprint -> Nat]
  /\ archive \subseteq Fingerprint

(* No SMTP attempt escapes the ledger's count, except one whose outcome    *)
(* could not be saved, and no listed item is tried more often than         *)
(* MaxAttempts allows (service.go:107-115, 206-228).                       *)
AttemptsBounded == \A f \in Fingerprint : submits[f] <= MaxAttempts + unrecorded[f]

(* An entry says "delivered" only with a revision that the mailbox has     *)
(* shown; not because SMTP accepted something (service.go:149, 172, 236).  *)
DeliveredWasSeen ==
  \A f \in Fingerprint :
    disk.deliveries[f].status = "delivered" => disk.deliveries[f].rev \in arrived

(* Deliveries go in the order of the dates.  An item is delivered only     *)
(* when every older item of its listing is settled, or waits: its last     *)
(* attempt was less than RetryGrace ago when the run loaded the state, or  *)
(* was made by the run and accepted by the SMTP server.  So an older item  *)
(* that fails, or was never tried, or has waited long enough, is not       *)
(* overtaken; one that waits for its retry is (service.go:88-120).         *)
OldestFirst ==
  cur # None =>
    \A i \in items :
      i.fp.id < cur.id => disk.deliveries[i.fp].status \in Terminal \/ i.fp \in waiting

(* A revision that is recorded as delivered is submitted again, for this   *)
(* entry or another one that shares it, only if somebody has removed its   *)
(* mail from the mailbox (service.go:97-101, 167-179).                     *)
SubmitsNoDelivered ==
  \A r \in Revision, f \in Fingerprint :
    /\ sends'[r] # sends[r]
    /\ disk.deliveries[f].status = "delivered"
    /\ disk.deliveries[f].rev = r
    => r \in removed

DeliveredNeverResent == [][SubmitsNoDelivered]_vars

(* Another attempt for an entry of the ledger, for whichever revision, is  *)
(* made only when RetryGrace has passed since its last one, or an attempt  *)
(* was lost before it was saved (service.go:103, 206-228).                 *)
GraceKept ==
  [][\A f \in Fingerprint :
       submits'[f] # submits[f] /\ submits[f] > 0 =>
         sendAge[f] >= RetryGrace \/ unrecorded[f] > 0]_vars

(* For each fingerprint that the listing showed of an item, the SMTP       *)
(* server accepts a revision at most once, until a copy is late or lost or *)
(* gone from the mailbox, or an attempt could not be saved: the ledger's   *)
(* wait and the two looks into the mailbox see to it (service.go:85, 103,  *)
(* 168).  It is not once for each revision: edited between listing and     *)
(* detail, a revision comes up under two fingerprints, and is sent at once *)
(* for the second while the first copy is on its way (service.go:95,       *)
(* 163-167).                                                               *)
AtMostOnce == \A m \in Mail : copies[m] <= 1

(* "maximum SMTP attempts per message revision" (main.go:53).  It does not *)
(* hold: the ledger counts attempts per fingerprint, so a revision that is *)
(* submitted under the fingerprint of an older listing starts over under   *)
(* its own.                                                                *)
AttemptsPerRevision == \A r \in Revision : sends[r] <= MaxAttempts

(* What was there all through the first run is never forwarded             *)
(* (service.go:65-79, 125-138), as long as nothing but the oldest item is  *)
(* deleted meanwhile: an item behind a deleted one may move to a page that *)
(* has been read, and is then neither listed nor seeded.                   *)
ArchiveNotForwarded ==
  disk.initialized => \A f \in archive : submits[f] = 0

(* The state file is the ledger that is promised.                          *)
Ledger == INSTANCE DeliveryLedger
            WITH initialized <- disk.initialized, deliveries <- disk.deliveries

LedgerSpec == Ledger!Spec

(* Once upstream stops changing and runs stop failing for outside reasons, *)
(* every item is in the end delivered, given up or was seeded, unless it   *)
(* or an older one exceeds MaxMessageSize: such an item ends every run     *)
(* that comes to it (service.go:116-119, 181-205).                         *)
EventuallySettled ==
  <>[](\A n \in Published :
         \/ disk.deliveries[ListFingerprint(n)].status \in Terminal
         \/ \E k \in Published : k <= n /\ RevisionOf(k) \in Oversized)

=============================================================================
