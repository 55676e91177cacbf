--------------------------- MODULE DurableDelivery --------------------------
(***************************************************************************)
(* The delivery of one item, end to end: Service.Sync over the state file  *)
(* that kills and power losses threaten (StateFile) and over the calls to  *)
(* the mail system taken apart (MailTransport).  Upstream does not change  *)
(* the item, so it has one fingerprint and one revision, and it is         *)
(* forwarded from the first run on (ForwardExisting).                      *)
(***************************************************************************)
EXTENDS StateFile, MailTransport

CONSTANTS
  MaxAttempts,   \* Service.MaxAttempts
  MaxTries,      \* bound on the calls of Send
  MaxSlow        \* bound on the times that mail takes longer than RetryGrace

ASSUME DeliveryAssumption ==
  Clients = Processes /\ MaxAttempts \in Nat \ {0} /\ MaxTries \in Nat /\ MaxSlow \in Nat

VARIABLES
  at,          \* where Sync is in each process
  entry,       \* the item's entry in the memory of each process
  draft,       \* the entry that its Save writes
  after,       \* where Sync goes on when Save has returned
  contents,    \* the entry in each version of the state file
  recent,      \* versions whose LastAttempt is less than RetryGrace ago
  shown,       \* history: processes whose run began when a look would find it
  tries,       \* history: calls of Send
  lost,        \* history: of those, the ones whose record was lost
  slow,        \* history: times that mail was under way when RetryGrace was over
  overlooked   \* history: looks before a Send that could not find it any more

syncVars == <<at, entry, draft, after, shown>>
account == <<tries, lost, slow, overlooked>>
storeVars == <<vars, contents, recent>>
deliveryVars == <<storeVars, transport, syncVars, account>>

Unconfirmed == {"pending", "retry_wait"}
NoEntry == [status |-> "none", attempts |-> 0, initialized |-> FALSE]

DeliveryInit ==
  /\ Init
  /\ MailInit
  /\ at = [p \in Processes |-> "out"]
  /\ entry = [p \in Processes |-> NoEntry]
  /\ draft = [p \in Processes |-> NoEntry]
  /\ after = [p \in Processes |-> "out"]
  /\ contents = [v \in 0..MaxVersion |-> NoEntry]
  /\ recent = {}
  /\ shown = {}
  /\ tries = 0 /\ lost = 0 /\ slow = 0 /\ overlooked = 0

At(p, place) == at[p] = place /\ step[p] = "loaded"

GoOn(p, place) == at' = [at EXCEPT ![p] = place] /\ UNCHANGED <<entry, draft, after, shown>>

(* Sync calls Save and goes on at next.                                    *)
SaveEntry(p, e, next) ==
  /\ at' = [at EXCEPT ![p] = "save"]
  /\ draft' = [draft EXCEPT ![p] = e]
  /\ after' = [after EXCEPT ![p] = next]
  /\ UNCHANGED <<entry, shown>>

(* What the processes held in memory is gone.                              *)
Forget(processes) ==
  /\ at' = [p \in Processes |-> IF p \in processes THEN "out" ELSE at[p]]
  /\ entry' = [p \in Processes |-> IF p \in processes THEN NoEntry ELSE entry[p]]
  /\ draft' = [p \in Processes |-> IF p \in processes THEN NoEntry ELSE draft[p]]
  /\ after' = [p \in Processes |-> IF p \in processes THEN "out" ELSE after[p]]
  /\ shown' = shown \ processes

(* Tries that are in no version a reader can find are lost for good.       *)
CountLost == lost' = tries - contents[file'].attempts

(***************************************************************************)
(* A run.                                                                  *)
(***************************************************************************)
StartProcess(p) ==
  (Start(p) \/ Exit(p)) /\ UNCHANGED <<contents, recent, transport, syncVars, account>>

(* Mutation: the mailbox is not asked about unconfirmed deliveries. *)
ReconcileNever(e) == "decide"

ReconcileOrDecide(e) == IF e.status \in Unconfirmed THEN "reconcile" ELSE "decide"

BeginRun(p) ==
  /\ Load(p)
  /\ LET e == contents[file] IN
       /\ entry' = [entry EXCEPT ![p] = e]
       /\ shown' = IF Outlook = "due" THEN shown \union {p} ELSE shown
       /\ IF e.initialized
          THEN /\ at' = [at EXCEPT ![p] = ReconcileOrDecide(e)]
               /\ UNCHANGED <<draft, after>>
          ELSE /\ at' = [at EXCEPT ![p] = "save"]
               /\ draft' = [draft EXCEPT ![p] = [e EXCEPT !.initialized = TRUE]]
               /\ after' = [after EXCEPT ![p] = ReconcileOrDecide(e)]
  /\ UNCHANGED <<contents, recent, transport, account>>

(* Sync returns, with or without an error.                                 *)
EndRun(p) == SyncEnds(p) /\ Forget({p}) /\ Hangup({p}) /\ UNCHANGED <<contents, recent>>

Look(p) ==
  /\ \E place \in {"reconcile", "check", "confirm"} : At(p, place)
  /\ StartLook(p)
  /\ UNCHANGED <<storeVars, syncVars, account>>

Calls(p) == TransportStep(p) /\ UNCHANGED <<storeVars, syncVars, account>>

(* Any look that finds the message makes the entry a delivered one.        *)
Seen(p) ==
  /\ \E place \in {"reconcile", "check", "confirm"} : At(p, place)
  /\ call[p] = "seen"
  /\ SaveEntry(p, [entry[p] EXCEPT !.status = "delivered"], "decide")
  /\ Hangup({p})
  /\ UNCHANGED <<storeVars, account>>

(* The history forgets that the message was shown if it has been buried.   *)
Reconciled(p) ==
  /\ at' = [at EXCEPT ![p] = "decide"]
  /\ shown' = IF due[p] = "buried" THEN shown \ {p} ELSE shown
  /\ UNCHANGED <<entry, draft, after>>

(* Mutation: a look that finds nothing confirms. *)
UnseenConfirms(p) ==
  /\ call[p] = "unseen"
  /\ \/ At(p, "reconcile") /\ Reconciled(p)
     \/ At(p, "check") /\ GoOn(p, "send")
     \/ At(p, "confirm") /\ SaveEntry(p, [entry[p] EXCEPT !.status = "delivered"], "end")
  /\ Hangup({p})
  /\ UNCHANGED <<storeVars, account>>

Unseen(p) ==
  /\ call[p] = "unseen"
  /\ \/ At(p, "reconcile") /\ Reconciled(p) /\ Hangup({p})
     \/ At(p, "check") /\ GoOn(p, "send") /\ HangupKnowing(p)
     \/ At(p, "confirm") /\ GoOn(p, "end") /\ Hangup({p})
  /\ UNCHANGED <<storeVars, account>>

(* A look that fails is an error of Sync.                                  *)
Blind(p) == call[p] = "blind" /\ EndRun(p) /\ UNCHANGED account

(* Mutation: what was sent before is not looked for. *)
BeforeSendBlindly == "send"

(* Where deliver begins. *)
BeforeSend == "check"

(* Mutation: off by one. *)
UsedUpLate(e) == e.attempts > MaxAttempts

UsedUp(e) == e.attempts >= MaxAttempts

Decide(p) ==
  /\ At(p, "decide")
  /\ LET e == entry[p] IN
       \/ /\ \/ e.status \in {"delivered", "failed"}
             \/ e.status \in Unconfirmed /\ held[p] \in recent
          /\ GoOn(p, "end")
       \/ /\ e.status \in Unconfirmed /\ held[p] \notin recent /\ UsedUp(e)
          /\ SaveEntry(p, [e EXCEPT !.status = "failed"], "end")
       \/ /\ \/ e.status = "none"
             \/ e.status \in Unconfirmed /\ held[p] \notin recent /\ ~UsedUp(e)
          /\ GoOn(p, BeforeSend)
  /\ UNCHANGED <<storeVars, transport, account>>

(* The item or an attachment cannot be fetched.                            *)
FetchFails(p) ==
  /\ \E place \in {"check", "send"} : At(p, place)
  /\ call[p] = "none"
  /\ EndRun(p)
  /\ UNCHANGED account

Send(p) ==
  /\ At(p, "send")
  /\ StartSend(p)
  /\ tries < MaxTries
  /\ tries' = tries + 1
  /\ overlooked' = IF due[p] = "buried" THEN overlooked + 1 ELSE overlooked
  /\ UNCHANGED <<storeVars, syncVars, lost, slow>>

Sent(p) ==
  /\ At(p, "send")
  /\ call[p] = "sent"
  /\ SaveEntry(p, [entry[p] EXCEPT !.status = "pending", !.attempts = @ + 1], "confirm")
  /\ Hangup({p})
  /\ UNCHANGED <<storeVars, account>>

(* Mutation: the last attempt is to be repeated, too. *)
UnsentRetrying(p) ==
  /\ At(p, "send")
  /\ call[p] = "unsent"
  /\ SaveEntry(p, [entry[p] EXCEPT !.attempts = @ + 1, !.status = "retry_wait"], "end")
  /\ Hangup({p})
  /\ UNCHANGED <<storeVars, account>>

Unsent(p) ==
  /\ At(p, "send")
  /\ call[p] = "unsent"
  /\ LET attempts == entry[p].attempts + 1 IN
       SaveEntry(p, [entry[p] EXCEPT !.attempts = attempts,
                       !.status = IF attempts >= MaxAttempts THEN "failed" ELSE "retry_wait"], "end")
  /\ Hangup({p})
  /\ UNCHANGED <<storeVars, account>>

FinishRun(p) == At(p, "end") /\ EndRun(p) /\ UNCHANGED account

(***************************************************************************)
(* Save, as StateFile takes it apart.                                      *)
(***************************************************************************)
(* A version that is neither found nor to be found any more is forgotten.  *)
KeepContents ==
  /\ contents' = [v \in DOMAIN contents |-> IF v \in onDisk' THEN contents[v] ELSE NoEntry]
  /\ recent' = recent \intersect onDisk'

Attempted(p) == draft[p].attempts > entry[p].attempts

SaveStep(p) ==
  /\ at[p] = "save"
  /\ \/ Create(p) /\ UNCHANGED <<contents, recent, syncVars>>
     \/ /\ Encode(p)
        /\ contents' = [contents EXCEPT ![held[p] + 1] = draft[p]]
        /\ recent' = IF Attempted(p) \/ held[p] \in recent THEN recent \union {held[p] + 1}
                                                           ELSE recent \ {held[p] + 1}
        /\ UNCHANGED syncVars
     \/ (Sync(p) \/ Close(p) \/ Rename(p)) /\ UNCHANGED <<contents, recent, syncVars>>
     \/ /\ SyncDirectory(p)
        /\ entry' = [entry EXCEPT ![p] = draft[p]]
        /\ draft' = [draft EXCEPT ![p] = NoEntry]
        /\ at' = [at EXCEPT ![p] = after[p]]
        /\ after' = [after EXCEPT ![p] = "out"]
        /\ KeepContents
        /\ UNCHANGED shown
  /\ UNCHANGED <<transport, account>>

(* The error of Save ends the run; it may come before there is a file.     *)
SaveError(p) ==
  /\ at[p] = "save"
  /\ SaveFails(p) \/ SyncEnds(p)
  /\ CountLost
  /\ Forget({p})
  /\ KeepContents
  /\ UNCHANGED <<transport, tries, slow, overlooked>>

(***************************************************************************)
(* The environment.                                                        *)
(***************************************************************************)
KillProcess(p) ==
  /\ Kill(p)
  /\ CountLost
  /\ Forget({p})
  /\ Hangup({p})
  /\ KeepContents
  /\ UNCHANGED <<tries, slow, overlooked>>

LosePower ==
  /\ PowerLoss
  /\ CountLost
  /\ Forget(Processes)
  /\ Hangup(Processes)
  /\ KeepContents
  /\ UNCHANGED <<tries, slow, overlooked>>

(* RetryGrace is over for all attempts so far.  Mail may still be under    *)
(* way: that is counted.                                                   *)
GraceEnds ==
  /\ recent # {}
  /\ recent' = {}
  /\ \/ spool = 0 /\ UNCHANGED slow
     \/ spool > 0 /\ slow < MaxSlow /\ slow' = slow + 1
  /\ UNCHANGED <<vars, contents, transport, syncVars, tries, lost, overlooked>>

MailMoves == MailSystem /\ UNCHANGED <<storeVars, syncVars, account>>

RunStep(p) ==
  \/ StartProcess(p) \/ BeginRun(p) \/ FinishRun(p)
  \/ Look(p) \/ Calls(p) \/ Seen(p) \/ Unseen(p) \/ Blind(p)
  \/ Decide(p) \/ FetchFails(p) \/ Send(p) \/ Sent(p) \/ Unsent(p)
  \/ SaveStep(p) \/ SaveError(p)

DeliveryNext ==
  \/ \E p \in Processes : RunStep(p) \/ KillProcess(p)
  \/ LosePower
  \/ GraceEnds
  \/ MailMoves

DeliverySpec == DeliveryInit /\ [][DeliveryNext]_deliveryVars

(***************************************************************************)
(* Properties.                                                             *)
(***************************************************************************)

(* Every copy after the first has one of three reasons: an attempt whose   *)
(* record was lost before it was saved, mail that took longer than         *)
(* RetryGrace, or a message too far down for the look before the Send      *)
(* (service.go:141-174, 206-246; state.go:94-113; mail_transport.go:149).  *)
CopiesAccounted == copies <= 1 + lost + slow + overlooked

(* No more calls of Send than MaxAttempts allows and losses explain, over  *)
(* all kills and power losses (service.go:107, 206-228).                   *)
TriesBounded == tries <= MaxAttempts + lost

(* Whatever version of the file a power loss may leave, it says            *)
(* "delivered" only of a message that is in the mailbox.                   *)
DeliveredInMailbox ==
  \A v \in onDisk \union {file} :
    v # Torn /\ contents[v].status = "delivered" => \E i \in DOMAIN mailbox : Ours(i)

(* A delivery is not given up by a run at whose beginning the mailbox      *)
(* would have shown the message, unless other mail buried it before the    *)
(* look (service.go:85, 107-115).                                          *)
GivenUpAfterLook ==
  \A p \in Processes :
    /\ at[p] = "save"
    /\ draft[p].status = "failed" /\ ~Attempted(p)
    /\ step[p] # "syncdir"
    => p \notin shown

(* The file is the ledger that is promised, over all kills and power       *)
(* losses: what a power loss takes back is no change whose Save, or a      *)
(* later one, has synced the directory (service.go:61-246,                 *)
(* state.go:61-113).  The one entry has the one revision as soon as it is  *)
(* there.                                                                  *)
LedgerEntry(e) ==
  [status |-> e.status, rev |-> IF e.status = "none" THEN "none" ELSE "revision", attempts |-> e.attempts]

LedgerState(e) == [initialized |-> e.initialized, deliveries |-> [f \in {"item"} |-> LedgerEntry(e)]]

LedgerArrived == IF \E i \in DOMAIN mailbox : Ours(i) THEN {"revision"} ELSE {}

LedgerKept == {LedgerState(contents[v]) : v \in onDisk}

Ledger == INSTANCE DurableLedger
            WITH Fingerprint <- {"item"}, Revision <- {"revision"}, None <- "none",
                 initialized <- contents[file].initialized,
                 deliveries <- [f \in {"item"} |-> LedgerEntry(contents[file])],
                 arrived <- LedgerArrived,
                 kept <- LedgerKept

DurableLedgerSpec == Ledger!DurableSpec
=============================================================================
