----------------------- MODULE DurableDeliveryProofs ------------------------
(***************************************************************************)
(* The delivery of an item over the state file and the mail system taken   *)
(* apart, for any number of processes, versions, mails and kills.          *)
(***************************************************************************)
EXTENDS DurableDelivery, StateFileProofs

(***************************************************************************)
(* The service does with the file what StateFile says, so that its         *)
(* theorems hold for every run of the service.                             *)
(***************************************************************************)
LEMMA StepFile == [DeliveryNext]_deliveryVars => [Next]_vars
<1> USE DEF storeVars
<1>1. CASE UNCHANGED deliveryVars
  BY <1>1 DEF deliveryVars
<1>2. ASSUME NEW p \in Processes, RunStep(p) PROVE [Next]_vars
  <2>1. CASE StartProcess(p) \/ BeginRun(p) \/ FinishRun(p) \/ Blind(p) \/ FetchFails(p)
    BY <2>1 DEF StartProcess, BeginRun, FinishRun, Blind, FetchFails, EndRun, Next, ProcessStep
  <2>2. CASE Look(p) \/ Calls(p) \/ Seen(p) \/ Unseen(p) \/ Decide(p) \/ Send(p) \/ Sent(p) \/ Unsent(p)
    BY <2>2 DEF Look, Calls, Seen, Unseen, Decide, Send, Sent, Unsent
  <2>3. CASE SaveStep(p) \/ SaveError(p)
    BY <2>3 DEF SaveStep, SaveError, Next, ProcessStep
  <2> QED BY <1>2, <2>1, <2>2, <2>3 DEF RunStep
<1>3. CASE LosePower \/ \E p \in Processes : KillProcess(p)
  BY <1>3 DEF LosePower, KillProcess, Next
<1>4. CASE GraceEnds \/ MailMoves
  BY <1>4 DEF GraceEnds, MailMoves
<1> QED BY <1>1, <1>2, <1>3, <1>4 DEF DeliveryNext

(* The composition implements the state file: no step of a run writes it   *)
(* but by the steps of Save (service.go:61-246, state.go:70-114).          *)
THEOREM ImplementsFile == DeliverySpec => Spec
<1>1. DeliveryInit => Init
  BY DEF DeliveryInit
<1> QED BY <1>1, StepFile, PTL DEF DeliverySpec, Spec

(* So the ledger can be decoded at all times.                              *)
THEOREM LedgerDecodes == DeliverySpec => []AlwaysDecodes
BY ImplementsFile, FileAlwaysDecodes, PTL

(* And each run decides on the ledger that is in the file.                 *)
THEOREM RunsOnCurrentLedger == DeliverySpec => []HeldIsCurrent
BY ImplementsFile, HeldStaysCurrent, PTL

(***************************************************************************)
(* The mail system.                                                        *)
(***************************************************************************)
Calling == {"none", "connect", "submit", "quit", "sent", "unsent",
            "open", "search", "fetch", "seen", "unseen", "blind"}

MailTyped ==
  /\ call \in [Clients -> Calling]
  /\ count \in [Clients -> Nat]
  /\ mailbox \in Seq({"other", "marked", "indexed"})
  /\ due \in [Clients -> {"due", "absent", "buried"}]
  /\ \A c \in Clients : count[c] <= Len(mailbox)

(* What a look that should find the message still has before it.           *)
LookSound ==
  \A c \in Clients : due[c] = "due" =>
    /\ call[c] = "search" =>
         \E i \in 1..count[c] : mailbox[i] = "indexed" \/ (Ours(i) /\ i + ScanLimit > count[c])
    /\ call[c] = "fetch" => \E i \in 1..count[c] : Ours(i) /\ i + ScanLimit > count[c]

InMailbox == \E i \in DOMAIN mailbox : Ours(i)

MailInv == MailTyped /\ LookSound /\ LookIsRight

(* All that a run, or its end, does with the mail system.                  *)
MailStep ==
  \/ UNCHANGED transport
  \/ MailSystem
  \/ \E c \in Clients : StartSend(c) \/ StartLook(c) \/ TransportStep(c) \/ HangupKnowing(c)
  \/ \E clients \in SUBSET Clients : Hangup(clients)

LEMMA StepMail == [DeliveryNext]_deliveryVars => MailStep
<1> USE DeliveryAssumption DEF MailStep
<1>1. CASE UNCHANGED deliveryVars
  BY <1>1 DEF deliveryVars
<1>2. ASSUME NEW p \in Processes, RunStep(p) PROVE MailStep
  <2>1. CASE StartProcess(p) \/ BeginRun(p) \/ Decide(p) \/ SaveStep(p) \/ SaveError(p)
    BY <2>1 DEF StartProcess, BeginRun, Decide, SaveStep, SaveError
  <2>2. CASE FinishRun(p) \/ Blind(p) \/ FetchFails(p) \/ Seen(p) \/ Unseen(p) \/ Sent(p) \/ Unsent(p)
    <3>1. Hangup({p}) \/ HangupKnowing(p)
      BY <2>2 DEF FinishRun, Blind, FetchFails, EndRun, Seen, Unseen, Sent, Unsent
    <3> QED BY <3>1
  <2>3. CASE Look(p) \/ Calls(p) \/ Send(p)
    BY <2>3 DEF Look, Calls, Send
  <2> QED BY <1>2, <2>1, <2>2, <2>3 DEF RunStep
<1>3. CASE LosePower
  BY <1>3 DEF LosePower
<1>4. ASSUME NEW p \in Processes, KillProcess(p) PROVE MailStep
  BY <1>4 DEF KillProcess
<1>5. CASE GraceEnds \/ MailMoves
  BY <1>5 DEF GraceEnds, MailMoves
<1> QED BY <1>1, <1>2, <1>3, <1>4, <1>5 DEF DeliveryNext

(* Mail stays where it is, and becomes known to SEARCH.                    *)
MailGrows ==
  /\ mailbox' \in Seq({"other", "marked", "indexed"}) /\ Len(mailbox) <= Len(mailbox')
  /\ \A i \in 1..Len(mailbox) :
       mailbox'[i] = mailbox[i] \/ (mailbox[i] = "marked" /\ mailbox'[i] = "indexed")

LEMMA MailKept == ASSUME MailTyped, MailStep PROVE MailGrows
<1> USE DEF MailTyped, MailGrows
<1>1. CASE UNCHANGED mailbox
  BY <1>1
<1>2. ASSUME NEW kind \in {"other", "marked"}, mailbox' = Append(mailbox, kind) PROVE MailGrows
  BY <1>2
<1>3. CASE Index
  BY <1>3 DEF Index
<1>4. UNCHANGED mailbox \/ Arrive \/ OtherMail \/ Index
  BY DEF MailStep, transport, mailServer, MailSystem, StartSend, StartLook, TransportStep, HangupKnowing, Hangup,
     Connect, SendMail, Quit, OpenMailbox, Search, FetchHeaders, LookFails
<1> QED BY <1>1, <1>2, <1>3, <1>4 DEF Arrive, OtherMail, Receive

LEMMA InMailboxKept ==
  ASSUME MailTyped, MailStep, InMailbox
  PROVE  InMailbox'
BY MailKept DEF InMailbox, Ours, MailTyped, MailGrows

LEMMA InitMailInv == MailInit => MailInv
BY DEF MailInit, MailInv, MailTyped, LookSound, LookIsRight, Calling

LEMMA StepMailTyped == ASSUME MailTyped, MailStep PROVE MailTyped'
<1> USE DEF MailTyped
<1>1. MailGrows
  BY MailKept
<1>2. \A c \in Clients : count[c] <= Len(mailbox')
  BY <1>1 DEF MailGrows
<1>3. CASE UNCHANGED <<call, count, due>>
  BY <1>1, <1>2, <1>3 DEF MailGrows
<1>4. ASSUME NEW c \in Clients,
             StartSend(c) \/ StartLook(c) \/ Connect(c) \/ SendMail(c) \/ Quit(c) \/ Search(c)
             \/ FetchHeaders(c) \/ LookFails(c)
      PROVE  MailTyped'
  <2>1. call' \in [Clients -> Calling] /\ UNCHANGED <<count, due>>
    BY <1>4 DEF Calling, Move, StartSend, StartLook, Connect, SendMail, Quit, Search, FetchHeaders, LookFails
  <2> QED BY <1>1, <1>2, <2>1 DEF MailGrows
<1>5. ASSUME NEW c \in Clients, OpenMailbox(c) PROVE MailTyped'
  <2>1. Outlook \in {"due", "absent", "buried"}
    BY DEF Outlook
  <2>2. Len(mailbox) \in Nat
    OBVIOUS
  <2>3. /\ call' \in [Clients -> Calling] /\ UNCHANGED mailbox
        /\ \/ UNCHANGED <<count, due>>
           \/ count' = [count EXCEPT ![c] = Len(mailbox)] /\ due' = [due EXCEPT ![c] = Outlook]
    BY <1>5 DEF OpenMailbox, Move, Calling, mailServer
  <2>4. CASE UNCHANGED <<count, due>>
    BY <2>3, <2>4
  <2>5. CASE count' = [count EXCEPT ![c] = Len(mailbox)] /\ due' = [due EXCEPT ![c] = Outlook]
    <3>1. count' \in [Clients -> Nat] /\ due' \in [Clients -> {"due", "absent", "buried"}]
      BY <2>1, <2>2, <2>5
    <3>2. \A d \in Clients : count'[d] <= Len(mailbox)
      BY <2>2, <2>5
    <3> QED BY <2>3, <3>1, <3>2
  <2> QED BY <2>3, <2>4, <2>5
<1>6. ASSUME NEW c \in Clients, HangupKnowing(c) PROVE MailTyped'
  BY <1>6 DEF HangupKnowing, mailServer, Calling
<1>7. ASSUME NEW clients \in SUBSET Clients, Hangup(clients) PROVE MailTyped'
  BY <1>7 DEF Hangup, mailServer, Calling
<1>8. CASE UNCHANGED transport \/ MailSystem
  BY <1>3, <1>8 DEF transport, MailSystem, Arrive, OtherMail, Index
<1> QED BY <1>4, <1>5, <1>6, <1>7, <1>8 DEF MailStep, TransportStep

(* A step that is not a look leaves every look what it had before it.      *)
LEMMA LooksUndisturbed ==
  ASSUME MailInv, MailGrows,
         \A c \in Clients :
           \/ call'[c] = call[c] /\ count'[c] = count[c] /\ due'[c] = due[c]
           \/ call'[c] \notin {"search", "fetch", "seen", "unseen"}
  PROVE  LookSound' /\ LookIsRight'
<1> USE DEF MailInv, MailTyped, MailGrows, Ours
<1>1. \A i \in DOMAIN mailbox :
        i \in DOMAIN mailbox' /\ (Ours(i) => Ours(i)')
        /\ (mailbox[i] = "indexed" => mailbox'[i] = "indexed")
  <2> SUFFICES ASSUME NEW i \in DOMAIN mailbox
               PROVE  i \in DOMAIN mailbox' /\ (Ours(i) => Ours(i)')
                      /\ (mailbox[i] = "indexed" => mailbox'[i] = "indexed")
    OBVIOUS
  <2>1. i \in 1..Len(mailbox) /\ i \in DOMAIN mailbox'
    OBVIOUS
  <2> QED BY <2>1
<1>2. \A c \in Clients : 1..count[c] \subseteq DOMAIN mailbox
  OBVIOUS
<1>3. LookSound'
  <2> SUFFICES ASSUME NEW c \in Clients, due'[c] = "due", call'[c] \in {"search", "fetch"}
               PROVE  /\ call'[c] = "search" =>
                           \E i \in 1..count'[c] :
                              mailbox'[i] = "indexed" \/ (Ours(i)' /\ i + ScanLimit > count'[c])
                      /\ call'[c] = "fetch" => \E i \in 1..count'[c] : Ours(i)' /\ i + ScanLimit > count'[c]
    BY DEF LookSound
  <2>1. call'[c] = call[c] /\ count'[c] = count[c] /\ due[c] = "due"
    OBVIOUS
  <2> HIDE DEF Ours
  <2>2. CASE call[c] = "search"
    <3>1. PICK i \in 1..count[c] : mailbox[i] = "indexed" \/ (Ours(i) /\ i + ScanLimit > count[c])
      BY <2>1, <2>2 DEF LookSound
    <3> QED BY <1>1, <1>2, <2>1, <2>2, <3>1
  <2>3. CASE call[c] = "fetch"
    <3>1. PICK i \in 1..count[c] : Ours(i) /\ i + ScanLimit > count[c]
      BY <2>1, <2>3 DEF LookSound
    <3> QED BY <1>1, <1>2, <2>1, <2>3, <3>1
  <2> QED BY <2>1, <2>2, <2>3
<1>4. LookIsRight'
  <2> HIDE DEF Ours
  <2> QED BY <1>1 DEF LookIsRight
<1> QED BY <1>3, <1>4

LEMMA StepMailInv == ASSUME MailInv, MailStep PROVE MailInv'
<1>1. MailTyped /\ MailTyped' /\ MailGrows
  BY MailKept, StepMailTyped DEF MailInv
<1>2. CASE UNCHANGED <<call, count, due>>
  BY <1>1, <1>2, LooksUndisturbed DEF MailInv
<1>3. ASSUME NEW c \in Clients,
             StartSend(c) \/ StartLook(c) \/ Connect(c) \/ SendMail(c) \/ Quit(c) \/ LookFails(c)
             \/ HangupKnowing(c)
      PROVE  MailInv'
  <2>1. \A d \in Clients :
          \/ call'[d] = call[d] /\ count'[d] = count[d] /\ due'[d] = due[d]
          \/ call'[d] \notin {"search", "fetch", "seen", "unseen"}
    BY <1>1, <1>3 DEF MailTyped, Move, StartSend, StartLook, Connect, SendMail, Quit, LookFails, HangupKnowing
  <2> QED BY <1>1, <2>1, LooksUndisturbed DEF MailInv
<1>4. ASSUME NEW clients \in SUBSET Clients, Hangup(clients) PROVE MailInv'
  <2>1. \A d \in Clients :
          \/ call'[d] = call[d] /\ count'[d] = count[d] /\ due'[d] = due[d]
          \/ call'[d] \notin {"search", "fetch", "seen", "unseen"}
    BY <1>4 DEF Hangup
  <2> QED BY <1>1, <2>1, LooksUndisturbed DEF MailInv
<1>5. ASSUME NEW c \in Clients, OpenMailbox(c) PROVE MailInv'
  <2>1. CASE UNCHANGED <<count, due>> /\ call' = [call EXCEPT ![c] = "blind"]
    BY <1>1, <2>1, LooksUndisturbed DEF MailInv, MailTyped
  <2>2. CASE /\ call' = [call EXCEPT ![c] = "search"] /\ count' = [count EXCEPT ![c] = Len(mailbox)]
             /\ due' = [due EXCEPT ![c] = Outlook] /\ UNCHANGED mailbox
    <3>1. Outlook = "due" => \E i \in 1..Len(mailbox) :
            mailbox[i] = "indexed" \/ (Ours(i) /\ i + ScanLimit > Len(mailbox))
      <4>1. Outlook = "due" => \E i \in DOMAIN mailbox : Findable(i)
        BY Zenon DEF Outlook
      <4>2. DOMAIN mailbox = 1..Len(mailbox)
        BY <1>1 DEF MailTyped
      <4> QED BY <4>1, <4>2 DEF Findable
    <3>2. LookSound'
      BY <1>1, <2>2, <3>1 DEF MailInv, MailTyped, LookSound, Ours
    <3>3. LookIsRight'
      BY <1>1, <2>2 DEF MailInv, MailTyped, LookIsRight, Ours
    <3> QED BY <1>1, <3>2, <3>3 DEF MailInv
  <2> QED BY <1>5, <2>1, <2>2 DEF OpenMailbox, Move, mailServer
<1>6. ASSUME NEW c \in Clients, Search(c) PROVE MailInv'
  <2>1. PICK last \in count[c]..Len(mailbox) :
          /\ call[c] = "search"
          /\ call' = [call EXCEPT ![c] = IF \E i \in 1..last : mailbox[i] = "indexed" THEN "seen"
                                         ELSE IF count[c] = 0 THEN "unseen" ELSE "fetch"]
    BY <1>6 DEF Search, Move
  <2>2. UNCHANGED <<count, due, mailbox>>
    BY <1>6 DEF Search, mailServer
  <2>3. 1..count[c] \subseteq 1..last /\ 1..last \subseteq DOMAIN mailbox
    BY <1>1 DEF MailTyped
  <2>4. LookSound'
    BY <1>1, <2>1, <2>2, <2>3 DEF MailInv, MailTyped, LookSound, Ours
  <2>5. LookIsRight'
    BY <1>1, <2>1, <2>2, <2>3 DEF MailInv, MailTyped, LookSound, LookIsRight, Ours
  <2> QED BY <1>1, <2>4, <2>5 DEF MailInv
<1>7. ASSUME NEW c \in Clients, FetchHeaders(c) PROVE MailInv'
  <2>1. /\ call[c] = "fetch"
        /\ call' = [call EXCEPT ![c] = IF \E i \in Scanned(count[c]) : Ours(i) THEN "seen" ELSE "unseen"]
        /\ UNCHANGED <<count, due, mailbox>>
    BY <1>7 DEF FetchHeaders, Move, mailServer
  <2>2. Scanned(count[c]) \subseteq DOMAIN mailbox
    BY <1>1, TransportAssumption DEF MailTyped, Scanned
  <2>3. \A i \in 1..count[c] : i + ScanLimit > count[c] => i \in Scanned(count[c])
    BY <1>1, TransportAssumption DEF MailTyped, Scanned
  <2>4. LookSound'
    BY <1>1, <2>1 DEF MailInv, MailTyped, LookSound, Ours
  <2>5. LookIsRight'
    BY <1>1, <2>1, <2>2, <2>3 DEF MailInv, MailTyped, LookSound, LookIsRight, Ours
  <2> QED BY <1>1, <2>4, <2>5 DEF MailInv
<1>8. CASE UNCHANGED transport \/ MailSystem
  BY <1>2, <1>8 DEF transport, MailSystem, Arrive, OtherMail, Index
<1> QED BY <1>3, <1>4, <1>5, <1>6, <1>7, <1>8 DEF MailStep, TransportStep

LEMMA MailInvariant == DeliverySpec => []MailInv
<1>1. DeliveryInit => MailInv
  BY InitMailInv DEF DeliveryInit
<1>2. MailInv /\ [DeliveryNext]_deliveryVars => MailInv'
  BY StepMail, StepMailInv
<1> QED BY <1>1, <1>2, PTL DEF DeliverySpec

(* Contains says yes only of what is in the mailbox, and misses only what  *)
(* is neither indexed nor among the newest ScanLimit messages.             *)
THEOREM LooksAreRight == DeliverySpec => []LookIsRight
<1>1. MailInv => LookIsRight
  BY DEF MailInv
<1> QED BY MailInvariant, <1>1, PTL

(***************************************************************************)
(* The ledger.                                                             *)
(***************************************************************************)
Entries == [status : {"none", "delivered", "failed"} \union Unconfirmed,
            attempts : 0..MaxAttempts, initialized : BOOLEAN]

EntriesTyped ==
  /\ contents \in [0..MaxVersion -> Entries]
  /\ entry \in [Processes -> Entries]
  /\ draft \in [Processes -> Entries]
  /\ tries \in Int /\ lost \in Int

(* What an entry says, wherever it is held.                                *)
IsTrue(e) ==
  /\ e.status = "delivered" => InMailbox
  /\ e.status = "none" => e.attempts = 0

EntriesTrue ==
  /\ \A v \in 0..MaxVersion : IsTrue(contents[v])
  /\ \A p \in Processes : IsTrue(entry[p]) /\ IsTrue(draft[p])

Looking == {"reconcile", "check", "confirm"}

(* Where a run can be, and which call it has under way there.              *)
RunPlaces ==
  /\ at \in [Processes -> Looking \union {"out", "save", "decide", "send", "end"}]
  /\ after \in [Processes -> {"out", "reconcile", "decide", "confirm", "end"}]
  /\ \A p \in Processes :
    /\ at[p] = "out" <=> step[p] \in {"off", "idle"}
    /\ step[p] \in Saving => at[p] = "save"
    /\ at[p] = "save" => after[p] # "out"
    /\ at[p] \in Looking => call[p] \in {"none", "open", "search", "fetch", "seen", "unseen", "blind"}
    /\ at[p] = "send" => call[p] \in {"none", "connect", "submit", "quit", "sent", "unsent"}
    /\ at[p] \in {"out", "save", "decide", "end"} => call[p] = "none"

Written == {"loaded", "encode", "sync", "close", "rename"}

(* What a run has in memory, compared with the file.                       *)
RunEntries ==
  \A p \in Processes : at[p] # "out" =>
    /\ step[p] \in Written => entry[p] = contents[file]
    /\ step[p] = "syncdir" => draft[p] = contents[file]
    /\ step[p] \in {"sync", "close", "rename"} => contents[held[p] + 1] = draft[p]
    /\ at[p] \in {"check", "send"} => entry[p].attempts < MaxAttempts
    /\ at[p] = "save" => draft[p].attempts \in {entry[p].attempts, entry[p].attempts + 1}

(* An attempt has begun, and the file does not say so yet.                 *)
Owed(p) ==
  \/ at[p] = "send" /\ call[p] # "none"
  \/ at[p] = "save" /\ step[p] \in Written /\ Attempted(p)

TriesAccounted ==
  tries = lost + contents[file].attempts + (IF \E p \in Processes : Owed(p) THEN 1 ELSE 0)

LedgerInv == EntriesTyped /\ EntriesTrue /\ RunPlaces /\ RunEntries /\ TriesAccounted

DeliveryInv == IInv /\ MailInv /\ LedgerInv

LEMMA NoEntryIsEntry == NoEntry \in Entries /\ NoEntry.status = "none" /\ NoEntry.attempts = 0
BY DeliveryAssumption DEF NoEntry, Entries

(* While one process runs, the others are out of it.                       *)
LEMMA Alone ==
  ASSUME IInv, RunPlaces, NEW p \in Processes, step[p] # "off", NEW q \in Processes, q # p
  PROVE  step[q] = "off" /\ at[q] = "out" /\ ~Owed(q)
<1>1. step[q] = "off"
  BY OthersOff DEF IInv, RunningHoldsLock
<1> QED BY <1>1 DEF RunPlaces, Owed

LEMMA AloneNext ==
  ASSUME IInv', RunPlaces', NEW p \in Processes, step'[p] # "off", NEW q \in Processes, q # p
  PROVE  ~Owed(q)'
<1>1. step'[q] = "off"
  BY FileAssumption DEF IInv, RunningHoldsLock
<1> QED BY <1>1 DEF RunPlaces, Owed

(* The account, told by the process that runs.                             *)
Debt(p) == IF Owed(p) THEN 1 ELSE 0

AccountOf(p) == tries = lost + contents[file].attempts + Debt(p)

LEMMA Accounts ==
  ASSUME DeliveryInv, NEW p \in Processes, step[p] # "off"
  PROVE  AccountOf(p)
<1>1. (\E q \in Processes : Owed(q)) <=> Owed(p)
  BY Alone DEF DeliveryInv, LedgerInv
<1>2. TriesAccounted
  BY DEF DeliveryInv, LedgerInv
<1> HIDE DEF Owed
<1> QED BY <1>1, <1>2 DEF TriesAccounted, AccountOf, Debt

LEMMA AccountsNext ==
  ASSUME IInv', RunPlaces', NEW p \in Processes, step'[p] # "off", AccountOf(p)'
  PROVE  TriesAccounted'
<1>1. (\E q \in Processes : Owed(q)') <=> Owed(p)'
  BY AloneNext
<1> HIDE DEF Owed
<1> QED BY <1>1 DEF TriesAccounted, AccountOf, Debt

(* When no process runs any more, what was owed is lost.                   *)
LEMMA AccountsClosed ==
  ASSUME RunPlaces', \A q \in Processes : at'[q] = "out", CountLost, UNCHANGED tries,
         EntriesTyped, file' \in 0..MaxVersion, contents'[file'] = contents[file']
  PROVE  TriesAccounted' /\ lost' \in Int
<1>1. \A q \in Processes : ~Owed(q)'
  BY DEF Owed
<1>2. contents[file'] \in Entries /\ contents[file'].attempts \in Int
  BY DEF EntriesTyped, Entries
<1> QED BY <1>1, <1>2 DEF TriesAccounted, CountLost, EntriesTyped

(***************************************************************************)
(* Steps of a run that leave the file alone.                               *)
(***************************************************************************)
(* A step that leaves file and memory alone keeps what they say.           *)
LEMMA SameEntries ==
  ASSUME EntriesTyped, EntriesTrue, InMailbox => InMailbox', UNCHANGED <<contents, entry, draft>>,
         tries' \in Int, lost' \in Int
  PROVE  EntriesTyped' /\ EntriesTrue'
BY DEF EntriesTyped, EntriesTrue, IsTrue

LEMMA CallsKeep ==
  ASSUME DeliveryInv, IInv', InMailbox => InMailbox', NEW p \in Processes, Calls(p)
  PROVE  LedgerInv'
<1>1. UNCHANGED <<vars, contents, at, entry, draft, after, tries, lost>>
  BY DEF Calls, storeVars, syncVars, account
<1>2. PICK to \in Calling : call' = [call EXCEPT ![p] = to]
  BY DEF Calls, TransportStep, Connect, SendMail, Quit, OpenMailbox, Search, FetchHeaders, LookFails, Move, Calling
<1>3. \/ call[p] \in {"open", "search", "fetch"} /\ to \in {"search", "fetch", "seen", "unseen", "blind"}
      \/ call[p] \in {"connect", "submit", "quit"} /\ to \in {"submit", "quit", "sent", "unsent"}
  <2>1. call \in [Clients -> Calling] /\ Clients = Processes
    BY DeliveryAssumption DEF DeliveryInv, MailInv, MailTyped
  <2> QED BY <1>2, <2>1
          DEF Calls, TransportStep, Connect, SendMail, Quit, OpenMailbox, Search, FetchHeaders, LookFails, Move
<1>4. \A q \in Processes : call'[q] = IF q = p THEN to ELSE call[q]
  BY <1>2, DeliveryAssumption DEF DeliveryInv, MailInv, MailTyped
<1>5. EntriesTyped' /\ EntriesTrue'
  BY <1>1, SameEntries DEF DeliveryInv, LedgerInv, EntriesTyped
<1>6. RunPlaces'
  BY <1>1, <1>3, <1>4 DEF DeliveryInv, LedgerInv, RunPlaces, vars, processVars
<1>7. RunEntries'
  BY <1>1 DEF DeliveryInv, LedgerInv, RunEntries, vars, processVars, diskVars
<1>8. TriesAccounted'
  <2>1. \A q \in Processes : Owed(q)' <=> Owed(q)
    BY <1>1, <1>3, <1>4 DEF Owed, Attempted, vars, processVars
  <2> HIDE DEF Owed
  <2> QED BY <1>1, <2>1 DEF DeliveryInv, LedgerInv, TriesAccounted, vars, diskVars
<1> QED BY <1>5, <1>6, <1>7, <1>8 DEF LedgerInv

(* A process whose run goes on at another place: with entry d drafted, to  *)
(* be saved on the way to next, and with its call at k.                    *)
Moves(p, place, d, next, k) ==
  /\ at' = [at EXCEPT ![p] = place]
  /\ draft' = [draft EXCEPT ![p] = d]
  /\ after' = [after EXCEPT ![p] = next]
  /\ call' = [call EXCEPT ![p] = k]
  /\ UNCHANGED <<vars, contents, entry, lost>>

LEMMA MovesKeep ==
  ASSUME DeliveryInv, IInv', InMailbox => InMailbox',
         NEW p \in Processes, step[p] = "loaded",
         NEW place \in Looking \union {"save", "decide", "send", "end"}, NEW d \in Entries,
         NEW next \in {"out", "reconcile", "decide", "confirm", "end"}, NEW k,
         Moves(p, place, d, next, k), tries' \in Int, IsTrue(d),
         place \in Looking => k \in {"none", "open"},
         place = "send" => k \in {"none", "connect"},
         place \in {"save", "decide", "end"} => k = "none",
         place \in {"check", "send"} => entry[p].attempts < MaxAttempts,
         place = "save" => next # "out" /\ d.attempts \in {entry[p].attempts, entry[p].attempts + 1},
         AccountOf(p)'
  PROVE  LedgerInv'
<1> USE DEF Moves
<1>0. /\ at \in [Processes -> Looking \union {"out", "save", "decide", "send", "end"}]
      /\ after \in [Processes -> {"out", "reconcile", "decide", "confirm", "end"}]
      /\ call \in [Processes -> Calling] /\ draft \in [Processes -> Entries]
  BY DeliveryAssumption DEF DeliveryInv, MailInv, MailTyped, LedgerInv, EntriesTyped, RunPlaces
<1>1. \A q \in Processes : /\ at'[q] = IF q = p THEN place ELSE at[q]
                           /\ after'[q] = IF q = p THEN next ELSE after[q]
                           /\ call'[q] = IF q = p THEN k ELSE call[q]
                           /\ draft'[q] = IF q = p THEN d ELSE draft[q]
  BY <1>0
<1>2. EntriesTyped'
  BY DEF DeliveryInv, LedgerInv, EntriesTyped
<1>3. EntriesTrue'
  BY DEF DeliveryInv, LedgerInv, EntriesTyped, EntriesTrue, IsTrue
<1>4. RunPlaces'
  <2>1. /\ at' \in [Processes -> Looking \union {"out", "save", "decide", "send", "end"}]
        /\ after' \in [Processes -> {"out", "reconcile", "decide", "confirm", "end"}]
    BY <1>0
  <2>2. step'[p] = "loaded" /\ step' = step
    BY DEF vars, processVars
  <2> QED BY <1>1, <2>1, <2>2 DEF DeliveryInv, LedgerInv, RunPlaces, Looking, Saving
<1>5. RunEntries'
  <2>1. UNCHANGED <<step, held, file, contents, entry>> /\ step[p] = "loaded" /\ at[p] # "out"
    BY DEF vars, processVars, diskVars, DeliveryInv, LedgerInv, RunPlaces
  <2> SUFFICES ASSUME NEW q \in Processes, at'[q] # "out"
               PROVE  /\ step[q] \in Written => entry[q] = contents[file]
                      /\ step[q] = "syncdir" => draft'[q] = contents[file]
                      /\ step[q] \in {"sync", "close", "rename"} => contents[held[q] + 1] = draft'[q]
                      /\ at'[q] \in {"check", "send"} => entry[q].attempts < MaxAttempts
                      /\ at'[q] = "save" => draft'[q].attempts \in {entry[q].attempts, entry[q].attempts + 1}
    BY <2>1 DEF RunEntries
  <2>2. CASE q = p
    BY <1>1, <2>1, <2>2 DEF DeliveryInv, LedgerInv, RunEntries
  <2>3. CASE q # p
    BY <1>1, <2>1, <2>3 DEF DeliveryInv, LedgerInv, RunEntries
  <2> QED BY <2>2, <2>3
<1>6. TriesAccounted'
  BY <1>4, AccountsNext DEF vars, processVars
<1> QED BY <1>2, <1>3, <1>4, <1>5, <1>6 DEF LedgerInv

(* What MovesKeep asks about the run and its entry.                        *)
LEMMA Running ==
  ASSUME DeliveryInv, NEW p \in Processes, step[p] = "loaded"
  PROVE  /\ entry[p] \in Entries /\ IsTrue(entry[p]) /\ draft[p] \in Entries /\ IsTrue(draft[p])
         /\ entry[p] = contents[file] /\ AccountOf(p)
         /\ at[p] \in Looking \union {"save", "decide", "send", "end"}
         /\ after[p] \in {"out", "reconcile", "decide", "confirm", "end"}
         /\ at[p] \in {"check", "send"} => entry[p].attempts < MaxAttempts
         /\ tries \in Int /\ lost \in Int /\ entry[p].attempts \in Int
<1>1. AccountOf(p)
  BY Accounts
<1>2. entry[p] \in Entries /\ draft[p] \in Entries
  BY DEF DeliveryInv, LedgerInv, EntriesTyped
<1>3. entry[p].attempts \in Int
  BY <1>2 DEF Entries
<1>4. at[p] # "out"
  BY DEF DeliveryInv, LedgerInv, RunPlaces
<1> QED BY <1>1, <1>2, <1>3, <1>4 DEF DeliveryInv, LedgerInv, EntriesTyped, EntriesTrue, RunPlaces, RunEntries, Written

(* A call is a function on the processes, so hanging up is an update.      *)
LEMMA HangupIsUpdate ==
  ASSUME DeliveryInv, NEW p \in Processes, Hangup({p}) \/ HangupKnowing(p)
  PROVE  call' = [call EXCEPT ![p] = "none"]
BY DeliveryAssumption DEF DeliveryInv, MailInv, MailTyped, Hangup, HangupKnowing

(* Where nothing is owed, before and after, nothing changes.               *)
LEMMA NothingOwed ==
  ASSUME NEW p \in Processes, AccountOf(p), ~Owed(p), ~Owed(p)',
         UNCHANGED <<tries, lost, contents, file>>
  PROVE  AccountOf(p)'
BY DEF AccountOf, Debt

LEMMA LookKeeps ==
  ASSUME DeliveryInv, IInv', InMailbox => InMailbox', NEW p \in Processes, Look(p)
  PROVE  LedgerInv'
<1>1. /\ step[p] = "loaded" /\ at[p] \in Looking
      /\ call' = [call EXCEPT ![p] = "open"]
      /\ UNCHANGED <<vars, contents, entry, lost, tries, at, draft, after>>
  BY DEF Look, At, Looking, StartLook, Move, storeVars, syncVars, account
<1>2. at' = [at EXCEPT ![p] = at[p]] /\ draft' = [draft EXCEPT ![p] = draft[p]]
      /\ after' = [after EXCEPT ![p] = after[p]]
  BY <1>1 DEF DeliveryInv, LedgerInv, EntriesTyped, RunPlaces
<1>3. Moves(p, at[p], draft[p], after[p], "open")
  BY <1>1, <1>2 DEF Moves
<1>4. ~Owed(p) /\ ~Owed(p)'
  BY <1>1 DEF Owed, Looking
<1>5. AccountOf(p)'
  BY <1>1, <1>4, Running, NothingOwed DEF vars, diskVars
<1>6. tries' \in Int /\ at[p] \notin {"send", "save", "decide", "end"}
  BY <1>1, Running DEF Looking
<1> QED BY <1>1, <1>3, <1>5, <1>6, Running, MovesKeep

LEMMA GoOnKeeps ==
  ASSUME DeliveryInv, IInv', InMailbox => InMailbox', NEW p \in Processes, step[p] = "loaded",
         NEW place \in Looking \union {"decide", "send", "end"},
         at' = [at EXCEPT ![p] = place], call' = [call EXCEPT ![p] = "none"],
         UNCHANGED <<entry, draft, after, vars, contents, lost, tries>>, ~Owed(p),
         place \in {"check", "send"} => entry[p].attempts < MaxAttempts
  PROVE  LedgerInv'
<1>1. at' = [at EXCEPT ![p] = place] /\ draft' = [draft EXCEPT ![p] = draft[p]]
      /\ after' = [after EXCEPT ![p] = after[p]]
  BY DEF DeliveryInv, LedgerInv, EntriesTyped, RunPlaces
<1>2. Moves(p, place, draft[p], after[p], "none")
  BY <1>1 DEF Moves
<1>3. at'[p] = place /\ call'[p] = "none"
  BY DeliveryAssumption DEF DeliveryInv, LedgerInv, RunPlaces, MailInv, MailTyped
<1>4. ~Owed(p)'
  BY <1>3 DEF Owed, Looking
<1>5. AccountOf(p)'
  BY <1>4, Running, NothingOwed DEF vars, diskVars
<1>6. tries' \in Int /\ place # "save" /\ place \in Looking \union {"save", "decide", "send", "end"}
  BY Running DEF Looking
<1> QED BY <1>2, <1>5, <1>6, Running, MovesKeep

LEMMA SaveRequestKeeps ==
  ASSUME DeliveryInv, IInv', InMailbox => InMailbox', NEW p \in Processes, step[p] = "loaded",
         NEW d \in Entries, NEW next \in {"reconcile", "decide", "confirm", "end"},
         SaveEntry(p, d, next), call' = [call EXCEPT ![p] = "none"],
         UNCHANGED <<vars, contents, lost, tries>>,
         IsTrue(d), d.attempts = entry[p].attempts + Debt(p)
  PROVE  LedgerInv'
<1>1. Moves(p, "save", d, next, "none")
  BY DEF Moves, SaveEntry
<1>2. at'[p] = "save" /\ draft'[p] = d /\ entry'[p] = entry[p] /\ step'[p] = "loaded"
  BY DEF SaveEntry, DeliveryInv, LedgerInv, EntriesTyped, RunPlaces, vars, processVars
<1>3. entry[p].attempts \in Int /\ Debt(p) \in {0, 1}
  BY Running DEF Debt
<1>4. Debt(p)' = Debt(p)
  <2>1. Attempted(p)' <=> Debt(p) = 1
    BY <1>2, <1>3 DEF Attempted
  <2>2. Owed(p)' <=> Debt(p) = 1
    BY <1>2, <2>1 DEF Owed, Written
  <2> HIDE DEF Owed
  <2>3. Debt(p)' = IF Owed(p)' THEN 1 ELSE 0
    BY DEF Debt
  <2>4. CASE Debt(p) = 1
    BY <2>2, <2>3, <2>4
  <2>5. CASE Debt(p) = 0
    BY <2>2, <2>3, <2>5
  <2> QED BY <1>3, <2>4, <2>5
<1>5. AccountOf(p)'
  BY <1>4, Running DEF AccountOf, vars, diskVars
<1>6. tries' \in Int /\ d.attempts \in {entry[p].attempts, entry[p].attempts + 1}
  BY <1>3, Running
<1> QED BY <1>1, <1>5, <1>6, MovesKeep DEF Looking

LEMMA SeenKeeps ==
  ASSUME DeliveryInv, IInv', InMailbox => InMailbox', NEW p \in Processes, Seen(p)
  PROVE  LedgerInv'
<1> DEFINE d == [entry[p] EXCEPT !.status = "delivered"]
<1>1. step[p] = "loaded" /\ at[p] \in Looking /\ call[p] = "seen"
  BY DEF Seen, At, Looking
<1>2. InMailbox
  BY <1>1, DeliveryAssumption DEF DeliveryInv, MailInv, LookIsRight, InMailbox
<1>3. d \in Entries /\ d.attempts = entry[p].attempts /\ d.status = "delivered"
  BY <1>1, Running DEF Entries
<1>4. Debt(p) = 0
  BY <1>1 DEF Debt, Owed, Looking
<1>5. call' = [call EXCEPT ![p] = "none"]
  BY HangupIsUpdate DEF Seen
<1>6. UNCHANGED <<vars, contents, lost, tries>> /\ SaveEntry(p, d, "decide")
  BY DEF Seen, storeVars, account
<1>7. entry[p].attempts + 0 = entry[p].attempts
  BY <1>1, Running
<1> HIDE DEF d
<1>8. IsTrue(d) /\ d.attempts = entry[p].attempts + Debt(p)
  BY <1>2, <1>3, <1>4, <1>7 DEF IsTrue
<1> QED BY <1>1, <1>3, <1>5, <1>6, <1>8, SaveRequestKeeps

LEMMA UnseenKeeps ==
  ASSUME DeliveryInv, IInv', InMailbox => InMailbox', NEW p \in Processes, Unseen(p)
  PROVE  LedgerInv'
<1>1. step[p] = "loaded" /\ at[p] \in Looking
  BY DEF Unseen, At, Looking
<1>2. UNCHANGED <<entry, draft, after, vars, contents, lost, tries>>
  BY DEF Unseen, GoOn, Reconciled, storeVars, account
<1>3. call' = [call EXCEPT ![p] = "none"]
  BY HangupIsUpdate DEF Unseen
<1>4. \/ at' = [at EXCEPT ![p] = "decide"]
      \/ at[p] = "check" /\ at' = [at EXCEPT ![p] = "send"]
      \/ at' = [at EXCEPT ![p] = "end"]
  BY DEF Unseen, GoOn, Reconciled, At
<1>5. ~Owed(p) /\ (at[p] = "check" => entry[p].attempts < MaxAttempts)
  BY <1>1, Running DEF Owed, Looking
<1> QED BY <1>1, <1>2, <1>3, <1>4, <1>5, GoOnKeeps

LEMMA DecideKeeps ==
  ASSUME DeliveryInv, IInv', InMailbox => InMailbox', NEW p \in Processes, Decide(p)
  PROVE  LedgerInv'
<1> DEFINE d == [entry[p] EXCEPT !.status = "failed"]
<1>1. step[p] = "loaded" /\ at[p] = "decide"
  BY DEF Decide, At
<1>2. call' = [call EXCEPT ![p] = "none"]
  BY <1>1, DeliveryAssumption DEF Decide, transport, DeliveryInv, MailInv, MailTyped, LedgerInv, RunPlaces
<1>3. UNCHANGED <<vars, contents, lost, tries>> /\ ~Owed(p) /\ Debt(p) = 0
  BY <1>1 DEF Decide, storeVars, account, Owed, Debt
<1>4. CASE GoOn(p, "end")
  BY <1>1, <1>2, <1>3, <1>4, GoOnKeeps DEF GoOn
<1>5. CASE SaveEntry(p, d, "end")
  <2>1. d \in Entries /\ d.attempts = entry[p].attempts /\ d.status = "failed"
    BY <1>1, Running DEF Entries
  <2>2. entry[p].attempts + 0 = entry[p].attempts
    BY <1>1, Running
  <2> HIDE DEF d
  <2>3. IsTrue(d) /\ d.attempts = entry[p].attempts + Debt(p)
    BY <1>3, <2>1, <2>2 DEF IsTrue
  <2> QED BY <1>1, <1>2, <1>3, <1>5, <2>1, <2>3, SaveRequestKeeps
<1>6. CASE /\ entry[p].status = "none" \/ ~UsedUp(entry[p])
           /\ GoOn(p, "check")
  <2>1. entry[p].attempts < MaxAttempts
    BY <1>1, <1>6, Running, DeliveryAssumption DEF IsTrue, UsedUp
  <2> QED BY <1>1, <1>2, <1>3, <1>6, <2>1, GoOnKeeps DEF GoOn, Looking
<1> QED BY <1>4, <1>5, <1>6 DEF Decide, BeforeSend

LEMMA SendKeeps ==
  ASSUME DeliveryInv, IInv', InMailbox => InMailbox', NEW p \in Processes, Send(p)
  PROVE  LedgerInv'
<1>1. step[p] = "loaded" /\ at[p] = "send" /\ call[p] = "none" /\ tries' = tries + 1
  BY DEF Send, At, StartSend, Move
<1>2. at' = [at EXCEPT ![p] = "send"] /\ draft' = [draft EXCEPT ![p] = draft[p]]
      /\ after' = [after EXCEPT ![p] = after[p]]
  BY <1>1 DEF Send, syncVars, DeliveryInv, LedgerInv, EntriesTyped, RunPlaces
<1>3. Moves(p, "send", draft[p], after[p], "connect")
  BY <1>2 DEF Moves, Send, StartSend, Move, storeVars, syncVars
<1>4. at'[p] = "send" /\ call'[p] = "connect"
  BY <1>1, <1>3, DeliveryAssumption DEF Moves, DeliveryInv, LedgerInv, RunPlaces, MailInv, MailTyped
<1>5. Debt(p) = 0 /\ Debt(p)' = 1
  BY <1>1, <1>4 DEF Debt, Owed
<1>6. AccountOf(p)'
  BY <1>1, <1>3, <1>5, Running DEF AccountOf, Moves, vars, diskVars
<1>7. tries' \in Int /\ entry[p].attempts < MaxAttempts
  BY <1>1, Running
<1> QED BY <1>1, <1>3, <1>6, <1>7, Running, MovesKeep DEF Looking

LEMMA OutcomeKeeps ==
  ASSUME DeliveryInv, IInv', InMailbox => InMailbox', NEW p \in Processes, Sent(p) \/ Unsent(p)
  PROVE  LedgerInv'
<1>1. step[p] = "loaded" /\ at[p] = "send" /\ call[p] \in {"sent", "unsent"}
  BY DEF Sent, Unsent, At
<1>2. call' = [call EXCEPT ![p] = "none"] /\ UNCHANGED <<vars, contents, lost, tries>>
  BY HangupIsUpdate DEF Sent, Unsent, storeVars, account
<1>3. Debt(p) = 1 /\ entry[p].attempts + 1 \in 0..MaxAttempts
  BY <1>1, Running, DeliveryAssumption DEF Debt, Owed, Entries
<1>4. PICK status \in {"pending", "retry_wait", "failed"}, next \in {"confirm", "end"} :
        SaveEntry(p, [entry[p] EXCEPT !.attempts = entry[p].attempts + 1, !.status = status], next)
  BY DEF Sent, Unsent
<1> DEFINE d == [entry[p] EXCEPT !.attempts = entry[p].attempts + 1, !.status = status]
<1>5. d \in Entries /\ d.attempts = entry[p].attempts + 1 /\ d.status = status
  BY <1>1, <1>3, Running DEF Entries, Unconfirmed
<1>6. SaveEntry(p, d, next)
  BY <1>4
<1> HIDE DEF d
<1>7. IsTrue(d) /\ d.attempts = entry[p].attempts + Debt(p)
  BY <1>3, <1>5 DEF IsTrue
<1> QED BY <1>1, <1>2, <1>5, <1>6, <1>7, SaveRequestKeeps

(***************************************************************************)
(* Steps that begin and end processes and runs.                            *)
(***************************************************************************)
LEMMA QuietKeeps ==
  ASSUME DeliveryInv, IInv', InMailbox => InMailbox',
         UNCHANGED <<vars, contents, call, at, entry, draft, after, tries, lost>>
  PROVE  LedgerInv'
<1>1. EntriesTyped' /\ EntriesTrue'
  BY SameEntries DEF DeliveryInv, LedgerInv, EntriesTyped
<1>2. RunPlaces' /\ RunEntries'
  BY DEF DeliveryInv, LedgerInv, RunPlaces, RunEntries, vars, processVars, diskVars
<1>3. \A q \in Processes : Owed(q)' <=> Owed(q)
  BY DEF Owed, Attempted, vars, processVars
<1>4. TriesAccounted'
  <2> HIDE DEF Owed
  <2> QED BY <1>3 DEF DeliveryInv, LedgerInv, TriesAccounted, vars, diskVars
<1> QED BY <1>1, <1>2, <1>4 DEF LedgerInv

LEMMA ProcessKeeps ==
  ASSUME DeliveryInv, IInv', InMailbox => InMailbox', NEW p \in Processes, StartProcess(p)
  PROVE  LedgerInv'
<1>1. UNCHANGED <<contents, call, at, entry, draft, after, tries, lost, file, held>>
  BY DEF StartProcess, transport, syncVars, account, Start, Exit, diskVars
<1>2. /\ step[p] \in {"off", "idle"}
      /\ \A q \in Processes : step'[q] = step[q] \/ (q = p /\ step'[q] \in {"off", "idle"})
  BY DEF StartProcess, Start, Exit, GoTo, DeliveryInv, IInv, TypeOK
<1>3. EntriesTyped' /\ EntriesTrue'
  BY <1>1, SameEntries DEF DeliveryInv, LedgerInv, EntriesTyped
<1>4. RunPlaces'
  BY <1>1, <1>2 DEF DeliveryInv, LedgerInv, RunPlaces, Saving
<1>5. RunEntries'
  BY <1>1, <1>2 DEF DeliveryInv, LedgerInv, RunPlaces, RunEntries, Written
<1>6. \A q \in Processes : Owed(q)' <=> Owed(q)
  BY <1>1, <1>2 DEF Owed, Attempted, Written
<1>7. TriesAccounted'
  <2> HIDE DEF Owed
  <2> QED BY <1>1, <1>6 DEF DeliveryInv, LedgerInv, TriesAccounted
<1> QED BY <1>3, <1>4, <1>5, <1>7 DEF LedgerInv

LEMMA BeginKeeps ==
  ASSUME DeliveryInv, IInv', InMailbox => InMailbox', NEW p \in Processes, BeginRun(p)
  PROVE  LedgerInv'
<1> DEFINE e == contents[file]
           d == [e EXCEPT !.initialized = TRUE]
<1>1. /\ step[p] = "idle" /\ file # Torn /\ step' = [step EXCEPT ![p] = "loaded"]
      /\ UNCHANGED <<file, contents, call, tries, lost>>
      /\ entry' = [entry EXCEPT ![p] = e]
      /\ held' = [held EXCEPT ![p] = file]
  BY DEF BeginRun, Load, GoTo, diskVars, transport, account
<1>2. file \in 0..MaxVersion
  BY <1>1 DEF DeliveryInv, IInv, TypeOK
<1>3. e \in Entries /\ IsTrue(e)
  BY <1>2 DEF DeliveryInv, LedgerInv, EntriesTyped, EntriesTrue
<1>4. d \in Entries /\ d.status = e.status /\ d.attempts = e.attempts
  BY <1>3 DEF Entries
<1>5. PICK start \in {"reconcile", "decide"} :
        \/ at' = [at EXCEPT ![p] = start] /\ UNCHANGED <<draft, after>>
        \/ /\ at' = [at EXCEPT ![p] = "save"] /\ draft' = [draft EXCEPT ![p] = d]
           /\ after' = [after EXCEPT ![p] = start]
  BY DEF BeginRun, ReconcileOrDecide
<1> HIDE DEF d
<1>6. e.attempts \in Int
  BY <1>3 DEF Entries
<1> HIDE DEF e
<1>7. EntriesTyped'
  BY <1>1, <1>3, <1>4, <1>5 DEF DeliveryInv, LedgerInv, EntriesTyped
<1>8. EntriesTrue'
  BY <1>1, <1>3, <1>4, <1>5 DEF DeliveryInv, LedgerInv, EntriesTyped, EntriesTrue, IsTrue
<1>9. \A q \in Processes : q # p => at'[q] = at[q] /\ step'[q] = step[q] /\ draft'[q] = draft[q]
                                   /\ after'[q] = after[q] /\ at[q] = "out"
  BY <1>1, <1>5, Alone DEF DeliveryInv, LedgerInv, EntriesTyped, RunPlaces
<1>10. /\ step'[p] = "loaded" /\ entry'[p] = e /\ at[p] = "out" /\ call[p] = "none"
       /\ at'[p] \in {"reconcile", "decide", "save"}
       /\ at'[p] = "save" => draft'[p] = d /\ after'[p] = start
  BY <1>1, <1>5 DEF DeliveryInv, LedgerInv, EntriesTyped, RunPlaces, IInv, TypeOK
<1>11. RunPlaces'
  <2>1. /\ at' \in [Processes -> Looking \union {"out", "save", "decide", "send", "end"}]
        /\ after' \in [Processes -> {"out", "reconcile", "decide", "confirm", "end"}]
    BY <1>5 DEF DeliveryInv, LedgerInv, RunPlaces, Looking
  <2> QED BY <1>1, <1>9, <1>10, <2>1 DEF DeliveryInv, LedgerInv, RunPlaces, Looking, Saving
<1>12. RunEntries'
  BY <1>1, <1>4, <1>6, <1>9, <1>10 DEF RunEntries, e
<1>13. TriesAccounted'
  <2>1. ~Owed(p) /\ ~Owed(p)'
    BY <1>4, <1>6, <1>10 DEF Owed, Attempted
  <2>2. AccountOf(p)'
    BY <1>1, <2>1, Accounts, NothingOwed
  <2> QED BY <1>10, <1>11, <2>2, AccountsNext
<1> QED BY <1>7, <1>8, <1>11, <1>12, <1>13 DEF LedgerInv

(* The processes whose memory is forgotten have written nothing, or their  *)
(* tries are counted as lost.                                              *)
LEMMA ForgetEntries ==
  ASSUME EntriesTyped, EntriesTrue, InMailbox => InMailbox', NEW S \in SUBSET Processes, Forget(S),
         contents' = contents \/ KeepContents, tries' \in Int, lost' \in Int
  PROVE  EntriesTyped' /\ EntriesTrue'
<1>1. contents' \in [0..MaxVersion -> Entries]
  BY NoEntryIsEntry DEF EntriesTyped, KeepContents
<1>2. /\ entry' \in [Processes -> Entries] /\ draft' \in [Processes -> Entries]
  BY NoEntryIsEntry DEF EntriesTyped, Forget
<1>3. \A v \in 0..MaxVersion : contents'[v] = contents[v] \/ contents'[v] = NoEntry
  BY DEF EntriesTyped, KeepContents
<1>4. \A q \in Processes : /\ entry'[q] = entry[q] \/ entry'[q] = NoEntry
                           /\ draft'[q] = draft[q] \/ draft'[q] = NoEntry
  BY DEF Forget
<1>5. NoEntry.status # "delivered" /\ NoEntry.attempts = 0
  BY NoEntryIsEntry
<1>6. EntriesTyped'
  BY <1>1, <1>2 DEF EntriesTyped
<1> HIDE DEF NoEntry
<1>7. EntriesTrue'
  BY <1>3, <1>4, <1>5 DEF EntriesTrue, IsTrue
<1> QED BY <1>6, <1>7

(* When all processes are out of their runs, only the account matters.     *)
LEMMA AllOut ==
  ASSUME DeliveryInv, \A q \in Processes : step'[q] \in {"off", "idle"},
         NEW S \in SUBSET Processes, Forget(S), call' = call \/ Hangup(S),
         \A q \in Processes : q \notin S => at[q] = "out" /\ call[q] = "none",
         call' = call => \A q \in Processes : call[q] = "none"
  PROVE  /\ RunPlaces' /\ RunEntries'
         /\ \A q \in Processes : at'[q] = "out" /\ ~Owed(q)'
<1>1. \A q \in Processes : at'[q] = "out" /\ (q \in S => after'[q] = "out") /\ (q \notin S => after'[q] = after[q])
  BY DEF Forget
<1>2. /\ at' \in [Processes -> Looking \union {"out", "save", "decide", "send", "end"}]
      /\ after' \in [Processes -> {"out", "reconcile", "decide", "confirm", "end"}]
  BY DEF Forget, DeliveryInv, LedgerInv, RunPlaces
<1>3. \A q \in Processes : call'[q] = "none"
  BY DeliveryAssumption DEF Hangup
<1>4. RunPlaces'
  BY <1>1, <1>2, <1>3 DEF RunPlaces, Looking, Saving
<1>5. RunEntries'
  BY <1>1 DEF RunEntries
<1>6. \A q \in Processes : ~Owed(q)'
  BY <1>1 DEF Owed
<1> QED BY <1>1, <1>4, <1>5, <1>6

LEMMA EndKeeps ==
  ASSUME DeliveryInv, IInv', InMailbox => InMailbox', NEW p \in Processes,
         FinishRun(p) \/ Blind(p) \/ FetchFails(p)
  PROVE  LedgerInv'
<1>1. EndRun(p) /\ UNCHANGED <<tries, lost, contents, file>> /\ step[p] = "loaded"
      /\ step' = [step EXCEPT ![p] = "idle"]
  BY DEF FinishRun, Blind, FetchFails, EndRun, account, SyncEnds, GoTo, diskVars
<1>2. ~Owed(p)
  BY DeliveryAssumption
  DEF FinishRun, Blind, FetchFails, At, Owed, DeliveryInv, LedgerInv, RunPlaces, Looking
<1>3. \A q \in Processes : step'[q] \in {"off", "idle"}
  BY <1>1, Alone DEF DeliveryInv, LedgerInv, IInv, TypeOK
<1>4. \A q \in Processes : q \notin {p} => at[q] = "out" /\ call[q] = "none"
  BY <1>1, Alone DEF DeliveryInv, LedgerInv, RunPlaces
<1>5. /\ RunPlaces' /\ RunEntries'
      /\ \A q \in Processes : at'[q] = "out" /\ ~Owed(q)'
  <2>1. Forget({p}) /\ Hangup({p}) /\ {p} \in SUBSET Processes
    BY <1>1 DEF EndRun
  <2>2. call' = call => \A q \in Processes : call[q] = "none"
    BY <1>4, <2>1, DeliveryAssumption DEF Hangup
  <2> QED BY <1>3, <1>4, <2>1, <2>2, AllOut
<1>6. EntriesTyped' /\ EntriesTrue'
  <2>1. Forget({p}) /\ {p} \in SUBSET Processes
    BY <1>1 DEF EndRun
  <2> QED BY <1>1, <2>1, ForgetEntries DEF DeliveryInv, LedgerInv, EntriesTyped
<1>7. TriesAccounted'
  <2>1. \A q \in Processes : ~Owed(q)
    BY <1>1, <1>2, Alone DEF DeliveryInv, LedgerInv
  <2> HIDE DEF Owed
  <2> QED BY <1>1, <1>5, <2>1 DEF TriesAccounted, DeliveryInv, LedgerInv
<1> QED BY <1>5, <1>6, <1>7 DEF LedgerInv

(* What a reader finds afterwards is in a version that is kept.            *)
LEMMA FileKept ==
  ASSUME IInv', EntriesTyped, KeepContents
  PROVE  file' \in 0..MaxVersion /\ contents'[file'] = contents[file']
<1>1. file' \in onDisk' /\ file' \in 0..MaxVersion
  BY DEF IInv, TypeOK, AlwaysDecodes
<1> QED BY <1>1 DEF EntriesTyped, KeepContents

LEMMA AbortKeeps ==
  ASSUME DeliveryInv, IInv', InMailbox => InMailbox',
         \A q \in Processes : step'[q] \in {"off", "idle"},
         NEW S \in SUBSET Processes, Forget(S), call' = call \/ Hangup(S), KeepContents, CountLost,
         \A q \in Processes : q \notin S => at[q] = "out" /\ call[q] = "none",
         call' = call => \A q \in Processes : call[q] = "none",
         UNCHANGED tries
  PROVE  LedgerInv'
<1>1. /\ RunPlaces' /\ RunEntries'
      /\ \A q \in Processes : at'[q] = "out" /\ ~Owed(q)'
  BY AllOut
<1>2. EntriesTyped /\ EntriesTrue /\ tries' \in Int
  BY DEF DeliveryInv, LedgerInv, EntriesTyped
<1>3. TriesAccounted' /\ lost' \in Int
  BY <1>1, <1>2, FileKept, AccountsClosed
<1>4. EntriesTyped' /\ EntriesTrue'
  BY <1>2, <1>3, ForgetEntries
<1> QED BY <1>1, <1>3, <1>4 DEF LedgerInv

LEMMA KillKeeps ==
  ASSUME DeliveryInv, IInv', InMailbox => InMailbox', NEW p \in Processes, KillProcess(p)
  PROVE  LedgerInv'
<1>1. step[p] # "off" /\ step' = [step EXCEPT ![p] = "off"] /\ Forget({p}) /\ Hangup({p})
      /\ KeepContents /\ CountLost /\ UNCHANGED tries
  BY DEF KillProcess, Kill, GoTo
<1>2. \A q \in Processes : step'[q] \in {"off", "idle"}
  BY <1>1, Alone DEF DeliveryInv, LedgerInv, IInv, TypeOK
<1>3. \A q \in Processes : q \notin {p} => at[q] = "out" /\ call[q] = "none"
  BY <1>1, Alone DEF DeliveryInv, LedgerInv, RunPlaces
<1>4. call' = call => \A q \in Processes : call[q] = "none"
  BY <1>1, <1>3, DeliveryAssumption DEF Hangup
<1>5. {p} \in SUBSET Processes
  OBVIOUS
<1> QED BY <1>1, <1>2, <1>3, <1>4, <1>5, AbortKeeps

LEMMA PowerKeeps ==
  ASSUME DeliveryInv, IInv', InMailbox => InMailbox', LosePower
  PROVE  LedgerInv'
<1>1. Forget(Processes) /\ Hangup(Processes) /\ KeepContents /\ CountLost /\ UNCHANGED tries
      /\ \A q \in Processes : step'[q] \in {"off", "idle"}
  BY DEF LosePower, PowerLoss
<1>2. call' = call => \A q \in Processes : call[q] = "none"
  BY <1>1, DeliveryAssumption DEF Hangup
<1>3. Processes \in SUBSET Processes
  OBVIOUS
<1> QED BY <1>1, <1>2, <1>3, AbortKeeps

LEMMA SaveErrorKeeps ==
  ASSUME DeliveryInv, IInv', InMailbox => InMailbox', NEW p \in Processes, SaveError(p)
  PROVE  LedgerInv'
<1>1. at[p] = "save" /\ step' = [step EXCEPT ![p] = "idle"] /\ Forget({p}) /\ UNCHANGED call
      /\ KeepContents /\ CountLost /\ UNCHANGED tries /\ step[p] # "off"
  BY DEF SaveError, SaveFails, SyncEnds, GoTo, transport
<1>2. \A q \in Processes : step'[q] \in {"off", "idle"}
  BY <1>1, Alone DEF DeliveryInv, LedgerInv, IInv, TypeOK
<1>3. \A q \in Processes : call[q] = "none" /\ (q \notin {p} => at[q] = "out")
  BY <1>1, Alone DEF DeliveryInv, LedgerInv, RunPlaces
<1>4. {p} \in SUBSET Processes
  OBVIOUS
<1> QED BY <1>1, <1>2, <1>3, <1>4, AbortKeeps

(***************************************************************************)
(* The steps of Save.                                                      *)
(***************************************************************************)
(* What a run that saves knows.                                            *)
LEMMA InSave ==
  ASSUME DeliveryInv, NEW p \in Processes, at[p] = "save", step[p] # "off"
  PROVE  /\ after[p] \in {"reconcile", "decide", "confirm", "end"} /\ call[p] = "none"
         /\ entry[p] \in Entries /\ draft[p] \in Entries /\ IsTrue(draft[p])
         /\ entry[p].attempts \in Int /\ draft[p].attempts \in Int
         /\ draft[p].attempts \in {entry[p].attempts, entry[p].attempts + 1}
         /\ step[p] \in Written => entry[p] = contents[file]
         /\ step[p] = "syncdir" => draft[p] = contents[file]
         /\ step[p] \in {"sync", "close", "rename"} => contents[held[p] + 1] = draft[p]
         /\ file \in 0..MaxVersion /\ tries \in Int /\ lost \in Int
         /\ AccountOf(p)
<1>1. AccountOf(p)
  BY Accounts
<1>2. entry[p] \in Entries /\ draft[p] \in Entries
  BY DEF DeliveryInv, LedgerInv, EntriesTyped
<1>3. entry[p].attempts \in Int /\ draft[p].attempts \in Int
  BY <1>2 DEF Entries
<1>4. file \in 0..MaxVersion
  BY DEF DeliveryInv, IInv, TypeOK, AlwaysDecodes
<1>5. /\ after[p] \in {"reconcile", "decide", "confirm", "end"} /\ call[p] = "none"
      /\ IsTrue(draft[p]) /\ tries \in Int /\ lost \in Int
  BY DEF DeliveryInv, LedgerInv, EntriesTyped, EntriesTrue, RunPlaces
<1>6. /\ draft[p].attempts \in {entry[p].attempts, entry[p].attempts + 1}
      /\ step[p] \in Written => entry[p] = contents[file]
      /\ step[p] = "syncdir" => draft[p] = contents[file]
      /\ step[p] \in {"sync", "close", "rename"} => contents[held[p] + 1] = draft[p]
  BY DEF DeliveryInv, LedgerInv, RunEntries
<1> QED BY <1>1, <1>2, <1>3, <1>4, <1>5, <1>6

(* A step of Save before the last: the run stays where it is, and the      *)
(* process goes on to the next step.                                       *)
LEMMA SavingKeeps ==
  ASSUME DeliveryInv, IInv', InMailbox => InMailbox', NEW p \in Processes,
         at[p] = "save", step[p] # "off", NEW s \in Saving,
         step' = [step EXCEPT ![p] = s],
         UNCHANGED <<call, at, entry, draft, after, tries, lost, held>>,
         EntriesTyped', EntriesTrue',
         s \in Written => entry[p] = contents'[file'],
         s = "syncdir" => draft[p] = contents'[file'],
         s \in {"sync", "close", "rename"} => contents'[held[p] + 1] = draft[p],
         AccountOf(p)'
  PROVE  LedgerInv'
<1>1. \A q \in Processes : q # p => step[q] = "off" /\ step'[q] = "off" /\ at[q] = "out"
  BY Alone DEF DeliveryInv, LedgerInv, IInv, TypeOK
<1>2. step'[p] = s
  BY DEF DeliveryInv, IInv, TypeOK
<1>3. RunPlaces'
  BY <1>1, <1>2 DEF DeliveryInv, LedgerInv, RunPlaces, Saving
<1>4. RunEntries'
  <2> SUFFICES ASSUME NEW q \in Processes, at'[q] # "out"
               PROVE  /\ step'[q] \in Written => entry[q] = contents'[file']
                      /\ step'[q] = "syncdir" => draft[q] = contents'[file']
                      /\ step'[q] \in {"sync", "close", "rename"} => contents'[held[q] + 1] = draft[q]
                      /\ at[q] \in {"check", "send"} => entry[q].attempts < MaxAttempts
                      /\ at[q] = "save" => draft[q].attempts \in {entry[q].attempts, entry[q].attempts + 1}
    BY DEF RunEntries
  <2>1. q = p
    BY <1>1
  <2> QED BY <1>2, <2>1, InSave
<1>5. step'[p] # "off"
  BY <1>2 DEF Saving
<1>6. TriesAccounted'
  BY <1>3, <1>5, AccountsNext
<1> QED BY <1>3, <1>4, <1>6 DEF LedgerInv

LEMMA UnwrittenKeeps ==
  ASSUME DeliveryInv, IInv', InMailbox => InMailbox', NEW p \in Processes,
         SaveStep(p), Create(p) \/ Sync(p) \/ Close(p),
         UNCHANGED <<contents, syncVars>>
  PROVE  LedgerInv'
<1>1. /\ at[p] = "save" /\ step[p] # "off"
      /\ UNCHANGED <<call, at, entry, draft, after, tries, lost, held, file, contents>>
  BY DEF SaveStep, Create, Sync, Close, transport, account, syncVars, diskVars
<1>2. PICK s \in {"encode", "close", "rename"} :
        /\ step' = [step EXCEPT ![p] = s] /\ step[p] \in Written
        /\ s \in {"close", "rename"} => step[p] \in {"sync", "close"}
  BY DEF Create, Sync, Close, GoTo, Written
<1>3. EntriesTyped' /\ EntriesTrue'
  BY <1>1, SameEntries DEF DeliveryInv, LedgerInv, EntriesTyped
<1>4. step'[p] = s
  BY <1>2 DEF DeliveryInv, IInv, TypeOK
<1>5. Owed(p)' <=> Owed(p)
  BY <1>1, <1>2, <1>4 DEF Owed, Attempted, Written
<1>6. AccountOf(p)'
  <2> HIDE DEF Owed
  <2> QED BY <1>1, <1>5, InSave DEF AccountOf, Debt
<1> QED BY <1>1, <1>2, <1>3, <1>6, InSave, SavingKeeps DEF Saving

LEMMA EncodeKeeps ==
  ASSUME DeliveryInv, IInv', InMailbox => InMailbox', NEW p \in Processes,
         SaveStep(p), Encode(p), contents' = [contents EXCEPT ![held[p] + 1] = draft[p]],
         UNCHANGED syncVars
  PROVE  LedgerInv'
<1>1. /\ at[p] = "save" /\ step[p] = "encode" /\ step' = [step EXCEPT ![p] = "sync"]
      /\ UNCHANGED <<call, at, entry, draft, after, tries, lost, held, file>>
  BY DEF SaveStep, Encode, GoTo, transport, account, syncVars, diskVars
<1>2. held[p] = file /\ held[p] + 1 \in 0..MaxVersion /\ held[p] + 1 # file
  BY <1>1, FileAssumption DEF DeliveryInv, IInv, TypeOK, HeldIsCurrent, SavingSound, Saving
<1>3. contents'[held[p] + 1] = draft[p] /\ contents'[file'] = contents[file]
  BY <1>1, <1>2, InSave DEF DeliveryInv, LedgerInv, EntriesTyped
<1>4. EntriesTyped'
  BY <1>1 DEF DeliveryInv, LedgerInv, EntriesTyped
<1>5. EntriesTrue'
  BY <1>1 DEF DeliveryInv, LedgerInv, EntriesTyped, EntriesTrue, IsTrue
<1>6. step'[p] = "sync"
  BY <1>1 DEF DeliveryInv, IInv, TypeOK
<1>7. Owed(p)' <=> Owed(p)
  BY <1>1, <1>6 DEF Owed, Attempted, Written
<1>8. AccountOf(p)'
  <2> HIDE DEF Owed
  <2> QED BY <1>1, <1>3, <1>7, InSave DEF AccountOf, Debt
<1>9. entry[p] = contents[file]
  BY <1>1, InSave DEF Written
<1> QED BY <1>1, <1>3, <1>4, <1>5, <1>8, <1>9, SavingKeeps DEF Saving

(* The rename pays what the run owed the file.                             *)
LEMMA RenameKeeps ==
  ASSUME DeliveryInv, IInv', InMailbox => InMailbox', NEW p \in Processes,
         SaveStep(p), Rename(p), UNCHANGED <<contents, syncVars>>
  PROVE  LedgerInv'
<1>1. /\ at[p] = "save" /\ step[p] = "rename" /\ step' = [step EXCEPT ![p] = "syncdir"]
      /\ UNCHANGED <<call, at, entry, draft, after, tries, lost, held, contents>> /\ file' = temp[p]
  BY DEF SaveStep, Rename, GoTo, transport, account, syncVars, diskVars
<1>2. file' = held[p] + 1
  BY <1>1 DEF DeliveryInv, IInv, SavingSound
<1>3. contents'[file'] = draft[p] /\ entry[p] = contents[file]
  BY <1>1, <1>2, InSave DEF Written
<1>4. EntriesTyped' /\ EntriesTrue'
  BY <1>1, SameEntries DEF DeliveryInv, LedgerInv, EntriesTyped
<1>5. step'[p] = "syncdir"
  BY <1>1 DEF DeliveryInv, IInv, TypeOK
<1>6. Debt(p)' = 0 /\ Debt(p) = IF Attempted(p) THEN 1 ELSE 0
  BY <1>1, <1>5 DEF Debt, Owed, Written
<1>7. draft[p].attempts = entry[p].attempts + Debt(p)
  BY <1>1, <1>6, InSave DEF Attempted
<1>8. AccountOf(p)'
  BY <1>1, <1>3, <1>6, <1>7, InSave DEF AccountOf
<1>9. "syncdir" \notin Written /\ step[p] # "off"
  BY <1>1 DEF Written
<1> QED BY <1>1, <1>3, <1>4, <1>8, <1>9, SavingKeeps DEF Saving

LEMMA SavedKeeps ==
  ASSUME DeliveryInv, IInv', InMailbox => InMailbox', NEW p \in Processes,
         SaveStep(p), SyncDirectory(p), KeepContents,
         entry' = [entry EXCEPT ![p] = draft[p]], draft' = [draft EXCEPT ![p] = NoEntry],
         at' = [at EXCEPT ![p] = after[p]], after' = [after EXCEPT ![p] = "out"]
  PROVE  LedgerInv'
<1>1. /\ at[p] = "save" /\ step[p] = "syncdir" /\ step' = [step EXCEPT ![p] = "loaded"]
      /\ UNCHANGED <<call, tries, lost, file>>
  BY DEF SaveStep, SyncDirectory, GoTo, transport, account
<1>2. contents'[file'] = draft[p]
  BY <1>1, FileKept, InSave DEF DeliveryInv, LedgerInv
<1>3. \A q \in Processes : q # p =>
        /\ at[q] = "out" /\ at'[q] = "out" /\ step'[q] = step[q]
        /\ after'[q] = after[q] /\ call'[q] = call[q]
  BY <1>1, Alone DEF DeliveryInv, LedgerInv, RunPlaces, IInv, TypeOK
<1>4. /\ step'[p] = "loaded" /\ at'[p] = after[p] /\ entry'[p] = draft[p] /\ call'[p] = "none"
      /\ at'[p] \in {"reconcile", "decide", "confirm", "end"}
  BY <1>1, InSave DEF DeliveryInv, LedgerInv, EntriesTyped, RunPlaces, IInv, TypeOK
<1>5. contents' \in [0..MaxVersion -> Entries] /\ \A v \in 0..MaxVersion : contents'[v] \in {contents[v], NoEntry}
  BY NoEntryIsEntry DEF KeepContents, DeliveryInv, LedgerInv, EntriesTyped
<1>6. EntriesTyped'
  BY <1>1, <1>5, NoEntryIsEntry DEF DeliveryInv, LedgerInv, EntriesTyped
<1>7. EntriesTrue'
  BY <1>5, NoEntryIsEntry DEF DeliveryInv, LedgerInv, EntriesTyped, EntriesTrue, IsTrue
<1>8. RunPlaces'
  <2>1. /\ at' \in [Processes -> Looking \union {"out", "save", "decide", "send", "end"}]
        /\ after' \in [Processes -> {"out", "reconcile", "decide", "confirm", "end"}]
    BY <1>1, InSave DEF DeliveryInv, LedgerInv, RunPlaces, Looking
  <2> QED BY <1>3, <1>4, <2>1 DEF DeliveryInv, LedgerInv, RunPlaces, Saving, Looking
<1>9. RunEntries'
  BY <1>2, <1>3, <1>4 DEF RunEntries
<1>10. Debt(p) = 0 /\ Debt(p)' = 0
  BY <1>1, <1>4 DEF Debt, Owed, Written
<1>11. AccountOf(p)'
  BY <1>1, <1>2, <1>10, InSave DEF AccountOf
<1> QED BY <1>4, <1>6, <1>7, <1>8, <1>9, <1>11, AccountsNext DEF LedgerInv

LEMMA SaveStepKeeps ==
  ASSUME DeliveryInv, IInv', InMailbox => InMailbox', NEW p \in Processes, SaveStep(p)
  PROVE  LedgerInv'
BY UnwrittenKeeps, EncodeKeeps, RenameKeeps, SavedKeeps DEF SaveStep

(***************************************************************************)
(* The invariant of the whole, and what follows from it.                   *)
(***************************************************************************)
LEMMA InitLedgerInv == DeliveryInit => LedgerInv
<1> SUFFICES ASSUME DeliveryInit PROVE LedgerInv
  OBVIOUS
<1>1. file = 0 /\ 0 \in 0..MaxVersion /\ contents[0] = NoEntry
  BY FileAssumption DEF DeliveryInit, Init
<1>2. EntriesTyped /\ EntriesTrue
  BY NoEntryIsEntry DEF DeliveryInit, EntriesTyped, EntriesTrue, IsTrue
<1>3. RunPlaces
  BY DeliveryAssumption DEF DeliveryInit, Init, MailInit, RunPlaces, Looking, Saving
<1>4. RunEntries /\ \A p \in Processes : ~Owed(p)
  BY DEF DeliveryInit, RunEntries, Owed
<1>5. TriesAccounted
  <2> HIDE DEF Owed
  <2> QED BY <1>1, <1>4, NoEntryIsEntry DEF DeliveryInit, TriesAccounted
<1> QED BY <1>2, <1>3, <1>4, <1>5 DEF LedgerInv

LEMMA StepDeliveryInv == DeliveryInv /\ [DeliveryNext]_deliveryVars => DeliveryInv'
<1> SUFFICES ASSUME DeliveryInv, [DeliveryNext]_deliveryVars PROVE DeliveryInv'
  OBVIOUS
<1>1. IInv'
  BY StepFile, StepIInv DEF DeliveryInv
<1>2. MailInv' /\ (InMailbox => InMailbox')
  BY StepMail, StepMailInv, InMailboxKept DEF DeliveryInv, MailInv
<1>3. ASSUME NEW p \in Processes, RunStep(p) PROVE LedgerInv'
  <2>1. CASE StartProcess(p) \/ BeginRun(p) \/ FinishRun(p) \/ Blind(p) \/ FetchFails(p)
    BY <1>1, <1>2, <2>1, ProcessKeeps, BeginKeeps, EndKeeps
  <2>2. CASE Look(p) \/ Calls(p) \/ Seen(p) \/ Unseen(p) \/ Decide(p)
    BY <1>1, <1>2, <2>2, LookKeeps, CallsKeep, SeenKeeps, UnseenKeeps, DecideKeeps
  <2>3. CASE Send(p) \/ Sent(p) \/ Unsent(p) \/ SaveStep(p) \/ SaveError(p)
    BY <1>1, <1>2, <2>3, SendKeeps, OutcomeKeeps, SaveStepKeeps, SaveErrorKeeps
  <2> QED BY <1>3, <2>1, <2>2, <2>3 DEF RunStep
<1>4. ASSUME NEW p \in Processes, KillProcess(p) PROVE LedgerInv'
  BY <1>1, <1>2, <1>4, KillKeeps
<1>5. ASSUME LosePower PROVE LedgerInv'
  BY <1>1, <1>2, <1>5, PowerKeeps
<1>6. ASSUME GraceEnds \/ MailMoves \/ UNCHANGED deliveryVars PROVE LedgerInv'
  <2>1. UNCHANGED <<vars, contents, call, at, entry, draft, after, tries, lost>>
    BY <1>6 DEF GraceEnds, MailMoves, MailSystem, Arrive, OtherMail, Index,
       deliveryVars, storeVars, transport, syncVars, account
  <2> QED BY <1>1, <1>2, <2>1, QuietKeeps
<1>7. LedgerInv'
  BY <1>3, <1>4, <1>5, <1>6 DEF DeliveryNext
<1> QED BY <1>1, <1>2, <1>7 DEF DeliveryInv

LEMMA DeliveryInvariant == DeliverySpec => []DeliveryInv
<1>1. DeliveryInit => DeliveryInv
  BY InitIInv, InitMailInv, InitLedgerInv DEF DeliveryInit, DeliveryInv
<1> QED BY <1>1, StepDeliveryInv, PTL DEF DeliverySpec

(* No more calls of Send than MaxAttempts and one for each lost record,    *)
(* over all kills, power losses and errors (service.go:206-228).           *)
THEOREM SendsAreBounded == DeliverySpec => []TriesBounded
<1>1. ASSUME DeliveryInv PROVE TriesBounded
  <2>1. contents[file] \in Entries /\ tries \in Int /\ lost \in Int /\ TriesAccounted
    BY <1>1 DEF DeliveryInv, IInv, TypeOK, AlwaysDecodes, LedgerInv, EntriesTyped
  <2>2. contents[file].attempts \in 0..MaxAttempts
    BY <2>1 DEF Entries
  <2>3. ASSUME NEW p \in Processes, Owed(p) PROVE contents[file].attempts < MaxAttempts
    <3>1. step[p] # "off"
      BY <1>1, <2>3 DEF Owed, DeliveryInv, LedgerInv, RunPlaces
    <3>2. CASE at[p] = "send"
      <4>1. step[p] = "loaded"
        BY <1>1, <3>2, <3>1 DEF DeliveryInv, LedgerInv, RunPlaces, IInv, TypeOK, Saving
      <4> QED BY <1>1, <3>2, <4>1, Running
    <3>3. CASE at[p] = "save" /\ step[p] \in Written /\ Attempted(p)
      <4>1. draft[p].attempts \in 0..MaxAttempts
        BY <1>1, <3>1, <3>3, InSave DEF Entries
      <4> QED BY <1>1, <3>1, <3>3, <4>1, InSave, DeliveryAssumption DEF Attempted
    <3> QED BY <2>3, <3>2, <3>3 DEF Owed
  <2> HIDE DEF Owed
  <2> QED BY <2>1, <2>2, <2>3, DeliveryAssumption DEF TriesBounded, TriesAccounted
<1> QED BY <1>1, DeliveryInvariant, PTL

(* The ledger says "delivered" only of a message in the mailbox, whatever  *)
(* version a power loss leaves (service.go:148-152, 191-196, 231-239).     *)
THEOREM DeliveredIsInMailbox == DeliverySpec => []DeliveredInMailbox
<1>1. ASSUME DeliveryInv PROVE DeliveredInMailbox
  <2>1. \A v \in onDisk \union {file} : v # Torn => v \in 0..MaxVersion
    BY <1>1 DEF DeliveryInv, IInv, TypeOK
  <2> QED BY <1>1, <2>1 DEF DeliveredInMailbox, DeliveryInv, LedgerInv, EntriesTrue, IsTrue, InMailbox
<1> QED BY <1>1, DeliveryInvariant, PTL

(***************************************************************************)
(* A run at whose beginning the mailbox would have shown the message.      *)
(***************************************************************************)
ShownSound(p) ==
  /\ at[p] = "save" => draft[p].initialized
  /\ at[p] \notin {"out", "save"} => entry[p].initialized
  /\ p \in shown =>
       /\ InMailbox
       /\ at[p] = "reconcile" /\ call[p] \in {"search", "fetch", "unseen"} => due[p] # "absent"
       /\ at[p] = "decide" => entry[p].status \notin Unconfirmed
       /\ at[p] = "save" =>
            /\ after[p] = "decide" => draft[p].status \notin Unconfirmed
            /\ draft[p].status # "failed" \/ Attempted(p)

(* An entry is made in a file that has been initialized.                   *)
EntriesInitialized ==
  \A v \in 0..MaxVersion : contents[v].initialized \/ contents[v].status = "none"

ShownInv == EntriesInitialized /\ \A p \in Processes : ShownSound(p)

(* What a step of p leaves to the other processes.                         *)
Same(q) ==
  /\ at'[q] = at[q] /\ entry'[q] = entry[q] /\ draft'[q] = draft[q] /\ after'[q] = after[q]
  /\ call'[q] = call[q] /\ due'[q] = due[q] /\ (q \in shown' => q \in shown)

LEMMA SameShown ==
  ASSUME NEW q \in Processes, ShownSound(q), Same(q), InMailbox => InMailbox'
  PROVE  ShownSound(q)'
BY DEF ShownSound, Same, Attempted

LEMMA Functions ==
  ASSUME DeliveryInv
  PROVE  /\ at \in [Processes -> Looking \union {"out", "save", "decide", "send", "end"}]
         /\ after \in [Processes -> {"out", "reconcile", "decide", "confirm", "end"}]
         /\ entry \in [Processes -> Entries] /\ draft \in [Processes -> Entries]
         /\ call \in [Processes -> Calling] /\ count \in [Processes -> Nat]
         /\ due \in [Processes -> {"due", "absent", "buried"}]
         /\ contents \in [0..MaxVersion -> Entries]
BY DeliveryAssumption DEF DeliveryInv, LedgerInv, RunPlaces, EntriesTyped, MailInv, MailTyped

LEMMA HangupElsewhere ==
  ASSUME DeliveryInv, NEW p \in Processes, Hangup({p}) \/ HangupKnowing(p), NEW q \in Processes, q # p
  PROVE  call'[q] = call[q] /\ due'[q] = due[q]
BY Functions, DeliveryAssumption DEF Hangup, HangupKnowing

LEMMA OthersSame ==
  ASSUME DeliveryInv, NEW p \in Processes, RunStep(p) \/ KillProcess(p), NEW q \in Processes, q # p
  PROVE  Same(q)
<1> USE Functions DEF Same
<1>1. CASE StartProcess(p)
  BY <1>1 DEF StartProcess, transport, syncVars
<1>2. CASE BeginRun(p)
  <2>1. UNCHANGED <<call, due>> /\ entry'[q] = entry[q] /\ (q \in shown' => q \in shown)
    BY <1>2 DEF BeginRun, transport
  <2>2. at'[q] = at[q] /\ draft'[q] = draft[q] /\ after'[q] = after[q]
    BY <1>2 DEF BeginRun
  <2> QED BY <2>1, <2>2
<1>3. ASSUME Forget({p}), call'[q] = call[q], due'[q] = due[q] PROVE Same(q)
  BY <1>3 DEF Forget
<1>4. CASE FinishRun(p) \/ Blind(p) \/ FetchFails(p)
  BY <1>3, <1>4, HangupElsewhere DEF FinishRun, Blind, FetchFails, EndRun
<1>5. CASE Look(p) \/ Calls(p)
  <2>1. UNCHANGED syncVars
    BY <1>5 DEF Look, Calls
  <2>2. call'[q] = call[q] /\ due'[q] = due[q]
    BY <1>5 DEF Look, Calls, StartLook, TransportStep, Connect, SendMail, Quit, OpenMailbox, Search, FetchHeaders,
       LookFails, Move
  <2> QED BY <2>1, <2>2 DEF syncVars
<1>6. CASE Seen(p) \/ Sent(p) \/ Unsent(p)
  <2>1. PICK e, next : SaveEntry(p, e, next)
    BY <1>6 DEF Seen, Sent, Unsent
  <2>2. Hangup({p})
    BY <1>6 DEF Seen, Sent, Unsent
  <2> QED BY <2>1, <2>2, HangupElsewhere DEF SaveEntry
<1>7. CASE Unseen(p)
  <2>1. call'[q] = call[q] /\ due'[q] = due[q]
    BY <1>7, HangupElsewhere DEF Unseen
  <2>2. Reconciled(p) \/ GoOn(p, "send") \/ GoOn(p, "end")
    BY <1>7 DEF Unseen
  <2> QED BY <2>1, <2>2 DEF Reconciled, GoOn
<1>8. CASE Decide(p)
  <2>1. UNCHANGED <<call, due>>
    BY <1>8 DEF Decide, transport
  <2>2. (\E place : GoOn(p, place)) \/ \E e, next : SaveEntry(p, e, next)
    BY <1>8 DEF Decide
  <2> QED BY <2>1, <2>2 DEF GoOn, SaveEntry
<1>9. CASE Send(p)
  BY <1>9 DEF Send, StartSend, Move, syncVars
<1>10. CASE SaveStep(p)
  BY <1>10 DEF SaveStep, transport, syncVars
<1>11. CASE SaveError(p)
  BY <1>3, <1>11 DEF SaveError, transport
<1>12. CASE KillProcess(p)
  BY <1>3, <1>12, HangupElsewhere DEF KillProcess
<1> QED BY <1>1, <1>2, <1>4, <1>5, <1>6, <1>7, <1>8, <1>9, <1>10, <1>11, <1>12 DEF RunStep

(* The process itself: looks, ...                                          *)
LEMMA LookShown ==
  ASSUME DeliveryInv, InMailbox => InMailbox', NEW p \in Processes, ShownSound(p), Look(p) \/ Calls(p) \/ Send(p)
  PROVE  ShownSound(p)'
<1>1. UNCHANGED syncVars /\ UNCHANGED contents
  BY DEF Look, Calls, Send, storeVars
<1>2. call'[p] \in {"search", "fetch", "unseen"} =>
        \/ call[p] \in {"search", "fetch", "unseen"} /\ due'[p] = due[p]
        \/ due'[p] = Outlook
  <2>1. CASE Look(p) \/ Send(p)
    BY <2>1, Functions DEF Look, Send, StartLook, StartSend, Move
  <2>2. CASE Calls(p)
    BY <2>2, Functions DEF Calls, TransportStep, Connect, SendMail, Quit, OpenMailbox, Search, FetchHeaders, LookFails, Move
  <2> QED BY <2>1, <2>2
<1>3. InMailbox => Outlook # "absent"
  BY DEF InMailbox, Outlook
<1> QED BY <1>1, <1>2, <1>3 DEF ShownSound, syncVars, Attempted

(* ... a new run, ...                                                      *)
LEMMA BeginShown ==
  ASSUME DeliveryInv, EntriesInitialized, InMailbox => InMailbox', NEW p \in Processes, ShownSound(p), BeginRun(p)
  PROVE  ShownSound(p)'
<1> DEFINE e == contents[file]
           d == [e EXCEPT !.initialized = TRUE]
<1>1. file \in 0..MaxVersion /\ step[p] = "idle"
  BY DEF DeliveryInv, IInv, TypeOK, AlwaysDecodes, BeginRun, Load
<1>2. e \in Entries /\ (e.initialized \/ e.status = "none")
  BY <1>1, Functions DEF EntriesInitialized
<1>3. d.initialized /\ d.status = e.status
  BY <1>2 DEF Entries
<1>4. at[p] = "out" /\ call[p] = "none"
  BY <1>1 DEF DeliveryInv, LedgerInv, RunPlaces
<1>5. p \in shown' => InMailbox'
  BY DEF BeginRun, Outlook, Findable, Ours, InMailbox, ShownSound
<1>6. entry'[p] = e /\ call'[p] = "none"
  BY <1>4, Functions DEF BeginRun, transport
<1>7. CASE e.initialized
  <2>1. at'[p] = ReconcileOrDecide(e)
    BY <1>7, Functions DEF BeginRun
  <2>2. at'[p] = "decide" => e.status \notin Unconfirmed
    BY <2>1 DEF ReconcileOrDecide
  <2>3. at'[p] \in {"reconcile", "decide"}
    BY <2>1 DEF ReconcileOrDecide
  <2> HIDE DEF e
  <2> QED BY <1>5, <1>6, <1>7, <2>2, <2>3 DEF ShownSound
<1>8. CASE ~e.initialized
  <2>1. at'[p] = "save" /\ draft'[p] = d
    BY <1>8, Functions DEF BeginRun
  <2> QED BY <1>2, <1>3, <1>5, <1>8, <2>1 DEF ShownSound, Unconfirmed
<1> QED BY <1>7, <1>8

(* ... decisions and outcomes, ...                                         *)
LEMMA RequestShown ==
  ASSUME DeliveryInv, NEW p \in Processes, ShownSound(p), InMailbox => InMailbox', UNCHANGED shown,
         NEW e, NEW next, SaveEntry(p, e, next), e.initialized,
         p \in shown => /\ e.status = "failed" => e.attempts > entry[p].attempts
                        /\ next = "decide" => e.status \notin Unconfirmed
  PROVE  ShownSound(p)'
<1>1. at'[p] = "save" /\ draft'[p] = e /\ after'[p] = next /\ entry'[p] = entry[p]
  BY Functions DEF SaveEntry
<1> QED BY <1>1 DEF ShownSound, Attempted

LEMMA OutcomeShown ==
  ASSUME DeliveryInv, NEW p \in Processes, ShownSound(p), InMailbox => InMailbox', Seen(p) \/ Sent(p) \/ Unsent(p)
  PROVE  ShownSound(p)'
<1>1. step[p] = "loaded" /\ at[p] \notin {"out", "save"}
  BY DEF Seen, Sent, Unsent, At
<1>2. entry[p] \in Entries /\ entry[p].attempts \in Int /\ entry[p].initialized
  BY <1>1, Running DEF ShownSound
<1>3. UNCHANGED shown
  BY DEF Seen, Sent, Unsent, SaveEntry
<1>4. CASE Seen(p)
  <2> DEFINE d == [entry[p] EXCEPT !.status = "delivered"]
  <2>1. SaveEntry(p, d, "decide") /\ d.initialized /\ d.status = "delivered"
    BY <1>2, <1>4 DEF Seen, Entries
  <2> HIDE DEF d
  <2> QED BY <1>3, <2>1, RequestShown DEF Unconfirmed
<1>5. CASE Sent(p)
  <2> DEFINE d == [entry[p] EXCEPT !.status = "pending", !.attempts = @ + 1]
  <2>1. SaveEntry(p, d, "confirm") /\ d.initialized /\ d.status = "pending"
    BY <1>2, <1>5 DEF Sent, Entries
  <2> HIDE DEF d
  <2> QED BY <1>3, <2>1, RequestShown
<1>6. CASE Unsent(p)
  <2> DEFINE n == entry[p].attempts + 1
             d == [entry[p] EXCEPT !.attempts = n, !.status = IF n >= MaxAttempts THEN "failed" ELSE "retry_wait"]
  <2>1. SaveEntry(p, d, "end") /\ d.initialized /\ d.attempts = n
    BY <1>2, <1>6 DEF Unsent, Entries
  <2>2. d.attempts > entry[p].attempts
    BY <1>2, <2>1
  <2> HIDE DEF d, n
  <2> QED BY <1>3, <2>1, <2>2, RequestShown
<1> QED BY <1>4, <1>5, <1>6

LEMMA UnseenShown ==
  ASSUME DeliveryInv, NEW p \in Processes, ShownSound(p), InMailbox => InMailbox', Unseen(p)
  PROVE  ShownSound(p)'
<1>1. /\ step[p] = "loaded" /\ at[p] \in Looking /\ entry[p].initialized /\ call[p] = "unseen"
      /\ UNCHANGED <<entry, draft, after>>
  BY DEF Unseen, At, Looking, ShownSound, Reconciled, GoOn
<1>2. call'[p] = "none"
  BY HangupIsUpdate, Functions DEF Unseen
<1>3. CASE At(p, "reconcile") /\ Reconciled(p)
  <2>1. p \in shown => due[p] = "buried"
    BY <1>1, <1>3, Functions, DeliveryAssumption DEF At, ShownSound, DeliveryInv, MailInv, LookIsRight
  <2>2. p \notin shown' /\ at'[p] = "decide"
    BY <1>3, <2>1, Functions DEF Reconciled
  <2> QED BY <1>1, <2>2 DEF ShownSound
<1>4. CASE GoOn(p, "send") \/ GoOn(p, "end")
  <2>1. at'[p] \in {"send", "end"} /\ UNCHANGED shown
    BY <1>4, Functions DEF GoOn
  <2> QED BY <1>1, <2>1 DEF ShownSound
<1> QED BY <1>3, <1>4 DEF Unseen

LEMMA DecideShown ==
  ASSUME DeliveryInv, NEW p \in Processes, ShownSound(p), InMailbox => InMailbox', Decide(p)
  PROVE  ShownSound(p)'
<1>1. /\ step[p] = "loaded" /\ at[p] = "decide" /\ entry[p].initialized /\ UNCHANGED <<entry, shown>>
  BY DEF Decide, At, ShownSound, GoOn, SaveEntry
<1>2. CASE GoOn(p, "end") \/ GoOn(p, BeforeSend)
  <2>1. at'[p] \in {"end", "check"}
    BY <1>2, Functions DEF GoOn, BeforeSend
  <2> QED BY <1>1, <2>1 DEF ShownSound
<1>3. CASE entry[p].status \in Unconfirmed /\ SaveEntry(p, [entry[p] EXCEPT !.status = "failed"], "end")
  <2>1. p \notin shown
    BY <1>1, <1>3 DEF ShownSound
  <2>2. [entry[p] EXCEPT !.status = "failed"].initialized
    BY <1>1, Functions DEF Entries
  <2> QED BY <1>1, <1>3, <2>1, <2>2, RequestShown
<1> QED BY <1>2, <1>3 DEF Decide

(* ... the steps of Save, and the end of the run.                          *)
LEMMA SaveShown ==
  ASSUME DeliveryInv, NEW p \in Processes, ShownSound(p), InMailbox => InMailbox', SaveStep(p)
  PROVE  ShownSound(p)'
<1>1. at[p] = "save" /\ UNCHANGED <<call, due, shown>>
  BY DEF SaveStep, transport, syncVars
<1>2. CASE UNCHANGED syncVars
  BY <1>1, <1>2 DEF ShownSound, syncVars, Attempted
<1>3. CASE /\ SyncDirectory(p) /\ entry' = [entry EXCEPT ![p] = draft[p]]
           /\ at' = [at EXCEPT ![p] = after[p]]
  <2>1. step[p] # "off" /\ at'[p] = after[p] /\ entry'[p] = draft[p]
    BY <1>3, Functions DEF SyncDirectory
  <2>2. after[p] \in {"reconcile", "decide", "confirm", "end"} /\ call'[p] = "none"
    BY <1>1, <2>1, InSave
  <2> QED BY <1>1, <2>1, <2>2 DEF ShownSound
<1> QED BY <1>2, <1>3 DEF SaveStep

LEMMA ForgottenShown ==
  ASSUME NEW S \in SUBSET Processes, Forget(S), NEW p \in S
  PROVE  ShownSound(p)'
BY DEF Forget, ShownSound

LEMMA ProcessShown ==
  ASSUME DeliveryInv, EntriesInitialized, NEW p \in Processes, ShownSound(p), InMailbox => InMailbox',
         RunStep(p) \/ KillProcess(p)
  PROVE  ShownSound(p)'
<1>1. CASE StartProcess(p)
  BY <1>1 DEF StartProcess, transport, syncVars, ShownSound, Attempted
<1>2. CASE BeginRun(p) \/ Look(p) \/ Calls(p) \/ Send(p)
  BY <1>2, BeginShown, LookShown
<1>3. CASE Seen(p) \/ Sent(p) \/ Unsent(p) \/ Unseen(p) \/ Decide(p) \/ SaveStep(p)
  BY <1>3, OutcomeShown, UnseenShown, DecideShown, SaveShown
<1>4. CASE FinishRun(p) \/ Blind(p) \/ FetchFails(p) \/ SaveError(p) \/ KillProcess(p)
  <2>1. Forget({p})
    BY <1>4 DEF FinishRun, Blind, FetchFails, EndRun, SaveError, KillProcess
  <2> QED BY <2>1, ForgottenShown
<1> QED BY <1>1, <1>2, <1>3, <1>4 DEF RunStep

LEMMA InitializedKept ==
  ASSUME DeliveryInv, ShownInv, [DeliveryNext]_deliveryVars
  PROVE  EntriesInitialized'
<1> USE DEF EntriesInitialized
<1>1. CASE UNCHANGED contents
  BY <1>1 DEF ShownInv
<1>2. CASE KeepContents
  <2>1. \A v \in 0..MaxVersion : contents'[v] \in {contents[v], NoEntry}
    BY <1>2, Functions DEF KeepContents
  <2> QED BY <2>1, NoEntryIsEntry DEF ShownInv
<1>3. ASSUME NEW p \in Processes, SaveStep(p), contents' = [contents EXCEPT ![held[p] + 1] = draft[p]]
      PROVE  EntriesInitialized'
  <2>1. draft[p].initialized
    BY <1>3 DEF SaveStep, ShownInv, ShownSound
  <2> QED BY <1>3, <2>1, Functions DEF ShownInv
<1>4. ASSUME NEW p \in Processes, RunStep(p) PROVE EntriesInitialized'
  <2>1. CASE SaveStep(p)
    BY <1>1, <1>2, <1>3, <2>1 DEF SaveStep
  <2>2. CASE SaveError(p)
    BY <1>2, <2>2 DEF SaveError
  <2>3. CASE StartProcess(p) \/ BeginRun(p) \/ FinishRun(p) \/ Blind(p) \/ FetchFails(p)
    BY <1>1, <2>3 DEF StartProcess, BeginRun, FinishRun, Blind, FetchFails, EndRun
  <2>4. CASE Look(p) \/ Calls(p) \/ Seen(p) \/ Unseen(p) \/ Decide(p) \/ Send(p) \/ Sent(p) \/ Unsent(p)
    BY <1>1, <2>4 DEF Look, Calls, Seen, Unseen, Decide, Send, Sent, Unsent, storeVars
  <2> QED BY <1>4, <2>1, <2>2, <2>3, <2>4 DEF RunStep
<1>5. CASE LosePower \/ \E p \in Processes : KillProcess(p)
  BY <1>2, <1>5 DEF LosePower, KillProcess
<1>6. CASE GraceEnds \/ MailMoves \/ UNCHANGED deliveryVars
  BY <1>1, <1>6 DEF GraceEnds, MailMoves, deliveryVars, storeVars
<1> QED BY <1>4, <1>5, <1>6 DEF DeliveryNext

LEMMA StepShownInv ==
  ASSUME DeliveryInv, ShownInv, [DeliveryNext]_deliveryVars
  PROVE  ShownInv'
<1>1. InMailbox => InMailbox'
  BY StepMail, InMailboxKept DEF DeliveryInv, MailInv
<1> SUFFICES ASSUME NEW q \in Processes PROVE ShownSound(q)'
  BY InitializedKept DEF ShownInv
<1>2. ShownSound(q) /\ EntriesInitialized
  BY DEF ShownInv
<1>3. ASSUME NEW p \in Processes, RunStep(p) \/ KillProcess(p) PROVE ShownSound(q)'
  <2>1. CASE p = q
    BY <1>1, <1>2, <1>3, <2>1, ProcessShown
  <2>2. CASE p # q
    BY <1>1, <1>2, <1>3, <2>2, OthersSame, SameShown
  <2> QED BY <2>1, <2>2
<1>4. CASE LosePower
  BY <1>4, ForgottenShown DEF LosePower
<1>5. CASE GraceEnds \/ MailMoves \/ UNCHANGED deliveryVars
  <2>1. UNCHANGED <<call, due, at, entry, draft, after, shown>>
    BY <1>5 DEF GraceEnds, MailMoves, MailSystem, Arrive, OtherMail, Index,
       deliveryVars, transport, syncVars
  <2> QED BY <1>1, <1>2, <2>1, SameShown DEF Same
<1> QED BY <1>3, <1>4, <1>5 DEF DeliveryNext

LEMMA ShownInvariant == DeliverySpec => []ShownInv
<1>1. DeliveryInit => ShownInv
  <2>1. DeliveryInit => EntriesInitialized
    BY NoEntryIsEntry DEF DeliveryInit, EntriesInitialized
  <2> QED BY <2>1 DEF DeliveryInit, ShownInv, ShownSound
<1>2. DeliveryInv /\ ShownInv /\ [DeliveryNext]_deliveryVars => ShownInv'
  BY StepShownInv
<1> QED BY <1>1, <1>2, DeliveryInvariant, PTL DEF DeliverySpec

(* A run gives up nothing that the mailbox would have shown when it began, *)
(* unless other mail buried it before the look (service.go:85, 107-115).   *)
THEOREM GivesUpAfterLook == DeliverySpec => []GivenUpAfterLook
<1>1. ShownInv => GivenUpAfterLook
  BY DEF ShownInv, ShownSound, GivenUpAfterLook
<1> QED BY <1>1, ShownInvariant, PTL

(***************************************************************************)
(* Copies.  All but those that are excused are one, and that one is in the *)
(* mailbox, or it is on its way and an attempt that is going on, or the    *)
(* entry in the file, is as recent as itself.                              *)
(***************************************************************************)
Excused == lost + slow + overlooked

Encoded == {"sync", "close", "rename"}

Underway(p) == Owed(p) /\ (step[p] \in Encoded => held[p] + 1 \in recent)

CopyPlace == InMailbox \/ (spool > 0 /\ (file \in recent \/ \E p \in Processes : Underway(p)))

CopiesSound == copies <= Excused \/ (copies = Excused + 1 /\ CopyPlace)

CountsTyped == spool \in Nat /\ copies \in Nat /\ slow \in Nat /\ overlooked \in Nat

RecentTried == recent \subseteq 0..MaxVersion /\ \A v \in recent : contents[v].attempts > 0

(* A version that a power loss may bring back counts no more attempts, and *)
(* if it counts as many, it is as recent.                                  *)
VersionsSound ==
  \A v \in onDisk :
    /\ contents[v].attempts <= contents[file].attempts
    /\ contents[v].attempts = contents[file].attempts /\ file \in recent => v \in recent

DraftSound(p) ==
  step[p] \in Encoded =>
    /\ held[p] \in recent => held[p] + 1 \in recent
    /\ held[p] + 1 \in recent => held[p] \in recent \/ Attempted(p)

(* Before a Send, what has not been found is excused already, or will be   *)
(* as overlooked.                                                          *)
BeforeSendSound(p) ==
  /\ at[p] \in {"check", "send"} => file \notin recent
  /\ at[p] = "check" /\ call[p] \in {"search", "fetch", "unseen"} /\ due[p] = "absent" => copies <= Excused
  /\ at[p] = "send" /\ call[p] = "none" => due[p] # "due" /\ (due[p] = "absent" => copies <= Excused)
  /\ at[p] = "send" /\ call[p] \in {"connect", "submit"} => copies <= Excused

RecordsSound == RecentTried /\ VersionsSound /\ \A p \in Processes : DraftSound(p)

CopiesInv ==
  /\ CountsTyped /\ RecordsSound /\ CopiesSound
  /\ \A p \in Processes : BeforeSendSound(p)

LEMMA CountsStep ==
  ASSUME CountsTyped, [DeliveryNext]_deliveryVars
  PROVE  CountsTyped'
<1> USE DEF CountsTyped
<1>1. spool' \in Nat /\ copies' \in Nat
  <2>1. CASE UNCHANGED transport
    BY <2>1 DEF transport, mailServer
  <2>2. CASE MailSystem
    BY <2>2 DEF MailSystem, Arrive, OtherMail, Index
  <2>3. CASE \E c \in Clients : StartSend(c) \/ StartLook(c) \/ TransportStep(c) \/ HangupKnowing(c)
    BY <2>3 DEF StartSend, StartLook, TransportStep, HangupKnowing, mailServer, Connect, SendMail, Quit,
       OpenMailbox, Search, FetchHeaders, LookFails
  <2>4. CASE \E clients \in SUBSET Clients : Hangup(clients)
    BY <2>4 DEF Hangup, mailServer
  <2> QED BY <2>1, <2>2, <2>3, <2>4, StepMail DEF MailStep
<1>2. slow' \in Nat /\ overlooked' \in Nat
  <2>1. CASE UNCHANGED <<slow, overlooked>>
    BY <2>1
  <2>2. CASE GraceEnds
    BY <2>2 DEF GraceEnds
  <2>3. ASSUME NEW p \in Processes, RunStep(p) PROVE slow' \in Nat /\ overlooked' \in Nat
    <3>1. CASE Send(p)
      BY <3>1 DEF Send
    <3>2. CASE StartProcess(p) \/ BeginRun(p) \/ FinishRun(p) \/ Blind(p) \/ FetchFails(p) \/ Look(p) \/ Calls(p)
      BY <2>1, <3>2 DEF StartProcess, BeginRun, FinishRun, Blind, FetchFails, Look, Calls, account
    <3>3. CASE Seen(p) \/ Unseen(p) \/ Decide(p) \/ Sent(p) \/ Unsent(p) \/ SaveStep(p) \/ SaveError(p)
      BY <2>1, <3>3 DEF Seen, Unseen, Decide, Sent, Unsent, SaveStep, SaveError, account
    <3> QED BY <2>3, <3>1, <3>2, <3>3 DEF RunStep
  <2>4. CASE LosePower \/ (\E p \in Processes : KillProcess(p)) \/ MailMoves \/ UNCHANGED deliveryVars
    BY <2>1, <2>4 DEF LosePower, KillProcess, MailMoves, deliveryVars, account
  <2> QED BY <2>2, <2>3, <2>4 DEF DeliveryNext
<1> QED BY <1>1, <1>2

LEMMA SumGrows ==
  ASSUME NEW a \in Int, NEW b \in Int, NEW c \in Int, NEW d \in Int, c <= d
  PROVE  /\ c + a + b <= d + a + b /\ (c < d => c + a + b < d + a + b)
         /\ a + c + b <= a + d + b /\ (c < d => a + c + b < a + d + b)
         /\ a + b + c <= a + b + d
OBVIOUS

LEMMA OneMore ==
  ASSUME NEW c \in Int, NEW e \in Int, NEW f \in Int, e <= f, c <= e \/ c = e + 1
  PROVE  c <= f \/ (c = f + 1 /\ c > e /\ ~(e < f))
OBVIOUS

LEMMA CopiesKept ==
  ASSUME CountsTyped, lost \in Int, CountsTyped', lost' \in Int, CopiesSound,
         UNCHANGED copies, Excused <= Excused', CopyPlace => CopyPlace' \/ Excused < Excused'
  PROVE  CopiesSound'
<1>1. copies \in Int /\ copies' = copies /\ Excused \in Int /\ Excused' \in Int
  BY DEF CountsTyped, Excused
<1>2. copies <= Excused \/ copies = Excused + 1
  BY DEF CopiesSound
<1>3. copies <= Excused' \/ (copies = Excused' + 1 /\ copies > Excused /\ ~(Excused < Excused'))
  BY <1>1, <1>2, OneMore
<1>4. copies > Excused => CopyPlace
  BY <1>1 DEF CopiesSound
<1> QED BY <1>1, <1>3, <1>4 DEF CopiesSound

(* While one process takes a step, the others are out of their runs.       *)
LEMMA OthersOut ==
  ASSUME DeliveryInv, DeliveryInv', NEW p \in Processes, RunStep(p) \/ KillProcess(p),
         NEW q \in Processes, q # p
  PROVE  at[q] = "out" /\ ~Owed(q) /\ at'[q] = "out" /\ ~Owed(q)' /\ step'[q] \notin Encoded
<1>1. at[q] = "out"
  <2>1. CASE step[p] # "off"
    BY <2>1, Alone DEF DeliveryInv, LedgerInv
  <2>2. CASE step[p] = "off"
    <3>1. lock = NoOne
      <4>1. at[p] = "out" /\ call[p] = "none"
        BY <2>2 DEF DeliveryInv, LedgerInv, RunPlaces
      <4> QED BY <2>2, <4>1 DEF RunStep, KillProcess, Kill, StartProcess, Start, Exit, BeginRun, Load, FinishRun, Look, At,
              Calls, TransportStep, Connect, SendMail, Quit, OpenMailbox, Search, FetchHeaders, LookFails, Move,
              Seen, Unseen, Blind, Decide, FetchFails, Send, Sent, Unsent, SaveStep, SaveError
    <3> QED BY <3>1, OthersOff DEF DeliveryInv, LedgerInv, RunPlaces
  <2> QED BY <2>1, <2>2
<1>2. at'[q] = "out"
  BY <1>1, OthersSame DEF Same
<1>3. step'[q] \notin Encoded
  BY <1>2 DEF DeliveryInv, LedgerInv, RunPlaces, Encoded
<1> QED BY <1>1, <1>2, <1>3 DEF Owed

(* So all that matters is what the step does for the process itself.       *)
LEMMA OneStep ==
  ASSUME DeliveryInv, DeliveryInv', NEW p \in Processes, RunStep(p) \/ KillProcess(p)
  PROVE  /\ (\E q \in Processes : Underway(q)) <=> Underway(p)
         /\ (\E q \in Processes : Underway(q)') <=> Underway(p)'
         /\ DraftSound(p)' => \A q \in Processes : DraftSound(q)'
         /\ BeforeSendSound(p)' => \A q \in Processes : BeforeSendSound(q)'
<1>1. \A q \in Processes : q # p =>
        /\ ~Owed(q) /\ ~Owed(q)' /\ at'[q] = "out" /\ step'[q] \notin Encoded
  BY OthersOut
<1> HIDE DEF Owed
<1>2. \A q \in Processes : q # p => ~Underway(q) /\ ~Underway(q)'
  BY <1>1 DEF Underway
<1>3. \A q \in Processes : q # p => DraftSound(q)'
  BY <1>1 DEF DraftSound
<1>4. \A q \in Processes : q # p => BeforeSendSound(q)'
  BY <1>1 DEF BeforeSendSound
<1> HIDE DEF Underway, DraftSound, BeforeSendSound
<1> QED BY <1>2, <1>3, <1>4

(* Steps that leave the records alone: what counts no less stays excused.  *)
LEMMA RecordsKept ==
  ASSUME DeliveryInv, DeliveryInv', CountsTyped', CopiesInv,
         NEW p \in Processes, RunStep(p),
         UNCHANGED <<file, onDisk, contents, recent, lost, slow, copies, spool>>,
         InMailbox => InMailbox', overlooked <= overlooked',
         step'[p] \notin Encoded, Owed(p) => Owed(p)', BeforeSendSound(p)'
  PROVE  CopiesInv'
<1>1. RecentTried' /\ VersionsSound'
  BY DEF CopiesInv, RecordsSound, RecentTried, VersionsSound
<1>2. \A q \in Processes : DraftSound(q)' /\ BeforeSendSound(q)'
  <2>1. DraftSound(p)'
    BY DEF DraftSound
  <2> QED BY <2>1, OneStep
<1>3. CopyPlace => CopyPlace'
  <2>1. Underway(p) => Underway(p)'
    BY DEF Underway
  <2> HIDE DEF Underway
  <2> QED BY <2>1, OneStep DEF CopyPlace
<1>4. lost \in Int /\ CountsTyped /\ CopiesSound
  BY DEF CopiesInv, DeliveryInv, LedgerInv, EntriesTyped
<1>5. Excused <= Excused'
  <2>1. overlooked \in Int /\ overlooked' \in Int /\ slow \in Int /\ lost \in Int
    BY <1>4 DEF CountsTyped
  <2>2. lost + slow + overlooked <= lost + slow + overlooked'
    BY <2>1, SumGrows
  <2> QED BY <2>2 DEF Excused
<1>6. CopiesSound'
  BY <1>3, <1>4, <1>5, CopiesKept
<1> QED BY <1>1, <1>2, <1>6 DEF CopiesInv, RecordsSound

LEMMA BeginCopies ==
  ASSUME DeliveryInv, DeliveryInv', CountsTyped', CopiesInv, NEW p \in Processes,
         StartProcess(p) \/ BeginRun(p)
  PROVE  CopiesInv'
<1>1. step[p] \in {"off", "idle"} /\ at[p] = "out" /\ ~Owed(p)
  <2>1. step[p] \in {"off", "idle"}
    BY DEF StartProcess, Start, Exit, BeginRun, Load
  <2> QED BY <2>1 DEF DeliveryInv, LedgerInv, RunPlaces, Owed
<1>2. step'[p] \notin Encoded
  BY DEF StartProcess, Start, Exit, BeginRun, Load, GoTo, Encoded, DeliveryInv, IInv, TypeOK
<1>3. at'[p] \notin {"check", "send"}
  BY <1>1, Functions DEF StartProcess, BeginRun, syncVars, ReconcileOrDecide
<1>4. UNCHANGED <<file, onDisk, contents, recent, lost, slow, overlooked, copies, spool, mailbox>>
  BY DEF StartProcess, Start, Exit, BeginRun, Load, diskVars, transport, mailServer, account
<1>5. BeforeSendSound(p)'
  BY <1>3 DEF BeforeSendSound
<1>6. overlooked <= overlooked' /\ (InMailbox => InMailbox')
  BY <1>4 DEF CountsTyped, InMailbox, Ours
<1>7. RunStep(p)
  BY DEF RunStep
<1> QED BY <1>1, <1>2, <1>4, <1>5, <1>6, <1>7, RecordsKept

LEMMA EndCopies ==
  ASSUME DeliveryInv, DeliveryInv', CountsTyped', CopiesInv, NEW p \in Processes,
         FinishRun(p) \/ Blind(p) \/ FetchFails(p)
  PROVE  CopiesInv'
<1>1. EndRun(p) /\ UNCHANGED account
  BY DEF FinishRun, Blind, FetchFails
<1>2. ~Owed(p)
  BY DeliveryAssumption
  DEF FinishRun, Blind, FetchFails, At, Owed, DeliveryInv, LedgerInv, RunPlaces, Looking
<1>3. step'[p] \notin Encoded
  BY <1>1 DEF EndRun, SyncEnds, GoTo, Encoded, DeliveryInv, IInv, TypeOK
<1>4. at'[p] = "out"
  BY <1>1 DEF EndRun, Forget
<1>5. UNCHANGED <<file, onDisk, contents, recent, lost, slow, overlooked, copies, spool, mailbox>>
  BY <1>1 DEF EndRun, SyncEnds, Hangup, diskVars, mailServer, account
<1>6. BeforeSendSound(p)'
  BY <1>4 DEF BeforeSendSound
<1>7. overlooked <= overlooked' /\ (InMailbox => InMailbox')
  BY <1>5 DEF CountsTyped, InMailbox, Ours
<1>8. RunStep(p)
  BY DEF RunStep
<1> QED BY <1>2, <1>3, <1>5, <1>6, <1>7, <1>8, RecordsKept

(* A run's step in memory: the process stays loaded.                       *)
LEMMA LoadedStep ==
  ASSUME DeliveryInv, DeliveryInv', CountsTyped', CopiesInv, NEW p \in Processes, RunStep(p),
         step[p] = "loaded", UNCHANGED <<storeVars, mailServer, lost, slow>>, overlooked <= overlooked',
         Owed(p) => Owed(p)', BeforeSendSound(p)'
  PROVE  CopiesInv'
<1>1. UNCHANGED <<file, onDisk, contents, recent, lost, slow, copies, spool>>
  BY DEF storeVars, vars, diskVars, mailServer
<1>2. step'[p] \notin Encoded
  BY DEF storeVars, vars, processVars, Encoded
<1>3. InMailbox => InMailbox'
  BY DEF mailServer, InMailbox, Ours
<1> QED BY <1>1, <1>2, <1>3, RecordsKept

LEMMA RequestCopies ==
  ASSUME DeliveryInv, DeliveryInv', CountsTyped', CopiesInv, NEW p \in Processes,
         Seen(p) \/ Sent(p) \/ Unsent(p)
  PROVE  CopiesInv'
<1>1. step[p] = "loaded" /\ UNCHANGED <<storeVars, mailServer, lost, slow, overlooked>> /\ RunStep(p)
  BY DEF Seen, Sent, Unsent, At, Hangup, account, RunStep
<1>2. PICK e, next : SaveEntry(p, e, next) /\ (Sent(p) \/ Unsent(p) => e.attempts = entry[p].attempts + 1)
  <2>1. entry[p] \in Entries
    BY Functions
  <2>2. CASE Seen(p)
    <3>1. ~(Sent(p) \/ Unsent(p))
      BY <2>2 DEF Seen, Sent, Unsent
    <3> QED BY <2>2, <3>1 DEF Seen
  <2>3. CASE Sent(p)
    <3> DEFINE d == [entry[p] EXCEPT !.status = "pending", !.attempts = @ + 1]
    <3>1. SaveEntry(p, d, "confirm") /\ d.attempts = entry[p].attempts + 1
      BY <2>1, <2>3 DEF Sent, Entries
    <3> QED BY <3>1
  <2>4. CASE Unsent(p)
    <3> DEFINE n == entry[p].attempts + 1
               d == [entry[p] EXCEPT !.attempts = n,
                       !.status = IF n >= MaxAttempts THEN "failed" ELSE "retry_wait"]
    <3>1. SaveEntry(p, d, "end") /\ d.attempts = n
      BY <2>1, <2>4 DEF Unsent, Entries
    <3> QED BY <3>1
  <2> QED BY <2>2, <2>3, <2>4
<1>3. at'[p] = "save" /\ draft'[p] = e /\ entry'[p] = entry[p] /\ step'[p] = "loaded"
  BY <1>1, <1>2, Functions DEF SaveEntry, storeVars, vars, processVars
<1>4. Owed(p) => Owed(p)'
  <2>1. CASE Seen(p)
    BY <2>1 DEF Seen, At, Owed
  <2>2. CASE Sent(p) \/ Unsent(p)
    <3>1. entry[p].attempts \in Int
      BY <1>1, Running
    <3>2. draft'[p].attempts > entry'[p].attempts
      BY <1>2, <1>3, <2>2, <3>1
    <3> QED BY <1>3, <3>2 DEF Owed, Attempted, Written
  <2> QED BY <2>1, <2>2
<1>5. BeforeSendSound(p)' /\ overlooked <= overlooked'
  BY <1>1, <1>3 DEF BeforeSendSound, CountsTyped
<1> QED BY <1>1, <1>4, <1>5, LoadedStep

(* A look that has found nothing before a Send was right: there was        *)
(* nothing, or it will be counted as overlooked.                           *)
LEMMA UnseenCopies ==
  ASSUME DeliveryInv, DeliveryInv', CountsTyped', CopiesInv, NEW p \in Processes, Unseen(p)
  PROVE  CopiesInv'
<1>1. /\ step[p] = "loaded" /\ UNCHANGED <<storeVars, mailServer, lost, slow, overlooked>> /\ RunStep(p)
      /\ at[p] \in Looking /\ call[p] = "unseen"
  BY DEF Unseen, At, Looking, Hangup, HangupKnowing, account, RunStep
<1>2. ~Owed(p) /\ overlooked <= overlooked'
  BY <1>1 DEF Owed, Looking, CountsTyped
<1>3. BeforeSendSound(p)'
  <2>1. CASE at[p] = "check" /\ GoOn(p, "send") /\ HangupKnowing(p)
    <3>1. at'[p] = "send" /\ call'[p] = "none" /\ due' = due
      BY <2>1, Functions, DeliveryAssumption DEF GoOn, HangupKnowing
    <3>2. due[p] # "due"
      BY <1>1, DeliveryAssumption DEF DeliveryInv, MailInv, LookIsRight
    <3>3. file \notin recent /\ (due[p] = "absent" => copies <= Excused)
      BY <1>1, <2>1 DEF CopiesInv, BeforeSendSound
    <3>4. Excused' = Excused /\ copies' = copies /\ file' = file /\ recent' = recent
      BY <1>1 DEF Excused, mailServer, storeVars, vars, diskVars
    <3> HIDE DEF Excused
    <3> QED BY <3>1, <3>2, <3>3, <3>4 DEF BeforeSendSound
  <2>2. CASE Reconciled(p) \/ GoOn(p, "end")
    <3>1. at'[p] \in {"decide", "end"}
      BY <2>2, Functions DEF Reconciled, GoOn
    <3> QED BY <3>1 DEF BeforeSendSound
  <2> QED BY <2>1, <2>2 DEF Unseen, At
<1> QED BY <1>1, <1>2, <1>3, LoadedStep

(* What is tried is not in a version whose last attempt is recent.         *)
LEMMA DecideCopies ==
  ASSUME DeliveryInv, DeliveryInv', CountsTyped', CopiesInv, NEW p \in Processes, Decide(p)
  PROVE  CopiesInv'
<1>1. /\ step[p] = "loaded" /\ UNCHANGED <<storeVars, transport, lost, slow, overlooked>> /\ RunStep(p)
      /\ at[p] = "decide" /\ UNCHANGED mailServer
  BY DEF Decide, At, account, RunStep, transport
<1>2. ~Owed(p) /\ overlooked <= overlooked'
  BY <1>1 DEF Owed, CountsTyped
<1>3. BeforeSendSound(p)'
  <2>1. CASE GoOn(p, "end") \/ \E e : SaveEntry(p, e, "end")
    <3>1. at'[p] \in {"save", "end"}
      BY <2>1, Functions DEF SaveEntry, GoOn
    <3> QED BY <3>1 DEF BeforeSendSound
  <2>2. CASE GoOn(p, "check") /\ (entry[p].status = "none" \/ held[p] \notin recent)
    <3>1. at'[p] = "check" /\ call'[p] = "none"
      <4>1. call[p] = "none"
        BY <1>1 DEF DeliveryInv, LedgerInv, RunPlaces
      <4> QED BY <1>1, <2>2, <4>1, Functions DEF GoOn, transport
    <3>2. held[p] = file
      BY <1>1 DEF DeliveryInv, IInv, HeldIsCurrent
    <3>3. file \notin recent
      <4>1. CASE entry[p].status = "none"
        <5>1. contents[file].attempts = 0
          BY <1>1, <4>1, Running DEF IsTrue
        <5>2. ~(0 > 0)
          OBVIOUS
        <5> QED BY <5>1, <5>2 DEF CopiesInv, RecordsSound, RecentTried
      <4> QED BY <2>2, <3>2, <4>1
    <3> QED BY <1>1, <3>1, <3>3 DEF BeforeSendSound, storeVars, vars, diskVars
  <2> QED BY <2>1, <2>2 DEF Decide, BeforeSend
<1> QED BY <1>1, <1>2, <1>3, LoadedStep

LEMMA SendCopies ==
  ASSUME DeliveryInv, DeliveryInv', CountsTyped', CopiesInv, NEW p \in Processes, Send(p)
  PROVE  CopiesInv'
<1>1. /\ step[p] = "loaded" /\ UNCHANGED <<storeVars, mailServer, lost, slow, due, at>> /\ RunStep(p)
      /\ at[p] = "send" /\ call[p] = "none" /\ call' = [call EXCEPT ![p] = "connect"]
      /\ overlooked' = IF due[p] = "buried" THEN overlooked + 1 ELSE overlooked
  BY DEF Send, StartSend, Move, At, RunStep, syncVars
<1>2. ~Owed(p)
  BY <1>1 DEF Owed
<1>3. /\ overlooked \in Int /\ slow \in Int /\ lost \in Int /\ copies \in Int
      /\ Excused \in Int /\ overlooked <= overlooked'
  BY <1>1 DEF CopiesInv, CountsTyped, DeliveryInv, LedgerInv, EntriesTyped, Excused
<1>4. copies <= Excused'
  <2>1. due[p] \in {"absent", "buried"}
    BY <1>1, Functions DEF CopiesInv, BeforeSendSound
  <2>2. CASE due[p] = "absent"
    <3>1. Excused' = Excused /\ copies <= Excused
      BY <1>1, <2>2 DEF CopiesInv, BeforeSendSound, Excused
    <3> QED BY <3>1
  <2>3. CASE due[p] = "buried"
    <3>1. Excused' = Excused + 1
      BY <1>1, <1>3, <2>3 DEF Excused
    <3>2. copies <= Excused \/ copies = Excused + 1
      BY DEF CopiesInv, CopiesSound
    <3>3. copies <= Excused + 1
      BY <1>3, <3>2
    <3> QED BY <3>1, <3>3
  <2> QED BY <2>1, <2>2, <2>3
<1>5. BeforeSendSound(p)'
  <2>1. call'[p] = "connect" /\ at'[p] = "send" /\ copies' = copies
    BY <1>1, Functions DEF mailServer
  <2>2. file' \notin recent'
    BY <1>1 DEF CopiesInv, BeforeSendSound, storeVars, vars, diskVars
  <2> QED BY <1>4, <2>1, <2>2 DEF BeforeSendSound
<1> QED BY <1>1, <1>2, <1>3, <1>5, LoadedStep

LEMMA LookCopies ==
  ASSUME DeliveryInv, DeliveryInv', CountsTyped', CopiesInv, NEW p \in Processes, Look(p)
  PROVE  CopiesInv'
<1>1. /\ step[p] = "loaded" /\ UNCHANGED <<storeVars, mailServer, lost, slow, overlooked, at>> /\ RunStep(p)
      /\ at[p] \in Looking /\ call' = [call EXCEPT ![p] = "open"]
  BY DEF Look, At, Looking, StartLook, Move, syncVars, account, RunStep
<1>2. ~Owed(p) /\ overlooked <= overlooked'
  BY <1>1 DEF Owed, Looking, CountsTyped
<1>3. at'[p] # "send" /\ call'[p] = "open"
  BY <1>1, Functions DEF Looking
<1>4. BeforeSendSound(p)'
  BY <1>1, <1>3 DEF BeforeSendSound, CopiesInv, storeVars, vars, diskVars
<1> QED BY <1>1, <1>2, <1>4, LoadedStep

(* When SELECT shows nothing and no attempt is recent or going on, no copy *)
(* is left that is not excused.                                            *)
LEMMA NothingPlaced ==
  ASSUME DeliveryInv, CopiesInv, NEW p \in Processes, step[p] = "loaded", at[p] = "check", Outlook = "absent"
  PROVE  copies <= Excused
<1>1. ~InMailbox
  BY Zenon DEF Outlook, InMailbox
<1>2. file \notin recent
  BY DEF CopiesInv, BeforeSendSound
<1>3. \A q \in Processes : ~Owed(q)
  <2>1. ~Owed(p)
    BY DEF Owed
  <2> QED BY <2>1, Alone DEF DeliveryInv, LedgerInv
<1>4. ~CopyPlace
  <2> HIDE DEF Owed
  <2> QED BY <1>1, <1>2, <1>3 DEF CopyPlace, Underway
<1> QED BY <1>4 DEF CopiesInv, CopiesSound

LEMMA CallCopies ==
  ASSUME DeliveryInv, DeliveryInv', CountsTyped', CopiesInv, NEW p \in Processes, Calls(p)
  PROVE  CopiesInv'
<1>1. UNCHANGED <<storeVars, lost, slow, overlooked, at>> /\ RunStep(p) /\ TransportStep(p)
  BY DEF Calls, syncVars, account, RunStep
<1>2. PICK to \in Calling : call' = [call EXCEPT ![p] = to]
  BY DEF Calls, TransportStep, Connect, SendMail, Quit, OpenMailbox, Search, FetchHeaders, LookFails, Move, Calling
<1>3. \/ call[p] \in {"open", "search", "fetch"} /\ to \in {"search", "fetch", "seen", "unseen", "blind"}
      \/ call[p] \in {"connect", "submit", "quit"} /\ to \in {"submit", "quit", "sent", "unsent"}
  BY <1>2, Functions
  DEF Calls, TransportStep, Connect, SendMail, Quit, OpenMailbox, Search, FetchHeaders, LookFails, Move
<1>4. call'[p] = to /\ at'[p] = at[p] /\ file' = file /\ recent' = recent
  BY <1>1, <1>2, Functions DEF storeVars, vars, diskVars
<1>5. /\ at[p] \in Looking \union {"send"} /\ step[p] = "loaded"
      /\ at[p] \in Looking => call[p] \in {"open", "search", "fetch"}
      /\ at[p] = "send" => call[p] \in {"connect", "submit", "quit"}
  <2>1. call[p] # "none" /\ at[p] \in Looking \union {"send"}
    BY <1>3, Functions DEF DeliveryInv, LedgerInv, RunPlaces
  <2>2. step[p] = "loaded"
    BY <2>1 DEF DeliveryInv, LedgerInv, RunPlaces, IInv, TypeOK, Looking
  <2> QED BY <1>3, <2>1, <2>2 DEF DeliveryInv, LedgerInv, RunPlaces
<1>6. (Owed(p) => Owed(p)') /\ overlooked <= overlooked'
  BY <1>1, <1>3, <1>4, <1>5 DEF Owed, Looking, CountsTyped
<1>7. at[p] \in {"check", "send"} => file \notin recent
  BY DEF CopiesInv, BeforeSendSound
<1>8. Excused' = Excused
  BY <1>1 DEF Excused
<1>9. CASE /\ call[p] = "submit" /\ spool' = spool + 1 /\ copies' = copies + 1
           /\ to \in {"quit", "unsent"} /\ UNCHANGED mailbox
  <2>1. at[p] = "send" /\ copies <= Excused
    BY <1>5, <1>9 DEF CopiesInv, BeforeSendSound
  <2>2. RecentTried' /\ VersionsSound'
    BY <1>1 DEF CopiesInv, RecordsSound, RecentTried, VersionsSound, storeVars, vars, diskVars
  <2>3. step'[p] = "loaded"
    BY <1>1, <1>5 DEF storeVars, vars, processVars
  <2>4. \A q \in Processes : DraftSound(q)' /\ BeforeSendSound(q)'
    <3>1. DraftSound(p)'
      BY <2>3 DEF DraftSound, Encoded
    <3>2. BeforeSendSound(p)'
      BY <1>4, <1>7, <1>9, <2>1 DEF BeforeSendSound
    <3> QED BY <1>1, <3>1, <3>2, OneStep
  <2>5. CopyPlace'
    <3>1. Owed(p)'
      BY <1>4, <1>9, <2>1 DEF Owed
    <3>2. Underway(p)'
      BY <2>3, <3>1 DEF Underway, Encoded
    <3>3. spool' > 0
      BY <1>9 DEF CopiesInv, CountsTyped
    <3> QED BY <3>2, <3>3 DEF CopyPlace
  <2>6. copies' <= Excused' \/ copies' = Excused' + 1
    <3>1. copies \in Int /\ Excused \in Int
      BY DEF CopiesInv, CountsTyped, DeliveryInv, LedgerInv, EntriesTyped, Excused
    <3> QED BY <1>8, <1>9, <2>1, <3>1
  <2> QED BY <2>2, <2>4, <2>5, <2>6 DEF CopiesInv, RecordsSound, CopiesSound
<1>10. CASE UNCHANGED mailServer
  <2>1. CASE due' = due /\ (call[p] = "open" => to = "blind")
    <3>1. at[p] = "check" /\ to \in {"search", "fetch", "unseen"} => call[p] \in {"search", "fetch"}
      BY <1>3, <1>5, <2>1 DEF Looking
    <3>2. at[p] = "send" /\ to \in {"connect", "submit"} => call[p] \in {"connect", "submit"}
      BY <1>2, <1>3, <1>5, Functions, <1>1, <1>4
      DEF TransportStep, Connect, SendMail, Quit, OpenMailbox, Search, FetchHeaders, LookFails, Move
    <3>3. BeforeSendSound(p)'
      <4>1. copies' = copies /\ to # "none"
        BY <1>3, <1>10 DEF mailServer
      <4>2. BeforeSendSound(p)
        BY DEF CopiesInv
      <4> QED BY <1>4, <1>7, <1>8, <2>1, <3>1, <3>2, <4>1, <4>2 DEF BeforeSendSound
    <3> QED BY <1>1, <1>5, <1>6, <1>10, <3>3, LoadedStep
  <2>2. CASE call[p] = "open" /\ due' = [due EXCEPT ![p] = Outlook]
    <3>1. at[p] # "send" /\ due'[p] = Outlook
      BY <1>5, <2>2, Functions
    <3>2. at[p] = "check" /\ due'[p] = "absent" => copies <= Excused
      BY <1>5, <3>1, NothingPlaced
    <3>3. copies' = copies
      BY <1>10 DEF mailServer
    <3>4. BeforeSendSound(p)'
      BY <1>4, <1>7, <1>8, <3>1, <3>2, <3>3 DEF BeforeSendSound
    <3> QED BY <1>1, <1>5, <1>6, <1>10, <3>4, LoadedStep
  <2> QED BY <1>1, <1>2, <1>4, <2>1, <2>2, Functions
      DEF TransportStep, Connect, SendMail, Quit, OpenMailbox, Search, FetchHeaders, LookFails, Move
<1> QED BY <1>1, <1>2, <1>4, <1>9, <1>10, Functions
    DEF TransportStep, Connect, SendMail, Quit, OpenMailbox, Search, FetchHeaders, LookFails, Move, mailServer

(***************************************************************************)
(* The steps of Save.                                                      *)
(***************************************************************************)
(* What remains to be shown of a step of Save.                             *)
LEMMA SavingCopies ==
  ASSUME DeliveryInv, DeliveryInv', CountsTyped', CopiesInv, NEW p \in Processes,
         SaveStep(p), RecentTried', VersionsSound', DraftSound(p)', at'[p] \notin {"check", "send"},
         file \in recent \/ Underway(p) => file' \in recent' \/ Underway(p)'
  PROVE  CopiesInv'
<1>1. RunStep(p) /\ UNCHANGED <<spool, copies, mailbox, lost, slow, overlooked>>
  BY DEF RunStep, SaveStep, transport, mailServer, account
<1>2. \A q \in Processes : DraftSound(q)' /\ BeforeSendSound(q)'
  <2>1. BeforeSendSound(p)'
    BY DEF BeforeSendSound
  <2> QED BY <1>1, <2>1, OneStep
<1>3. CopyPlace => CopyPlace'
  <2>1. InMailbox => InMailbox'
    BY <1>1 DEF InMailbox, Ours
  <2> HIDE DEF Underway
  <2> QED BY <1>1, <2>1, OneStep DEF CopyPlace
<1>4. Excused' = Excused /\ copies' = copies
  BY <1>1 DEF Excused
<1>5. CopiesSound'
  BY <1>3, <1>4 DEF CopiesInv, CopiesSound
<1> QED BY <1>2, <1>5 DEF CopiesInv, RecordsSound

LEMMA UnwrittenCopies ==
  ASSUME DeliveryInv, DeliveryInv', CountsTyped', CopiesInv, NEW p \in Processes,
         SaveStep(p), Create(p) \/ Sync(p) \/ Close(p), UNCHANGED <<contents, recent, syncVars>>
  PROVE  CopiesInv'
<1>1. /\ at[p] = "save" /\ UNCHANGED <<at, entry, draft, held, file, onDisk, contents, recent>>
  BY DEF SaveStep, Create, Sync, Close, syncVars, diskVars
<1>2. PICK s \in {"encode", "close", "rename"} :
        /\ step' = [step EXCEPT ![p] = s] /\ step[p] \in Written
        /\ s \in {"close", "rename"} => step[p] \in Encoded
  BY DEF Create, Sync, Close, GoTo, Written, Encoded
<1>3. step'[p] = s
  BY <1>2 DEF DeliveryInv, IInv, TypeOK
<1>4. Owed(p)' <=> Owed(p)
  BY <1>1, <1>2, <1>3 DEF Owed, Attempted, Written
<1>5. Underway(p) => Underway(p)'
  <2> HIDE DEF Owed
  <2> QED BY <1>1, <1>2, <1>3, <1>4 DEF Underway, Encoded
<1>6. DraftSound(p)'
  BY <1>1, <1>2, <1>3 DEF CopiesInv, RecordsSound, DraftSound, Encoded, Attempted
<1>7. RecentTried' /\ VersionsSound'
  BY <1>1 DEF CopiesInv, RecordsSound, RecentTried, VersionsSound
<1> QED BY <1>1, <1>5, <1>6, <1>7, SavingCopies

LEMMA EncodeCopies ==
  ASSUME DeliveryInv, DeliveryInv', CountsTyped', CopiesInv, NEW p \in Processes,
         SaveStep(p), Encode(p), contents' = [contents EXCEPT ![held[p] + 1] = draft[p]],
         recent' = IF Attempted(p) \/ held[p] \in recent THEN recent \union {held[p] + 1}
                                                         ELSE recent \ {held[p] + 1},
         UNCHANGED syncVars
  PROVE  CopiesInv'
<1>1. /\ at[p] = "save" /\ step[p] = "encode" /\ step' = [step EXCEPT ![p] = "sync"]
      /\ UNCHANGED <<at, entry, draft, held, file, onDisk>>
  BY DEF SaveStep, Encode, GoTo, syncVars, diskVars
<1>2. /\ held[p] = file /\ held[p] + 1 \in 0..MaxVersion /\ held[p] + 1 # file
      /\ \A v \in onDisk : v \in 0..MaxVersion /\ v # held[p] + 1
      /\ file \in 0..MaxVersion
  BY <1>1, FileAssumption
  DEF DeliveryInv, IInv, TypeOK, HeldIsCurrent, SavingSound, Saving, AlwaysDecodes
<1>3. /\ contents'[held[p] + 1] = draft[p]
      /\ \A v \in 0..MaxVersion : v # held[p] + 1 => contents'[v] = contents[v] /\ (v \in recent' <=> v \in recent)
  BY <1>2, Functions
<1>4. step'[p] = "sync" /\ step[p] \in Written /\ step[p] # "off"
  BY <1>1 DEF DeliveryInv, IInv, TypeOK, Written
<1>5. /\ draft[p].attempts \in Int /\ entry[p].attempts \in Int /\ entry[p] = contents[file]
      /\ draft[p].attempts \in {entry[p].attempts, entry[p].attempts + 1}
  BY <1>1, <1>4, InSave
<1>6. RecentTried'
  <2>1. recent' \subseteq 0..MaxVersion
    BY <1>2 DEF CopiesInv, RecordsSound, RecentTried
  <2>2. held[p] + 1 \in recent' => draft[p].attempts > 0
    <3>1. CASE Attempted(p)
      <4>1. entry[p].attempts >= 0
        BY Functions DEF Entries
      <4> QED BY <1>5, <3>1, <4>1 DEF Attempted
    <3>2. CASE held[p] \in recent
      <4>1. entry[p].attempts > 0
        BY <1>2, <1>5, <3>2 DEF CopiesInv, RecordsSound, RecentTried
      <4> QED BY <1>5, <4>1
    <3> QED BY <3>1, <3>2
  <2> QED BY <1>3, <2>1, <2>2 DEF CopiesInv, RecordsSound, RecentTried
<1>7. VersionsSound'
  BY <1>1, <1>2, <1>3 DEF CopiesInv, RecordsSound, VersionsSound
<1>8. DraftSound(p)'
  BY <1>1, <1>2, <1>3, <1>4 DEF DraftSound, Attempted
<1>9. Underway(p) => Underway(p)'
  <2>1. Owed(p) => Attempted(p) /\ Owed(p)'
    BY <1>1, <1>4 DEF Owed, Attempted, Written
  <2>2. Attempted(p) => held[p] + 1 \in recent'
    OBVIOUS
  <2> HIDE DEF Owed, Attempted
  <2> QED BY <1>1, <2>1, <2>2 DEF Underway
<1>10. file \in recent => file' \in recent'
  BY <1>1, <1>2, <1>3
<1> QED BY <1>1, <1>6, <1>7, <1>8, <1>9, <1>10, SavingCopies

LEMMA RenameCopies ==
  ASSUME DeliveryInv, DeliveryInv', CountsTyped', CopiesInv, NEW p \in Processes,
         SaveStep(p), Rename(p), UNCHANGED <<contents, recent, syncVars>>
  PROVE  CopiesInv'
<1>1. /\ at[p] = "save" /\ step[p] = "rename" /\ step' = [step EXCEPT ![p] = "syncdir"]
      /\ UNCHANGED <<at, entry, draft, held, contents, recent>>
      /\ file' = temp[p] /\ onDisk' = onDisk \union {IF p \in flushed THEN temp[p] ELSE Torn}
  BY DEF SaveStep, Rename, GoTo, syncVars
<1>2. temp[p] = held[p] + 1 /\ p \in flushed /\ held[p] = file
  BY <1>1 DEF DeliveryInv, IInv, SavingSound, HeldIsCurrent
<1>3. file' = held[p] + 1 /\ onDisk' = onDisk \union {held[p] + 1}
  BY <1>1, <1>2
<1>4. step'[p] = "syncdir" /\ step[p] \in Written /\ step[p] # "off" /\ step[p] \in Encoded
  BY <1>1 DEF DeliveryInv, IInv, TypeOK, Written, Encoded
<1>5. /\ draft[p].attempts \in Int /\ entry[p].attempts \in Int /\ entry[p] = contents[file]
      /\ draft[p].attempts \in {entry[p].attempts, entry[p].attempts + 1}
      /\ contents[held[p] + 1] = draft[p]
  BY <1>1, <1>4, InSave
<1>6. /\ held[p] \in recent => held[p] + 1 \in recent
      /\ held[p] + 1 \in recent => held[p] \in recent \/ Attempted(p)
  BY <1>4 DEF CopiesInv, RecordsSound, DraftSound
<1>7. RecentTried'
  BY <1>1 DEF CopiesInv, RecordsSound, RecentTried
<1>8. VersionsSound'
  <2> SUFFICES ASSUME NEW v \in onDisk
               PROVE  /\ contents[v].attempts <= draft[p].attempts
                      /\ contents[v].attempts = draft[p].attempts /\ held[p] + 1 \in recent => v \in recent
    BY <1>1, <1>3, <1>5 DEF VersionsSound
  <2>1. /\ contents[v].attempts <= entry[p].attempts
        /\ contents[v].attempts = entry[p].attempts /\ file \in recent => v \in recent
    BY <1>5 DEF CopiesInv, RecordsSound, VersionsSound
  <2>2. contents[v].attempts \in Int
    <3>1. v \in 0..MaxVersion
      BY DEF DeliveryInv, IInv, TypeOK, AlwaysDecodes
    <3> QED BY <3>1, Functions DEF Entries
  <2>3. contents[v].attempts <= draft[p].attempts
    BY <1>5, <2>1, <2>2
  <2>4. ASSUME contents[v].attempts = draft[p].attempts, held[p] + 1 \in recent PROVE v \in recent
    <3>1. draft[p].attempts = entry[p].attempts
      BY <1>5, <2>1, <2>2, <2>4
    <3>2. ~Attempted(p)
      BY <1>5, <3>1 DEF Attempted
    <3> QED BY <1>2, <1>6, <2>1, <2>4, <3>1, <3>2
  <2> QED BY <2>3, <2>4
<1>9. DraftSound(p)'
  BY <1>4 DEF DraftSound, Encoded
<1>10. file \in recent \/ Underway(p) => file' \in recent'
  BY <1>1, <1>2, <1>3, <1>4, <1>6 DEF Underway
<1> QED BY <1>1, <1>7, <1>8, <1>9, <1>10, SavingCopies

(* Of what is forgotten nothing is needed.                                 *)
LEMMA KeptRecords ==
  ASSUME DeliveryInv, DeliveryInv', RecentTried, KeepContents
  PROVE  /\ RecentTried'
         /\ \A v \in onDisk' : contents'[v] = contents[v] /\ (v \in recent' <=> v \in recent)
<1>1. \A v \in onDisk' : v \in 0..MaxVersion
  BY DEF DeliveryInv, IInv, TypeOK, AlwaysDecodes
<1>2. \A v \in onDisk' : contents'[v] = contents[v] /\ (v \in recent' <=> v \in recent)
  BY <1>1, Functions DEF KeepContents
<1>3. \A v \in recent' : v \in recent /\ v \in onDisk'
  BY DEF KeepContents
<1> QED BY <1>1, <1>2, <1>3 DEF RecentTried

LEMMA SavedCopies ==
  ASSUME DeliveryInv, DeliveryInv', CountsTyped', CopiesInv, NEW p \in Processes,
         SaveStep(p), SyncDirectory(p), KeepContents, at' = [at EXCEPT ![p] = after[p]]
  PROVE  CopiesInv'
<1>1. /\ at[p] = "save" /\ step[p] = "syncdir" /\ step' = [step EXCEPT ![p] = "loaded"]
      /\ file' = file /\ onDisk' \subseteq onDisk \union {file}
  BY DEF SaveStep, SyncDirectory, GoTo
<1>2. onDisk' \subseteq onDisk /\ file \in onDisk'
  BY <1>1 DEF DeliveryInv, IInv
<1>3. RecentTried' /\ \A v \in onDisk' : contents'[v] = contents[v] /\ (v \in recent' <=> v \in recent)
  BY KeptRecords DEF CopiesInv, RecordsSound
<1>4. VersionsSound'
  BY <1>1, <1>2, <1>3 DEF CopiesInv, RecordsSound, VersionsSound
<1>5. at'[p] \in {"reconcile", "decide", "confirm", "end"}
  BY <1>1, InSave, Functions
<1>6. step'[p] = "loaded"
  BY <1>1 DEF DeliveryInv, IInv, TypeOK
<1>7. ~Owed(p)
  BY <1>1 DEF Owed, Written
<1>8. DraftSound(p)'
  BY <1>6 DEF DraftSound, Encoded
<1>9. file \in recent \/ Underway(p) => file' \in recent'
  <2> HIDE DEF Owed
  <2> QED BY <1>1, <1>2, <1>3, <1>7 DEF Underway
<1> QED BY <1>3, <1>4, <1>5, <1>8, <1>9, SavingCopies

(***************************************************************************)
(* The ends of runs that lose a record, and the environment.               *)
(***************************************************************************)
(* A version that is found again counts fewer attempts, and what it does   *)
(* not count is counted as lost; or it is as recent as the last one.       *)
LEMMA AbortCopies ==
  ASSUME DeliveryInv, DeliveryInv', CountsTyped', CopiesInv, KeepContents, CountLost,
         file' \in onDisk, (onDisk' = onDisk /\ file' = file) \/ onDisk' = {file'},
         UNCHANGED <<tries, slow, overlooked, copies, spool, mailbox>>,
         \A q \in Processes : at'[q] = "out"
  PROVE  CopiesInv'
<1>1. RecentTried' /\ \A v \in onDisk' : contents'[v] = contents[v] /\ (v \in recent' <=> v \in recent)
  BY KeptRecords DEF CopiesInv, RecordsSound
<1>2. file' \in onDisk' /\ file \in onDisk
  BY DEF DeliveryInv, IInv
<1>3. /\ contents[file].attempts \in Int /\ contents[file'].attempts \in Int
      /\ tries \in Int /\ lost \in Int /\ lost' \in Int
  <2>1. file \in 0..MaxVersion /\ file' \in 0..MaxVersion
    BY DEF DeliveryInv, IInv, TypeOK, AlwaysDecodes
  <2> QED BY <2>1, Functions DEF Entries, DeliveryInv, LedgerInv, EntriesTyped
<1>4. /\ contents[file'].attempts <= contents[file].attempts
      /\ contents[file'].attempts = contents[file].attempts /\ file \in recent => file' \in recent
  BY DEF CopiesInv, RecordsSound, VersionsSound
<1>5. VersionsSound'
  <2>1. CASE onDisk' = onDisk /\ file' = file
    BY <1>1, <1>2, <2>1 DEF CopiesInv, RecordsSound, VersionsSound
  <2>2. CASE onDisk' = {file'}
    BY <1>1, <1>2, <1>3, <2>2 DEF VersionsSound
  <2> QED BY <2>1, <2>2
<1>6. \A q \in Processes : DraftSound(q)' /\ BeforeSendSound(q)'
  <2>1. \A q \in Processes : step'[q] \notin Encoded
    BY DEF DeliveryInv, LedgerInv, RunPlaces, Encoded
  <2> QED BY <2>1 DEF DraftSound, BeforeSendSound
<1>7. /\ lost <= lost'
      /\ contents[file'].attempts < contents[file].attempts => lost < lost'
      /\ (\E q \in Processes : Owed(q)) => lost < lost'
  <2>1. lost' = tries - contents[file'].attempts
    BY <1>1, <1>2 DEF CountLost
  <2>2. tries = lost + contents[file].attempts + (IF \E q \in Processes : Owed(q) THEN 1 ELSE 0)
    BY DEF DeliveryInv, LedgerInv, TriesAccounted
  <2> HIDE DEF Owed
  <2> QED BY <1>3, <1>4, <2>1, <2>2
<1>8. CopyPlace => CopyPlace' \/ lost < lost'
  <2>1. InMailbox => InMailbox'
    BY DEF InMailbox, Ours
  <2>2. file \in recent => file' \in recent' \/ lost < lost'
    BY <1>1, <1>2, <1>3, <1>4, <1>7
  <2>3. (\E q \in Processes : Underway(q)) => lost < lost'
    <3> HIDE DEF Owed
    <3> QED BY <1>7 DEF Underway
  <2> HIDE DEF Underway
  <2> QED BY <2>1, <2>2, <2>3 DEF CopyPlace
<1>9. CountsTyped /\ CopiesSound
  BY DEF CopiesInv
<1>10. Excused <= Excused' /\ (lost < lost' => Excused < Excused')
  <2>1. slow' = slow /\ overlooked' = overlooked /\ slow \in Int /\ overlooked \in Int
    BY <1>9 DEF CountsTyped
  <2>2. /\ lost + slow + overlooked <= lost' + slow + overlooked
        /\ lost < lost' => lost + slow + overlooked < lost' + slow + overlooked
    BY <1>3, <1>7, <2>1, SumGrows
  <2> QED BY <2>1, <2>2 DEF Excused
<1>11. CopiesSound'
  <2> HIDE DEF CopyPlace, Excused
  <2> QED BY <1>3, <1>8, <1>9, <1>10, CopiesKept
<1> QED BY <1>1, <1>5, <1>6, <1>11 DEF CopiesInv, RecordsSound

LEMMA LossCopies ==
  ASSUME DeliveryInv, DeliveryInv', CountsTyped', CopiesInv,
         LosePower \/ \E p \in Processes : KillProcess(p) \/ SaveError(p)
  PROVE  CopiesInv'
<1>1. CASE LosePower
  <2>1. file' \in onDisk /\ onDisk' = {file'} /\ KeepContents /\ CountLost
    BY <1>1 DEF LosePower, PowerLoss
  <2>2. UNCHANGED <<tries, slow, overlooked, copies, spool, mailbox>>
    BY <1>1 DEF LosePower, Hangup, mailServer
  <2>3. \A q \in Processes : at'[q] = "out"
    BY <1>1 DEF LosePower, Forget
  <2> QED BY <2>1, <2>2, <2>3, AbortCopies
<1>2. ASSUME NEW p \in Processes, KillProcess(p) \/ SaveError(p) PROVE CopiesInv'
  <2>1. file' = file /\ onDisk' = onDisk /\ KeepContents /\ CountLost /\ Forget({p})
    BY <1>2 DEF KillProcess, Kill, SaveError, SaveFails, SyncEnds, diskVars
  <2>2. UNCHANGED <<tries, slow, overlooked, copies, spool, mailbox>>
    BY <1>2 DEF KillProcess, SaveError, Hangup, mailServer, transport
  <2>3. file \in onDisk
    BY DEF DeliveryInv, IInv
  <2>4. \A q \in Processes : q # p => at'[q] = "out"
    BY <1>2, OthersOut DEF RunStep
  <2>5. \A q \in Processes : at'[q] = "out"
    BY <2>1, <2>4 DEF Forget
  <2> QED BY <2>1, <2>2, <2>3, <2>5, AbortCopies
<1> QED BY <1>1, <1>2

(* Mail that is under way when the grace is over is excused as slow.       *)
LEMMA GraceCopies ==
  ASSUME DeliveryInv, DeliveryInv', CountsTyped', CopiesInv, GraceEnds
  PROVE  CopiesInv'
<1>1. /\ recent' = {} /\ UNCHANGED <<vars, contents, transport, syncVars, lost, overlooked>>
      /\ \/ spool = 0 /\ slow' = slow
         \/ spool > 0 /\ slow' = slow + 1
  BY DEF GraceEnds
<1>2. RecentTried' /\ VersionsSound' /\ \A q \in Processes : DraftSound(q)'
  BY <1>1 DEF CopiesInv, RecordsSound, RecentTried, VersionsSound, DraftSound, vars, diskVars, processVars
<1>3. /\ lost \in Int /\ slow \in Int /\ slow' \in Int /\ overlooked \in Int
      /\ copies \in Int /\ Excused \in Int /\ copies' = copies
  BY <1>1 DEF CopiesInv, CountsTyped, DeliveryInv, LedgerInv, EntriesTyped, Excused, transport, mailServer
<1>4. Excused <= Excused' /\ (spool > 0 => Excused < Excused')
  <2>1. slow <= slow' /\ (spool > 0 => slow < slow')
    BY <1>1, <1>3 DEF CopiesInv, CountsTyped
  <2>2. /\ lost + slow + overlooked <= lost + slow' + overlooked
        /\ slow < slow' => lost + slow + overlooked < lost + slow' + overlooked
    BY <1>3, <2>1, SumGrows
  <2> QED BY <1>1, <2>1, <2>2 DEF Excused
<1>5. CopyPlace => CopyPlace' \/ Excused < Excused'
  <2>1. InMailbox => InMailbox'
    BY <1>1 DEF transport, mailServer, InMailbox, Ours
  <2> HIDE DEF Excused, Underway
  <2> QED BY <1>4, <2>1 DEF CopyPlace
<1>6. CopiesSound'
  <2>1. CountsTyped /\ CopiesSound /\ lost' \in Int
    BY <1>1, <1>3 DEF CopiesInv
  <2> HIDE DEF Excused, CopyPlace
  <2> QED BY <1>3, <1>4, <1>5, <2>1, CopiesKept
<1>7. \A q \in Processes : BeforeSendSound(q)'
  <2>1. Excused' \in Int
    BY <1>1, <1>3 DEF Excused
  <2>2. copies <= Excused => copies' <= Excused'
    BY <1>3, <1>4, <2>1
  <2> HIDE DEF Excused
  <2> QED BY <1>1, <2>2 DEF CopiesInv, BeforeSendSound, syncVars, transport
<1> QED BY <1>2, <1>6, <1>7 DEF CopiesInv, RecordsSound

LEMMA MailCopies ==
  ASSUME DeliveryInv, DeliveryInv', CountsTyped', CopiesInv, MailMoves \/ UNCHANGED deliveryVars
  PROVE  CopiesInv'
<1>1. UNCHANGED <<storeVars, syncVars, account, call, due, copies>>
  BY DEF MailMoves, MailSystem, Arrive, OtherMail, Index, deliveryVars, transport, mailServer
<1>2. RecentTried' /\ VersionsSound' /\ \A q \in Processes : DraftSound(q)'
  BY <1>1 DEF CopiesInv, RecordsSound, RecentTried, VersionsSound, DraftSound, Attempted,
     storeVars, vars, diskVars, processVars, syncVars
<1>3. Excused' = Excused /\ copies' = copies
  BY <1>1 DEF Excused, account
<1>4. \A q \in Processes : BeforeSendSound(q)'
  BY <1>1, <1>3 DEF CopiesInv, BeforeSendSound, storeVars, vars, diskVars, syncVars
<1>5. InMailbox => InMailbox'
  <2>1. MailStep
    BY StepMail DEF DeliveryNext
  <2> QED BY <2>1, InMailboxKept DEF DeliveryInv, MailInv
<1>6. \A q \in Processes : Underway(q)' <=> Underway(q)
  BY <1>1 DEF Underway, Owed, Attempted, storeVars, vars, processVars, syncVars
<1>7. CopyPlace => CopyPlace'
  <2>1. CASE Arrive
    <3>1. Len(mailbox) + 1 \in DOMAIN mailbox' /\ mailbox'[Len(mailbox) + 1] = "marked"
      BY <2>1 DEF Arrive, Receive, DeliveryInv, MailInv, MailTyped
    <3>2. InMailbox'
      BY <3>1 DEF InMailbox, Ours
    <3> QED BY <3>2 DEF CopyPlace
  <2>2. CASE UNCHANGED spool
    <3> HIDE DEF Underway
    <3> QED BY <1>1, <1>5, <1>6, <2>2 DEF CopyPlace, storeVars, vars, diskVars
  <2> QED BY <2>1, <2>2 DEF MailMoves, MailSystem, OtherMail, Index, deliveryVars, transport, mailServer
<1>8. CopiesSound'
  <2> HIDE DEF Excused, CopyPlace
  <2> QED BY <1>3, <1>7 DEF CopiesInv, CopiesSound
<1> QED BY <1>2, <1>4, <1>8 DEF CopiesInv, RecordsSound

LEMMA StepCopiesInv ==
  ASSUME DeliveryInv, DeliveryInv', CopiesInv, [DeliveryNext]_deliveryVars
  PROVE  CopiesInv'
<1>1. CountsTyped'
  BY CountsStep DEF CopiesInv
<1>2. ASSUME NEW p \in Processes, RunStep(p) PROVE CopiesInv'
  <2>1. CASE StartProcess(p) \/ BeginRun(p) \/ FinishRun(p) \/ Blind(p) \/ FetchFails(p)
    BY <1>1, <2>1, BeginCopies, EndCopies
  <2>2. CASE Look(p) \/ Calls(p) \/ Seen(p) \/ Unseen(p) \/ Decide(p) \/ Send(p) \/ Sent(p) \/ Unsent(p)
    BY <1>1, <2>2, LookCopies, CallCopies, RequestCopies, UnseenCopies, DecideCopies, SendCopies
  <2>3. CASE SaveStep(p)
    BY <1>1, <2>3, UnwrittenCopies, EncodeCopies, RenameCopies, SavedCopies DEF SaveStep
  <2>4. CASE SaveError(p)
    BY <1>1, <2>4, LossCopies
  <2> QED BY <1>2, <2>1, <2>2, <2>3, <2>4 DEF RunStep
<1>3. CASE LosePower \/ \E p \in Processes : KillProcess(p)
  BY <1>1, <1>3, LossCopies
<1>4. CASE GraceEnds \/ MailMoves \/ UNCHANGED deliveryVars
  BY <1>1, <1>4, GraceCopies, MailCopies
<1> QED BY <1>2, <1>3, <1>4 DEF DeliveryNext

LEMMA InitCopiesInv == DeliveryInit => CopiesInv
<1> SUFFICES ASSUME DeliveryInit PROVE CopiesInv
  OBVIOUS
<1>1. CountsTyped /\ Excused = 0 /\ copies = 0
  BY DEF DeliveryInit, MailInit, CountsTyped, Excused
<1>2. RecentTried
  BY DEF DeliveryInit, RecentTried
<1>3. VersionsSound
  <2>1. onDisk = {0} /\ file = 0 /\ contents[0].attempts = 0 /\ recent = {}
    BY NoEntryIsEntry, FileAssumption DEF DeliveryInit, Init
  <2> QED BY <2>1 DEF VersionsSound
<1>4. \A p \in Processes : DraftSound(p) /\ BeforeSendSound(p)
  BY DEF DeliveryInit, Init, DraftSound, BeforeSendSound, Encoded
<1>5. CopiesSound
  BY <1>1 DEF CopiesSound
<1> QED BY <1>1, <1>2, <1>3, <1>4, <1>5 DEF CopiesInv, RecordsSound

(* Every copy after the first has a lost record, slow mail or a message    *)
(* that was overlooked to explain it (service.go:141-174, 206-246;         *)
(* state.go:94-113; mail_transport.go:149).                                *)
THEOREM CopiesAreAccounted == DeliverySpec => []CopiesAccounted
<1>1. DeliverySpec => []CopiesInv
  <2>1. DeliveryInv /\ DeliveryInv' /\ CopiesInv /\ [DeliveryNext]_deliveryVars => CopiesInv'
    BY StepCopiesInv
  <2> QED BY <2>1, InitCopiesInv, DeliveryInvariant, PTL DEF DeliverySpec
<1>2. ASSUME DeliveryInv, CopiesInv PROVE CopiesAccounted
  <2>1. copies \in Int /\ lost \in Int /\ slow \in Int /\ overlooked \in Int
    BY <1>2 DEF CopiesInv, CountsTyped, DeliveryInv, LedgerInv, EntriesTyped
  <2>2. copies <= Excused \/ copies = Excused + 1
    BY <1>2 DEF CopiesInv, CopiesSound
  <2> QED BY <2>1, <2>2 DEF Excused, CopiesAccounted
<1> QED BY <1>1, <1>2, DeliveryInvariant, PTL

(***************************************************************************)
(* The ledger that the file is.                                            *)
(***************************************************************************)
(* An entry that one step of the ledger makes of another.                  *)
Follows(e, d) ==
  /\ d.initialized
  /\ \/ ~e.initialized /\ d.status = e.status /\ d.attempts = e.attempts
     \/ /\ e.initialized /\ e.status \in {"none"} \union Unconfirmed
        /\ \/ d.status = "delivered" /\ d.attempts = e.attempts
           \/ /\ e.attempts < MaxAttempts /\ d.attempts = e.attempts + 1
              /\ \/ d.status = "pending"
                 \/ d.status = "retry_wait" /\ d.attempts < MaxAttempts
                 \/ d.status = "failed" /\ d.attempts = MaxAttempts
           \/ /\ e.status \in Unconfirmed /\ e.attempts = MaxAttempts
              /\ d.status = "failed" /\ d.attempts = MaxAttempts

(* A run knows what kind of entry it has where it is, and saves what       *)
(* follows it.                                                             *)
RecordSound(p) ==
  /\ at[p] = "reconcile" => entry[p].status \in Unconfirmed
  /\ at[p] \in {"check", "send"} => entry[p].status \in {"none"} \union Unconfirmed
  /\ at[p] = "confirm" => entry[p].status = "pending"
  /\ at[p] = "save" =>
       /\ after[p] = "reconcile" => draft[p].status \in Unconfirmed
       /\ after[p] = "confirm" => draft[p].status = "pending"
       /\ step[p] \in Written => Follows(entry[p], draft[p])

RecordInv == \A p \in Processes : RecordSound(p)

LEMMA RecordSame ==
  ASSUME NEW p \in Processes, RecordSound(p), UNCHANGED <<at, entry, draft, after, step>>
  PROVE  RecordSound(p)'
BY DEF RecordSound

LEMMA RecordOut ==
  ASSUME NEW p \in Processes, at'[p] = "out"
  PROVE  RecordSound(p)'
BY DEF RecordSound

LEMMA RecordBegins ==
  ASSUME DeliveryInv, NEW p \in Processes, BeginRun(p)
  PROVE  RecordSound(p)'
<1> DEFINE e == contents[file]
           d == [e EXCEPT !.initialized = TRUE]
<1>1. file \in 0..MaxVersion
  BY DEF DeliveryInv, IInv, TypeOK, AlwaysDecodes
<1>2. e \in Entries
  BY <1>1, Functions
<1>3. d.initialized /\ d.status = e.status /\ d.attempts = e.attempts
  BY <1>2 DEF Entries
<1>4. entry'[p] = e
  BY Functions DEF BeginRun
<1>5. CASE e.initialized
  <2>1. at'[p] = ReconcileOrDecide(e)
    BY <1>5, Functions DEF BeginRun
  <2> HIDE DEF e
  <2> QED BY <1>4, <2>1 DEF RecordSound, ReconcileOrDecide
<1>6. CASE ~e.initialized
  <2>1. at'[p] = "save" /\ draft'[p] = d /\ after'[p] = ReconcileOrDecide(e)
    BY <1>6, Functions DEF BeginRun
  <2>2. Follows(e, d)
    BY <1>3, <1>6 DEF Follows
  <2>3. ReconcileOrDecide(e) = "reconcile" => e.status \in Unconfirmed
    BY DEF ReconcileOrDecide
  <2>4. ReconcileOrDecide(e) # "confirm"
    BY DEF ReconcileOrDecide
  <2> HIDE DEF e, d
  <2> QED BY <1>3, <1>4, <2>1, <2>2, <2>3, <2>4 DEF RecordSound
<1> QED BY <1>5, <1>6

LEMMA RecordRequested ==
  ASSUME DeliveryInv, NEW p \in Processes, NEW e, NEW next, SaveEntry(p, e, next),
         Follows(entry[p], e), next # "reconcile", next = "confirm" => e.status = "pending"
  PROVE  RecordSound(p)'
<1>1. at'[p] = "save" /\ draft'[p] = e /\ after'[p] = next /\ entry'[p] = entry[p]
  BY Functions DEF SaveEntry
<1> QED BY <1>1 DEF RecordSound

LEMMA RecordOutcome ==
  ASSUME DeliveryInv, NEW p \in Processes, ShownSound(p), RecordSound(p), Seen(p) \/ Sent(p) \/ Unsent(p)
  PROVE  RecordSound(p)'
<1>1. step[p] = "loaded" /\ at[p] \in Looking \union {"send"}
  BY DEF Seen, Sent, Unsent, At, Looking
<1>2. /\ entry[p] \in Entries /\ entry[p].attempts \in Int /\ entry[p].initialized
      /\ at[p] = "send" => entry[p].attempts < MaxAttempts
  BY <1>1, Running DEF ShownSound, Looking
<1>3. entry[p].status \in {"none"} \union Unconfirmed
  BY <1>1 DEF RecordSound, Looking, Unconfirmed
<1>4. CASE Seen(p)
  <2> DEFINE d == [entry[p] EXCEPT !.status = "delivered"]
  <2>1. SaveEntry(p, d, "decide") /\ d.initialized /\ d.status = "delivered" /\ d.attempts = entry[p].attempts
    BY <1>2, <1>4 DEF Seen, Entries
  <2> HIDE DEF d
  <2>2. Follows(entry[p], d)
    BY <1>2, <1>3, <2>1 DEF Follows
  <2> QED BY <2>1, <2>2, RecordRequested
<1>5. CASE Sent(p)
  <2> DEFINE d == [entry[p] EXCEPT !.status = "pending", !.attempts = @ + 1]
  <2>1. SaveEntry(p, d, "confirm") /\ d.initialized /\ d.status = "pending" /\ d.attempts = entry[p].attempts + 1
    BY <1>2, <1>5 DEF Sent, Entries
  <2>2. at[p] = "send"
    BY <1>5 DEF Sent, At
  <2> HIDE DEF d
  <2>3. Follows(entry[p], d)
    BY <1>2, <1>3, <2>1, <2>2 DEF Follows
  <2> QED BY <2>1, <2>3, RecordRequested
<1>6. CASE Unsent(p)
  <2> DEFINE n == entry[p].attempts + 1
             d == [entry[p] EXCEPT !.attempts = n, !.status = IF n >= MaxAttempts THEN "failed" ELSE "retry_wait"]
  <2>1. SaveEntry(p, d, "end")
    BY <1>6 DEF Unsent
  <2>2. d.initialized /\ d.attempts = n /\ d.status = IF n >= MaxAttempts THEN "failed" ELSE "retry_wait"
    BY <1>2 DEF Entries
  <2>3. at[p] = "send"
    BY <1>6 DEF Unsent, At
  <2>4. n >= MaxAttempts => n = MaxAttempts
    BY <1>2, <2>3, DeliveryAssumption
  <2>5. n \in Int /\ n = entry[p].attempts + 1
    BY <1>2
  <2> HIDE DEF d, n
  <2>6. Follows(entry[p], d)
    BY <1>2, <1>3, <2>2, <2>3, <2>4, <2>5, DeliveryAssumption DEF Follows
  <2> QED BY <2>1, <2>6, RecordRequested
<1> QED BY <1>4, <1>5, <1>6

LEMMA RecordDecided ==
  ASSUME DeliveryInv, NEW p \in Processes, ShownSound(p), RecordSound(p), Unseen(p) \/ Decide(p)
  PROVE  RecordSound(p)'
<1>1. step[p] = "loaded" /\ at[p] \in Looking \union {"decide"}
  BY DEF Unseen, Decide, At, Looking
<1>2. entry[p] \in Entries /\ entry[p].attempts \in Int /\ entry[p].initialized
  BY <1>1, Running DEF ShownSound, Looking
<1>3. CASE Unseen(p)
  <2>1. entry' = entry
    BY <1>3 DEF Unseen, Reconciled, GoOn
  <2>2. \/ at'[p] \in {"decide", "end"}
        \/ at[p] = "check" /\ at'[p] = "send"
    BY <1>3, Functions DEF Unseen, Reconciled, GoOn, At
  <2> QED BY <2>1, <2>2 DEF RecordSound
<1>4. CASE Decide(p) /\ GoOn(p, "end")
  BY <1>4, Functions DEF GoOn, RecordSound
<1>5. CASE Decide(p) /\ GoOn(p, BeforeSend) /\ entry[p].status \in {"none"} \union Unconfirmed
  <2>1. entry' = entry /\ at'[p] = "check"
    BY <1>5, Functions DEF GoOn, BeforeSend
  <2> QED BY <1>5, <2>1 DEF RecordSound
<1>6. CASE /\ SaveEntry(p, [entry[p] EXCEPT !.status = "failed"], "end")
           /\ entry[p].status \in Unconfirmed /\ UsedUp(entry[p])
  <2> DEFINE d == [entry[p] EXCEPT !.status = "failed"]
  <2>1. d.initialized /\ d.status = "failed" /\ d.attempts = entry[p].attempts
    BY <1>2 DEF Entries
  <2>2. entry[p].attempts = MaxAttempts
    BY <1>2, <1>6, DeliveryAssumption DEF UsedUp, Entries
  <2>3. SaveEntry(p, d, "end")
    BY <1>6
  <2> HIDE DEF d
  <2>4. Follows(entry[p], d)
    BY <1>2, <1>6, <2>1, <2>2 DEF Follows
  <2> QED BY <2>3, <2>4, RecordRequested
<1>7. ASSUME Decide(p)
      PROVE  \/ GoOn(p, "end")
             \/ GoOn(p, BeforeSend) /\ entry[p].status \in {"none"} \union Unconfirmed
             \/ /\ SaveEntry(p, [entry[p] EXCEPT !.status = "failed"], "end")
                /\ entry[p].status \in Unconfirmed /\ UsedUp(entry[p])
  BY <1>7 DEF Decide
<1> QED BY <1>3, <1>4, <1>5, <1>6, <1>7

LEMMA RecordSaving ==
  ASSUME DeliveryInv, NEW p \in Processes, RecordSound(p), SaveStep(p)
  PROVE  RecordSound(p)'
<1>1. at[p] = "save"
  BY DEF SaveStep
<1>2. CASE UNCHANGED syncVars /\ ~SyncDirectory(p)
  <2>1. step[p] \in Written
    BY <1>2 DEF SaveStep, Create, Encode, Sync, Close, Rename, SyncDirectory, Written
  <2> QED BY <1>1, <1>2, <2>1 DEF RecordSound, syncVars
<1>3. CASE /\ SyncDirectory(p) /\ entry' = [entry EXCEPT ![p] = draft[p]]
           /\ at' = [at EXCEPT ![p] = after[p]]
  <2>1. step[p] # "off" /\ at'[p] = after[p] /\ entry'[p] = draft[p]
    BY <1>3, Functions DEF SyncDirectory
  <2>2. after[p] \in {"reconcile", "decide", "confirm", "end"}
    BY <1>1, <2>1, InSave
  <2> QED BY <1>1, <2>1, <2>2 DEF RecordSound
<1> QED BY <1>2, <1>3 DEF SaveStep, Create, Encode, Sync, Close, Rename, SyncDirectory

LEMMA StepRecordInv ==
  ASSUME DeliveryInv, DeliveryInv', ShownInv, RecordInv, [DeliveryNext]_deliveryVars
  PROVE  RecordInv'
<1> SUFFICES ASSUME NEW q \in Processes PROVE RecordSound(q)'
  BY DEF RecordInv
<1>1. RecordSound(q) /\ ShownSound(q)
  BY DEF RecordInv, ShownInv
<1>2. ASSUME NEW p \in Processes, RunStep(p) \/ KillProcess(p), p # q PROVE RecordSound(q)'
  BY <1>2, OthersOut, RecordOut
<1>3. ASSUME RunStep(q) \/ KillProcess(q) PROVE RecordSound(q)'
  <2>1. CASE StartProcess(q)
    <3>1. step[q] \in {"off", "idle"} /\ UNCHANGED syncVars
      BY <2>1 DEF StartProcess, Start, Exit
    <3>2. at'[q] = "out"
      BY <3>1 DEF DeliveryInv, LedgerInv, RunPlaces, syncVars
    <3> QED BY <3>2, RecordOut
  <2>2. CASE BeginRun(q)
    BY <2>2, RecordBegins
  <2>3. CASE Look(q) \/ Calls(q) \/ Send(q)
    <3>1. UNCHANGED <<at, entry, draft, after, step>>
      BY <2>3 DEF Look, Calls, Send, syncVars, storeVars, vars, processVars
    <3> QED BY <1>1, <3>1, RecordSame
  <2>4. CASE Seen(q) \/ Sent(q) \/ Unsent(q) \/ Unseen(q) \/ Decide(q) \/ SaveStep(q)
    BY <1>1, <2>4, RecordOutcome, RecordDecided, RecordSaving
  <2>5. CASE FinishRun(q) \/ Blind(q) \/ FetchFails(q) \/ SaveError(q) \/ KillProcess(q)
    <3>1. Forget({q})
      BY <2>5 DEF FinishRun, Blind, FetchFails, EndRun, SaveError, KillProcess
    <3>2. at'[q] = "out"
      BY <3>1 DEF Forget
    <3> QED BY <3>2, RecordOut
  <2> QED BY <1>3, <2>1, <2>2, <2>3, <2>4, <2>5 DEF RunStep
<1>4. CASE LosePower
  <2>1. at'[q] = "out"
    BY <1>4 DEF LosePower, Forget
  <2> QED BY <2>1, RecordOut
<1>5. CASE GraceEnds \/ MailMoves \/ UNCHANGED deliveryVars
  <2>1. UNCHANGED <<at, entry, draft, after, step>>
    BY <1>5 DEF GraceEnds, MailMoves, deliveryVars, syncVars, storeVars, vars, processVars
  <2> QED BY <1>1, <2>1, RecordSame
<1> QED BY <1>2, <1>3, <1>4, <1>5 DEF DeliveryNext

LEMMA RecordInvariant == DeliverySpec => []RecordInv
<1>1. DeliveryInit => RecordInv
  BY DEF DeliveryInit, RecordInv, RecordSound
<1>2. DeliveryInv /\ DeliveryInv' /\ ShownInv /\ RecordInv /\ [DeliveryNext]_deliveryVars => RecordInv'
  BY StepRecordInv
<1> QED BY <1>1, <1>2, DeliveryInvariant, ShownInvariant, PTL DEF DeliverySpec

(* The ledger, its steps told by the entry in the file.                    *)
LEMMA OneEntry ==
  ASSUME NEW x, NEW y
  PROVE  [[f \in {"item"} |-> x] EXCEPT !["item"] = y] = [f \in {"item"} |-> y]
OBVIOUS

(* What the file says now is what it may say after a power loss.           *)
LEMMA LedgerFileKept ==
  ASSUME DeliveryInv
  PROVE  LedgerState(contents[file]) \in LedgerKept
BY DEF DeliveryInv, IInv, LedgerKept

LEMMA LedgerSame ==
  ASSUME UNCHANGED <<file, onDisk>>, file \in onDisk, \A v \in onDisk : contents'[v] = contents[v]
  PROVE  LedgerState(contents[file])' = LedgerState(contents[file]) /\ LedgerKept' = LedgerKept
<1>1. contents'[file'] = contents[file]
  OBVIOUS
<1>2. LedgerState(contents[file])' = LedgerState(contents[file])
  BY <1>1 DEF LedgerState, LedgerEntry
<1>3. LedgerKept' = {LedgerState(contents'[v]) : v \in onDisk'}
  BY DEF LedgerKept, LedgerState, LedgerEntry
<1>4. {LedgerState(contents'[v]) : v \in onDisk'} = LedgerKept
  BY DEF LedgerKept
<1> QED BY <1>2, <1>3, <1>4

LEMMA LedgerRests ==
  ASSUME LedgerState(contents[file])' = LedgerState(contents[file]), InMailbox' <=> InMailbox
  PROVE  UNCHANGED Ledger!vars
<1>1. LedgerArrived' = LedgerArrived
  BY DEF LedgerArrived, InMailbox
<1> QED BY <1>1 DEF Ledger!vars, LedgerState

(* What follows in the file is a step of the ledger.                       *)
LEMMA LedgerFollows ==
  ASSUME contents[file] \in Entries, IsTrue(contents[file]), contents'[file'] \in Entries,
         contents'[file'].status = "delivered" => InMailbox,
         InMailbox' <=> InMailbox, Follows(contents[file], contents'[file'])
  PROVE  Ledger!Next
<1> PICK e, d : e = contents[file] /\ d = contents'[file']
  OBVIOUS
<1>1. LedgerArrived' = LedgerArrived /\ (d.status = "delivered" => "revision" \in LedgerArrived)
  BY DEF LedgerArrived, InMailbox
<1>2. /\ LedgerState(contents[file])' = [initialized |-> d.initialized, deliveries |-> [f \in {"item"} |-> LedgerEntry(d)]]
      /\ LedgerState(contents[file]) = [initialized |-> e.initialized, deliveries |-> [f \in {"item"} |-> LedgerEntry(e)]]
  BY DEF LedgerState, LedgerEntry
<1>3. e \in Entries /\ d \in Entries /\ d.initialized /\ (e.status = "none" => e.attempts = 0)
  BY DEF IsTrue, Follows
<1>4. CASE ~e.initialized
  <2>1. LedgerEntry(d) = LedgerEntry(e)
    BY <1>4 DEF Follows, LedgerEntry
  <2>2. Ledger!Initialize({})
    BY <1>1, <1>2, <1>3, <1>4, <2>1 DEF Ledger!Initialize
  <2> QED BY <2>2 DEF Ledger!Next
<1>5. CASE e.initialized
  <2>1. contents'[file'].initialized = contents[file].initialized /\ contents[file].initialized
    BY <1>3, <1>5 DEF Entries
  <2>2. /\ [f \in {"item"} |-> LedgerEntry(contents[file])]["item"] = LedgerEntry(e)
        /\ [f \in {"item"} |-> LedgerEntry(contents[file])]'
             = [[f \in {"item"} |-> LedgerEntry(contents[file])] EXCEPT !["item"] = LedgerEntry(d)]
    <3>1. [f \in {"item"} |-> LedgerEntry(contents[file])]' = [f \in {"item"} |-> LedgerEntry(d)]
      BY DEF LedgerEntry
    <3> QED BY <3>1, OneEntry
  <2>3. LedgerEntry(e).status = e.status /\ LedgerEntry(e).attempts = e.attempts
    BY DEF LedgerEntry
  <2>4. e.status \in {"none"} \union Unconfirmed
    BY <1>5 DEF Follows
  <2>5. CASE d.status = "delivered" /\ d.attempts = e.attempts
    <3>1. LedgerEntry(d) = [status |-> "delivered", rev |-> "revision", attempts |-> LedgerEntry(e).attempts]
      BY <2>3, <2>5 DEF LedgerEntry
    <3>2. Ledger!Confirm("item", "revision")
      BY <1>1, <2>1, <2>2, <2>3, <2>4, <2>5, <3>1 DEF Ledger!Confirm, Ledger!Open, Ledger!SetEntry, Unconfirmed
    <3> QED BY <3>2 DEF Ledger!Next
  <2>6. CASE /\ e.attempts < MaxAttempts /\ d.attempts = e.attempts + 1
             /\ \/ d.status = "pending"
                \/ d.status = "retry_wait" /\ d.attempts < MaxAttempts
                \/ d.status = "failed" /\ d.attempts = MaxAttempts
    <3>1. LedgerEntry(d) = [status |-> d.status, rev |-> "revision", attempts |-> LedgerEntry(e).attempts + 1]
      BY <2>3, <2>6 DEF LedgerEntry
    <3>2. PICK n : n = [f \in {"item"} |-> LedgerEntry(contents[file])]["item"].attempts /\ n = e.attempts
      BY <2>2, <2>3
    <3>3. [f \in {"item"} |-> LedgerEntry(contents[file])]'
            = [[f \in {"item"} |-> LedgerEntry(contents[file])]
                 EXCEPT !["item"] = [status |-> d.status, rev |-> "revision", attempts |-> n + 1]]
      BY <2>2, <2>3, <3>1, <3>2, Zenon
    <3>4. Ledger!SetEntry("item", d.status, "revision", n + 1)
      BY <3>3, Zenon DEF Ledger!SetEntry
    <3>5. Ledger!Open("item")
      BY <2>2, <2>3, <2>4 DEF Ledger!Open, Unconfirmed
    <3>6. /\ n < MaxAttempts
          /\ \/ d.status = "pending"
             \/ d.status = "retry_wait" /\ n + 1 < MaxAttempts
             \/ d.status = "failed" /\ n + 1 = MaxAttempts
      BY <2>6, <3>2
    <3>7. /\ n < MaxAttempts
          /\ \/ Ledger!SetEntry("item", "pending", "revision", n + 1)
             \/ n + 1 < MaxAttempts /\ Ledger!SetEntry("item", "retry_wait", "revision", n + 1)
             \/ n + 1 = MaxAttempts /\ Ledger!SetEntry("item", "failed", "revision", n + 1)
      BY <3>4, <3>6, Zenon
    <3>8. Ledger!Attempt("item", "revision")
      BY <1>1, <2>1, <3>2, <3>5, <3>7, Zenon DEF Ledger!Attempt
    <3> QED BY <3>8 DEF Ledger!Next
  <2>7. CASE /\ e.status \in Unconfirmed /\ e.attempts = MaxAttempts
             /\ d.status = "failed" /\ d.attempts = MaxAttempts
    <3>1. LedgerEntry(d) = [status |-> "failed", rev |-> LedgerEntry(e).rev, attempts |-> MaxAttempts]
      BY <2>7 DEF LedgerEntry, Unconfirmed
    <3>2. Ledger!GiveUp("item")
      BY <1>1, <2>1, <2>2, <2>3, <2>7, <3>1 DEF Ledger!GiveUp, Ledger!SetEntry, Unconfirmed
    <3> QED BY <3>2 DEF Ledger!Next
  <2> QED BY <1>5, <2>5, <2>6, <2>7 DEF Follows
<1> QED BY <1>3, <1>4, <1>5 DEF Entries

(***************************************************************************)
(* The steps.                                                              *)
(***************************************************************************)
LedgerStep == Ledger!DurableNext \/ UNCHANGED <<Ledger!vars, LedgerKept, synced>>

LEMMA LedgerKeeps ==
  ASSUME UNCHANGED diskVars, file \in onDisk, \A v \in onDisk : contents'[v] = contents[v],
         InMailbox' <=> InMailbox
  PROVE  LedgerStep
<1>1. LedgerState(contents[file])' = LedgerState(contents[file]) /\ LedgerKept' = LedgerKept /\ synced' = synced
  BY LedgerSame DEF diskVars
<1>2. UNCHANGED Ledger!vars
  BY <1>1, LedgerRests
<1> QED BY <1>1, <1>2 DEF LedgerStep

LEMMA LedgerRenames ==
  ASSUME DeliveryInv, DeliveryInv', RecordInv, NEW p \in Processes, SaveStep(p), Rename(p)
  PROVE  LedgerStep
<1>1. /\ at[p] = "save" /\ step[p] = "rename" /\ UNCHANGED <<contents, mailbox, synced>>
      /\ file' = temp[p] /\ onDisk' = onDisk \union {IF p \in flushed THEN temp[p] ELSE Torn}
  BY DEF SaveStep, Encode, Rename, SyncDirectory, transport, mailServer
<1>2. file' = held[p] + 1 /\ onDisk' = onDisk \union {file'}
  BY <1>1 DEF DeliveryInv, IInv, SavingSound
<1>3. /\ entry[p] = contents[file] /\ draft[p] = contents'[file']
      /\ entry[p] \in Entries /\ draft[p] \in Entries /\ IsTrue(draft[p])
  BY <1>1, <1>2, InSave DEF Written
<1>4. Follows(entry[p], draft[p])
  BY <1>1 DEF RecordInv, RecordSound, Written
<1>5. IsTrue(entry[p])
  BY DEF DeliveryInv, LedgerInv, EntriesTrue
<1>6. InMailbox' <=> InMailbox
  BY <1>1 DEF InMailbox, Ours
<1>7. Ledger!Next
  BY <1>3, <1>4, <1>5, <1>6, LedgerFollows DEF IsTrue
<1>8. LedgerKept' = LedgerKept \union {LedgerState(contents[file])'}
  BY <1>1, <1>2 DEF LedgerKept, LedgerState, LedgerEntry
<1> QED BY <1>1, <1>7, <1>8 DEF LedgerStep, Ledger!DurableNext, Ledger!Change, Ledger!State, LedgerState

LEMMA LedgerSaved ==
  ASSUME DeliveryInv, DeliveryInv', SyncedIsKept,
         NEW p \in Processes, SaveStep(p), SyncDirectory(p), KeepContents
  PROVE  LedgerStep
<1>1. /\ step[p] = "syncdir" /\ UNCHANGED <<file, mailbox>>
      /\ \/ onDisk' = {file} /\ synced' = held[p] + 1
         \/ UNCHANGED <<onDisk, synced>>
  BY DEF SaveStep, SyncDirectory, transport, mailServer
<1>2. file \in onDisk /\ onDisk' \subseteq onDisk /\ file' \in onDisk'
  BY <1>1 DEF DeliveryInv, IInv
<1>3. \A v \in onDisk' : contents'[v] = contents[v]
  <2>1. \A v \in onDisk' : v \in 0..MaxVersion
    BY <1>2 DEF DeliveryInv, IInv, TypeOK, AlwaysDecodes
  <2>2. DOMAIN contents = 0..MaxVersion
    BY DEF DeliveryInv, LedgerInv, EntriesTyped
  <2> QED BY <2>1, <2>2, Functions DEF KeepContents
<1>4. contents'[file'] = contents[file]
  BY <1>1, <1>2, <1>3
<1>5. LedgerState(contents[file])' = LedgerState(contents[file])
  BY <1>4 DEF LedgerState, LedgerEntry
<1>6. InMailbox' <=> InMailbox
  BY <1>1 DEF InMailbox, Ours
<1>7. UNCHANGED Ledger!vars
  BY <1>5, <1>6, LedgerRests
<1>8. CASE onDisk' = {file} /\ synced' = held[p] + 1
  <2>1. synced' = file
    BY <1>1, <1>8 DEF DeliveryInv, IInv, HeldIsCurrent
  <2>2. synced' >= synced
    BY <1>2, <2>1 DEF SyncedIsKept
  <2>3. LedgerKept' = {LedgerState(contents[file])}
    BY <1>1, <1>4, <1>8 DEF LedgerKept, LedgerState, LedgerEntry
  <2>4. Ledger!SaveSynced
    BY <1>7, <2>2, <2>3 DEF Ledger!SaveSynced, Ledger!State, LedgerState
  <2> QED BY <2>4 DEF LedgerStep, Ledger!DurableNext
<1>9. CASE UNCHANGED <<onDisk, synced>>
  <2>1. file \in onDisk /\ UNCHANGED <<file, onDisk>> /\ \A v \in onDisk : contents'[v] = contents[v]
    BY <1>1, <1>2, <1>3, <1>9
  <2>2. LedgerKept' = LedgerKept
    BY <2>1, LedgerSame
  <2> QED BY <1>7, <1>9, <2>2 DEF LedgerStep
<1> QED BY <1>1, <1>8, <1>9

LEMMA LedgerLosesPower ==
  ASSUME DeliveryInv, DeliveryInv', SyncedIsKept, LosePower
  PROVE  LedgerStep
<1>1. file' \in onDisk /\ onDisk' = {file'} /\ synced' = file' /\ UNCHANGED mailbox /\ KeepContents
  BY DEF LosePower, PowerLoss, Hangup, mailServer
<1>2. contents'[file'] = contents[file']
  BY <1>1, FileKept DEF DeliveryInv, LedgerInv
<1>3. LedgerState(contents[file])' = LedgerState(contents[file']) /\ LedgerState(contents[file']) \in LedgerKept
  <2>1. LedgerState(contents[file])' = LedgerState(contents'[file'])
    BY DEF LedgerState, LedgerEntry
  <2>2. LedgerState(contents[file']) \in LedgerKept
    BY <1>1 DEF LedgerKept
  <2> QED BY <1>2, <2>1, <2>2
<1>4. LedgerKept' = {LedgerState(contents[file])'}
  BY <1>1 DEF LedgerKept, LedgerState, LedgerEntry
<1>5. LedgerArrived' = LedgerArrived
  BY <1>1 DEF LedgerArrived, Ours
<1>6. synced' >= synced
  BY <1>1 DEF SyncedIsKept
<1>7. Ledger!PowerLoss
  BY <1>1, <1>3, <1>4, <1>5, <1>6 DEF Ledger!PowerLoss, Ledger!State, LedgerState
<1> QED BY <1>7 DEF LedgerStep, Ledger!DurableNext

LEMMA LedgerMail ==
  ASSUME DeliveryInv, MailMoves
  PROVE  LedgerStep
<1>1. UNCHANGED <<diskVars, file, onDisk, synced, contents>>
  BY DEF MailMoves, storeVars, vars, diskVars
<1>2. file \in onDisk
  BY DEF DeliveryInv, IInv
<1>3. InMailbox => InMailbox'
  <2>1. MailStep
    BY DEF MailMoves, MailStep
  <2> QED BY <2>1, InMailboxKept DEF DeliveryInv, MailInv
<1>4. CASE InMailbox' <=> InMailbox
  BY <1>1, <1>2, <1>4, LedgerKeeps
<1>5. CASE ~InMailbox /\ InMailbox'
  <2>1. LedgerState(contents[file])' = LedgerState(contents[file]) /\ LedgerKept' = LedgerKept
    BY <1>1, <1>2, LedgerSame
  <2>2. LedgerArrived = {} /\ LedgerArrived' = {"revision"}
    BY <1>5 DEF LedgerArrived, InMailbox
  <2>3. Ledger!Arrive("revision")
    BY <2>1, <2>2 DEF Ledger!Arrive, LedgerState
  <2>4. LedgerKept' = LedgerKept \union {LedgerState(contents[file])'}
    BY <2>1, LedgerFileKept
  <2> QED BY <1>1, <2>3, <2>4 DEF LedgerStep, Ledger!DurableNext, Ledger!Change, Ledger!Next, Ledger!State, LedgerState
<1> QED BY <1>3, <1>4, <1>5

LEMMA LedgerProcess ==
  ASSUME DeliveryInv, DeliveryInv', RecordInv, SyncedIsKept, NEW p \in Processes, RunStep(p) \/ KillProcess(p)
  PROVE  LedgerStep
<1>1. file \in onDisk /\ \A v \in onDisk : v \in 0..MaxVersion /\ v <= file
  BY DEF DeliveryInv, IInv, TypeOK, AlwaysDecodes
<1>2. ASSUME UNCHANGED <<diskVars, mailbox>>, \A v \in onDisk : contents'[v] = contents[v] PROVE LedgerStep
  <2>1. InMailbox' <=> InMailbox
    BY <1>2 DEF InMailbox, Ours
  <2> QED BY <1>1, <1>2, <2>1, LedgerKeeps
<1>3. ASSUME UNCHANGED <<diskVars, mailbox>>, KeepContents PROVE LedgerStep
  <2>1. \A v \in onDisk : contents'[v] = contents[v]
    BY <1>1, <1>3, Functions DEF KeepContents, diskVars
  <2> QED BY <1>2, <1>3, <2>1
<1>4. CASE StartProcess(p) \/ BeginRun(p) \/ FinishRun(p) \/ Blind(p) \/ FetchFails(p)
  <2>1. UNCHANGED <<diskVars, mailbox, contents>>
    BY <1>4 DEF StartProcess, Start, Exit, BeginRun, Load, FinishRun, Blind, FetchFails, EndRun, SyncEnds, Hangup,
       diskVars, transport, mailServer
  <2> QED BY <1>2, <2>1
<1>5. CASE Look(p) \/ Calls(p) \/ Seen(p) \/ Unseen(p) \/ Decide(p) \/ Send(p) \/ Sent(p) \/ Unsent(p)
  <2>1. UNCHANGED <<diskVars, contents>>
    BY <1>5 DEF Look, Calls, Seen, Unseen, Decide, Send, Sent, Unsent, storeVars, vars, diskVars
  <2>2. UNCHANGED mailbox
    BY <1>5 DEF Look, Calls, Seen, Unseen, Decide, Send, Sent, Unsent, StartLook, StartSend, TransportStep, Connect,
       SendMail, Quit, OpenMailbox, Search, FetchHeaders, LookFails, Hangup, HangupKnowing, mailServer, transport
  <2> QED BY <1>2, <2>1, <2>2
<1>6. CASE KillProcess(p) \/ SaveError(p)
  <2>1. UNCHANGED <<diskVars, mailbox>> /\ KeepContents
    BY <1>6 DEF KillProcess, Kill, SaveError, SaveFails, SyncEnds, Hangup, diskVars, transport, mailServer
  <2> QED BY <1>3, <2>1
<1>7. CASE SaveStep(p)
  <2>1. CASE Create(p) \/ Sync(p) \/ Close(p)
    <3>1. UNCHANGED <<diskVars, mailbox, contents>>
      BY <1>7, <2>1 DEF SaveStep, Create, Encode, Sync, Close, Rename, SyncDirectory, diskVars, transport, mailServer
    <3> QED BY <1>2, <3>1
  <2>2. CASE Encode(p) /\ contents' = [contents EXCEPT ![held[p] + 1] = draft[p]]
    <3>1. UNCHANGED <<diskVars, mailbox>> /\ step[p] = "encode"
      BY <1>7, <2>2 DEF SaveStep, Encode, diskVars, transport, mailServer
    <3>2. held[p] = file
      BY <3>1 DEF DeliveryInv, IInv, HeldIsCurrent
    <3>3. \A v \in onDisk : v # held[p] + 1
      BY <1>1, <3>2
    <3>4. \A v \in onDisk : contents'[v] = contents[v]
      BY <1>1, <2>2, <3>3, Functions
    <3> QED BY <1>2, <3>1, <3>4
  <2>3. CASE Rename(p)
    BY <1>7, <2>3, LedgerRenames
  <2>4. CASE SyncDirectory(p) /\ KeepContents
    BY <1>7, <2>4, LedgerSaved
  <2> QED BY <1>7, <2>1, <2>2, <2>3, <2>4 DEF SaveStep
<1> QED BY <1>4, <1>5, <1>6, <1>7 DEF RunStep

LEMMA LedgerInit == DeliveryInit => Ledger!DurableInit
<1> SUFFICES ASSUME DeliveryInit PROVE Ledger!DurableInit
  OBVIOUS
<1>1. contents[file] = NoEntry /\ onDisk = {0} /\ file = 0 /\ contents[0] = NoEntry /\ synced = 0
  BY FileAssumption DEF DeliveryInit, Init
<1>2. ~InMailbox
  BY DEF DeliveryInit, MailInit, InMailbox
<1>3. LedgerArrived = {} /\ LedgerKept = {LedgerState(contents[file])}
  BY <1>1, <1>2 DEF LedgerArrived, LedgerKept, InMailbox
<1>4. LedgerState(contents[file]) = [initialized |-> FALSE, deliveries |-> [f \in {"item"} |-> Ledger!Absent]]
  BY <1>1 DEF LedgerState, LedgerEntry, NoEntry, Ledger!Absent
<1>5. Ledger!Init
  BY <1>3, <1>4 DEF Ledger!Init, LedgerState
<1>6. LedgerKept = {Ledger!State}
  BY <1>3, <1>4 DEF Ledger!State, LedgerState
<1>7. synced = 0
  BY <1>1
<1> QED BY <1>5, <1>6, <1>7, Zenon DEF Ledger!DurableInit

(* The file keeps the ledger's promise over all kills and power losses: no *)
(* change is taken back once its Save, or a later one, has synced the      *)
(* directory (service.go:61-246, state.go:61-113).                         *)
THEOREM ImplementsDurableLedger == DeliverySpec => DurableLedgerSpec
<1>1. DeliveryInv /\ DeliveryInv' /\ RecordInv /\ SyncedIsKept /\ [DeliveryNext]_deliveryVars
        => [Ledger!DurableNext]_<<Ledger!vars, LedgerKept, synced>>
  <2> SUFFICES ASSUME DeliveryInv, DeliveryInv', RecordInv, SyncedIsKept, [DeliveryNext]_deliveryVars
               PROVE  LedgerStep
    BY DEF LedgerStep
  <2>1. CASE \E p \in Processes : RunStep(p) \/ KillProcess(p)
    BY <2>1, LedgerProcess
  <2>2. CASE LosePower
    BY <2>2, LedgerLosesPower
  <2>3. CASE MailMoves
    BY <2>3, LedgerMail
  <2>4. CASE GraceEnds \/ UNCHANGED deliveryVars
    <3>1. UNCHANGED <<diskVars, contents, mailbox>>
      BY <2>4 DEF GraceEnds, deliveryVars, storeVars, vars, transport, mailServer
    <3>2. InMailbox' <=> InMailbox
      BY <3>1 DEF InMailbox, Ours
    <3> QED BY <3>1, <3>2, LedgerKeeps DEF DeliveryInv, IInv
  <2> QED BY <2>1, <2>2, <2>3, <2>4 DEF DeliveryNext
<1>2. DeliverySpec => []SyncedIsKept
  BY ImplementsFile, SyncedSavesAreKept, PTL
<1> QED BY <1>1, <1>2, LedgerInit, DeliveryInvariant, RecordInvariant, PTL
        DEF DeliverySpec, DurableLedgerSpec, Ledger!DurableSpec
=============================================================================
