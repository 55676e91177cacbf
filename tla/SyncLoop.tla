------------------------------ MODULE SyncLoop ------------------------------
(***************************************************************************)
(* When cmd/message2mail runs a synchronization.  The main goroutine waits *)
(* for the ticker, for the trigger channel or for the end; the watcher     *)
(* goroutine holds an IMAP connection in IDLE, is told of mailbox changes  *)
(* through a channel of its own and passes them on to the trigger channel. *)
(* Both channels hold one value, and both goroutines rely on a value that  *)
(* is already there standing for the one they drop.                        *)
(***************************************************************************)
EXTENDS Naturals

CONSTANTS
  Debounce,     \* -debounce is positive
  MaxChanges,   \* bound on the changes of the mailbox
  MaxFailures   \* bound on the failures of the watcher's connection

ASSUME LoopAssumption == Debounce \in BOOLEAN /\ MaxChanges \in Nat /\ MaxFailures \in Nat

VARIABLES
  main,       \* where the main goroutine is
  watcher,    \* where the watcher goroutine is
  triggers,   \* values in the trigger channel, of capacity 1
  updates,    \* values in the channel of the current connection, of capacity 1
  ticked,     \* the ticker's channel holds a tick
  cancelled,  \* SIGINT or SIGTERM has cancelled the context
  unsynced,   \* history: the mailbox changed (or the program started) after the last run did
  missed,     \* history: ... and the watcher was not connected, or lost its connection
  changes, failures

ioState == <<unsynced, missed, changes>>
vars == <<main, watcher, triggers, updates, ticked, cancelled, ioState, failures>>

Init ==
  /\ main = "start"
  /\ watcher = "dial"
  /\ triggers = 0
  /\ updates = 0
  /\ ticked = FALSE
  /\ cancelled = FALSE
  /\ unsynced = TRUE
  /\ missed = FALSE
  /\ changes = 0
  /\ failures = 0

(***************************************************************************)
(* The main goroutine.                                                     *)
(***************************************************************************)
quietMain == <<watcher, updates, cancelled, changes, failures>>

(* The first trigger is sent with a blocking send.                         *)
SendFirst ==
  /\ main = "start"
  /\ triggers = 0
  /\ triggers' = 1
  /\ main' = "select"
  /\ UNCHANGED <<quietMain, ticked, unsynced, missed>>

(* Mutation: the tick is taken and nothing is done. *)
TakeTickIdle ==
  /\ main = "select"
  /\ ticked
  /\ ticked' = FALSE
  /\ UNCHANGED <<quietMain, main, triggers, unsynced, missed>>

TakeTick ==
  /\ main = "select"
  /\ ticked
  /\ ticked' = FALSE
  /\ main' = "begin"
  /\ UNCHANGED <<quietMain, triggers, unsynced, missed>>

TakeTrigger ==
  /\ main = "select"
  /\ triggers = 1
  /\ triggers' = 0
  /\ main' = IF Debounce THEN "debounce" ELSE "drain"
  /\ UNCHANGED <<quietMain, ticked, unsynced, missed>>

DebounceOver ==
  /\ main = "debounce"
  /\ main' = "drain"
  /\ UNCHANGED <<quietMain, triggers, ticked, unsynced, missed>>

Drain ==
  /\ main = "drain"
  /\ triggers' = 0
  /\ main' = IF triggers = 0 THEN "begin" ELSE "drain"
  /\ UNCHANGED <<quietMain, ticked, unsynced, missed>>

(* Mutation: the channel is drained when the run is over. *)
EndSyncDraining ==
  /\ main = "sync"
  /\ main' = "select"
  /\ triggers' = 0
  /\ UNCHANGED <<quietMain, ticked, unsynced, missed>>

(* syncOnce sees what has happened up to here.                             *)
BeginSync ==
  /\ main = "begin"
  /\ main' = "sync"
  /\ unsynced' = FALSE
  /\ missed' = FALSE
  /\ UNCHANGED <<quietMain, triggers, ticked>>

EndSync ==
  /\ main = "sync"
  /\ main' = "select"
  /\ UNCHANGED <<quietMain, triggers, ticked, unsynced, missed>>

(* Mutation: the end is only noticed while a trigger is debounced. *)
StopDebouncing ==
  /\ main = "debounce"
  /\ cancelled
  /\ main' = "stopped"
  /\ UNCHANGED <<quietMain, triggers, ticked, unsynced, missed>>

Stop ==
  /\ main \in {"select", "debounce"}
  /\ cancelled
  /\ main' = "stopped"
  /\ UNCHANGED <<quietMain, triggers, ticked, unsynced, missed>>

(***************************************************************************)
(* The watcher goroutine: Watch, and watchWithReconnect around it.         *)
(***************************************************************************)
Connected == watcher \in {"ready", "idle", "closing", "notify"}

quietWatcher == <<main, ticked, cancelled, unsynced, changes>>

Dial ==
  /\ watcher = "dial"
  /\ watcher' = "ready"
  /\ updates' = 0
  /\ UNCHANGED <<quietWatcher, triggers, missed, failures>>

StartIdle ==
  /\ watcher = "ready"
  /\ watcher' = "idle"
  /\ UNCHANGED <<quietWatcher, triggers, updates, missed, failures>>

TakeUpdate ==
  /\ watcher = "idle"
  /\ updates = 1
  /\ updates' = 0
  /\ watcher' = "closing"
  /\ UNCHANGED <<quietWatcher, triggers, missed, failures>>

IdleClosed ==
  /\ watcher = "closing"
  /\ watcher' = "notify"
  /\ UNCHANGED <<quietWatcher, triggers, updates, missed, failures>>

(* Mutation: no send at all unless the main goroutine is waiting. *)
NotifyWaiting ==
  /\ watcher = "notify"
  /\ watcher' = "ready"
  /\ triggers' = IF main = "select" THEN 1 ELSE triggers
  /\ UNCHANGED <<quietWatcher, updates, missed, failures>>

(* The send does not block: a trigger that is already there will do.       *)
Notify ==
  /\ watcher = "notify"
  /\ watcher' = "ready"
  /\ triggers' = 1
  /\ UNCHANGED <<quietWatcher, updates, missed, failures>>

(* Whatever fails, Watch returns, and a change it was told of is dropped.  *)
Disconnect ==
  /\ watcher \in {"dial", "ready", "idle", "closing"}
  /\ failures < MaxFailures
  /\ failures' = failures + 1
  /\ watcher' = IF cancelled THEN "stopped" ELSE "backoff"
  /\ updates' = 0
  /\ missed' = (missed \/ updates = 1 \/ watcher = "closing")
  /\ UNCHANGED <<quietWatcher, triggers>>

Reconnect ==
  /\ watcher = "backoff"
  /\ watcher' = IF cancelled THEN "stopped" ELSE "dial"
  /\ UNCHANGED <<quietWatcher, triggers, updates, missed, failures>>

StopWatching ==
  /\ watcher \in {"idle", "backoff"}
  /\ cancelled
  /\ watcher' = "stopped"
  /\ UNCHANGED <<quietWatcher, triggers, updates, missed, failures>>

(***************************************************************************)
(* The ticker, the mailbox and the operating system.                       *)
(***************************************************************************)
Tick ==
  /\ ~ticked
  /\ main # "stopped"
  /\ ticked' = TRUE
  /\ UNCHANGED <<main, watcher, triggers, updates, cancelled, ioState, failures>>

(* The handler of the connection does not block either.                    *)
MailboxChange ==
  /\ main # "stopped"
  /\ changes < MaxChanges
  /\ changes' = changes + 1
  /\ unsynced' = TRUE
  /\ missed' = (missed \/ ~Connected)
  /\ updates' = IF Connected THEN 1 ELSE updates
  /\ UNCHANGED <<main, watcher, triggers, ticked, cancelled, failures>>

Cancel ==
  /\ main # "stopped"
  /\ ~cancelled
  /\ cancelled' = TRUE
  /\ UNCHANGED <<main, watcher, triggers, updates, ticked, ioState, failures>>

MainStep == SendFirst \/ TakeTick \/ TakeTrigger \/ DebounceOver \/ Drain \/ BeginSync \/ EndSync \/ Stop

WatcherStep == Dial \/ StartIdle \/ TakeUpdate \/ IdleClosed \/ Notify \/ Reconnect \/ StopWatching

Next == MainStep \/ WatcherStep \/ Disconnect \/ Tick \/ MailboxChange \/ Cancel

Spec == Init /\ [][Next]_vars

(* Goroutines run; Go's select takes each of several ready cases sooner or *)
(* later.  The interval of the ticker is finite, but WakeSpec does without *)
(* it, to see what the watcher achieves alone.                             *)
WakeSpec ==
  /\ Spec
  /\ WF_vars(MainStep) /\ SF_vars(TakeTrigger) /\ SF_vars(Stop)
  /\ WF_vars(WatcherStep)

TickerRuns == WF_vars(Tick) /\ SF_vars(TakeTick)

FairSpec == WakeSpec /\ TickerRuns

(***************************************************************************)
(* Properties.                                                             *)
(***************************************************************************)
TypeOK ==
  /\ main \in {"start", "select", "debounce", "drain", "begin", "sync", "stopped"}
  /\ watcher \in {"dial", "ready", "idle", "closing", "notify", "backoff", "stopped"}
  /\ triggers \in {0, 1} /\ updates \in {0, 1}
  /\ ticked \in BOOLEAN /\ cancelled \in BOOLEAN /\ unsynced \in BOOLEAN /\ missed \in BOOLEAN
  /\ changes \in 0..MaxChanges /\ failures \in 0..MaxFailures

(* No wakeup is lost: while a change waits for its run, some channel or    *)
(* goroutine still holds it, although both sends drop values and the main  *)
(* loop throws values away (main.go:163-165, mail_transport.go:204-207,    *)
(* 248-251).                                                               *)
WakeupKept ==
  unsynced /\ ~missed /\ ~cancelled =>
    \/ updates = 1 \/ watcher \in {"closing", "notify"}
    \/ triggers = 1 \/ main \in {"start", "debounce", "drain", "begin"}

(* The program has got past the first send (main.go:144).                  *)
Started == main # "start"

(* A change the watcher has been told of is followed by a run, without the *)
(* help of the ticker, unless the watcher loses its connection first.      *)
ChangeIsSynced ==
  Started /\ unsynced /\ ~missed ~> ~unsynced \/ missed \/ cancelled

(* Every change is followed by a run, the missed ones thanks to the ticker *)
(* (main.go:149-152).                                                      *)
EveryChangeSynced == TickerRuns => (Started /\ unsynced ~> ~unsynced \/ cancelled)

(* A signal ends the program once it has started (main.go:147, 157).       *)
ShutsDown == Started /\ cancelled ~> main = "stopped"

(* "performs a bounded periodic fallback sync" (README.md:73): a run       *)
(* starts, unless the program is told to stop.                             *)
FallbackSync == <>(main = "sync" \/ cancelled)
=============================================================================
