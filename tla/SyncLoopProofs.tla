--------------------------- MODULE SyncLoopProofs ---------------------------
(***************************************************************************)
(* No wakeup of the main loop is lost, for every number of mailbox changes *)
(* and of connection failures.                                             *)
(***************************************************************************)
EXTENDS SyncLoop, TLAPS

(* WakeupKept is not inductive alone: a new connection starts with an      *)
(* empty channel, so nothing may be waiting in it before.                  *)
UpdatesConnected == updates = 1 => Connected \/ cancelled

IInv == TypeOK /\ UpdatesConnected /\ WakeupKept

LEMMA InitIInv == Init => IInv
<1> SUFFICES ASSUME Init PROVE IInv
  OBVIOUS
<1>1. TypeOK
  <2>1. ticked \in BOOLEAN /\ cancelled \in BOOLEAN /\ unsynced \in BOOLEAN /\ missed \in BOOLEAN
    BY Zenon DEF Init
  <2> QED BY <2>1, LoopAssumption DEF Init, TypeOK
<1> QED BY <1>1 DEF Init, IInv, UpdatesConnected, WakeupKept

LEMMA StepIInv == IInv /\ [Next]_vars => IInv'
<1> SUFFICES ASSUME IInv, [Next]_vars PROVE IInv'
  OBVIOUS
<1> USE LoopAssumption
        DEF IInv, TypeOK, UpdatesConnected, WakeupKept, Connected, quietMain, quietWatcher, ioState
<1>1. CASE SendFirst
  BY <1>1 DEF SendFirst
<1>2. CASE TakeTick
  BY <1>2 DEF TakeTick
<1>3. CASE TakeTrigger
  BY <1>3 DEF TakeTrigger
<1>4. CASE DebounceOver
  BY <1>4 DEF DebounceOver
<1>5. CASE Drain
  BY <1>5 DEF Drain
<1>6. CASE BeginSync
  BY <1>6 DEF BeginSync
<1>7. CASE EndSync
  BY <1>7 DEF EndSync
<1>8. CASE Stop
  BY <1>8 DEF Stop
<1>9. CASE Dial
  BY <1>9 DEF Dial
<1>10. CASE StartIdle
  BY <1>10 DEF StartIdle
<1>11. CASE TakeUpdate
  BY <1>11 DEF TakeUpdate
<1>12. CASE IdleClosed
  BY <1>12 DEF IdleClosed
<1>13. CASE Notify
  BY <1>13 DEF Notify
<1>14. CASE Disconnect
  BY <1>14 DEF Disconnect
<1>15. CASE Reconnect
  BY <1>15 DEF Reconnect
<1>16. CASE StopWatching
  <2>1. watcher' = "stopped"
    BY <1>16 DEF StopWatching
  <2>2. UNCHANGED <<main, triggers, updates, ticked, cancelled, unsynced, missed, changes, failures>>
    BY <1>16 DEF StopWatching
  <2>3. cancelled
    BY <1>16, Zenon DEF StopWatching
  <2>4. TypeOK'
    BY <2>1, <2>2
  <2>5. WakeupKept'
    BY <2>2, <2>3, Zenon
  <2>6. UpdatesConnected'
    BY <2>2, <2>3, Zenon
  <2> QED BY <2>4, <2>5, <2>6
<1>17. CASE Tick
  <2>1. ticked' \in BOOLEAN
    BY <1>17, Zenon DEF Tick
  <2>2. UNCHANGED <<main, watcher, triggers, updates, cancelled, unsynced, missed, changes, failures>>
    BY <1>17 DEF Tick
  <2> QED BY <2>1, <2>2
<1>18. CASE MailboxChange
  <2>1. unsynced' /\ unsynced' \in BOOLEAN /\ missed' \in BOOLEAN
    BY <1>18, Zenon DEF MailboxChange
  <2>2. ~missed' => Connected
    BY <1>18, Zenon DEF MailboxChange
  <2>3. Connected => updates' = 1
    BY <1>18 DEF MailboxChange
  <2>4. ~Connected => updates' = updates
    BY <1>18 DEF MailboxChange
  <2>5. UNCHANGED <<main, watcher, triggers, ticked, cancelled, failures>> /\ changes' \in 0..MaxChanges
    BY <1>18 DEF MailboxChange
  <2>6. TypeOK'
    BY <2>1, <2>3, <2>4, <2>5
  <2>7. UpdatesConnected'
    BY <2>3, <2>4, <2>5
  <2>8. WakeupKept'
    BY <2>2, <2>3, Zenon
  <2> QED BY <2>6, <2>7, <2>8
<1>19. CASE Cancel
  <2>1. cancelled' /\ cancelled' \in BOOLEAN
    BY <1>19, Zenon DEF Cancel
  <2>2. UNCHANGED <<main, watcher, triggers, updates, ticked, unsynced, missed, changes, failures>>
    BY <1>19 DEF Cancel
  <2> QED BY <2>1, <2>2
<1>20. CASE UNCHANGED vars
  BY <1>20 DEF vars
<1> QED BY <1>1, <1>2, <1>3, <1>4, <1>5, <1>6, <1>7, <1>8, <1>9, <1>10, <1>11, <1>12, <1>13,
           <1>14, <1>15, <1>16, <1>17, <1>18, <1>19, <1>20
        DEF Next, MainStep, WatcherStep

(* Neither channel ever holds more than its capacity of one value.         *)
THEOREM LoopTypes == Spec => []TypeOK
<1>1. IInv => TypeOK
  BY DEF IInv
<1> QED BY InitIInv, StepIInv, <1>1, PTL DEF Spec

(* A change the watcher was told of is held by a channel or a goroutine    *)
(* until the run that covers it begins.                                    *)
THEOREM WakeupIsKept == Spec => []WakeupKept
<1>1. IInv => WakeupKept
  BY DEF IInv
<1> QED BY InitIInv, StepIInv, <1>1, PTL DEF Spec
=============================================================================
