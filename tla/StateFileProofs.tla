-------------------------- MODULE StateFileProofs ---------------------------
(***************************************************************************)
(* The state file is sound for any number of processes and of versions.    *)
(***************************************************************************)
EXTENDS StateFile, TLAPS

(* Everything rests on the lock: whoever runs holds it.                    *)
RunningHoldsLock == \A p \in Processes : step[p] # "off" => lock = p

(* What the next steps of a Save rely on.                                  *)
SavingSound ==
  \A p \in Processes :
    /\ step[p] \in Saving => held[p] < MaxVersion
    /\ step[p] \in {"sync", "close", "rename"} => temp[p] = held[p] + 1
    /\ step[p] \in {"close", "rename"} => p \in flushed

IInv ==
  /\ TypeOK /\ RunningHoldsLock /\ SavingSound
  /\ AlwaysDecodes /\ HeldIsCurrent
  /\ file \in onDisk
  /\ \A v \in onDisk : v <= file

(* One process's step leaves the others off.                               *)
LEMMA OthersOff ==
  ASSUME IInv, NEW p \in Processes, lock = p \/ lock = NoOne, NEW q \in Processes, q # p
  PROVE  step[q] = "off"
BY FileAssumption DEF IInv, RunningHoldsLock

LEMMA InitIInv == Init => IInv
<1> SUFFICES ASSUME Init PROVE IInv
  OBVIOUS
<1>1. litter \in BOOLEAN
  BY Zenon DEF Init
<1>2. TypeOK
  BY <1>1, FileAssumption DEF Init, TypeOK, Torn, NoTemp
<1> QED BY <1>2 DEF Init, IInv, RunningHoldsLock, SavingSound, AlwaysDecodes, HeldIsCurrent, Saving, Torn

LEMMA StepIInv == IInv /\ [Next]_vars => IInv'
<1> SUFFICES ASSUME IInv, [Next]_vars PROVE IInv'
  OBVIOUS
<1> USE FileAssumption
    DEF IInv, TypeOK, RunningHoldsLock, SavingSound, AlwaysDecodes, HeldIsCurrent, Saving, Torn,
        NoTemp, GoTo, diskVars
<1>1. CASE PowerLoss
  <2>1. /\ lock' = NoOne /\ file' \in onDisk /\ onDisk' = {file'}
        /\ step' = [p \in Processes |-> "off"] /\ temp' = [p \in Processes |-> NoTemp]
        /\ held' = [p \in Processes |-> 0] /\ flushed' = {} /\ acked' = file' /\ synced' = file'
    BY <1>1 DEF PowerLoss
  <2>2. litter' \in BOOLEAN
    BY <1>1, Zenon DEF PowerLoss
  <2>3. \A p \in Processes : step'[p] = "off"
    BY <2>1
  <2>4. file' \in 0..MaxVersion /\ onDisk' = {file'}
    BY <2>1
  <2>5. TypeOK'
    BY <2>1, <2>2, <2>4
  <2>6. RunningHoldsLock' /\ SavingSound' /\ HeldIsCurrent'
    BY <2>3
  <2>7. (AlwaysDecodes /\ file \in onDisk /\ \A v \in onDisk : v <= file)'
    BY <2>4
  <2> QED BY <2>5, <2>6, <2>7
<1>2. ASSUME NEW p \in Processes, Start(p) PROVE IInv'
  BY <1>2 DEF Start
<1>3. ASSUME NEW p \in Processes, Load(p) PROVE IInv'
  BY <1>3 DEF Load
<1>4. ASSUME NEW p \in Processes, SyncEnds(p) PROVE IInv'
  BY <1>4 DEF SyncEnds
<1>5. ASSUME NEW p \in Processes, Exit(p) PROVE IInv'
  BY <1>5 DEF Exit
<1>6. ASSUME NEW p \in Processes, Create(p) PROVE IInv'
  BY <1>6 DEF Create
<1>7. ASSUME NEW p \in Processes, Encode(p) PROVE IInv'
  BY <1>7 DEF Encode
<1>8. ASSUME NEW p \in Processes, Sync(p) PROVE IInv'
  BY <1>8 DEF Sync
<1>9. ASSUME NEW p \in Processes, Close(p) PROVE IInv'
  BY <1>9 DEF Close
<1>10. ASSUME NEW p \in Processes, Rename(p) PROVE IInv'
  <2>1. /\ step[p] = "rename" /\ p \in flushed /\ temp[p] = held[p] + 1 /\ held[p] < MaxVersion
        /\ lock = p /\ \A q \in Processes : q # p => step[q] = "off"
    BY <1>10, OthersOff DEF Rename
  <2>2. file' = held[p] + 1 /\ onDisk' = onDisk \union {held[p] + 1} /\ held[p] + 1 \in 1..MaxVersion
    BY <1>10, <2>1 DEF Rename
  <2>3. UNCHANGED <<lock, held, acked, synced, litter>> /\ flushed' = flushed \ {p}
    BY <1>10 DEF Rename
  <2>4. /\ temp' = [temp EXCEPT ![p] = NoTemp]
        /\ step' = [step EXCEPT ![p] = "syncdir"]
    BY <1>10 DEF Rename
  <2>5. TypeOK'
    <3>1. (litter \in BOOLEAN)'
      BY <2>3, Zenon
    <3>2. (step \in [Processes -> {"off", "idle", "loaded"} \union Saving])'
      BY <2>4
    <3>3. (temp \in [Processes -> {NoTemp, Torn} \union 1..MaxVersion])'
      BY <2>4
    <3>4. (file \in {Torn} \union 0..MaxVersion /\ onDisk \in SUBSET ({Torn} \union 0..MaxVersion))'
      <4>1. held[p] + 1 \in 0..MaxVersion
        BY <2>2
      <4> QED BY <2>2, <4>1
    <3>5. (/\ lock \in Processes \union {NoOne} /\ held \in [Processes -> 0..MaxVersion]
           /\ flushed \in SUBSET Processes /\ acked \in 0..MaxVersion /\ synced \in 0..MaxVersion)'
      BY <2>3
    <3> QED BY <3>1, <3>2, <3>3, <3>4, <3>5, Zenon
  <2>6. RunningHoldsLock' /\ SavingSound'
    BY <2>1, <2>3, <2>4
  <2>7. AlwaysDecodes' /\ HeldIsCurrent' /\ (file \in onDisk /\ \A v \in onDisk : v <= file)'
    BY <2>1, <2>2, <2>3, <2>4
  <2> QED BY <2>5, <2>6, <2>7
<1>11. ASSUME NEW p \in Processes, SyncDirectory(p) PROVE IInv'
  <2>1. /\ step[p] = "syncdir" /\ UNCHANGED <<lock, temp, flushed, file, litter>>
        /\ step' = [step EXCEPT ![p] = "loaded"] /\ held' = [held EXCEPT ![p] = held[p] + 1]
        /\ acked' = held[p] + 1
        /\ \/ onDisk' = {file} /\ synced' = held[p] + 1
           \/ UNCHANGED <<onDisk, synced>>
    BY <1>11, Zenon DEF SyncDirectory
  <2>2. file = held[p] + 1 /\ held[p] + 1 \in 0..MaxVersion /\ lock = p
    BY <2>1
  <2>3. (litter \in BOOLEAN)'
    BY <2>1, Zenon
  <2>4. (onDisk \in SUBSET ({Torn} \union 0..MaxVersion) /\ synced \in 0..MaxVersion)'
    BY <2>1, <2>2
  <2>5. TypeOK'
    BY <2>1, <2>2, <2>3, <2>4
  <2>6. RunningHoldsLock' /\ SavingSound' /\ HeldIsCurrent'
    BY <2>1, <2>2, OthersOff
  <2>7. (AlwaysDecodes /\ file \in onDisk /\ \A v \in onDisk : v <= file)'
    BY <2>1, <2>2
  <2> QED BY <2>5, <2>6, <2>7
<1>12. ASSUME NEW p \in Processes, SaveFails(p) PROVE IInv'
  <2>1. litter' \in BOOLEAN
    BY <1>12, Zenon DEF SaveFails
  <2>2. /\ step[p] # "off" /\ step' = [step EXCEPT ![p] = "idle"]
        /\ temp' = [temp EXCEPT ![p] = NoTemp] /\ held' = [held EXCEPT ![p] = 0]
        /\ flushed' = flushed \ {p} /\ UNCHANGED <<lock, file, onDisk, acked, synced>>
    BY <1>12 DEF SaveFails
  <2>3. TypeOK'
    BY <2>1, <2>2
  <2> QED BY <2>2, <2>3
<1>13. ASSUME NEW p \in Processes, Kill(p) PROVE IInv'
  BY <1>13 DEF Kill
<1>14. CASE UNCHANGED vars
  BY <1>14 DEF vars, processVars
<1> QED BY <1>1, <1>2, <1>3, <1>4, <1>5, <1>6, <1>7, <1>8, <1>9, <1>10, <1>11, <1>12, <1>13, <1>14
        DEF Next, ProcessStep

LEMMA Invariant == Spec => []IInv
BY InitIInv, StepIInv, PTL DEF Spec

(* The lock, the versions and the temporary files are what they should be. *)
THEOREM FileTypes == Spec => []TypeOK
<1>1. IInv => TypeOK
  BY DEF IInv
<1> QED BY Invariant, <1>1, PTL

(* Readers of the state path find a whole version at all times.            *)
THEOREM FileAlwaysDecodes == Spec => []AlwaysDecodes
<1>1. IInv => AlwaysDecodes
  BY DEF IInv
<1> QED BY Invariant, <1>1, PTL

(* What a synchronization has loaded is what it replaces.                  *)
THEOREM HeldStaysCurrent == Spec => []HeldIsCurrent
<1>1. IInv => HeldIsCurrent
  BY DEF IInv
<1> QED BY Invariant, <1>1, PTL

(***************************************************************************)
(* Durability: what a Save has synced the directory for.                   *)
(***************************************************************************)
SyncedIsKept == \A v \in onDisk : v >= synced

LEMMA StepDurable ==
  ASSUME IInv, SyncedIsKept, [Next]_vars
  PROVE  SyncedIsKept'
<1> USE FileAssumption DEF IInv, TypeOK, SyncedIsKept, AlwaysDecodes, diskVars, Torn
<1>1. file \in Int /\ synced \in Int /\ onDisk \subseteq Int /\ synced <= file
  OBVIOUS
<1>2. CASE PowerLoss
  BY <1>1, <1>2 DEF PowerLoss
<1>3. ASSUME NEW p \in Processes, Rename(p) PROVE SyncedIsKept'
  <2>1. p \in flushed /\ temp[p] = file + 1
    BY <1>3 DEF Rename, SavingSound, HeldIsCurrent
  <2> QED BY <1>1, <1>3, <2>1 DEF Rename
<1>4. ASSUME NEW p \in Processes, SyncDirectory(p) PROVE SyncedIsKept'
  <2>1. file = held[p] + 1
    BY <1>4 DEF SyncDirectory, HeldIsCurrent
  <2>2. \/ onDisk' = {file} /\ synced' = held[p] + 1
        \/ UNCHANGED <<onDisk, synced>>
    BY <1>4, Zenon DEF SyncDirectory
  <2>3. CASE onDisk' = {file} /\ synced' = held[p] + 1
    BY <1>1, <2>1, <2>3
  <2>4. CASE UNCHANGED <<onDisk, synced>>
    BY <2>4
  <2> QED BY <2>2, <2>3, <2>4
<1>5. ASSUME NEW p \in Processes,
             \/ Start(p) \/ Load(p) \/ SyncEnds(p) \/ Exit(p) \/ Create(p) \/ Encode(p) \/ Sync(p)
             \/ Close(p) \/ SaveFails(p) \/ Kill(p)
      PROVE  SyncedIsKept'
  <2>1. UNCHANGED <<onDisk, synced>>
    BY <1>5 DEF Start, Load, SyncEnds, Exit, Create, Encode, Sync, Close, SaveFails, Kill
  <2> QED BY <2>1
<1>6. CASE UNCHANGED vars
  BY <1>6 DEF vars
<1> QED BY <1>2, <1>3, <1>4, <1>5, <1>6 DEF Next, ProcessStep

(* No power loss brings back a version older than one that a Save has      *)
(* synced the directory for.  A Save whose directory could not be synced   *)
(* returns nil, too, and promises nothing (state.go:109-113).              *)
THEOREM SyncedSavesAreKept == Spec => []SyncedIsKept
<1>1. Init => SyncedIsKept
  BY DEF Init, SyncedIsKept
<1>2. IInv /\ SyncedIsKept /\ [Next]_vars => SyncedIsKept'
  BY StepDurable
<1> QED BY Invariant, <1>1, <1>2, PTL DEF Spec

(***************************************************************************)
(* Refinement: the file is a StateStore.                                   *)
(***************************************************************************)
LEMMA StepStore ==
  ASSUME IInv, SyncedIsKept, [Next]_vars
  PROVE  [Store!Next]_<<file, synced>>
<1> USE FileAssumption DEF IInv, TypeOK, AlwaysDecodes, diskVars, Torn
<1>1. CASE PowerLoss
  <2>1. file' \in onDisk /\ synced' = file'
    BY <1>1 DEF PowerLoss
  <2>2. file' \in synced..file
    BY <2>1 DEF SyncedIsKept
  <2> QED BY <2>1, <2>2 DEF Store!Next, Store!PowerLoss
<1>2. ASSUME NEW p \in Processes, Rename(p) PROVE Store!Save
  <2>1. temp[p] = file + 1
    BY <1>2 DEF Rename, SavingSound, HeldIsCurrent
  <2> QED BY <1>2, <2>1 DEF Rename, Store!Save
<1>3. ASSUME NEW p \in Processes, SyncDirectory(p) PROVE Store!Kept \/ UNCHANGED <<file, synced>>
  BY <1>3 DEF SyncDirectory, HeldIsCurrent, Store!Kept
<1>4. ASSUME NEW p \in Processes,
             \/ Start(p) \/ Load(p) \/ SyncEnds(p) \/ Exit(p) \/ Create(p) \/ Encode(p) \/ Sync(p)
             \/ Close(p) \/ SaveFails(p) \/ Kill(p)
      PROVE  UNCHANGED <<file, synced>>
  BY <1>4 DEF Start, Load, SyncEnds, Exit, Create, Encode, Sync, Close, SaveFails, Kill
<1>5. CASE UNCHANGED vars
  BY <1>5 DEF vars
<1> QED BY <1>1, <1>2, <1>3, <1>4, <1>5 DEF Next, ProcessStep, Store!Next

(* The service may take the file for a register whose versions follow each *)
(* other and are kept once the directory is synced.                        *)
THEOREM ImplementsStore == Spec => StoreSpec
<1>1. Init => Store!Init
  BY DEF Init, Store!Init
<1>2. IInv /\ SyncedIsKept /\ [Next]_vars => [Store!Next]_<<file, synced>>
  BY StepStore
<1> QED BY Invariant, SyncedSavesAreKept, <1>1, <1>2, PTL DEF Spec, StoreSpec, Store!Spec
=============================================================================
