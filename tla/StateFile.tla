----------------------------- MODULE StateFile ------------------------------
(***************************************************************************)
(* The file behind the delivery ledger: message2mail processes that share  *)
(* a state path take its lock, load the state and replace the file step by *)
(* step, while processes are killed and the machine loses power.           *)
(*                                                                         *)
(* A version of the state is its number: each Save writes the successor of *)
(* what the process holds, so two processes that write from one loaded     *)
(* version write the same number, and one of the two updates is lost.      *)
(***************************************************************************)
EXTENDS Integers

CONSTANTS
  Processes,      \* message2mail processes started with the same -state-file
  NoOne,          \* holder of a free lock
  MaxVersion      \* bound on the number of versions

ASSUME FileAssumption == NoOne \notin Processes /\ MaxVersion \in Nat

Torn == -1        \* an empty or incomplete file, which Load cannot decode
NoTemp == -2

VARIABLES
  lock,      \* holder of the flock on <state path>.lock
  step,      \* what each process is about to do
  held,      \* the version each process has in memory
  temp,      \* what each process's temporary file holds
  flushed,   \* processes whose temporary file has been synced to the disk
  file,      \* what a reader of the state path finds
  onDisk,    \* what may be found there after a power loss
  acked,     \* history: the last version whose Save returned nil, or that was found again
  synced,    \* history: the last version that is on the disk for certain
  litter     \* temporary files of killed processes are left in the directory

processVars == <<lock, step, held>>
diskVars == <<file, onDisk, acked, synced>>
vars == <<processVars, temp, flushed, diskVars, litter>>

Init ==
  /\ lock = NoOne
  /\ step = [p \in Processes |-> "off"]
  /\ held = [p \in Processes |-> 0]
  /\ temp = [p \in Processes |-> NoTemp]
  /\ flushed = {}
  /\ file = 0
  /\ onDisk = {0}
  /\ acked = 0
  /\ synced = 0
  /\ litter = FALSE

GoTo(p, s) == step' = [step EXCEPT ![p] = s]

(***************************************************************************)
(* A process takes the lock for its lifetime and runs synchronizations.    *)
(***************************************************************************)

(* Mutation: a process whose lock is refused goes on. *)
StartAnyway(p) ==
  /\ step[p] = "off"
  /\ lock' = IF lock = NoOne THEN p ELSE lock
  /\ GoTo(p, "idle")
  /\ UNCHANGED <<held, temp, flushed, diskVars, litter>>

Start(p) ==
  /\ step[p] = "off"
  /\ lock = NoOne
  /\ lock' = p
  /\ GoTo(p, "idle")
  /\ UNCHANGED <<held, temp, flushed, diskVars, litter>>

(* A file that does not decode ends the synchronization.                   *)
Load(p) ==
  /\ step[p] = "idle"
  /\ file # Torn
  /\ held' = [held EXCEPT ![p] = file]
  /\ GoTo(p, "loaded")
  /\ UNCHANGED <<lock, temp, flushed, diskVars, litter>>

SyncEnds(p) ==
  /\ step[p] = "loaded"
  /\ GoTo(p, "idle")
  /\ held' = [held EXCEPT ![p] = 0]
  /\ UNCHANGED <<lock, temp, flushed, diskVars, litter>>

Exit(p) ==
  /\ step[p] = "idle"
  /\ lock' = NoOne
  /\ GoTo(p, "off")
  /\ UNCHANGED <<held, temp, flushed, diskVars, litter>>

(***************************************************************************)
(* FileStateStore.Save.                                                    *)
(***************************************************************************)
Create(p) ==
  /\ step[p] = "loaded"
  /\ held[p] < MaxVersion
  /\ temp' = [temp EXCEPT ![p] = Torn]
  /\ flushed' = flushed \ {p}
  /\ GoTo(p, "encode")
  /\ UNCHANGED <<lock, held, diskVars, litter>>

(* Mutation: the state before the update is written. *)
EncodeOld(p) ==
  /\ step[p] = "encode"
  /\ temp' = [temp EXCEPT ![p] = held[p]]
  /\ GoTo(p, "sync")
  /\ UNCHANGED <<lock, held, flushed, diskVars, litter>>

Encode(p) ==
  /\ step[p] = "encode"
  /\ temp' = [temp EXCEPT ![p] = held[p] + 1]
  /\ GoTo(p, "sync")
  /\ UNCHANGED <<lock, held, flushed, diskVars, litter>>

(* Mutation: the temporary file is not synced. *)
SkipSync(p) ==
  /\ step[p] = "sync"
  /\ GoTo(p, "close")
  /\ UNCHANGED <<lock, held, temp, flushed, diskVars, litter>>

Sync(p) ==
  /\ step[p] = "sync"
  /\ flushed' = flushed \union {p}
  /\ GoTo(p, "close")
  /\ UNCHANGED <<lock, held, temp, diskVars, litter>>

Close(p) ==
  /\ step[p] = "close"
  /\ GoTo(p, "rename")
  /\ UNCHANGED <<lock, held, temp, flushed, diskVars, litter>>

(* The new name is seen at once, but is on the disk only later.            *)
Rename(p) ==
  /\ step[p] = "rename"
  /\ file' = temp[p]
  /\ onDisk' = onDisk \union {IF p \in flushed THEN temp[p] ELSE Torn}
  /\ temp' = [temp EXCEPT ![p] = NoTemp]
  /\ flushed' = flushed \ {p}
  /\ GoTo(p, "syncdir")
  /\ UNCHANGED <<lock, held, acked, synced, litter>>

(* Errors of the directory are ignored: Save returns nil either way.       *)
SyncDirectory(p) ==
  /\ step[p] = "syncdir"
  /\ \/ onDisk' = {file} /\ synced' = held[p] + 1
     \/ UNCHANGED <<onDisk, synced>>
  /\ held' = [held EXCEPT ![p] = held[p] + 1]
  /\ acked' = held[p] + 1
  /\ GoTo(p, "loaded")
  /\ UNCHANGED <<lock, temp, flushed, file, litter>>

(* Each step up to the rename may fail.  The temporary file is removed, if *)
(* that does not fail too, and the error ends the synchronization.         *)
SaveFails(p) ==
  /\ step[p] \in {"encode", "sync", "close", "rename"}
  /\ temp' = [temp EXCEPT ![p] = NoTemp]
  /\ litter' \in {litter, TRUE}
  /\ GoTo(p, "idle")
  /\ held' = [held EXCEPT ![p] = 0]
  /\ flushed' = flushed \ {p}
  /\ UNCHANGED <<lock, diskVars>>

(***************************************************************************)
(* The environment.                                                        *)
(***************************************************************************)

(* The kernel releases the lock of a process that dies.                    *)
Kill(p) ==
  /\ step[p] # "off"
  /\ lock' = NoOne
  /\ temp' = [temp EXCEPT ![p] = NoTemp]
  /\ litter' = (litter \/ temp[p] # NoTemp)
  /\ GoTo(p, "off")
  /\ held' = [held EXCEPT ![p] = 0]
  /\ flushed' = flushed \ {p}
  /\ UNCHANGED diskVars

(* What is found after a power loss stands on the disk.                    *)
PowerLoss ==
  /\ lock' = NoOne
  /\ step' = [p \in Processes |-> "off"]
  /\ temp' = [p \in Processes |-> NoTemp]
  /\ litter' \in {litter, litter \/ \E p \in Processes : temp[p] # NoTemp}
  /\ file' \in onDisk
  /\ onDisk' = {file'}
  /\ synced' = file'
  /\ acked' = file'
  /\ held' = [p \in Processes |-> 0]
  /\ flushed' = {}

ProcessStep(p) ==
  \/ Start(p) \/ Load(p) \/ SyncEnds(p) \/ Exit(p)
  \/ Create(p) \/ Encode(p) \/ Sync(p) \/ Close(p) \/ Rename(p) \/ SyncDirectory(p) \/ SaveFails(p)

Next == PowerLoss \/ \E p \in Processes : ProcessStep(p) \/ Kill(p)

Spec == Init /\ [][Next]_vars

(***************************************************************************)
(* Properties.                                                             *)
(***************************************************************************)
Saving == {"encode", "sync", "close", "rename", "syncdir"}

TypeOK ==
  /\ lock \in Processes \union {NoOne}
  /\ step \in [Processes -> {"off", "idle", "loaded"} \union Saving]
  /\ held \in [Processes -> 0..MaxVersion]
  /\ temp \in [Processes -> {NoTemp, Torn} \union 1..MaxVersion]
  /\ flushed \in SUBSET Processes
  /\ file \in {Torn} \union 0..MaxVersion
  /\ onDisk \in SUBSET ({Torn} \union 0..MaxVersion)
  /\ acked \in 0..MaxVersion
  /\ synced \in 0..MaxVersion
  /\ litter \in BOOLEAN

(* No reader ever finds a file it cannot decode, whichever step of Save    *)
(* was the last before a failure, a kill or a power loss.                  *)
AlwaysDecodes == file # Torn /\ Torn \notin onDisk

(* A synchronization decides on the state that is in the file: no other    *)
(* process replaces it meanwhile (the lock of main.go:208-226).            *)
HeldIsCurrent ==
  \A p \in Processes :
    /\ step[p] \in {"loaded", "encode", "sync", "close", "rename"} => held[p] = file
    /\ step[p] = "syncdir" => file = held[p] + 1

(* "uses a durable delivery ledger" (README.md:25): a version whose Save   *)
(* returned nil survives a power loss.  It need not where the directory    *)
(* cannot be opened or synced (state.go:109-113).                          *)
SavedIsDurable == \A v \in onDisk : v >= acked

(* The file is the StateStore the service counts on.                       *)
Store == INSTANCE StateStore WITH stored <- file
StoreSpec == Store!Spec
=============================================================================
