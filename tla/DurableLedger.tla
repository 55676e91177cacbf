---------------------------- MODULE DurableLedger ----------------------------
(***************************************************************************)
(* What is left of the ledger's promise when the machine may lose power:   *)
(* the ledger changes as DeliveryLedger says, and a power loss takes back  *)
(* no change whose Save, or a later one, has synced the directory.         *)
(***************************************************************************)
EXTENDS DeliveryLedger

VARIABLES
  kept,     \* the states of the ledger that a power loss may leave
  synced    \* grows when what is kept is made certain

State == [initialized |-> initialized, deliveries |-> deliveries]

DurableInit == Init /\ kept = {State} /\ synced = 0

Change == Next /\ kept' = kept \cup {State'} /\ UNCHANGED synced

SaveSynced == kept' = {State} /\ synced' >= synced /\ UNCHANGED vars

PowerLoss ==
  /\ \E s \in kept : initialized' = s.initialized /\ deliveries' = s.deliveries
  /\ kept' = {State'}
  /\ synced' >= synced
  /\ UNCHANGED arrived

DurableNext == Change \/ SaveSynced \/ PowerLoss

DurableSpec == DurableInit /\ [][DurableNext]_<<vars, kept, synced>>
=============================================================================
