-------------------------- MODULE MCDedicatedSession --------------------------
(* Instances of DedicatedSession. *)
EXTENDS DedicatedSession, TLC

StageOfEvent == (DaemonEvent :> DaemonStage) @@ (HealthEvent :> LockStage)

\* Herdr and the probe play no part in a dedicated session.
DirectConfigs == {[mode |-> "dedicated-gateway", target |-> "direct", supported |-> TRUE,
  herdr |-> FALSE, stopMain |-> FALSE, removeMain |-> TRUE, removeProbe |-> FALSE]}
=============================================================================
