------------------------------ MODULE EgressLease ------------------------------
(***************************************************************************)
(* What egressguard.EgressGuard promises in dedicated-gateway mode, without *)
(* the commands it takes: sandboxd carries the dedicated upstream only      *)
(* under a held lease; a lease is fenced only when that daemon is gone, and *)
(* given back only fenced, with a normal daemon running.  A daemon may die, *)
(* and anybody's `sbx` command starts a normal one, at any time.            *)
(***************************************************************************)
VARIABLES lease,  \* "idle", "held" or "fenced"
          daemon  \* the sandboxd that answers: "none", "normal" or "owned"

egressVars == <<lease, daemon>>

LeaseSpecInit == lease = "idle" /\ daemon \in {"none", "normal"}

\* Acquire stops whichever daemon runs.
Take == lease = "idle" /\ lease' = "held" /\ daemon' = "none"

\* The daemon with the dedicated upstream comes up, beside no other.
Serve == lease = "held" /\ daemon = "none" /\ daemon' = "owned" /\ UNCHANGED lease

Fence == lease = "held" /\ daemon # "owned" /\ lease' = "fenced" /\ UNCHANGED daemon

Recover == lease = "fenced" /\ lease' = "idle" /\ daemon' = "normal"

\* A daemon ends, stopped or not; a normal one starts where there is none.
DaemonLost == daemon' = "none" /\ UNCHANGED lease

DaemonStarts == daemon = "none" /\ daemon' = "normal" /\ UNCHANGED lease

LeaseSpecNext == Take \/ Serve \/ Fence \/ Recover \/ DaemonLost \/ DaemonStarts

LeaseSpec == LeaseSpecInit /\ [][LeaseSpecNext]_egressVars
=============================================================================
