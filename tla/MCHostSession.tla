---------------------------- MODULE MCHostSession ----------------------------
(* Instances of HostSession: every event starts a check of the route. *)
EXTENDS HostSession

AllFromFirst == [source \in Sources |-> RouteStage]
=============================================================================
