----------------------------- MODULE MCSupervisor -----------------------------
(* The Supervisor and the attached command, with a checker of two stages. *)
EXTENDS AttachedSession

AllFromFirst == [source \in EventSources |-> 1]
=============================================================================
