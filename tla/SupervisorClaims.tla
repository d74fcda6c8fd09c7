--------------------------- MODULE SupervisorClaims ---------------------------
(***************************************************************************)
(* What a comment says of the supervisor and the code does not do.         *)
(***************************************************************************)
EXTENDS MCSupervisor

\* supervisor.rs:53, of AdapterState::Restarting: "Waiting for the backoff
\* delay to expire before the next spawn attempt."  A source in that state has
\* a next attempt scheduled.
RestartingIsScheduled ==
  \A s \in Sources :
    pc = "idle" /\ status[s].state = "Restarting" => pending[s] # None
===============================================================================
