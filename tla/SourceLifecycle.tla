---------------------------- MODULE SourceLifecycle ----------------------------
(***************************************************************************)
(* What the supervisor promises about the life of an external source, as   *)
(* the operator sees it:                                                   *)
(*   up        its adapter runs;                                           *)
(*   stopping  the adapter was told to shut down and will be restarted;    *)
(*   killing   the operator killed it, the adapter is shutting down;       *)
(*   backoff   no process, a restart is scheduled;                         *)
(*   down      no process and no restart scheduled.                        *)
(* Several sources may move in one step, each along an arrow below.        *)
(***************************************************************************)
CONSTANT Sources

VARIABLE mode

Modes == {"up", "stopping", "killing", "backoff", "down"}

TypeOK == mode \in [Sources -> Modes]

Init == mode \in [Sources -> {"up", "down"}]

\* The adapter is told to shut down by a watchdog or by Reboot.
Stop(s) == mode[s] \in {"up", "stopping"} /\ mode'[s] = "stopping"

\* The operator kills the source; a scheduled restart is cancelled.
Kill(s) ==
  \/ mode[s] \in {"up", "stopping", "killing"} /\ mode'[s] = "killing"
  \/ mode[s] = "backoff" /\ mode'[s] = "down"

\* The process is gone: a killed source stays down, any other is restarted.
Reap(s) ==
  \/ mode[s] \in {"up", "stopping"} /\ mode'[s] = "backoff"
  \/ mode[s] = "killing" /\ mode'[s] = "down"

\* The operator asks for the source again.
Reboot(s) ==
  \/ mode[s] = "down" /\ mode'[s] = "backoff"
  \/ mode[s] = "killing" /\ mode'[s] = "stopping"

\* The backoff is over; the respawn may fail, and then nobody tries again.
Respawn(s) == mode[s] = "backoff" /\ mode'[s] \in {"up", "down"}

Move(s) == Stop(s) \/ Kill(s) \/ Reap(s) \/ Reboot(s) \/ Respawn(s)

Next ==
  /\ mode' \in [Sources -> Modes]
  /\ \A s \in Sources : mode'[s] = mode[s] \/ Move(s)

\* The program ends.
Quit == mode' = [s \in Sources |-> "down"]

Spec == Init /\ [][Next \/ Quit]_mode
================================================================================
