---------------------------- MODULE RPCLifecycle ----------------------------
(***************************************************************************)
(* What the RPC server promises over a node's life, without threads.       *)
(*                                                                         *)
(* The server is idle, running, interrupted or stopped, in that order.     *)
(* The command table only grows, and only while the server is not running. *)
(* Warmup ends at most once.  Deadline timers are scheduled by name, one   *)
(* per name, and stopping the server cancels every timer scheduled before  *)
(* it.  A command still running when the server stops may schedule one     *)
(* more: nothing stops RPCRunLater then.                                   *)
(***************************************************************************)
CONSTANTS CommandNames, TimerNames

VARIABLES phase, table, warmup, timers

lcVars == <<phase, table, warmup, timers>>

Init ==
  /\ phase = "idle"
  /\ table \subseteq CommandNames
  /\ warmup = TRUE
  /\ timers = {}

Register(n) ==
  /\ phase # "running"
  /\ table' = table \cup {n}
  /\ UNCHANGED <<phase, warmup, timers>>

Start ==
  /\ phase = "idle"
  /\ phase' = "running"
  /\ UNCHANGED <<table, warmup, timers>>

EndWarmup ==
  /\ warmup
  /\ warmup' = FALSE
  /\ UNCHANGED <<phase, table, timers>>

Interrupt ==
  /\ phase \in {"idle", "running"}
  /\ phase' = "interrupted"
  /\ UNCHANGED <<table, warmup, timers>>

Stop ==
  /\ phase # "stopped"
  /\ phase' = "stopped"
  /\ timers' = {}
  /\ UNCHANGED <<table, warmup>>

Schedule(n) ==
  /\ timers' = timers \cup {n}
  /\ UNCHANGED <<phase, table, warmup>>

\* Rescheduling a timer first cancels the one of that name.
Cancel(n) ==
  /\ timers' = timers \ {n}
  /\ UNCHANGED <<phase, table, warmup>>

Next ==
  \/ Start \/ EndWarmup \/ Interrupt \/ Stop
  \/ \E n \in CommandNames : Register(n)
  \/ \E n \in TimerNames : Schedule(n) \/ Cancel(n)

Spec == Init /\ [][Next]_lcVars
=============================================================================
