----------------------------- MODULE CpuThrottle -----------------------------
(***************************************************************************)
(* CpuThrottleState of throttle.rs: the SIGSTOP/SIGCONT governor that      *)
(* --cpu-percent attaches to the child.  What the CPU accounting says at a *)
(* sample is an input (over): this module is about the stop flag and the   *)
(* signals.  Every operation is a pair of operators, one for the state and *)
(* one for the process it signals.                                         *)
(***************************************************************************)
EXTENDS ChildProcess

Throttle == [on        : BOOLEAN,   \* throttle_ctx is Some
             suspended : BOOLEAN,   \* we have sent SIGSTOP
             exited    : BOOLEAN,   \* process_exited
             start     : Nat]       \* start_wall_ns

Detached == [on |-> FALSE, suspended |-> FALSE, exited |-> FALSE, start |-> 0]
Attached(now) == [Detached EXCEPT !.on = TRUE, !.start = now]

-----------------------------------------------------------------------------
\* mutation: resume() takes the child for running whatever the flag says
resume_signals_never(t) == FALSE

resume_signals(t) == t.suspended /\ ~ t.exited

\* resume(), and Drop, which is resume(): the flag is cleared whether or not
\* kill(SIGCONT) succeeded, and between processes of a session it succeeds
resume(p, t) == IF resume_signals(t) THEN sigcont(p) ELSE p
resumed(t)   == IF resume_signals(t) THEN [t EXCEPT !.suspended = FALSE] ELSE t

\* mutation: the state is not told that the child is dead
mark_nothing(t) == t

mark_process_exited(t) ==
  IF t.on THEN [t EXCEPT !.exited = TRUE, !.suspended = FALSE] ELSE t

-----------------------------------------------------------------------------
\* Whether proc_pid_rusage(pid) finds a process: a running child always; for
\* a dead one it depends on whether it died before or after the sample, and
\* on who has the pid now
Samples(p) == IF Running(p) THEN {TRUE} ELSE BOOLEAN

\* update(): no verdict on the first call, when no wall time has passed
MustStop(t, over, now) == over /\ now > t.start /\ ~ t.suspended
MustCont(t, over, now) == ~ over /\ now > t.start /\ t.suspended

update(p, t, seen, over, now) ==
  IF ~ seen THEN p
  ELSE IF MustStop(t, over, now) THEN sigstop(p)
  ELSE IF MustCont(t, over, now) THEN sigcont(p)
  ELSE p

updated(t, seen, over, now) ==
  IF ~ seen THEN [t EXCEPT !.exited = TRUE, !.suspended = FALSE]
  ELSE IF MustStop(t, over, now) THEN [t EXCEPT !.suspended = TRUE]
  ELSE IF MustCont(t, over, now) THEN [t EXCEPT !.suspended = FALSE]
  ELSE t
=============================================================================
