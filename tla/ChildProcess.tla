---------------------------- MODULE ChildProcess ----------------------------
(***************************************************************************)
(* The supervised command as the kernel shows it to the supervisor: a      *)
(* process that runs, may be held by SIGSTOP, has signals it has not acted *)
(* on yet, dies, becomes a zombie and is reaped; after that its pid is the *)
(* kernel's to give away.  A process is a record, and each system call the *)
(* supervisor makes on it is an operator from record to record, so that an *)
(* action can compose the calls of a handler in the handler's order.       *)
(*                                                                         *)
(* With resource limits the child is forked and sets its limits before it  *)
(* calls execvp: until then it runs the supervisor's own signal handler.   *)
(*                                                                         *)
(* stray is a history field: some signal was sent to the pid after the pid *)
(* stopped being this child's.                                             *)
(***************************************************************************)
EXTENDS Integers

CONSTANT Signals   \* termination and forwardable signals, "KILL" included

ASSUME KillIsSignal == "KILL" \in Signals

\* the statuses that are no signal: not known, and exited by itself
ASSUME StatusIsNoSignal == {"none", "code"} \cap Signals = {}

ProcState == {"unborn", "running", "zombie", "reaped", "gone"}

\* "code": exited by itself; a signal: killed by it
Status == {"none", "code"} \cup Signals

Proc == [state   : ProcState,
         stopped : BOOLEAN,
         execed  : BOOLEAN,
         pending : SUBSET Signals,
         status  : Status,
         stray   : BOOLEAN]

Unborn == [state |-> "unborn", stopped |-> FALSE, execed |-> FALSE, pending |-> {},
           status |-> "none", stray |-> FALSE]

\* posix_spawnp returns when the command is in place, fork before it is
Spawned(p, forks) == [p EXCEPT !.state = "running", !.execed = ~ forks]

Running(p) == p.state = "running"

\* the pid still names this child: it cannot have been recycled
Owned(p) == p.state \in {"running", "zombie"}

\* kill(pid, sig) and killpg(pid, sig) for a termination signal: a zombie
\* ignores it, a pid that is not the child's any more is someone else's
kill(p, sig) ==
  IF Running(p) THEN [p EXCEPT !.pending = @ \cup {sig}]
  ELSE [p EXCEPT !.stray = @ \/ ~ Owned(p)]

sigstop(p) ==
  IF Running(p) THEN [p EXCEPT !.stopped = TRUE]
  ELSE [p EXCEPT !.stray = @ \/ ~ Owned(p)]

sigcont(p) == [p EXCEPT !.stopped = FALSE, !.stray = @ \/ ~ Owned(p)]

\* RawChild::wait and try_wait when wait4 returns the child: it is reaped
\* exactly once, afterwards RawChild.exited makes both return ECHILD
CanReap(p) == p.state = "zombie"

\* mutation: the status is read and the zombie left in the process table
wait_without_reaping(p) == p

wait(p) == [p EXCEPT !.state = "reaped"]

\* mutation: a child reaped elsewhere looks like one that still runs
echild_never(p) == FALSE

echild(p) == p.state \in {"reaped", "gone"}

-----------------------------------------------------------------------------
(* What the command itself may do.                                         *)

\* setpgid and setrlimit are done: execvp replaces the image and with it the
\* inherited handlers
CanExec(p) == Running(p) /\ ~ p.execed /\ ~ p.stopped
Execed(p)  == [p EXCEPT !.execed = TRUE]

\* of the command, or of the forked child when a limit or execvp fails
CanExit(p)  == Running(p) /\ ~ p.stopped
Exited(p)   == [p EXCEPT !.state = "zombie", !.status = "code"]

\* SIGKILL from outside (an administrator, the memory-pressure killer)
CanBeKilled(p) == Running(p)

\* SIGKILL acts on a stopped process, every other signal waits for SIGCONT
CanActOn(p, sig) == Running(p) /\ sig \in p.pending /\ (sig = "KILL" \/ ~ p.stopped)
DiedOf(p, sig)   == [p EXCEPT !.state = "zombie", !.stopped = FALSE, !.status = sig]

\* the command catches or ignores the signal; SIGKILL cannot be caught
CanHandle(p, sig) == CanActOn(p, sig) /\ p.execed /\ sig # "KILL"
Handled(p, sig)   == [p EXCEPT !.pending = @ \ {sig}]

\* somebody else in this program, or the kernel when SIGCHLD is ignored,
\* reaps the child before the supervisor does
CanBeLost(p) == p.state = "zombie"
Lost(p)      == [p EXCEPT !.state = "gone"]
=============================================================================
