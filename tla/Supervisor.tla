----------------------------- MODULE Supervisor -----------------------------
(***************************************************************************)
(* run_command of runner.rs for one attempt: spawn, the kqueue wait loop   *)
(* (wait_with_kqueue), what monitor_with_timeout does with its verdict -   *)
(* hook, termination signal, grace period, SIGKILL, forwarding - and the   *)
(* final wait, against a command, a user and a kernel that may act between *)
(* any two steps.                                                          *)
(*                                                                         *)
(* The supervisor is one thread; pc is where it is.  Time is a counter of  *)
(* ticks.  A tick that passes while the supervisor could run, or while a   *)
(* timer it is owed is overdue, is lateness: late counts those ticks and   *)
(* MaxLate bounds them, so scheduling and timer latency are explored       *)
(* without letting time run away from the program.                         *)
(***************************************************************************)
EXTENDS CpuThrottle, TimeMath, Sequences, FiniteSets

CONSTANTS
  Configs,          \* the RunConfigs explored, see ConfigType
  Caught,           \* signals setup_signal_forwarding installs a handler for
  UserSignals,      \* signals sent to the supervisor itself
  MaxSignals,       \* bound: how many of them one run sees
  MaxTime,          \* bound: the last tick
  MaxLate,          \* bound: ticks of scheduling and timer latency in a run
  Faults            \* failures the environment may inject, see FaultNames

\* "kqueue": kqueue(), kevent() or the first look at the clock fails; "eperm": killpg fails with
\* EPERM; "reaper": the child is reaped behind the supervisor's back; "nonblock": fd 0 is
\* non-blocking
FaultNames == {"kqueue", "eperm", "reaper", "nonblock"}

(* What monitor_with_timeout reads of RunConfig.  Zero, or None for         *)
(* killAfter, means the option is absent.  mem is the interval of the check, *)
(* limits whether a memory or CPU-time limit is set.  Two fields are about the *)
(* surroundings: fd is whether setup_signal_forwarding succeeded before the *)
(* run, reads is whether the command reads the stdin it inherits.           *)
ConfigType ==
  [timeout : Nat, killAfter : Nat \cup {None}, signal : Signals,
   hook : BOOLEAN, hookLimit : Nat,
   stdin : {"off", "consume", "passthrough"}, stdinIdle : Nat,
   heartbeat : Nat, throttle : Nat, mem : Nat, limits : BOOLEAN, fd : BOOLEAN,
   reads : BOOLEAN]

ASSUME SupervisorAssumption ==
  /\ Configs \subseteq ConfigType
  /\ \A c \in Configs : c.mem > 0 => c.limits
  /\ Caught \subseteq Signals /\ "KILL" \notin Caught /\ UserSignals \subseteq Caught
  /\ MaxSignals \in Nat /\ MaxTime \in Nat /\ MaxLate \in Nat
  /\ Faults \subseteq FaultNames

VARIABLES
  cfg,     \* the RunConfig of this run, never changed
  now,     \* precise_now_ns
  late,    \* ticks of latency so far
  pc,      \* where the supervisor is
  w,       \* the locals of wait_with_kqueue
  thr,     \* throttle_ctx
  proc,    \* the command
  sin,     \* what is readable on fd 0
  pipe,    \* bytes in the self-pipe, oldest first
  hook,    \* the on-timeout hook's process
  fin,     \* the result kind the control flow is heading for
  res,     \* what run_command returned
  hist     \* history: what the properties need to remember

vars == <<cfg, now, late, pc, w, thr, proc, sin, pipe, hook, fin, res, hist>>

Locations == {"start", "monitor", "enter", "loop", "kevent", "read", "hook",
              "hookwait", "term", "forward", "kill", "wait", "done"}

Kinds   == {"Completed", "TimedOut", "MemoryLimitExceeded", "SignalForwarded"}
Reasons == {"WallClock", "StdinIdle"}

(* The wait loop's locals; a time of U64Max is never, and no deadline leaves *)
(* the u64.  timer is the point at which the armed EVFILT_TIMER fires, watch *)
(* and del are the stdin filter in the kqueue and the pending EV_DELETE of   *)
(* changes[3].                                                               *)
WaitLocals ==
  [phase : {"main", "grace"}, start : Nat, deadline : u64,
   nextThrottle : u64, nextMem : u64, nextBeat : u64,
   idle : BOOLEAN, enabled : BOOLEAN, last : Nat,
   watch : BOOLEAN, del : BOOLEAN, timer : Nat]

Idle == [phase |-> "main", start |-> 0, deadline |-> 0, nextThrottle |-> 0,
         nextMem |-> 0, nextBeat |-> 0, idle |-> FALSE, enabled |-> FALSE,
         last |-> 0, watch |-> FALSE, del |-> FALSE, timer |-> 0]

Fin    == [kind : Kinds, reason : Reasons, killed : BOOLEAN, signal : Signals]
Result == [kind : Kinds \cup {"None", "Err"}, reason : Reasons,
           killed : BOOLEAN, status : Status]

NoFin    == [kind |-> "Completed", reason |-> "WallClock", killed |-> FALSE,
             signal |-> "KILL"]
NoResult == [kind |-> "None", reason |-> "WallClock", killed |-> FALSE,
             status |-> "none"]

(* sent: the termination signals, why and when they were sent; got: signals  *)
(* the handler wrote to the pipe; phantom: signals that the handler wrote in *)
(* a forked child; data: when stdin last had new input; began, verdict: when *)
(* the main wait started and gave its verdict                                *)
Sent == [sig : Signals, why : {"limit", "kill", "forward"}, at : Nat]
Hist == [sent : SUBSET Sent, got : Nat, phantom : Nat, data : Nat, verdict : Nat,
         began : Nat]

NoHist == [sent |-> {}, got |-> 0, phantom |-> 0, data |-> 0, verdict |-> 0, began |-> 0]

TypeOK ==
  /\ cfg \in Configs
  /\ now \in Nat
  /\ late \in Nat
  /\ pc \in Locations
  /\ w \in WaitLocals
  /\ thr \in Throttle
  /\ proc \in Proc
  /\ sin \in {"invalid", "idle", "data", "eof"}
  /\ pipe \in Seq(Caught)
  /\ hook \in [state : {"none", "running", "zombie", "reaped", "left"}, deadline : u64]
  /\ fin \in Fin
  /\ res \in Result
  /\ hist \in Hist

Init ==
  /\ cfg \in Configs
  /\ now = 0 /\ late = 0
  /\ pc = "start"
  /\ w = Idle
  /\ thr = Detached
  /\ proc = Unborn
  /\ sin \in IF cfg.stdin = "off" THEN {"idle"}
            ELSE {"idle", "data", "eof", "invalid"}
  /\ pipe = << >>
  /\ hook = [state |-> "none", deadline |-> 0]
  /\ fin = NoFin
  /\ res = NoResult
  /\ hist = NoHist

-----------------------------------------------------------------------------
(* Returning from run_command.  throttle_ctx is dropped on every path, and   *)
(* Drop resumes the child.                                                   *)

\* `?` on an error: the child is neither killed nor reaped
Fail(p, t) ==
  /\ pc' = "done"
  /\ res' = [NoResult EXCEPT !.kind = "Err"]
  /\ proc' = resume(p, t)
  /\ thr' = resumed(t)

\* mutation: a child that ended by itself counts as completed
Return_by_status(p, status) ==
  /\ pc' = "done"
  /\ res' = [kind |-> IF status = "code" THEN "Completed" ELSE fin.kind,
             reason |-> fin.reason, killed |-> fin.killed, status |-> status]
  /\ thr' = resumed(mark_process_exited(thr))
  /\ proc' = resume(p, mark_process_exited(thr))

Return(p, status) ==
  /\ pc' = "done"
  /\ res' = [kind |-> fin.kind, reason |-> fin.reason, killed |-> fin.killed,
             status |-> status]
  /\ thr' = resumed(mark_process_exited(thr))
  /\ proc' = resume(p, mark_process_exited(thr))

-----------------------------------------------------------------------------
(* run_command and the start of monitor_with_timeout                         *)

SpawnFails ==
  /\ pc = "start"
  /\ Fail(proc, thr)
  /\ UNCHANGED <<cfg, now, late, w, sin, pipe, hook, fin, hist>>

\* a zero timeout means run forever: a plain blocking wait
Spawn ==
  /\ pc = "start"
  /\ proc' = Spawned(proc, cfg.limits)
  /\ pc' = IF cfg.timeout = 0 THEN "wait" ELSE "monitor"
  /\ UNCHANGED <<cfg, now, late, w, thr, sin, pipe, hook, fin, res, hist>>

\* CpuThrottleState::new fails when the child is already gone
Monitor ==
  /\ pc = "monitor"
  /\ thr' \in IF cfg.throttle = 0 THEN {Detached}
              ELSE {IF seen THEN Attached(now) ELSE Detached : seen \in Samples(proc)}
  /\ w' = [Idle EXCEPT !.last = now]
  /\ pc' = "enter"
  /\ UNCHANGED <<cfg, now, late, proc, sin, pipe, hook, fin, res, hist>>

-----------------------------------------------------------------------------
(* wait_with_kqueue.  The grace period passes no heartbeat, stdin, throttle  *)
(* or memory configuration.                                                  *)

Main == w.phase = "main"

\* the level check of passthrough mode on locals l
polled(l) ==
  IF ~ (l.idle /\ cfg.stdin = "passthrough") THEN l
  ELSE CASE sin = "data" -> [l EXCEPT !.last = now]
         [] sin = "eof"  -> [l EXCEPT !.idle = FALSE]
         [] OTHER        -> l

Every(interval, from) == IF interval = 0 THEN U64Max ELSE advance_ns(from, interval)

\* mutation: the throttle is passed to the wait of the grace period too
throttled_always == thr.on

throttled == Main /\ thr.on

\* mutation: the grace period is measured from the start of the run
wait_deadline_from_start ==
  advance_ns(IF Main THEN now ELSE hist.began,
             duration_to_ns(IF Main THEN cfg.timeout ELSE cfg.killAfter))

wait_deadline ==
  advance_ns(now, duration_to_ns(IF Main THEN cfg.timeout ELSE cfg.killAfter))

\* The command is left to itself.  The clock can fail before the loop, until
\* its timebase is cached; kqueue() fails before the loop, kevent() in it.
WaitFails ==
  /\ pc \in {"monitor", "enter", "kevent"}
  /\ "kqueue" \in Faults
  /\ Fail(proc, thr)
  /\ UNCHANGED <<cfg, now, late, w, sin, pipe, hook, fin, hist>>

Enter ==
  /\ pc = "enter"
  /\ LET watched == Main /\ cfg.stdin # "off" /\ sin # "invalid"
     IN  w' = polled([w EXCEPT
                !.start = now,
                !.deadline = wait_deadline,
                !.nextThrottle = IF throttled THEN advance_ns(thr.start, cfg.throttle)
                                 ELSE U64Max,
                !.nextMem = IF Main THEN Every(cfg.mem, now) ELSE U64Max,
                !.nextBeat = IF Main THEN Every(duration_to_ns(cfg.heartbeat), now)
                             ELSE U64Max,
                !.idle = watched,
                !.enabled = watched /\ cfg.stdin = "consume",
                !.watch = FALSE,
                !.del = FALSE])
  /\ pc' = "loop"
  /\ hist' = IF Main THEN [hist EXCEPT !.began = now] ELSE hist
  /\ UNCHANGED <<cfg, now, late, thr, proc, sin, pipe, hook, fin, res>>

(* What the verdicts of the loop make of the control state: WaitResult, and  *)
(* the match arms of monitor_with_timeout it selects.  In the grace period   *)
(* fin already says which limit was hit.                                     *)

OnTimedOut(reason) ==
  /\ IF Main THEN /\ fin' = [fin EXCEPT !.kind = "TimedOut", !.reason = reason]
                  /\ pc' = IF cfg.hook THEN "hook" ELSE "term"
                  /\ hist' = [hist EXCEPT !.verdict = now]
             ELSE /\ pc' = "kill"
                  /\ UNCHANGED <<fin, hist>>
  /\ UNCHANGED res

OnMemoryLimit ==
  /\ fin' = [fin EXCEPT !.kind = "MemoryLimitExceeded"]
  /\ pc' = "term"
  /\ hist' = [hist EXCEPT !.verdict = now]
  /\ UNCHANGED res

\* mutation: the wildcard arm of the memory grace period in both of them
OnSignal_kills_in_grace(sig) ==
  /\ IF ~ Main
     THEN pc' = "kill" /\ UNCHANGED fin
     ELSE /\ pc' = "forward"
          /\ fin' = [fin EXCEPT !.kind = "SignalForwarded", !.signal = sig]
  /\ UNCHANGED <<res, hist>>

\* mutation: a signal in the grace period leaves the result a timeout
OnSignal_keeps_kind(sig) ==
  /\ IF ~ Main /\ fin.kind = "MemoryLimitExceeded"
     THEN pc' = "kill" /\ UNCHANGED fin
     ELSE /\ pc' = "forward"
          /\ fin' = [fin EXCEPT !.kind = IF Main THEN "SignalForwarded" ELSE @,
                                !.signal = sig]
  /\ UNCHANGED <<res, hist>>

\* The grace period after a memory verdict has no arm for a signal: the
\* wildcard arm takes it for the end of the grace period.
OnSignal(sig) ==
  /\ IF ~ Main /\ fin.kind = "MemoryLimitExceeded"
     THEN pc' = "kill" /\ UNCHANGED fin
     ELSE /\ pc' = "forward"
          /\ fin' = [fin EXCEPT !.kind = "SignalForwarded", !.signal = sig]
  /\ UNCHANGED <<res, hist>>

idle_expired(l) ==
  /\ l.idle /\ elapsed_ns(l.last, now) # None
  /\ elapsed_ns(l.last, now) >= duration_to_ns(cfg.stdinIdle)

\* 0 on a clock anomaly
time_to_stdin_deadline(l) ==
  LET t == time_to_idle_timeout(l.last, now, duration_to_ns(cfg.stdinIdle))
  IN  IF ~ l.idle THEN U64Max ELSE IF t = None THEN 0 ELSE t

\* the periodic wake-ups: heartbeat, throttle sample, memory check
time_to_periodic(l) ==
  MinOf(remaining_ns(now, l.nextBeat),
        MinOf(remaining_ns(now, l.nextThrottle), remaining_ns(now, l.nextMem)))

\* mutation: a periodic wake-up replaces the deadline instead of preceding it
next_wake_periodic_first(l) ==
  IF time_to_periodic(l) < U64Max - now THEN time_to_periodic(l)
  ELSE MinOf(remaining_ns(now, l.deadline), time_to_stdin_deadline(l))

next_wake_ns(l) ==
  MinOf(remaining_ns(now, l.deadline),
        MinOf(time_to_stdin_deadline(l), time_to_periodic(l)))

\* changes[3], the stdin filter, is submitted only if num_changes reaches it
num_changes(l) ==
  2 + (IF cfg.fd THEN 1 ELSE 0) + (IF l.enabled \/ l.del THEN 1 ELSE 0)

\* stdin EOF: monitoring off, the filter is deleted by the next kevent
stdin_off(l) == [l EXCEPT !.idle = FALSE, !.enabled = FALSE, !.del = TRUE]

LoopDeadline ==
  /\ pc = "loop"
  /\ deadline_reached(now, w.deadline)
  /\ OnTimedOut("WallClock")
  /\ UNCHANGED <<cfg, now, late, w, thr, proc, sin, pipe, hook>>

LoopIdle ==
  /\ pc = "loop"
  /\ ~ deadline_reached(now, w.deadline)
  /\ idle_expired(w)
  /\ OnTimedOut("StdinIdle")
  /\ UNCHANGED <<cfg, now, late, w, thr, proc, sin, pipe, hook>>

\* arm the timer, submit the changes and block in kevent
LoopArm ==
  /\ pc = "loop"
  /\ ~ deadline_reached(now, w.deadline)
  /\ ~ idle_expired(w)
  /\ w' = [w EXCEPT !.timer = now + MinOf(next_wake_ns(w), MaxTimer),
                    !.watch = IF num_changes(w) > 3 THEN ~ w.del ELSE @,
                    !.del = FALSE]
  /\ pc' = "kevent"
  /\ UNCHANGED <<cfg, now, late, thr, proc, sin, pipe, hook, fin, res, hist>>

-----------------------------------------------------------------------------
(* kevent returns one event; when several are due it may return any of them. *)

StdinReady == w.watch /\ sin \in {"data", "eof"}

\* EVFILT_PROC, or ESRCH when the registration finds the child dead already
EventExit ==
  /\ pc = "kevent"
  /\ CanReap(proc)
  /\ Return(wait(proc), proc.status)
  /\ UNCHANGED <<cfg, now, late, w, sin, pipe, hook, fin, hist>>

\* the child was reaped elsewhere: after EVFILT_PROC ECHILD is an error,
\* after ESRCH it is treated as a timeout
EventLostExit ==
  /\ pc = "kevent"
  /\ echild(proc)
  /\ Fail(proc, thr)
  /\ UNCHANGED <<cfg, now, late, w, sin, pipe, hook, fin, hist>>

EventLostEsrch ==
  /\ pc = "kevent"
  /\ echild(proc)
  /\ OnTimedOut("WallClock")
  /\ UNCHANGED <<cfg, now, late, w, thr, proc, sin, pipe, hook>>

\* EVFILT_READ on the self-pipe; one byte is read, the rest stays
EventSignal ==
  /\ pc = "kevent"
  /\ cfg.fd
  /\ pipe # << >>
  /\ pipe' = Tail(pipe)
  /\ OnSignal(Head(pipe))
  /\ UNCHANGED <<cfg, now, late, w, thr, proc, sin, hook>>

\* EVFILT_READ on fd 0: EV_EOF ends the monitoring, otherwise read(0) follows
EventStdin ==
  /\ pc = "kevent"
  /\ StdinReady
  /\ IF sin = "eof" THEN w' = stdin_off(w) /\ pc' = "loop"
                    ELSE UNCHANGED w /\ pc' = "read"
  /\ UNCHANGED <<cfg, now, late, thr, proc, sin, pipe, hook, fin, res, hist>>

stdin_activity(l) == [l EXCEPT !.last = now]

\* read(0) blocks while there is nothing to read; a non-blocking one returns
\* EAGAIN, and the loop goes on
ReadStdin ==
  /\ pc = "read"
  /\ \/ sin = "data" /\ sin' = "idle" /\ w' = stdin_activity(w)
     \/ sin = "eof" /\ sin' = sin /\ w' = stdin_off(w)
     \/ sin = "idle" /\ "nonblock" \in Faults /\ UNCHANGED <<sin, w>>
  /\ pc' = "loop"
  /\ UNCHANGED <<cfg, now, late, thr, proc, pipe, hook, fin, res, hist>>

MemDue == Main /\ cfg.mem > 0 /\ deadline_reached(now, w.nextMem)
ThrottleDue == throttled /\ deadline_reached(now, w.nextThrottle)

\* the locals after the throttle sample and, unless it returns, the memory
\* check, and then the passthrough poll
after_checks ==
  polled([w EXCEPT
    !.nextThrottle = IF ThrottleDue THEN advance_ns(now, cfg.throttle) ELSE @,
    !.nextMem = IF MemDue THEN advance_ns(now, cfg.mem) ELSE @])

BeatDue(l) ==
  /\ Main /\ cfg.heartbeat > 0
  /\ ~ deadline_reached(now, l.deadline)
  /\ deadline_reached(now, l.nextBeat)

TimerFired == pc = "kevent" /\ now >= w.timer

(* EVFILT_TIMER: sample the throttle, check memory, poll stdin, then in this *)
(* order stdin idle, heartbeat, deadline, or back to the loop.  over: the    *)
(* child used more than its CPU budget; seen: proc_pid_rusage found it.      *)
SampleThrottle ==
  IF ThrottleDue
  THEN \E seen \in Samples(proc), over \in BOOLEAN :
         /\ proc' = update(proc, thr, seen, over, now)
         /\ thr' = updated(thr, seen, over, now)
  ELSE UNCHANGED <<proc, thr>>

\* get_process_memory reports more than the limit
EventTimerMemory ==
  /\ TimerFired
  /\ MemDue
  /\ SampleThrottle
  /\ OnMemoryLimit
  /\ UNCHANGED <<cfg, now, late, w, sin, pipe, hook>>

EventTimerIdle ==
  /\ TimerFired
  /\ SampleThrottle
  /\ idle_expired(after_checks)
  /\ w' = after_checks
  /\ OnTimedOut("StdinIdle")
  /\ UNCHANGED <<cfg, now, late, sin, pipe, hook>>

EventTimerDeadline ==
  /\ TimerFired
  /\ SampleThrottle
  /\ ~ idle_expired(after_checks)
  /\ deadline_reached(now, w.deadline)
  /\ w' = after_checks
  /\ OnTimedOut("WallClock")
  /\ UNCHANGED <<cfg, now, late, sin, pipe, hook>>

\* a heartbeat, a check or an early timer: go round the loop again
EventTimerAgain ==
  /\ TimerFired
  /\ SampleThrottle
  /\ ~ idle_expired(after_checks)
  /\ ~ deadline_reached(now, w.deadline)
  /\ w' = IF BeatDue(w)
          THEN [after_checks EXCEPT
                 !.nextBeat = advance_ns(now, duration_to_ns(cfg.heartbeat))]
          ELSE after_checks
  /\ pc' = "loop"
  /\ UNCHANGED <<cfg, now, late, sin, pipe, hook, fin, res, hist>>

-----------------------------------------------------------------------------
(* The on-timeout hook: its own process group, its own time limit, no signal *)
(* pipe; whatever happens to it, the timeout proceeds.                       *)

HookFails ==
  /\ pc = "hook"
  /\ pc' = "term"
  /\ UNCHANGED <<cfg, now, late, w, thr, proc, sin, pipe, hook, fin, res, hist>>

HookSpawn ==
  /\ pc = "hook"
  /\ hook' = [state |-> "running",
              deadline |-> advance_ns(now, duration_to_ns(cfg.hookLimit))]
  /\ pc' = "hookwait"
  /\ UNCHANGED <<cfg, now, late, w, thr, proc, sin, pipe, fin, res, hist>>

\* the wait for the hook fails: the hook is left to itself
HookWaitFails ==
  /\ pc = "hookwait"
  /\ "kqueue" \in Faults
  /\ hook' = [hook EXCEPT !.state = "left"]
  /\ pc' = "term"
  /\ UNCHANGED <<cfg, now, late, w, thr, proc, sin, pipe, fin, res, hist>>

HookExited ==
  /\ pc = "hookwait"
  /\ hook.state = "zombie"
  /\ hook' = [hook EXCEPT !.state = "reaped"]
  /\ pc' = "term"
  /\ UNCHANGED <<cfg, now, late, w, thr, proc, sin, pipe, fin, res, hist>>

\* mutation: the hook has no time limit
HookTimedOut_never ==
  /\ pc = "hookwait"
  /\ now < 0
  /\ pc' = "term"
  /\ UNCHANGED <<cfg, now, late, w, thr, proc, sin, pipe, hook, fin, res, hist>>

\* killpg(SIGKILL) and a wait that SIGKILL ends
HookTimedOut ==
  /\ pc = "hookwait"
  /\ deadline_reached(now, hook.deadline)
  /\ hook' = [hook EXCEPT !.state = "reaped"]
  /\ pc' = "term"
  /\ UNCHANGED <<cfg, now, late, w, thr, proc, sin, pipe, fin, res, hist>>

-----------------------------------------------------------------------------
(* send_signal after resume(): "resume first".  ESRCH counts as success, any *)
(* other errno makes the whole run fail.                                     *)

SendSignal(sig, why) ==
  /\ proc' = kill(resume(proc, thr), sig)
  /\ thr' = resumed(thr)
  /\ hist' = [hist EXCEPT !.sent = @ \cup {[sig |-> sig, why |-> why, at |-> now]}]

SendFails ==
  /\ pc \in {"term", "forward", "kill"}
  /\ "eperm" \in Faults
  /\ Fail(resume(proc, thr), resumed(thr))
  /\ UNCHANGED <<cfg, now, late, w, sin, pipe, hook, fin, hist>>

\* the limit is hit: the configured signal, then the grace period or the wait
Terminate ==
  /\ pc = "term"
  /\ SendSignal(cfg.signal, "limit")
  /\ pc' = IF cfg.killAfter = None THEN "wait" ELSE "enter"
  /\ w' = [w EXCEPT !.phase = "grace"]
  /\ UNCHANGED <<cfg, now, late, sin, pipe, hook, fin, res>>

Forward ==
  /\ pc = "forward"
  /\ SendSignal(fin.signal, "forward")
  /\ pc' = "wait"
  /\ UNCHANGED <<cfg, now, late, w, sin, pipe, hook, fin, res>>

Escalate ==
  /\ pc = "kill"
  /\ SendSignal("KILL", "kill")
  /\ fin' = [fin EXCEPT !.killed = TRUE]
  /\ pc' = "wait"
  /\ UNCHANGED <<cfg, now, late, w, sin, pipe, hook, res>>

\* the blocking child.wait(): nothing but the child's end returns from it
WaitChild ==
  /\ pc = "wait"
  /\ CanReap(proc)
  /\ Return(wait(proc), proc.status)
  /\ UNCHANGED <<cfg, now, late, w, sin, pipe, hook, fin, hist>>

\* mutation: ECHILD is tolerated in every wait
WaitLost_tolerated ==
  /\ pc = "wait"
  /\ echild(proc)
  /\ Return(proc, "none")
  /\ UNCHANGED <<cfg, now, late, w, sin, pipe, hook, fin, hist>>

\* ECHILD: tolerated after forwarding a signal, an error otherwise
WaitLost ==
  /\ pc = "wait"
  /\ echild(proc)
  /\ IF fin.kind = "SignalForwarded" THEN Return(proc, "none") ELSE Fail(proc, thr)
  /\ UNCHANGED <<cfg, now, late, w, sin, pipe, hook, fin, hist>>

-----------------------------------------------------------------------------
(* The environment: time, the command, the user, stdin, the hook.            *)

Blocked ==
  CASE pc = "kevent"   -> /\ Running(proc)
                          /\ now < w.timer
                          /\ ~ (cfg.fd /\ pipe # << >>)
                          /\ ~ StdinReady
    [] pc = "read"     -> sin = "idle" /\ "nonblock" \notin Faults
    [] pc = "wait"     -> Running(proc)
    [] pc = "hookwait" -> hook.state = "running" /\ now < hook.deadline
    [] OTHER           -> FALSE

Tick ==
  /\ pc # "done"
  /\ now < MaxTime
  /\ Blocked \/ late < MaxLate
  /\ now' = now + 1
  /\ late' = IF Blocked THEN late ELSE late + 1
  /\ UNCHANGED <<cfg, pc, w, thr, proc, sin, pipe, hook, fin, res, hist>>

ChildStep(p) ==
  /\ pc # "done"
  /\ proc' = p
  /\ UNCHANGED <<cfg, now, late, pc, w, thr, sin, pipe, hook, fin, res, hist>>

ChildExits == CanExit(proc) /\ ChildStep(Exited(proc))
ChildKilled == CanBeKilled(proc) /\ ChildStep(DiedOf(proc, "KILL"))
ChildExecs == CanExec(proc) /\ ChildStep(Execed(proc))

\* the inherited handler catches the signal for a child that is not execed
Inherits(sig) == ~ proc.execed /\ cfg.fd /\ sig \in Caught

ChildDies(sig) ==
  /\ CanActOn(proc, sig)
  /\ ~ Inherits(sig)
  /\ ChildStep(DiedOf(proc, sig))
ChildHandles(sig) == CanHandle(proc, sig) /\ ChildStep(Handled(proc, sig))
ChildLost == "reaper" \in Faults /\ CanBeLost(proc) /\ ChildStep(Lost(proc))

\* signal_handler runs in the forked child and writes to the pipe it shares
\* with the supervisor; the command never sees the signal
ChildInherits(sig) ==
  /\ pc # "done"
  /\ CanActOn(proc, sig)
  /\ Inherits(sig)
  /\ proc' = Handled(proc, sig)
  /\ pipe' = Append(pipe, sig)
  /\ hist' = [hist EXCEPT !.phantom = @ + 1]
  /\ UNCHANGED <<cfg, now, late, pc, w, thr, sin, hook, fin, res>>

\* signal_handler writes a byte; a kevent in progress may return EINTR
SignalArrives(sig) ==
  /\ pc # "done"
  /\ cfg.fd
  /\ hist.got < MaxSignals
  /\ pipe' = Append(pipe, sig)
  /\ hist' = [hist EXCEPT !.got = @ + 1]
  /\ pc' \in IF pc = "kevent" THEN {"kevent", "loop"} ELSE {pc}
  /\ UNCHANGED <<cfg, now, late, w, thr, proc, sin, hook, fin, res>>

\* stdin is looked at in the main wait only; what comes later is left out
StdinStep(s) ==
  /\ Main /\ pc \in {"start", "monitor", "enter", "loop", "kevent", "read"}
  /\ cfg.stdin # "off"
  /\ sin' = s
  /\ UNCHANGED <<cfg, now, late, pc, w, thr, proc, pipe, hook, fin, res>>

\* input arrives at most once per tick, so that time passes
StdinData ==
  /\ sin \in {"idle", "data"}
  /\ hist.data < now
  /\ StdinStep("data")
  /\ hist' = [hist EXCEPT !.data = now]

StdinEof == sin = "idle" /\ StdinStep("eof") /\ UNCHANGED hist

ChildReads ==
  /\ cfg.reads
  /\ sin = "data"
  /\ CanExit(proc) /\ proc.execed
  /\ StdinStep("idle")
  /\ UNCHANGED hist

HookExits ==
  /\ pc = "hookwait"
  /\ hook.state = "running"
  /\ hook' = [hook EXCEPT !.state = "zombie"]
  /\ UNCHANGED <<cfg, now, late, pc, w, thr, proc, sin, pipe, fin, res, hist>>

Returned == pc = "done" /\ UNCHANGED vars

Supervise ==
  \/ Spawn \/ Monitor \/ Enter
  \/ LoopDeadline \/ LoopIdle \/ LoopArm
  \/ EventExit \/ EventLostExit \/ EventLostEsrch \/ EventSignal
  \/ EventStdin \/ ReadStdin
  \/ EventTimerMemory \/ EventTimerIdle \/ EventTimerDeadline \/ EventTimerAgain
  \/ HookSpawn \/ HookExited \/ HookTimedOut
  \/ Terminate \/ Forward \/ Escalate \/ WaitChild \/ WaitLost

\* System calls that fail: they may, and nothing makes them
Failures == SpawnFails \/ WaitFails \/ HookFails \/ HookWaitFails \/ SendFails

Environment ==
  \/ Tick
  \/ ChildExecs \/ ChildExits \/ ChildKilled \/ ChildLost
  \/ \E sig \in Signals : ChildDies(sig) \/ ChildHandles(sig) \/ ChildInherits(sig)
  \/ \E sig \in UserSignals : SignalArrives(sig)
  \/ StdinData \/ StdinEof \/ ChildReads \/ HookExits

Next == Supervise \/ Failures \/ Environment \/ Returned

Spec == Init /\ [][Next]_vars

(* The supervisor runs when it can, time passes, and SIGKILL kills.  The     *)
(* command, the user and the hook owe nothing, and no failure comes to the   *)
(* supervisor's rescue.                                                      *)
Fairness ==
  /\ WF_vars(Supervise)
  /\ WF_vars(Tick)
  /\ WF_vars(ChildDies("KILL"))

FairSpec == Spec /\ Fairness

-----------------------------------------------------------------------------
(* Safety                                                                    *)

\* No signal - SIGSTOP, SIGCONT and the termination signals alike - is sent
\* to the pid once the child has been reaped and the pid may be somebody
\* else's (the reason for mark_process_exited, throttle.rs:82).  A child that
\* somebody else reaped is the exception: the supervisor cannot know.
NoStraySignal == proc.state # "gone" => ~ proc.stray

\* Once a termination signal has been sent the child is not held by SIGSTOP:
\* it was resumed first and the throttle does not stop it again, so its
\* signal handler can run ("Deadlock Prevention", resource-limits.md:160).
FreeOnceSignalled == hist.sent # {} => ~ (Running(proc) /\ proc.stopped)

\* Whatever run_command returns, an error included, a child that is still
\* alive is not left stopped (Drop of CpuThrottleState).
ReleasedOnReturn == pc = "done" => ~ (Running(proc) /\ proc.stopped)

\* Every Ok result comes after the child was reaped, so no zombie and no
\* running command is left behind by a run that reports an outcome; only after
\* a forwarded signal is a child that somebody else reaped reported as Ok.
OkMeansReaped ==
  pc = "done" /\ res.kind # "Err" =>
    \/ proc.state = "reaped"
    \/ proc.state = "gone" /\ res.kind = "SignalForwarded"

\* A run that reports Completed sent the command no signal; one that reports
\* a limit or a forwarded signal sent that signal, and killed says whether
\* SIGKILL followed.
ResultTellsSignals ==
  pc = "done" /\ res.kind # "Err" =>
    LET why == {m.why : m \in hist.sent}
    IN  CASE res.kind = "Completed"       -> why = {}
          [] res.kind = "SignalForwarded" -> why \in {{"forward"}, {"limit", "forward"}}
          [] OTHER -> why = IF res.killed THEN {"limit", "kill"} ELSE {"limit"}

\* A completed run and a run that hit a limit always carry the exit status of
\* the command; only a forwarded signal may come without one.
ResultHasStatus ==
  pc = "done" /\ res.kind \notin {"Err", "SignalForwarded"} => res.status # "none"

\* After a timeout SIGKILL is sent only when the whole kill-after period has
\* passed since the termination signal, or at once to a child that turned out
\* to be reaped by somebody else.
KillWaitsForGrace ==
  fin.kind = "TimedOut" /\ proc.state # "gone" =>
    \A k \in hist.sent : k.why = "kill" =>
      \E l \in hist.sent : l.why = "limit" /\ k.at >= l.at + cfg.killAfter

\* The same for every limit: --kill-after is honoured after the memory limit
\* too (docs/resource-limits.md:42).
GraceHonoured ==
  \A k \in hist.sent : k.why = "kill" =>
    \E l \in hist.sent : l.why = "limit" /\ k.at >= l.at + cfg.killAfter

\* A wall-clock timeout is never declared before the timeout has passed, but
\* for a child that somebody else reaped, which is taken for one.
NotEarly ==
  fin.kind = "TimedOut" /\ fin.reason = "WallClock" /\ proc.state # "gone" =>
    hist.verdict >= hist.began + cfg.timeout

\* The loop never sleeps past its deadline, nor past the stdin deadline:
\* whatever else wakes it (heartbeat, throttle, memory check, input), it is
\* overdue by latency only.
NoOverrun ==
  pc = "kevent" =>
    /\ now <= w.deadline + late
    /\ w.idle => now <= w.last + cfg.stdinIdle + late

\* Every signal the handler put in the pipe is still there, is being
\* forwarded or has been forwarded: none is read and dropped.  The memory
\* limit is the exception, see GraceHonoured.
SignalsConserved ==
  res.kind # "Err" /\ fin.kind # "MemoryLimitExceeded" =>
    hist.got + hist.phantom =
               Len(pipe) + Cardinality({m \in hist.sent : m.why = "forward"})
                         + (IF pc = "forward" THEN 1 ELSE 0)

\* A command is killed for an idle stdin only if no input has come for the
\* configured time ("Kill command if stdin has no activity for DURATION",
\* args.rs:838).
IdleMeansIdle ==
  [][fin.kind = "Completed" /\ fin'.kind = "TimedOut" /\ fin'.reason = "StdinIdle"
     => now - hist.data >= cfg.stdinIdle]_vars

\* A run reports a forwarded signal, and forwards one, only if a signal was
\* sent to the supervisor ("procguard received a signal (e.g., from `docker
\* stop`, `kill`, or Ctrl+C) and forwarded it", docs/json-output.md:217).
ForwardedMeansReceived == fin.kind = "SignalForwarded" => hist.got > 0

-----------------------------------------------------------------------------
(* Refinement                                                                *)

Contract == INSTANCE RunContract WITH
  child <- proc.state, sent <- {m.why : m \in hist.sent}, outcome <- res.kind

\* One attempt implements the contract of run_command: signals only until the
\* child is reaped, in the order limit - kill or limit - forward, and a result
\* that says which of them were sent and, unless somebody else took the child,
\* comes with the reaping.
ContractHolds == Contract!Spec

-----------------------------------------------------------------------------
(* Liveness                                                                  *)

\* With a timeout and --kill-after the run ends, whatever the command does
\* with its signals - unless a signal was forwarded, after which run_command
\* waits for the command without a limit.
KillAfterEnds ==
  cfg.timeout > 0 /\ cfg.killAfter # None
    ~> pc = "done" \/ fin.kind = "SignalForwarded"
=============================================================================
