---------------------------- MODULE TimingProofs ----------------------------
(***************************************************************************)
(* When the supervisor acts: proofs that the wait loop never sleeps past a *)
(* deadline, that no limit is declared and no SIGKILL sent early, that no  *)
(* signal is read and dropped, and that a result carries the status of the *)
(* command - for every configuration, any latency and any number of        *)
(* signals.                                                                *)
(***************************************************************************)
EXTENDS SupervisorProofs, FiniteSetTheorems

-----------------------------------------------------------------------------
(* Moves.  Most steps of the supervisor and all but two of its environment   *)
(* are one of four moves on where it is, what it waits for and when.         *)

\* the history the verdicts and signals are judged by
Judged == <<hist.sent, hist.began, hist.verdict>>

\* nothing but the command, stdin, the pipe or the hook moves
Still == UNCHANGED <<cfg, pc, w, fin, now, late, Judged>>

Leaves == pc' = "done" /\ UNCHANGED <<cfg, w, fin, now, late, Judged>>

\* back to the top of the wait loop, or to the read of stdin
Around ==
  /\ pc \in {"kevent", "read"} /\ pc' \in {"loop", "read"}
  /\ w'.deadline = w.deadline /\ w'.phase = w.phase /\ (w'.idle => w.idle)
  /\ UNCHANGED <<cfg, fin, now, late, Judged>>

Hooks ==
  /\ pc \in {"hook", "hookwait"} /\ pc' \in {"hookwait", "term"}
  /\ UNCHANGED <<cfg, w, fin, now, late, Judged>>

Verdict ==
  LoopDeadline \/ LoopIdle \/ EventLostEsrch \/ EventTimerMemory \/ EventTimerIdle
    \/ EventTimerDeadline

\* The checks of a timer event leave the deadline and the timer alone.
LEMMA ChecksKeepDeadline ==
  ASSUME TypeOK, NEW l \in WaitLocals
  PROVE  /\ polled(l).deadline = l.deadline /\ (polled(l).idle => l.idle)
         /\ polled(l).enabled = l.enabled /\ polled(l).watch = l.watch /\ polled(l).del = l.del
         /\ polled(l).timer = l.timer
         /\ polled(l).last = IF l.idle /\ cfg.stdin = "passthrough" /\ sin = "data" THEN now
                             ELSE l.last
<1>1. now \in Nat
  BY DEF TypeOK
<1>. QED
  BY <1>1 DEF polled, WaitLocals

LEMMA AfterChecks ==
  ASSUME TypeOK
  PROVE  /\ after_checks.deadline = w.deadline /\ (after_checks.idle => w.idle)
         /\ after_checks.enabled = w.enabled /\ after_checks.watch = w.watch
         /\ after_checks.del = w.del
         /\ after_checks.last = IF w.idle /\ cfg.stdin = "passthrough" /\ sin = "data" THEN now
                                ELSE w.last
<1>1. now \in Nat /\ cfg.throttle \in Nat /\ cfg.mem \in Nat /\ w \in WaitLocals
  BY SupervisorAssumption DEF TypeOK, ConfigType
<1> DEFINE l == [w EXCEPT
    !.nextThrottle = IF ThrottleDue THEN advance_ns(now, cfg.throttle) ELSE @,
    !.nextMem = IF MemDue THEN advance_ns(now, cfg.mem) ELSE @]
<1>2. /\ l \in WaitLocals /\ l.deadline = w.deadline /\ l.idle = w.idle /\ l.last = w.last
      /\ l.enabled = w.enabled /\ l.watch = w.watch /\ l.del = w.del
  BY <1>1, TimeTypes DEF WaitLocals
<1>3. after_checks = polled(l)
  BY DEF after_checks
<1> HIDE DEF l
<1>. QED
  BY <1>2, <1>3, ChecksKeepDeadline

\* Which step is which move.
LEMMA Moves ==
  ASSUME TypeOK, [Next]_vars
  PROVE  \/ Still \/ Leaves \/ Around \/ Hooks \/ Verdict
         \/ Spawn \/ Monitor \/ Enter \/ LoopArm \/ EventSignal \/ Terminate \/ Forward
         \/ Escalate \/ Tick
         \/ \E sig \in UserSignals : SignalArrives(sig)
<1>0. /\ w \in WaitLocals /\ hist \in Hist /\ now \in Nat
  BY DEF TypeOK
<1>1. ASSUME SpawnFails \/ WaitFails \/ EventExit \/ EventLostExit \/ SendFails \/ WaitChild \/ WaitLost
      PROVE  Leaves
  BY <1>1 DEF SpawnFails, WaitFails, EventExit, EventLostExit, SendFails, WaitChild, WaitLost,
              Fail, Return, Leaves, Judged
<1>2. ASSUME EventStdin \/ ReadStdin
      PROVE  Around
  <2>1. w' = w \/ w' = stdin_off(w) \/ w' = stdin_activity(w)
    BY <1>2 DEF EventStdin, ReadStdin
  <2>2. w'.deadline = w.deadline /\ w'.phase = w.phase /\ (w'.idle => w.idle)
    BY <1>0, <2>1 DEF stdin_off, stdin_activity, WaitLocals
  <2>. QED
    BY <1>2, <2>2 DEF EventStdin, ReadStdin, Around, Judged
<1>3. ASSUME EventTimerAgain
      PROVE  Around
  <2>1. /\ after_checks \in WaitLocals /\ after_checks.phase = w.phase
        /\ after_checks.deadline = w.deadline /\ (after_checks.idle => w.idle)
    BY AfterChecks, ChecksTypes
  <2>2. \/ w' = after_checks
        \/ w' = [after_checks EXCEPT !.nextBeat = advance_ns(now, duration_to_ns(cfg.heartbeat))]
    BY <1>3 DEF EventTimerAgain
  <2>3. w'.deadline = w.deadline /\ w'.phase = w.phase /\ (w'.idle => w.idle)
    BY <2>1, <2>2 DEF WaitLocals
  <2>. QED
    BY <1>3, <2>3 DEF EventTimerAgain, TimerFired, Around, Judged
<1>4. ASSUME HookFails \/ HookSpawn \/ HookWaitFails \/ HookExited \/ HookTimedOut
      PROVE  Hooks
  BY <1>4 DEF HookFails, HookSpawn, HookWaitFails, HookExited, HookTimedOut, Hooks, Judged
<1>5. ASSUME NEW p, ChildStep(p)
      PROVE  Still
  BY <1>5 DEF ChildStep, Still, Judged
<1>6. ASSUME NEW sig \in Signals, ChildInherits(sig)
      PROVE  Still
  BY <1>0, <1>6 DEF ChildInherits, Still, Judged, Hist
<1>7. ASSUME StdinData \/ StdinEof \/ ChildReads \/ HookExits \/ UNCHANGED vars
      PROVE  Still
  BY <1>0, <1>7 DEF StdinData, StdinEof, ChildReads, StdinStep, HookExits, vars, Still, Judged, Hist
<1>8. ChildExecs \/ ChildExits \/ ChildKilled \/ ChildLost => \E p : ChildStep(p)
  BY DEF ChildExecs, ChildExits, ChildKilled, ChildLost
<1>9. \A sig \in Signals : ChildDies(sig) \/ ChildHandles(sig) => \E p : ChildStep(p)
  BY DEF ChildDies, ChildHandles
<1>. QED
  BY <1>1, <1>2, <1>3, <1>4, <1>5, <1>6, <1>7, <1>8, <1>9
     DEF Next, Supervise, Failures, Environment, Returned, Verdict

-----------------------------------------------------------------------------
(* The armed timer. *)

\* In kevent the timer is due no later than either deadline, and time has
\* passed it by latency only.
Armed ==
  pc = "kevent" =>
    /\ now <= w.timer + late
    /\ w.timer <= w.deadline
    /\ w.idle => w.timer <= w.last + cfg.stdinIdle

\* next_wake_ns never reaches past a deadline that has not passed yet.
LEMMA ArmedInTime ==
  ASSUME TypeOK, LoopArm
  PROVE  /\ w'.deadline = w.deadline /\ w'.idle = w.idle /\ w'.last = w.last
         /\ w'.phase = w.phase
         /\ now <= w'.timer /\ w'.timer <= w.deadline
         /\ w.idle => w'.timer <= w.last + cfg.stdinIdle
<1>0. /\ w \in WaitLocals /\ now \in Nat /\ w.deadline \in Nat /\ w.last \in Nat
      /\ cfg.stdinIdle \in Nat /\ U64Max \in Nat /\ MaxTimer \in Nat
      /\ w.nextBeat \in Nat /\ w.nextThrottle \in Nat /\ w.nextMem \in Nat
  BY SupervisorAssumption, TimeBounds DEF TypeOK, ConfigType, WaitLocals, u64
<1>d. PICK d \in Nat : d = duration_to_ns(cfg.stdinIdle) /\ d <= cfg.stdinIdle
  BY <1>0 DEF duration_to_ns, MinOf
<1> DEFINE r == remaining_ns(now, w.deadline)
           s == time_to_stdin_deadline(w)
           p == time_to_periodic(w)
           n == MinOf(next_wake_ns(w), MaxTimer)
<1>1. now < w.deadline /\ r = w.deadline - now
  BY <1>0 DEF LoopArm, deadline_reached, remaining_ns, saturating_sub
<1>2. s \in Nat /\ (w.idle => now + s <= w.last + cfg.stdinIdle)
  <2>1. CASE ~ w.idle
    BY <1>0, <2>1 DEF time_to_stdin_deadline
  <2>2. CASE w.idle /\ now < w.last
    BY <1>0, <2>2 DEF time_to_stdin_deadline, time_to_idle_timeout, elapsed_ns, None
  <2>3. CASE w.idle /\ w.last <= now
    <3>1. elapsed_ns(w.last, now) = now - w.last /\ now - w.last # None
      BY <1>0, <2>3 DEF elapsed_ns, None
    <3>2. now - w.last < d
      BY <1>0, <1>d, <2>3, <3>1 DEF LoopArm, idle_expired
    <3>3. time_to_idle_timeout(w.last, now, d) = d - (now - w.last)
      BY <1>0, <1>d, <3>1, <3>2 DEF time_to_idle_timeout, saturating_sub
    <3>4. d - (now - w.last) # None
      BY <1>0, <1>d, <3>2 DEF None
    <3>5. s = d - (now - w.last)
      BY <1>d, <2>3, <3>3, <3>4 DEF time_to_stdin_deadline
    <3>. QED
      BY <1>0, <1>d, <2>3, <3>2, <3>5
  <2>. QED
    BY <1>0, <2>1, <2>2, <2>3 DEF WaitLocals
<1>3. p \in Nat
  BY <1>0, TimeTypes DEF time_to_periodic, MinOf
<1>4. next_wake_ns(w) = MinOf(r, MinOf(s, p))
  BY DEF next_wake_ns
<1>5. w' = [w EXCEPT !.timer = now + n,
                     !.watch = IF num_changes(w) > 3 THEN ~ w.del ELSE @, !.del = FALSE]
  BY DEF LoopArm
<1>. HIDE DEF r, s, p
<1>6. n \in Nat /\ n <= r /\ n <= s
  BY <1>0, <1>1, <1>2, <1>3, <1>4 DEF MinOf
<1>7. /\ w'.timer = now + n /\ w'.deadline = w.deadline /\ w'.idle = w.idle /\ w'.last = w.last
      /\ w'.phase = w.phase
  <2>. HIDE DEF n
  <2>. QED
    BY <1>0, <1>5 DEF WaitLocals
<1>. HIDE DEF n
<1>. QED
  BY <1>0, <1>1, <1>2, <1>6, <1>7

LEMMA ArmedStep ==
  ASSUME TypeOK, Armed, [Next]_vars
  PROVE  Armed'
<1>0. now \in Nat /\ late \in Nat /\ w \in WaitLocals /\ w.timer \in Nat
  BY DEF TypeOK, WaitLocals
<1>1. CASE Still
  BY <1>1 DEF Still, Armed
<1>2. ASSUME Leaves \/ Around \/ Hooks \/ Spawn \/ Monitor \/ Enter \/ Terminate \/ Forward
               \/ Escalate \/ EventSignal \/ Verdict
      PROVE  pc' # "kevent"
  BY <1>2 DEF Leaves, Around, Hooks, Spawn, Monitor, Enter, Terminate, Forward, Escalate,
              EventSignal, OnSignal, Verdict, LoopDeadline, LoopIdle, EventLostEsrch,
              EventTimerMemory, EventTimerIdle, EventTimerDeadline, OnTimedOut, OnMemoryLimit
<1>3. CASE LoopArm
  <2>1. now' = now /\ late' = late /\ cfg' = cfg
    BY <1>3 DEF LoopArm
  <2>2. w'.timer \in Nat
    BY <1>0, <1>3, WakeTypes DEF LoopArm, WaitLocals
  <2>. QED
    BY <1>0, <1>3, <2>1, <2>2, ArmedInTime DEF Armed
<1>4. CASE Tick
  <2>1. UNCHANGED <<cfg, pc, w>> /\ now' = now + 1
    BY <1>4 DEF Tick
  <2>2. CASE Blocked
    <3>1. pc = "kevent" => now < w.timer
      BY <2>2 DEF Blocked
    <3>2. late' = late
      BY <1>4, <2>2 DEF Tick
    <3>. QED
      BY <1>0, <2>1, <3>1, <3>2 DEF Armed
  <2>3. CASE ~ Blocked
    <3>1. late' = late + 1
      BY <1>4, <2>3 DEF Tick
    <3>. QED
      BY <1>0, <2>1, <3>1 DEF Armed
  <2>. QED
    BY <2>2, <2>3
<1>5. ASSUME NEW sig \in UserSignals, SignalArrives(sig)
      PROVE  Armed'
  <2>1. UNCHANGED <<cfg, w, now, late>> /\ (pc' = "kevent" => pc = "kevent")
    BY <1>5 DEF SignalArrives
  <2>. QED
    BY <2>1 DEF Armed
<1>. QED
  BY <1>1, <1>2, <1>3, <1>4, <1>5, Moves DEF Armed

\* Whatever wakes it, wait_with_kqueue is overdue by latency only: the timer
\* it arms is never later than its deadline or the stdin deadline.
THEOREM NeverOverruns == Spec => []NoOverrun
<1>1. Init => Armed
  BY DEF Init, Armed
<1>2. TypeOK /\ Armed /\ [Next]_vars => Armed'
  BY ArmedStep
<1>3. ASSUME TypeOK, Armed
      PROVE  NoOverrun
  <2>1. /\ now \in Nat /\ late \in Nat /\ w.timer \in Nat /\ w.deadline \in Nat
        /\ w.last \in Nat /\ cfg.stdinIdle \in Nat
    BY <1>3, SupervisorAssumption DEF TypeOK, ConfigType, WaitLocals, u64
  <2>. QED
    BY <1>3, <2>1 DEF Armed, NoOverrun
<1>. QED
  BY <1>1, <1>2, <1>3, TypeCorrect, PTL DEF Spec

-----------------------------------------------------------------------------
(* The two deadlines.  duration_to_ns clamps an interval at MAX_TIMER_NS and *)
(* advance_ns saturates at u64::MAX, so a duration of centuries ends early   *)
(* by design; DurationsFit leaves those out.                                 *)

DurationsFit ==
  \A c \in Configs : \A d \in {c.timeout, c.killAfter} :
    d <= MaxTimer /\ MaxTime + d <= U64Max

InTime == now <= MaxTime

Waits == pc \in {"loop", "kevent", "read"}

MainDeadline == Waits /\ w.phase = "main" => w.deadline >= hist.began + cfg.timeout

\* at time t the grace period that follows a termination signal is over
GraceOver(t) == \E l \in hist.sent : l.why = "limit" /\ t >= l.at + cfg.killAfter

GraceDeadline ==
  /\ pc = "enter" /\ w.phase = "grace" =>
       \E l \in hist.sent : l.why = "limit" /\ l.at <= now
  /\ Waits /\ w.phase = "grace" => GraceOver(w.deadline) /\ ~ w.idle
  /\ pc = "kill" /\ fin.kind = "TimedOut" => GraceOver(now)

\* NotEarly and KillWaitsForGrace of a child that is not lost
VerdictWhole ==
  fin.kind = "TimedOut" /\ fin.reason = "WallClock" => hist.verdict >= hist.began + cfg.timeout

KillWhole == fin.kind = "TimedOut" => \A k \in hist.sent : k.why = "kill" => GraceOver(k.at)

LimitsInv == InTime /\ MainDeadline /\ GraceDeadline /\ VerdictWhole /\ KillWhole

\* The deadline of a wait is the whole duration away.
LEMMA DeadlineIsWhole ==
  ASSUME DurationsFit, TypeInv, InTime, pc = "enter"
  PROVE  wait_deadline = now + (IF Main THEN cfg.timeout ELSE cfg.killAfter)
<1> DEFINE d == IF Main THEN cfg.timeout ELSE cfg.killAfter
<1>1. cfg \in Configs /\ cfg \in ConfigType /\ now \in Nat /\ MaxTime \in Nat
  BY SupervisorAssumption DEF TypeInv, TypeOK
<1>2. d \in Nat
  BY <1>1 DEF TypeInv, TypeOK, WaitLocals, ConfigType, Main
<1>3. d <= MaxTimer /\ MaxTime + d <= U64Max
  BY <1>1 DEF DurationsFit
<1>4. wait_deadline = advance_ns(now, duration_to_ns(d))
  BY DEF wait_deadline
<1>. HIDE DEF d
<1>5. wait_deadline = now + d
  BY <1>1, <1>2, <1>3, <1>4, TimeBounds DEF InTime, advance_ns, saturating_add, duration_to_ns, MinOf
<1>. QED
  BY <1>5 DEF d

LEMMA LimitsStep ==
  ASSUME DurationsFit, TypeInv, PidInv, SentInv, LimitsInv, proc.state # "gone", [Next]_vars
  PROVE  LimitsInv'
<1>0. /\ TypeOK /\ w \in WaitLocals /\ w.phase \in {"main", "grace"} /\ hist \in Hist /\ fin \in Fin
      /\ now \in Nat /\ w.deadline \in Nat /\ cfg.timeout \in Nat /\ cfg.killAfter \in Int
      /\ MaxTime \in Nat /\ hist.began \in Nat /\ hist.verdict \in Nat
  <2>1. /\ TypeOK /\ w \in WaitLocals /\ hist \in Hist /\ fin \in Fin /\ now \in Nat
        /\ cfg \in ConfigType /\ MaxTime \in Nat
    BY SupervisorAssumption DEF TypeInv, TypeOK
  <2>2. w.phase \in {"main", "grace"} /\ w.deadline \in Nat
    BY <2>1 DEF WaitLocals, u64
  <2>3. cfg.timeout \in Nat /\ cfg.killAfter \in Int
    BY <2>1 DEF ConfigType, None
  <2>4. hist.began \in Nat /\ hist.verdict \in Nat
    BY <2>1 DEF Hist
  <2>. QED
    BY <2>1, <2>2, <2>3, <2>4
<1>s. \A l \in hist.sent : l.at \in Nat /\ l.why \in Why
  BY <1>0 DEF Hist, Sent, Why
<1>i. InTime /\ MainDeadline /\ GraceDeadline /\ VerdictWhole /\ KillWhole
  BY DEF LimitsInv
<1> DEFINE Same == UNCHANGED <<cfg, now, Judged>>
\* nothing is sent or decided, and no wait is entered or left for SIGKILL
<1>a. ASSUME Same, fin' = fin, pc' \notin {"enter", "loop", "kevent", "read", "kill"}
      PROVE  LimitsInv'
  BY <1>i, <1>a DEF LimitsInv, InTime, MainDeadline, GraceDeadline, Waits, VerdictWhole,
                    KillWhole, GraceOver, Judged
\* moving about in the wait loop
<1>b. ASSUME Same, fin' = fin, Waits, pc' \in {"loop", "kevent", "read"},
             w'.deadline = w.deadline, w'.phase = w.phase, w'.idle => w.idle
      PROVE  LimitsInv'
  <2>1. InTime' /\ VerdictWhole' /\ KillWhole' /\ MainDeadline'
    BY <1>i, <1>b DEF InTime, VerdictWhole, KillWhole, GraceOver, MainDeadline, Judged
  <2>2. GraceDeadline'
    BY <1>i, <1>b DEF GraceDeadline, GraceOver, Waits, Judged
  <2>. QED
    BY <2>1, <2>2 DEF LimitsInv
<1>1. CASE Still
  BY <1>i, <1>1 DEF Still, Judged, LimitsInv, InTime, MainDeadline, GraceDeadline, GraceOver, Waits,
                    VerdictWhole, KillWhole
<1>2. CASE Leaves \/ Hooks \/ Spawn
  BY <1>a, <1>2 DEF Leaves, Hooks, Spawn, Judged
<1>3. CASE Around
  BY <1>b, <1>3 DEF Around, Waits
<1>4. CASE Monitor
  <2>1. Same /\ fin' = fin /\ pc' = "enter" /\ w'.phase = "main"
    BY <1>4 DEF Monitor, Judged, Idle
  <2>. QED
    BY <1>i, <2>1 DEF LimitsInv, InTime, MainDeadline, GraceDeadline, Waits, VerdictWhole,
                      KillWhole, GraceOver, Judged
<1>5. CASE Enter
  <2> DEFINE watched == Main /\ cfg.stdin # "off" /\ sin # "invalid"
             l == [w EXCEPT
                !.start = now,
                !.deadline = wait_deadline,
                !.nextThrottle = IF throttled THEN advance_ns(thr.start, cfg.throttle)
                                 ELSE U64Max,
                !.nextMem = IF Main THEN Every(cfg.mem, now) ELSE U64Max,
                !.nextBeat = IF Main THEN Every(duration_to_ns(cfg.heartbeat), now)
                             ELSE U64Max,
                !.idle = watched,
                !.enabled = watched /\ cfg.stdin = "consume",
                !.watch = FALSE,
                !.del = FALSE]
  <2>1. pc = "enter" /\ pc' = "loop" /\ w' = polled(l) /\ fin' = fin /\ cfg' = cfg /\ now' = now
    BY <1>5 DEF Enter
  <2>2. l.deadline = wait_deadline /\ l.phase = w.phase /\ l.idle = watched /\ DOMAIN l = DOMAIN w
    BY <1>0 DEF WaitLocals
  <2>. HIDE DEF l
  <2>3. w'.deadline = wait_deadline /\ w'.phase = w.phase /\ (w'.idle => watched)
    BY <1>0, <2>1, <2>2 DEF polled, WaitLocals
  <2>4. hist'.sent = hist.sent /\ hist'.verdict = hist.verdict
        /\ hist'.began = IF Main THEN now ELSE hist.began
    BY <1>0, <1>5 DEF Enter, Hist
  <2>5. InTime' /\ KillWhole'
    BY <1>i, <2>1, <2>4 DEF InTime, KillWhole, GraceOver
  <2>6. CASE Main
    <3>1. fin.kind = "Completed"
      BY <2>1, <2>6 DEF SentInv, UntouchedInMain, Main
    <3>2. wait_deadline = now + cfg.timeout
      BY <1>i, <2>1, <2>6, DeadlineIsWhole
    <3>3. MainDeadline' /\ GraceDeadline' /\ VerdictWhole'
      BY <1>0, <2>1, <2>3, <2>4, <2>6, <3>1, <3>2
         DEF MainDeadline, GraceDeadline, VerdictWhole, Waits, Main
    <3>. QED
      BY <2>5, <3>3 DEF LimitsInv
  <2>7. CASE ~ Main
    <3>1. wait_deadline = now + cfg.killAfter
      BY <1>i, <2>1, <2>7, DeadlineIsWhole
    <3>2. PICK m \in hist.sent : m.why = "limit" /\ m.at <= now
      BY <1>0, <1>i, <2>1, <2>7 DEF GraceDeadline, Main
    <3>3. wait_deadline >= m.at + cfg.killAfter
      BY <1>0, <1>s, <3>1, <3>2
    <3>4. MainDeadline' /\ VerdictWhole'
      BY <1>0, <1>i, <2>1, <2>3, <2>4, <2>7 DEF MainDeadline, VerdictWhole, Main
    <3>5. GraceDeadline'
      BY <2>1, <2>3, <2>4, <2>7, <3>2, <3>3 DEF GraceDeadline, GraceOver, Waits
    <3>. QED
      BY <2>5, <3>4, <3>5 DEF LimitsInv
  <2>. QED
    BY <2>6, <2>7
<1>6. CASE LoopArm
  <2>1. Same /\ fin' = fin /\ pc = "loop" /\ pc' = "kevent"
    BY <1>6 DEF LoopArm, Judged
  <2>. QED
    BY <1>0, <1>6, <1>b, <2>1, ArmedInTime DEF Waits
<1>7. CASE Verdict
  <2>1. cfg' = cfg /\ now' = now /\ Waits
    BY <1>7 DEF Verdict, LoopDeadline, LoopIdle, EventLostEsrch, EventTimerMemory, EventTimerIdle,
                EventTimerDeadline, TimerFired, Waits
  <2>2. ~ EventLostEsrch
    BY DEF EventLostEsrch, echild, PidInv
  <2>3. \/ OnTimedOut("WallClock") /\ now >= w.deadline
        \/ OnTimedOut("StdinIdle") /\ w.idle
        \/ OnMemoryLimit /\ Main
    <3>1. CASE LoopDeadline \/ EventTimerDeadline
      BY <3>1 DEF LoopDeadline, EventTimerDeadline, deadline_reached
    <3>2. CASE LoopIdle
      BY <3>2 DEF LoopIdle, idle_expired
    <3>3. CASE EventTimerIdle
      BY <1>0, <3>3, AfterChecks DEF EventTimerIdle, idle_expired
    <3>4. CASE EventTimerMemory
      BY <3>4 DEF EventTimerMemory, MemDue
    <3>. QED
      BY <1>7, <2>2, <3>1, <3>2, <3>3, <3>4 DEF Verdict
  <2>4. CASE Main
    <3>1. Why = {}
      BY <2>1, <2>4 DEF SentInv, UntouchedInMain, Main, Waits
    <3>2. hist'.sent = hist.sent /\ hist'.began = hist.began /\ hist'.verdict = now
      BY <1>0, <2>3, <2>4 DEF OnTimedOut, OnMemoryLimit, Hist
    <3>3. pc' \in {"hook", "term"}
      BY <2>3, <2>4 DEF OnTimedOut, OnMemoryLimit
    <3>4. \/ fin'.reason = "WallClock" /\ now >= w.deadline
          \/ fin'.reason = "StdinIdle"
          \/ fin'.kind = "MemoryLimitExceeded"
      BY <1>0, <2>3, <2>4 DEF OnTimedOut, OnMemoryLimit, Fin
    <3>5. VerdictWhole'
      BY <1>0, <1>i, <2>1, <2>4, <3>2, <3>4 DEF VerdictWhole, MainDeadline, Main
    <3>6. KillWhole'
      BY <1>s, <3>1, <3>2 DEF KillWhole
    <3>7. InTime' /\ MainDeadline' /\ GraceDeadline'
      BY <1>i, <2>1, <3>3 DEF InTime, MainDeadline, GraceDeadline, Waits
    <3>. QED
      BY <3>5, <3>6, <3>7 DEF LimitsInv
  <2>5. CASE ~ Main
    <3>1. w.phase = "grace"
      BY <1>0, <2>5 DEF Main
    <3>2. GraceOver(w.deadline) /\ ~ w.idle
      BY <1>i, <2>1, <3>1 DEF GraceDeadline
    <3>3. now >= w.deadline /\ pc' = "kill" /\ fin' = fin /\ hist' = hist
      BY <2>3, <2>5, <3>2 DEF OnTimedOut
    <3>4. GraceOver(now)
      BY <1>0, <1>s, <3>2, <3>3 DEF GraceOver
    <3>5. GraceDeadline'
      BY <2>1, <3>3, <3>4 DEF GraceDeadline, GraceOver, Waits
    <3>. QED
      BY <1>i, <2>1, <3>3, <3>5 DEF LimitsInv, InTime, MainDeadline, Waits, VerdictWhole, KillWhole, GraceOver
  <2>. QED
    BY <2>4, <2>5
<1>8. CASE EventSignal
  <2>1. cfg' = cfg /\ now' = now /\ hist' = hist
    BY <1>8 DEF EventSignal, OnSignal
  <2>2. \/ pc' = "kill" /\ fin' = fin /\ fin.kind = "MemoryLimitExceeded"
        \/ pc' = "forward" /\ fin'.kind = "SignalForwarded"
    BY <1>0, <1>8 DEF EventSignal, OnSignal, Fin
  <2>. QED
    BY <1>i, <2>1, <2>2 DEF LimitsInv, InTime, MainDeadline, GraceDeadline, Waits, VerdictWhole,
                            KillWhole
<1>9. CASE Terminate
  <2> DEFINE m == [sig |-> cfg.signal, why |-> "limit", at |-> now]
  <2>1. /\ cfg' = cfg /\ now' = now /\ fin' = fin /\ pc = "term" /\ pc' \in {"wait", "enter"}
        /\ w'.phase = "grace"
    BY <1>0, <1>9 DEF Terminate, WaitLocals
  <2>2. hist'.sent = hist.sent \cup {m} /\ hist'.began = hist.began /\ hist'.verdict = hist.verdict
    BY <1>0, <1>9 DEF Terminate, SendSignal, Hist
  <2>3. hist.sent = {}
    BY <1>s, <2>1 DEF SentInv, LimitInGrace
  <2>4. m \in hist'.sent /\ m.why = "limit" /\ m.at = now /\ \A k \in hist'.sent : k = m
    BY <2>2, <2>3
  <2>. HIDE DEF m
  <2>5. KillWhole'
    BY <2>4 DEF KillWhole
  <2>6. GraceDeadline'
    BY <1>0, <2>1, <2>4 DEF GraceDeadline, Waits
  <2>. QED
    BY <1>i, <2>1, <2>2, <2>5, <2>6 DEF LimitsInv, InTime, MainDeadline, Waits, VerdictWhole
<1>10. CASE Forward
  <2>1. cfg' = cfg /\ now' = now /\ fin' = fin /\ pc = "forward" /\ pc' = "wait"
    BY <1>10 DEF Forward
  <2>2. fin.kind = "SignalForwarded"
    BY <2>1 DEF SentInv, ForwardedOnce
  <2>. QED
    BY <1>i, <2>1, <2>2 DEF LimitsInv, InTime, MainDeadline, GraceDeadline, Waits, VerdictWhole,
                            KillWhole
<1>11. CASE Escalate
  <2> DEFINE m == [sig |-> "KILL", why |-> "kill", at |-> now]
  <2>1. /\ cfg' = cfg /\ now' = now /\ fin'.kind = fin.kind /\ fin'.reason = fin.reason
        /\ pc = "kill" /\ pc' = "wait"
    BY <1>0, <1>11 DEF Escalate, Fin
  <2>2. hist'.sent = hist.sent \cup {m} /\ hist'.began = hist.began /\ hist'.verdict = hist.verdict
    BY <1>0, <1>11 DEF Escalate, SendSignal, Hist
  <2>3. \A k \in hist.sent : k.why # "kill"
    BY <1>s, <2>1 DEF SentInv, LimitInGrace
  <2>4. m.at = now
    OBVIOUS
  <2>. HIDE DEF m
  <2>5. KillWhole'
    <3>. SUFFICES ASSUME fin'.kind = "TimedOut", NEW k \in hist'.sent, k.why = "kill"
                  PROVE  \E l \in hist'.sent : l.why = "limit" /\ k.at >= l.at + cfg'.killAfter
      BY DEF KillWhole, GraceOver
    <3>1. k = m
      BY <2>2, <2>3
    <3>2. GraceOver(now)
      BY <1>i, <2>1 DEF GraceDeadline
    <3>. QED
      BY <2>1, <2>2, <2>4, <3>1, <3>2 DEF GraceOver
  <2>. QED
    BY <1>i, <2>1, <2>2, <2>5 DEF LimitsInv, InTime, MainDeadline, GraceDeadline, Waits, VerdictWhole
<1>12. CASE Tick
  <2>1. now' = now + 1 /\ now < MaxTime /\ UNCHANGED <<cfg, pc, w, fin, hist>>
    BY <1>12 DEF Tick
  <2>2. InTime' /\ MainDeadline' /\ VerdictWhole' /\ KillWhole'
    BY <1>0, <1>i, <2>1 DEF InTime, MainDeadline, Waits, VerdictWhole, KillWhole, GraceOver
  <2>3. GraceDeadline'
    BY <1>0, <1>i, <1>s, <2>1 DEF GraceDeadline, GraceOver, Waits
  <2>. QED
    BY <2>2, <2>3 DEF LimitsInv
<1>13. ASSUME NEW sig \in UserSignals, SignalArrives(sig)
       PROVE  LimitsInv'
  <2>1. Same /\ w' = w /\ fin' = fin
    BY <1>0, <1>13 DEF SignalArrives, Judged, Hist
  <2>2. CASE pc' = pc
    BY <1>i, <2>1, <2>2 DEF Judged, LimitsInv, InTime, MainDeadline, GraceDeadline, GraceOver, Waits,
                            VerdictWhole, KillWhole
  <2>3. CASE pc = "kevent" /\ pc' = "loop"
    BY <1>b, <2>1, <2>3 DEF Waits
  <2>. QED
    BY <1>13, <2>2, <2>3 DEF SignalArrives
<1>. QED
  BY <1>0, <1>1, <1>2, <1>3, <1>4, <1>5, <1>6, <1>7, <1>8, <1>9, <1>10, <1>11, <1>12, <1>13, Moves

LimitsUntilLost == proc.state # "gone" => LimitsInv

\* LimitsInv in every state of a run, until somebody else reaps the child, for
\* durations of less than centuries.
LEMMA LimitsHold ==
  ASSUME DurationsFit
  PROVE  Spec => []LimitsUntilLost
<1>1. Init => LimitsUntilLost
  BY SupervisorAssumption
     DEF Init, LimitsUntilLost, LimitsInv, InTime, MainDeadline, GraceDeadline, Waits,
         VerdictWhole, KillWhole, NoFin, NoHist, Idle
<1>2. TypeInv /\ PidInv /\ SentInv /\ LimitsUntilLost /\ [Next]_vars => LimitsUntilLost'
  BY LimitsStep, PidStep DEF LimitsUntilLost, GoneForGood, TypeInv
<1>. QED
  BY <1>1, <1>2, TypeInvHolds, PidHolds, SentAgrees, PTL DEF Spec

\* A wall-clock timeout is declared only when the whole timeout has passed
\* since the main wait began, whatever woke the loop before; only a child that
\* somebody else reaped is taken for a timeout.
THEOREM TimeoutNotEarly ==
  ASSUME DurationsFit
  PROVE  Spec => []NotEarly
<1>1. LimitsUntilLost => NotEarly
  BY DEF LimitsUntilLost, LimitsInv, VerdictWhole, NotEarly
<1>. QED
  BY <1>1, LimitsHold, PTL

\* After a timeout SIGKILL follows the termination signal only when the whole
\* --kill-after period has passed, unless somebody else reaped the child.
THEOREM GraceIsWhole ==
  ASSUME DurationsFit
  PROVE  Spec => []KillWaitsForGrace
<1>1. LimitsUntilLost => KillWaitsForGrace
  BY DEF LimitsUntilLost, LimitsInv, KillWhole, GraceOver, KillWaitsForGrace
<1>. QED
  BY <1>1, LimitsHold, PTL

-----------------------------------------------------------------------------
(* The status of the command. *)

\* a dead child has a status for wait4 to return
HasStatus(p) == p.state = "zombie" => p.status # "none"

StatusInv == HasStatus(proc) /\ ResultHasStatus

LEMMA StatusKept ==
  ASSUME NEW p \in Proc, HasStatus(p), NEW t \in Throttle
  PROVE  /\ \A forks \in BOOLEAN : HasStatus(Spawned(p, forks))
         /\ HasStatus(Execed(p)) /\ HasStatus(wait(p)) /\ HasStatus(Exited(p))
         /\ HasStatus(Lost(p)) /\ HasStatus(resume(p, t))
         /\ \A seen, over \in BOOLEAN, n \in Nat : HasStatus(update(p, t, seen, over, n))
         /\ \A sig \in Signals : /\ HasStatus(kill(p, sig)) /\ HasStatus(DiedOf(p, sig))
                                 /\ HasStatus(Handled(p, sig))
<1>1. /\ \A forks \in BOOLEAN : HasStatus(Spawned(p, forks))
      /\ HasStatus(Execed(p)) /\ HasStatus(wait(p)) /\ HasStatus(Exited(p)) /\ HasStatus(Lost(p))
  BY DEF HasStatus, Proc, Spawned, Execed, wait, Exited, Lost
<1>2. HasStatus(sigcont(p)) /\ HasStatus(sigstop(p))
  BY DEF HasStatus, Proc, sigcont, sigstop
<1>3. HasStatus(resume(p, t)) /\ \A seen, over \in BOOLEAN, n \in Nat : HasStatus(update(p, t, seen, over, n))
  BY <1>2 DEF resume, update
<1>4. \A sig \in Signals : HasStatus(kill(p, sig)) /\ HasStatus(DiedOf(p, sig)) /\ HasStatus(Handled(p, sig))
  BY StatusIsNoSignal DEF HasStatus, Proc, kill, DiedOf, Handled
<1>. QED
  BY <1>1, <1>2, <1>3, <1>4

LEMMA StatusStep ==
  ASSUME TypeOK, StatusInv, [Next]_vars
  PROVE  StatusInv'
<1>0. /\ proc \in Proc /\ thr \in Throttle /\ fin \in Fin /\ now \in Nat /\ cfg.signal \in Signals
      /\ cfg.limits \in BOOLEAN /\ "KILL" \in Signals /\ fin.signal \in Signals
      /\ mark_process_exited(thr) \in Throttle /\ wait(proc) \in Proc
      /\ resume(proc, thr) \in Proc /\ resumed(thr) \in Throttle
  BY SupervisorAssumption, KillIsSignal, ProcTypes, ThrottleTypes DEF TypeOK, ConfigType, Fin
<1>s. HasStatus(proc) /\ ResultHasStatus
  BY DEF StatusInv
\* everything that does not return
<1>a. ASSUME pc' # "done", HasStatus(proc')
      PROVE  StatusInv'
  BY <1>a DEF StatusInv, ResultHasStatus, HasStatus
<1>b. ASSUME NEW p \in Proc, HasStatus(p), NEW t \in Throttle, Fail(p, t)
      PROVE  StatusInv'
  <2>1. proc' = resume(p, t) /\ res'.kind = "Err"
    BY <1>b DEF Fail, NoResult
  <2>. QED
    BY <1>b, <2>1, StatusKept DEF StatusInv, ResultHasStatus, HasStatus
<1>c. ASSUME NEW p \in Proc, HasStatus(p), NEW s, Return(p, s),
             s # "none" \/ fin.kind = "SignalForwarded"
      PROVE  StatusInv'
  <2>1. proc' = resume(p, mark_process_exited(thr)) /\ res'.kind = fin.kind /\ res'.status = s
    BY <1>c DEF Return
  <2>. QED
    BY <1>0, <1>c, <2>1, StatusKept DEF StatusInv, ResultHasStatus, HasStatus
<1>1. CASE SpawnFails \/ WaitFails \/ EventLostExit
  BY <1>0, <1>s, <1>1, <1>b DEF SpawnFails, WaitFails, EventLostExit
<1>2. CASE SendFails
  BY <1>0, <1>s, <1>2, <1>b, StatusKept DEF SendFails
<1>3. CASE EventExit \/ WaitChild
  <2>1. proc.status # "none" /\ HasStatus(wait(proc))
    BY <1>0, <1>s, <1>3, StatusKept DEF EventExit, WaitChild, CanReap, HasStatus
  <2>. QED
    BY <1>0, <1>3, <1>c, <2>1 DEF EventExit, WaitChild
<1>4. CASE WaitLost
  BY <1>0, <1>s, <1>4, <1>b, <1>c DEF WaitLost
<1>5. CASE Spawn
  BY <1>0, <1>s, <1>5, <1>a, StatusKept DEF Spawn
<1>6. CASE Monitor \/ Enter \/ LoopArm \/ EventStdin \/ ReadStdin
           \/ HookFails \/ HookSpawn \/ HookWaitFails \/ HookExited \/ HookTimedOut
  BY <1>s, <1>6, <1>a
     DEF Monitor, Enter, LoopArm, EventStdin, ReadStdin, HookFails, HookSpawn, HookWaitFails,
         HookExited, HookTimedOut
<1>7. CASE LoopDeadline \/ LoopIdle \/ EventLostEsrch \/ EventSignal
  BY <1>s, <1>7, <1>a DEF LoopDeadline, LoopIdle, EventLostEsrch, EventSignal, OnTimedOut, OnSignal
<1>8. CASE EventTimerMemory \/ EventTimerIdle \/ EventTimerDeadline \/ EventTimerAgain
  <2>1. SampleThrottle /\ pc' # "done"
    BY <1>8 DEF EventTimerMemory, EventTimerIdle, EventTimerDeadline, EventTimerAgain, OnTimedOut,
                OnMemoryLimit
  <2>2. CASE ~ ThrottleDue
    BY <1>s, <1>a, <2>1, <2>2 DEF SampleThrottle
  <2>3. CASE ThrottleDue
    <3>1. PICK seen \in Samples(proc), over \in BOOLEAN :
             proc' = update(proc, thr, seen, over, now)
      BY <2>1, <2>3 DEF SampleThrottle
    <3>2. seen \in BOOLEAN
      BY DEF Samples
    <3>. QED
      BY <1>0, <1>s, <1>a, <2>1, <3>1, <3>2, StatusKept
  <2>. QED
    BY <2>2, <2>3
<1>9. CASE Terminate \/ Forward \/ Escalate
  <2>1. HasStatus(resume(proc, thr))
    BY <1>0, <1>s, StatusKept
  <2>2. \A sig \in Signals : HasStatus(kill(resume(proc, thr), sig))
    BY <1>0, <2>1, StatusKept
  <2>. QED
    BY <1>0, <1>9, <1>a, <2>2 DEF Terminate, Forward, Escalate, SendSignal
<1>10. ASSUME NEW p, ChildStep(p), HasStatus(p)
       PROVE  StatusInv'
  BY <1>10, <1>a DEF ChildStep
<1>11. CASE ChildExecs \/ ChildExits \/ ChildKilled \/ ChildLost
  BY <1>0, <1>s, <1>10, <1>11, StatusKept DEF ChildExecs, ChildExits, ChildKilled, ChildLost
<1>12. ASSUME NEW sig \in Signals, ChildDies(sig) \/ ChildHandles(sig)
       PROVE  StatusInv'
  BY <1>0, <1>s, <1>10, <1>12, StatusKept DEF ChildDies, ChildHandles
<1>13. ASSUME NEW sig \in Signals, ChildInherits(sig)
       PROVE  StatusInv'
  BY <1>0, <1>s, <1>a, <1>13, StatusKept DEF ChildInherits
<1>14. ASSUME NEW sig \in UserSignals, SignalArrives(sig)
       PROVE  StatusInv'
  BY <1>s, <1>a, <1>14 DEF SignalArrives
<1>15. CASE Tick \/ StdinData \/ StdinEof \/ ChildReads \/ HookExits
  BY <1>s, <1>a, <1>15 DEF Tick, StdinData, StdinEof, ChildReads, StdinStep, HookExits
<1>16. CASE UNCHANGED vars
  BY <1>s, <1>16 DEF vars, StatusInv, HasStatus, ResultHasStatus
<1>17. CASE Supervise \/ Failures
  BY <1>17, <1>1, <1>2, <1>3, <1>4, <1>5, <1>6, <1>7, <1>8, <1>9 DEF Supervise, Failures
<1>18. CASE Environment
  BY <1>18, <1>11, <1>12, <1>13, <1>14, <1>15 DEF Environment
<1>. QED
  BY <1>16, <1>17, <1>18 DEF Next, Returned

\* A result other than an error or a forwarded signal carries the status that
\* wait4 returned for the command, even if somebody else may reap the child.
THEOREM ResultCarriesStatus == Spec => []ResultHasStatus
<1>1. Init => StatusInv
  BY DEF Init, StatusInv, HasStatus, ResultHasStatus, Unborn
<1>2. TypeOK /\ StatusInv /\ [Next]_vars => StatusInv'
  BY StatusStep
<1>3. StatusInv => ResultHasStatus
  BY DEF StatusInv
<1>. QED
  BY <1>1, <1>2, <1>3, TypeCorrect, PTL DEF Spec

-----------------------------------------------------------------------------
(* Signals are conserved. *)

Forwarded == {m \in hist.sent : m.why = "forward"}

\* The step neither counts, reads nor forwards a signal.
NoSignalMoves ==
  /\ UNCHANGED <<pipe, hist.got, hist.phantom, Forwarded>>
  /\ pc = "forward" <=> pc' = "forward"
  /\ fin'.kind = fin.kind \/ fin.kind = "Completed"
  /\ res' = res \/ pc # "done"

ConservedInv == IsFiniteSet(Forwarded) /\ SignalsConserved

\* Which steps move no signal: all but four, and the errors.
LEMMA SignalMoves ==
  ASSUME TypeOK, SentInv, [Next]_vars
  PROVE  \/ NoSignalMoves
         \/ EventSignal \/ Forward
         \/ \E sig \in Signals : ChildInherits(sig)
         \/ \E sig \in UserSignals : SignalArrives(sig)
         \/ pc' = "done" /\ res'.kind = "Err" /\ hist' = hist
<1>0. hist \in Hist /\ fin \in Fin /\ w \in WaitLocals /\ w.phase \in {"main", "grace"}
  BY DEF TypeOK, WaitLocals
<1>1. CASE SpawnFails \/ WaitFails \/ EventLostExit \/ SendFails
  BY <1>1 DEF SpawnFails, WaitFails, EventLostExit, SendFails, Fail, NoResult
<1>2. CASE EventExit \/ WaitChild \/ WaitLost
  BY <1>2 DEF EventExit, WaitChild, WaitLost, Return, Fail, NoResult, NoSignalMoves, Forwarded
<1>3. CASE Spawn \/ Monitor \/ LoopArm \/ EventStdin \/ ReadStdin \/ EventTimerAgain
           \/ HookFails \/ HookSpawn \/ HookWaitFails \/ HookExited \/ HookTimedOut
  BY <1>3 DEF Spawn, Monitor, LoopArm, EventStdin, ReadStdin, EventTimerAgain, TimerFired, HookFails,
              HookSpawn, HookWaitFails, HookExited, HookTimedOut, NoSignalMoves, Forwarded
<1>4. CASE Enter
  <2>1. hist'.got = hist.got /\ hist'.phantom = hist.phantom /\ hist'.sent = hist.sent
    BY <1>0, <1>4 DEF Enter, Hist
  <2>. QED
    BY <1>4, <2>1 DEF Enter, NoSignalMoves, Forwarded
<1>5. CASE LoopDeadline \/ LoopIdle \/ EventLostEsrch \/ EventTimerMemory \/ EventTimerIdle
           \/ EventTimerDeadline
  <2>1. /\ pc \in {"loop", "kevent"} /\ pipe' = pipe
        /\ \/ OnTimedOut("WallClock") \/ OnTimedOut("StdinIdle")
           \/ OnMemoryLimit /\ Main
    BY <1>5 DEF LoopDeadline, LoopIdle, EventLostEsrch, EventTimerMemory, EventTimerIdle,
                EventTimerDeadline, TimerFired, MemDue
  <2>2. hist'.got = hist.got /\ hist'.phantom = hist.phantom /\ hist'.sent = hist.sent
    BY <1>0, <2>1 DEF OnTimedOut, OnMemoryLimit, Hist
  <2>3. pc' \in {"hook", "term", "kill"} /\ res' = res
    BY <2>1 DEF OnTimedOut, OnMemoryLimit
  <2>4. fin' = fin \/ fin.kind = "Completed"
    BY <2>1 DEF OnTimedOut, OnMemoryLimit, Main, SentInv, UntouchedInMain
  <2>. QED
    BY <2>1, <2>2, <2>3, <2>4 DEF NoSignalMoves, Forwarded
<1>6. CASE Terminate \/ Escalate
  <2>1. PICK m : hist' = [hist EXCEPT !.sent = @ \cup {m}] /\ m.why # "forward"
    <3>1. \E sig, why : why # "forward" /\ SendSignal(sig, why)
      BY <1>6 DEF Terminate, Escalate
    <3>2. PICK sig, why : why # "forward" /\ SendSignal(sig, why)
      BY <3>1
    <3> DEFINE m == [sig |-> sig, why |-> why, at |-> now]
    <3>3. hist' = [hist EXCEPT !.sent = @ \cup {m}] /\ m.why = why
      BY <3>2 DEF SendSignal
    <3>. HIDE DEF m
    <3>. QED
      BY <3>2, <3>3
  <2>2. hist'.got = hist.got /\ hist'.phantom = hist.phantom /\ hist'.sent = hist.sent \cup {m}
    BY <1>0, <2>1 DEF Hist
  <2>3. Forwarded' = Forwarded
    BY <2>1, <2>2 DEF Forwarded
  <2>4. /\ pc \in {"term", "kill"} /\ pc' \in {"wait", "enter"} /\ fin'.kind = fin.kind
        /\ pipe' = pipe /\ res' = res
    BY <1>0, <1>6 DEF Terminate, Escalate, Fin
  <2>. QED
    BY <2>2, <2>3, <2>4 DEF NoSignalMoves
<1>7. ASSUME NEW p, ChildStep(p)
      PROVE  NoSignalMoves
  BY <1>7 DEF ChildStep, NoSignalMoves, Forwarded
<1>8. CASE StdinData
  <2>1. hist'.got = hist.got /\ hist'.phantom = hist.phantom /\ hist'.sent = hist.sent
    BY <1>0, <1>8 DEF StdinData, Hist
  <2>. QED
    BY <1>8, <2>1 DEF StdinData, StdinStep, NoSignalMoves, Forwarded
<1>9. CASE Tick \/ StdinEof \/ ChildReads \/ HookExits \/ UNCHANGED vars
  BY <1>9 DEF Tick, StdinEof, ChildReads, StdinStep, HookExits, vars, NoSignalMoves, Forwarded
<1>10. ChildExecs \/ ChildExits \/ ChildKilled \/ ChildLost => \E p : ChildStep(p)
  BY DEF ChildExecs, ChildExits, ChildKilled, ChildLost
<1>11. \A sig \in Signals : ChildDies(sig) \/ ChildHandles(sig) => \E p : ChildStep(p)
  BY DEF ChildDies, ChildHandles
<1>12. CASE Supervise \/ Failures
  BY <1>12, <1>1, <1>2, <1>3, <1>4, <1>5, <1>6 DEF Supervise, Failures
<1>13. CASE Environment
  BY <1>13, <1>7, <1>8, <1>9, <1>10, <1>11 DEF Environment
<1>. QED
  BY <1>9, <1>12, <1>13 DEF Next, Returned

LEMMA ConservedStep ==
  ASSUME TypeOK, SentInv, ConservedInv, [Next]_vars
  PROVE  ConservedInv'
<1>0. /\ hist \in Hist /\ hist.got \in Nat /\ hist.phantom \in Nat /\ fin \in Fin
      /\ pipe \in Seq(Caught) /\ Len(pipe) \in Nat /\ UserSignals \subseteq Caught
  BY SupervisorAssumption DEF TypeOK, Hist
<1> DEFINE n == Cardinality(Forwarded)
           fwd == IF pc = "forward" THEN 1 ELSE 0
<1>n. IsFiniteSet(Forwarded) /\ n \in Nat
  BY FS_CardinalityType DEF ConservedInv
<1>c. res.kind # "Err" /\ fin.kind # "MemoryLimitExceeded" => hist.got + hist.phantom = Len(pipe) + n + fwd
  BY DEF ConservedInv, SignalsConserved, Forwarded
<1>d. ASSUME IsFiniteSet(Forwarded'),
             res'.kind # "Err" /\ fin'.kind # "MemoryLimitExceeded" =>
               hist'.got + hist'.phantom = Len(pipe') + n' + fwd'
      PROVE  ConservedInv'
  BY <1>d DEF ConservedInv, SignalsConserved, Forwarded
<1>e. res.kind = "None" <=> pc # "done"
  BY DEF SentInv
\* while it waits or forwards, nothing has been forwarded yet
<1>f. ASSUME pc \in {"kevent", "forward"}
      PROVE  Forwarded = {}
  <2>1. "forward" \notin Why
    BY <1>f DEF SentInv, UntouchedInMain, LimitInGrace, ForwardedOnce, TypeOK, WaitLocals
  <2>. QED
    BY <2>1 DEF Why, Forwarded
<1>1. CASE NoSignalMoves
  <2>1. res'.kind # "Err" => res.kind # "Err"
    BY <1>1, <1>e DEF NoSignalMoves
  <2>2. fin'.kind # "MemoryLimitExceeded" => fin.kind # "MemoryLimitExceeded"
    BY <1>1 DEF NoSignalMoves
  <2>3. n' = n /\ fwd' = fwd /\ hist'.got = hist.got /\ hist'.phantom = hist.phantom /\ pipe' = pipe
        /\ Forwarded' = Forwarded
    BY <1>1 DEF NoSignalMoves
  <2>. HIDE DEF n, fwd
  <2>. QED
    BY <1>c, <1>d, <1>n, <2>1, <2>2, <2>3
<1>2. CASE pc' = "done" /\ res'.kind = "Err" /\ hist' = hist
  <2>1. Forwarded' = Forwarded
    BY <1>2 DEF Forwarded
  <2>. QED
    BY <1>2, <1>d, <1>n, <2>1
<1>3. CASE EventSignal
  <2>1. /\ Forwarded' = Forwarded /\ Forwarded = {} /\ hist' = hist /\ res' = res
        /\ pc = "kevent" /\ pipe' = Tail(pipe) /\ pipe # << >>
    BY <1>3, <1>f DEF EventSignal, OnSignal, Forwarded
  <2>2. \/ pc' = "forward"
        \/ fin'.kind = "MemoryLimitExceeded"
    BY <1>3 DEF EventSignal, OnSignal
  <2>3. fin'.kind # "MemoryLimitExceeded" => fin.kind # "MemoryLimitExceeded"
    <3>1. CASE Main
      BY <2>1, <3>1 DEF Main, SentInv, UntouchedInMain
    <3>2. CASE ~ Main
      BY <1>3, <3>2 DEF EventSignal, OnSignal
    <3>. QED
      BY <3>1, <3>2
  <2>4. Len(pipe') = Len(pipe) - 1
    BY <1>0, <2>1
  <2>5. n = 0 /\ n' = 0
    BY <2>1, FS_EmptySet
  <2>6. fwd = 0 /\ (pc' = "forward" => fwd' = 1)
    BY <2>1
  <2>. HIDE DEF n, fwd
  <2>. QED
    BY <1>0, <1>c, <1>d, <1>n, <2>1, <2>2, <2>3, <2>4, <2>5, <2>6
<1>4. CASE Forward
  <2> DEFINE m == [sig |-> fin.signal, why |-> "forward", at |-> now]
  <2>1. /\ pc = "forward" /\ pc' = "wait" /\ fin' = fin /\ res' = res /\ pipe' = pipe
        /\ hist' = [hist EXCEPT !.sent = @ \cup {m}] /\ m.why = "forward"
    BY <1>4 DEF Forward, SendSignal
  <2>. HIDE DEF m
  <2>2. hist'.got = hist.got /\ hist'.phantom = hist.phantom /\ hist'.sent = hist.sent \cup {m}
    BY <1>0, <2>1 DEF Hist
  <2>3. Forwarded = {} /\ Forwarded' = {m}
    BY <1>f, <2>1, <2>2 DEF Forwarded
  <2>4. n = 0 /\ n' = 1 /\ IsFiniteSet(Forwarded')
    BY <2>3, FS_EmptySet, FS_Singleton
  <2>5. fwd = 1 /\ fwd' = 0
    BY <2>1
  <2>. HIDE DEF n, fwd
  <2>. QED
    BY <1>0, <1>c, <1>d, <2>1, <2>2, <2>4, <2>5
<1>5. ASSUME NEW sig \in Caught, pipe' = Append(pipe, sig), fin' = fin, res' = res,
             \/ hist' = [hist EXCEPT !.got = @ + 1]
             \/ hist' = [hist EXCEPT !.phantom = @ + 1],
             pc = "forward" <=> pc' = "forward"
      PROVE  ConservedInv'
  <2>1. hist'.got + hist'.phantom = hist.got + hist.phantom + 1 /\ hist'.sent = hist.sent
    <3>1. hist.got + 1 \in Nat /\ hist.phantom + 1 \in Nat
      BY <1>0
    <3>2. CASE hist' = [hist EXCEPT !.got = hist.got + 1]
      BY <1>0, <3>1, <3>2 DEF Hist
    <3>3. CASE hist' = [hist EXCEPT !.phantom = hist.phantom + 1]
      BY <1>0, <3>1, <3>3 DEF Hist
    <3>. QED
      BY <1>5, <3>2, <3>3
  <2>2. Len(pipe') = Len(pipe) + 1
    BY <1>0, <1>5
  <2>3. Forwarded' = Forwarded /\ n' = n /\ fwd' = fwd
    BY <1>5, <2>1 DEF Forwarded
  <2>4. fwd \in Nat
    OBVIOUS
  <2>. HIDE DEF n, fwd
  <2>. QED
    BY <1>0, <1>5, <1>c, <1>d, <1>n, <2>1, <2>2, <2>3, <2>4
<1>6. ASSUME NEW sig \in Signals, ChildInherits(sig)
      PROVE  ConservedInv'
  BY <1>5, <1>6 DEF ChildInherits, Inherits
<1>7. ASSUME NEW sig \in UserSignals, SignalArrives(sig)
      PROVE  ConservedInv'
  BY <1>0, <1>5, <1>7 DEF SignalArrives
<1>. QED
  BY <1>1, <1>2, <1>3, <1>4, <1>6, <1>7, SignalMoves

\* No signal that the handler put in the pipe is read and dropped, except by
\* the grace period after a memory verdict: each is waiting in the pipe, on
\* its way to the command or sent to it.
THEOREM NoSignalDropped == Spec => []SignalsConserved
<1>1. Init => ConservedInv
  <2>. SUFFICES ASSUME Init
                PROVE  ConservedInv
    OBVIOUS
  <2>1. /\ Forwarded = {} /\ pipe = << >> /\ pc = "start"
        /\ hist.got = 0 /\ hist.phantom = 0
    BY DEF Init, NoHist, Forwarded
  <2>2. IsFiniteSet(Forwarded) /\ Cardinality(Forwarded) = 0
    BY <2>1, FS_EmptySet
  <2>. QED
    BY <2>1, <2>2 DEF ConservedInv, SignalsConserved, Forwarded
<1>2. TypeOK /\ SentInv /\ ConservedInv /\ [Next]_vars => ConservedInv'
  BY ConservedStep
<1>3. ConservedInv => SignalsConserved
  BY DEF ConservedInv
<1>. QED
  BY <1>1, <1>2, <1>3, SentAgrees, PTL DEF Spec
=============================================================================
