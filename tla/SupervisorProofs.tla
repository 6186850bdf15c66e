-------------------------- MODULE SupervisorProofs --------------------------
(***************************************************************************)
(* Proofs about Supervisor for every value of its constants: no bound on   *)
(* time, on the number of signals, or on the set of configurations.        *)
(***************************************************************************)
EXTENDS Supervisor, TLAPS

-----------------------------------------------------------------------------
(* Type correctness.  wait_deadline is a number only if the grace period is  *)
(* entered with a kill-after, so that is part of the induction.              *)

TypeInv ==
  /\ TypeOK
  /\ pc = "enter" /\ w.phase = "grace" => cfg.killAfter # None

\* The arithmetic of time_math.rs neither goes below zero nor, where it moves
\* a point in time, leaves the u64.
LEMMA TimeTypes ==
  ASSUME NEW a \in Nat, NEW b \in Nat
  PROVE  /\ saturating_add(a, b) \in u64
         /\ saturating_sub(a, b) \in Nat
         /\ advance_ns(a, b) \in u64
         /\ remaining_ns(a, b) \in Nat
         /\ duration_to_ns(a) \in Nat
         /\ MinOf(a, b) \in Nat
         /\ U64Max \in u64
BY TimeBounds DEF saturating_add, saturating_sub, advance_ns, remaining_ns,
                  duration_to_ns, MinOf, u64

\* Every wake-up next_wake_ns computes is a number of ticks from now: the
\* armed timer is never in the past.
LEMMA WakeTypes ==
  ASSUME TypeOK
  PROVE  now + MinOf(next_wake_ns(w), MaxTimer) \in Nat
<1>1. /\ now \in Nat /\ w.deadline \in Nat /\ w.nextBeat \in Nat /\ w.nextMem \in Nat
      /\ w.nextThrottle \in Nat /\ w.last \in Nat /\ cfg.stdinIdle \in Nat
  BY SupervisorAssumption DEF TypeOK, WaitLocals, ConfigType, u64
<1>2. U64Max \in Nat /\ MaxTimer \in Nat
  BY TimeBounds
<1>3. time_to_stdin_deadline(w) \in Nat
  BY <1>1, <1>2, TimeTypes DEF time_to_stdin_deadline, time_to_idle_timeout, elapsed_ns,
                               saturating_sub, None
<1>4. time_to_periodic(w) \in Nat
  BY <1>1, TimeTypes DEF time_to_periodic
<1>5. next_wake_ns(w) \in Nat
  BY <1>1, <1>3, <1>4, TimeTypes DEF next_wake_ns
<1> QED
  BY <1>1, <1>2, <1>5 DEF MinOf

\* The system calls on the child, and the throttle that makes some of them,
\* map processes to processes.
LEMMA ProcTypes ==
  ASSUME NEW p \in Proc, NEW t \in Throttle
  PROVE  /\ \A forks \in BOOLEAN : Spawned(p, forks) \in Proc
         /\ Execed(p) \in Proc /\ wait(p) \in Proc /\ Exited(p) \in Proc
         /\ Lost(p) \in Proc /\ sigstop(p) \in Proc /\ sigcont(p) \in Proc
         /\ resume(p, t) \in Proc
         /\ \A sig \in Signals : /\ kill(p, sig) \in Proc
                                  /\ DiedOf(p, sig) \in Proc
                                  /\ Handled(p, sig) \in Proc
<1>1. /\ \A forks \in BOOLEAN : Spawned(p, forks) \in Proc
      /\ Execed(p) \in Proc /\ wait(p) \in Proc /\ Exited(p) \in Proc /\ Lost(p) \in Proc
  BY DEF Proc, ProcState, Status, Spawned, Execed, wait, Exited, Lost
<1>2. sigstop(p) \in Proc /\ sigcont(p) \in Proc
  BY DEF Proc, ProcState, Status, sigstop, sigcont, Running, Owned
<1>3. resume(p, t) \in Proc
  BY <1>2 DEF resume
<1>4. ASSUME NEW sig \in Signals
      PROVE  kill(p, sig) \in Proc /\ DiedOf(p, sig) \in Proc /\ Handled(p, sig) \in Proc
  BY DEF Proc, ProcState, Status, kill, DiedOf, Handled, Running, Owned
<1> QED
  BY <1>1, <1>2, <1>3, <1>4

\* The same for the throttle's own state.
LEMMA ThrottleTypes ==
  ASSUME NEW t \in Throttle, NEW n \in Nat, NEW seen \in BOOLEAN, NEW over \in BOOLEAN
  PROVE  /\ Detached \in Throttle /\ Attached(n) \in Throttle
         /\ resumed(t) \in Throttle /\ mark_process_exited(t) \in Throttle
         /\ updated(t, seen, over, n) \in Throttle
BY DEF Throttle, Detached, Attached, resumed, mark_process_exited, updated

\* update() only stops and continues the child.
LEMMA UpdateTypes ==
  ASSUME NEW p \in Proc, NEW t \in Throttle, NEW n \in Nat,
         NEW seen \in BOOLEAN, NEW over \in BOOLEAN
  PROVE  update(p, t, seen, over, n) \in Proc
BY ProcTypes DEF update

\* The passthrough poll leaves the phase of the wait alone, and so do the
\* checks of a timer event and the end of stdin monitoring.
LEMMA LocalsTypes ==
  ASSUME TypeOK, NEW l \in WaitLocals
  PROVE  /\ polled(l) \in WaitLocals /\ polled(l).phase = l.phase
         /\ stdin_off(l) \in WaitLocals /\ stdin_off(l).phase = l.phase
         /\ stdin_activity(l) \in WaitLocals /\ stdin_activity(l).phase = l.phase
<1>1. now \in Nat
  BY DEF TypeOK
<1>2. polled(l) \in WaitLocals /\ polled(l).phase = l.phase
  BY <1>1 DEF polled, WaitLocals
<1> QED
  BY <1>1, <1>2 DEF stdin_off, stdin_activity, WaitLocals

\* The checks a timer event makes keep the locals well typed.
LEMMA ChecksTypes ==
  ASSUME TypeOK
  PROVE  after_checks \in WaitLocals /\ after_checks.phase = w.phase
<1>1. now \in Nat /\ cfg.throttle \in Nat /\ cfg.mem \in Nat /\ w \in WaitLocals
  BY SupervisorAssumption DEF TypeOK, ConfigType
<1> DEFINE l == [w EXCEPT
    !.nextThrottle = IF ThrottleDue THEN advance_ns(now, cfg.throttle) ELSE @,
    !.nextMem = IF MemDue THEN advance_ns(now, cfg.mem) ELSE @]
<1>2. l \in WaitLocals /\ l.phase = w.phase
  BY <1>1, TimeTypes DEF WaitLocals
<1>3. after_checks = polled(l)
  BY DEF after_checks
<1> HIDE DEF l
<1> QED
  BY <1>2, <1>3, LocalsTypes

\* Returning, with a result or an error, keeps the types.
LEMMA ReturnTypes ==
  ASSUME TypeOK, NEW p \in Proc, NEW t \in Throttle, NEW status \in Status
  PROVE  /\ Fail(p, t) => /\ pc' = "done" /\ res' \in Result
                          /\ proc' \in Proc /\ thr' \in Throttle
         /\ Return(p, status) => /\ pc' = "done" /\ res' \in Result
                                 /\ proc' \in Proc /\ thr' \in Throttle
<1>1. thr \in Throttle /\ fin \in Fin
  BY DEF TypeOK
<1>2. ASSUME Fail(p, t)
      PROVE  pc' = "done" /\ res' \in Result /\ proc' \in Proc /\ thr' \in Throttle
  BY <1>2, ProcTypes, ThrottleTypes DEF Fail, Result, NoResult, Kinds, Reasons, Status
<1>3. ASSUME Return(p, status)
      PROVE  pc' = "done" /\ res' \in Result /\ proc' \in Proc /\ thr' \in Throttle
  <2>1. mark_process_exited(thr) \in Throttle
    BY <1>1, ThrottleTypes
  <2>2. res' \in Result
    BY <1>1, <1>3 DEF Return, Result, Fin
  <2> QED
    BY <1>3, <2>1, <2>2, ProcTypes, ThrottleTypes DEF Return
<1> QED
  BY <1>2, <1>3

\* So do the verdicts of the wait loop; none of them enters a new wait.
LEMMA VerdictTypes ==
  ASSUME TypeOK
  PROVE  /\ OnTimedOut("WallClock") \/ OnTimedOut("StdinIdle") =>
              /\ pc' \in {"hook", "term", "kill"} /\ fin' \in Fin
              /\ res' \in Result /\ hist' \in Hist
         /\ OnMemoryLimit => /\ pc' = "term" /\ fin' \in Fin
                             /\ res' \in Result /\ hist' \in Hist
         /\ \A sig \in Signals : OnSignal(sig) =>
              /\ pc' \in {"kill", "forward"} /\ fin' \in Fin
              /\ res' \in Result /\ hist' \in Hist
<1>1. fin \in Fin /\ res \in Result /\ hist \in Hist /\ now \in Nat
  BY DEF TypeOK
<1>2. ASSUME NEW reason \in Reasons, OnTimedOut(reason)
      PROVE  /\ pc' \in {"hook", "term", "kill"} /\ fin' \in Fin
             /\ res' \in Result /\ hist' \in Hist
  BY <1>1, <1>2 DEF OnTimedOut, Fin, Kinds, Hist
<1>3. OnMemoryLimit => /\ pc' = "term" /\ fin' \in Fin
                       /\ res' \in Result /\ hist' \in Hist
  BY <1>1 DEF OnMemoryLimit, Fin, Kinds, Hist
<1>4. ASSUME NEW sig \in Signals, OnSignal(sig)
      PROVE  /\ pc' \in {"kill", "forward"} /\ fin' \in Fin
             /\ res' \in Result /\ hist' \in Hist
  BY <1>1, <1>4 DEF OnSignal, Fin, Kinds
<1> QED
  BY <1>2, <1>3, <1>4 DEF Reasons

\* And so does a throttle sample.
LEMMA SampleTypes ==
  ASSUME TypeOK, SampleThrottle
  PROVE  proc' \in Proc /\ thr' \in Throttle
<1>1. proc \in Proc /\ thr \in Throttle /\ now \in Nat
  BY DEF TypeOK
<1>2. CASE ~ ThrottleDue
  BY <1>1, <1>2 DEF SampleThrottle
<1>3. CASE ThrottleDue
  <2>1. PICK seen \in Samples(proc), over \in BOOLEAN :
           /\ proc' = update(proc, thr, seen, over, now)
           /\ thr' = updated(thr, seen, over, now)
    BY <1>3 DEF SampleThrottle
  <2>2. seen \in BOOLEAN
    BY DEF Samples
  <2> QED
    BY <1>1, <2>1, <2>2, UpdateTypes, ThrottleTypes
<1> QED
  BY <1>2, <1>3

\* Sending a termination signal keeps the types.
LEMMA SendTypes ==
  ASSUME TypeOK, NEW sig \in Signals, NEW why \in {"limit", "kill", "forward"},
         SendSignal(sig, why)
  PROVE  proc' \in Proc /\ thr' \in Throttle /\ hist' \in Hist
<1>1. proc \in Proc /\ thr \in Throttle /\ now \in Nat /\ hist \in Hist
  BY DEF TypeOK
<1>2. [sig |-> sig, why |-> why, at |-> now] \in Sent
  BY <1>1 DEF Sent
<1>3. hist' \in Hist
  BY <1>1, <1>2 DEF SendSignal, Hist
<1> QED
  BY <1>1, <1>3, ProcTypes, ThrottleTypes DEF SendSignal

\* Each step keeps TypeInv: one case per action.
LEMMA TypeStep ==
  ASSUME TypeInv, [Next]_vars
  PROVE  TypeInv'
<1> USE DEF TypeInv
<1>0. /\ cfg \in ConfigType /\ now \in Nat /\ w \in WaitLocals /\ proc \in Proc
      /\ thr \in Throttle /\ hist \in Hist /\ fin \in Fin
      /\ pipe \in Seq(Caught) /\ Caught \subseteq Signals /\ UserSignals \subseteq Caught
      /\ proc.status \in Status /\ "none" \in Status /\ "KILL" \in Signals
  BY SupervisorAssumption, KillIsSignal DEF TypeOK, Proc, Status
<1>1. CASE SpawnFails
  BY <1>0, <1>1, ReturnTypes DEF TypeOK, SpawnFails, Locations
<1>2. CASE Spawn
  BY <1>0, <1>2, ProcTypes DEF TypeOK, Spawn, Locations, ConfigType
<1>3. CASE Monitor
  <2>1. thr' \in Throttle
    BY <1>0, <1>3, ThrottleTypes DEF Monitor, Samples
  <2>2. w' \in WaitLocals /\ w'.phase = "main"
    <3>1. 0 \in u64
      BY TimeBounds DEF u64
    <3> QED
      BY <1>0, <1>3, <3>1 DEF Monitor, WaitLocals, Idle
  <2> QED
    BY <1>3, <2>1, <2>2 DEF TypeOK, Monitor, Locations
<1>4. CASE WaitFails
  BY <1>0, <1>4, ReturnTypes DEF TypeOK, WaitFails, Locations
<1>5. CASE Enter
  <2>1. w' \in WaitLocals
    <3>1. wait_deadline \in u64
      <4>1. CASE Main
        BY <1>0, <4>1, TimeTypes DEF wait_deadline, ConfigType
      <4>2. CASE ~ Main
        <5>1. cfg.killAfter \in Nat
          BY <1>0, <1>5, <4>2 DEF Main, Enter, ConfigType, WaitLocals
        <5> QED
          BY <1>0, <4>2, <5>1, TimeTypes DEF wait_deadline
      <4> QED
        BY <4>1, <4>2
    <3>2. \A n \in Nat : Every(n, now) \in u64
      BY <1>0, TimeTypes DEF Every
    <3>3. /\ (IF throttled THEN advance_ns(thr.start, cfg.throttle) ELSE U64Max) \in u64
          /\ (IF Main THEN Every(cfg.mem, now) ELSE U64Max) \in u64
          /\ (IF Main THEN Every(duration_to_ns(cfg.heartbeat), now) ELSE U64Max) \in u64
      BY <1>0, <3>2, TimeTypes DEF ConfigType, Throttle
    <3> DEFINE watched == Main /\ cfg.stdin # "off" /\ sin # "invalid"
               l == [w EXCEPT
                !.start = now,
                !.deadline = wait_deadline,
                !.nextThrottle = IF throttled THEN advance_ns(thr.start, cfg.throttle)
                                 ELSE U64Max,
                !.nextMem = IF Main THEN Every(cfg.mem, now) ELSE U64Max,
                !.nextBeat = IF Main THEN Every(duration_to_ns(cfg.heartbeat), now)
                             ELSE U64Max,
                !.idle = watched,
                !.enabled = watched /\ cfg.stdin = "consume",
                !.watch = FALSE,
                !.del = FALSE]
    <3>4. l \in WaitLocals
      BY <1>0, <3>1, <3>3 DEF WaitLocals, Main
    <3>5. w' = polled(l)
      BY <1>5 DEF Enter
    <3> HIDE DEF l
    <3> QED
      BY <3>4, <3>5, LocalsTypes
  <2>2. hist' \in Hist
    BY <1>0, <1>5 DEF Enter, Hist
  <2> QED
    BY <1>5, <2>1, <2>2 DEF TypeOK, Enter, Locations
<1>6. CASE LoopDeadline \/ LoopIdle
  BY <1>6, VerdictTypes DEF TypeOK, LoopDeadline, LoopIdle, Locations
<1>7. CASE LoopArm
  <2>1. w' \in WaitLocals
    BY <1>0, <1>7, WakeTypes DEF LoopArm, WaitLocals
  <2> QED
    BY <1>7, <2>1 DEF TypeOK, LoopArm, Locations
<1>8. CASE EventExit
  BY <1>0, <1>8, ReturnTypes, ProcTypes DEF TypeOK, EventExit, Locations
<1>9. CASE EventLostExit
  BY <1>0, <1>9, ReturnTypes DEF TypeOK, EventLostExit, Locations
<1>10. CASE EventLostEsrch
  BY <1>10, VerdictTypes DEF TypeOK, EventLostEsrch, Locations
<1>11. CASE EventSignal
  <2>1. Head(pipe) \in Signals /\ Tail(pipe) \in Seq(Caught)
    BY <1>0, <1>11 DEF EventSignal
  <2> QED
    BY <1>11, <2>1, VerdictTypes DEF TypeOK, EventSignal, Locations
<1>12. CASE EventStdin
  BY <1>0, <1>12, LocalsTypes DEF TypeOK, EventStdin, Locations
<1>13. CASE ReadStdin
  BY <1>0, <1>13, LocalsTypes DEF TypeOK, ReadStdin, Locations
<1>14. CASE EventTimerMemory
  BY <1>14, SampleTypes, VerdictTypes DEF TypeOK, EventTimerMemory, Locations
<1>15. CASE EventTimerIdle \/ EventTimerDeadline
  BY <1>15, SampleTypes, VerdictTypes, ChecksTypes
    DEF TypeOK, EventTimerIdle, EventTimerDeadline, Locations
<1>16. CASE EventTimerAgain
  <2>1. w' \in WaitLocals
    <3>1. advance_ns(now, duration_to_ns(cfg.heartbeat)) \in u64
      BY <1>0, TimeTypes DEF ConfigType
    <3> QED
      BY <1>16, <3>1, ChecksTypes DEF EventTimerAgain, WaitLocals
  <2> QED
    BY <1>16, <2>1, SampleTypes DEF TypeOK, EventTimerAgain, Locations
<1>17. CASE HookFails \/ HookSpawn \/ HookWaitFails \/ HookExited \/ HookTimedOut
  <2>1. advance_ns(now, duration_to_ns(cfg.hookLimit)) \in u64
    BY <1>0, TimeTypes DEF ConfigType
  <2> QED
    BY <1>17, <2>1 DEF TypeOK, HookFails, HookSpawn, HookWaitFails, HookExited,
                       HookTimedOut, Locations
<1>18. CASE SendFails
  BY <1>0, <1>18, ReturnTypes, ProcTypes, ThrottleTypes DEF TypeOK, SendFails, Locations
<1>19. CASE Terminate
  <2>1. cfg.signal \in Signals /\ w' \in WaitLocals
    BY <1>0, <1>19 DEF Terminate, ConfigType, WaitLocals
  <2> QED
    BY <1>19, <2>1, SendTypes DEF TypeOK, Terminate, Locations
<1>20. CASE Forward
  BY <1>0, <1>20, SendTypes DEF TypeOK, Forward, Locations, Fin
<1>21. CASE Escalate
  <2>1. fin' \in Fin
    BY <1>0, <1>21 DEF Escalate, Fin
  <2> QED
    BY <1>0, <1>21, <2>1, SendTypes DEF TypeOK, Escalate, Locations
<1>22. CASE WaitChild
  BY <1>0, <1>22, ReturnTypes, ProcTypes DEF TypeOK, WaitChild, Locations
<1>23. CASE WaitLost
  BY <1>0, <1>23, ReturnTypes DEF TypeOK, WaitLost, Locations
<1>24. CASE Tick
  BY <1>24 DEF TypeOK, Tick
<1>25. CASE \E p \in Proc : ChildStep(p)
  BY <1>25 DEF TypeOK, ChildStep
<1>26. ASSUME NEW sig \in UserSignals, SignalArrives(sig)
       PROVE  TypeInv'
  <2>1. pipe' \in Seq(Caught)
    BY <1>0, <1>26 DEF SignalArrives
  <2>2. hist' \in Hist
    <3>1. hist.got + 1 \in Nat
      BY <1>0 DEF Hist
    <3>2. hist' = [hist EXCEPT !.got = hist.got + 1]
      BY <1>26 DEF SignalArrives
    <3> QED
      BY <1>0, <3>1, <3>2 DEF Hist
  <2> QED
    BY <1>26, <2>1, <2>2 DEF TypeOK, SignalArrives, Locations
<1>27. CASE StdinData \/ StdinEof \/ ChildReads
  BY <1>0, <1>27 DEF TypeOK, StdinData, StdinEof, ChildReads, StdinStep, Hist
<1>28. CASE HookExits
  BY <1>28 DEF TypeOK, HookExits
<1>29. CASE UNCHANGED vars
  BY <1>29 DEF TypeOK, vars
<1>30. ChildExecs \/ ChildExits \/ ChildKilled \/ ChildLost => \E p \in Proc : ChildStep(p)
  BY <1>0, ProcTypes DEF ChildExecs, ChildExits, ChildKilled, ChildLost
<1>31. \A sig \in Signals : ChildDies(sig) \/ ChildHandles(sig) => \E p \in Proc : ChildStep(p)
  BY <1>0, ProcTypes DEF ChildDies, ChildHandles
<1>32. ASSUME NEW sig \in Signals, ChildInherits(sig)
       PROVE  TypeInv'
  <2>1. pipe' \in Seq(Caught)
    BY <1>0, <1>32 DEF ChildInherits, Inherits
  <2>3. proc' \in Proc
    BY <1>0, <1>32, ProcTypes DEF ChildInherits
  <2>2. hist' \in Hist
    <3>1. hist.phantom + 1 \in Nat
      BY <1>0 DEF Hist
    <3>2. hist' = [hist EXCEPT !.phantom = hist.phantom + 1]
      BY <1>32 DEF ChildInherits
    <3> QED
      BY <1>0, <3>1, <3>2 DEF Hist
  <2> QED
    BY <1>32, <2>1, <2>2, <2>3 DEF TypeOK, ChildInherits
<1> QED
  BY <1>1, <1>2, <1>3, <1>4, <1>5, <1>6, <1>7, <1>8, <1>9, <1>10, <1>11, <1>12, <1>13,
     <1>14, <1>15, <1>16, <1>17, <1>18, <1>19, <1>20, <1>21, <1>22, <1>23, <1>24,
     <1>25, <1>26, <1>27, <1>28, <1>29, <1>30, <1>31, <1>32
  DEF Next, Supervise, Failures, Environment, Returned

\* TypeInv holds throughout: no grace period is entered without a kill-after.
LEMMA TypeInvHolds == Spec => []TypeInv
<1>1. Init => TypeInv
  BY SupervisorAssumption, KillIsSignal, TimeBounds
    DEF u64, Init, TypeInv, TypeOK, Locations, Idle, WaitLocals, Detached, Throttle, Unborn,
        Proc, ProcState, Status, NoFin, Fin, Kinds, Reasons, NoResult, Result, NoHist, Hist
<1>2. TypeInv /\ [Next]_vars => TypeInv'
  BY TypeStep
<1> QED
  BY <1>1, <1>2, PTL DEF Spec

\* Every variable of a run keeps its type, for every configuration, any
\* number of signals and any duration of the run.
THEOREM TypeCorrect == Spec => []TypeOK
<1>1. TypeInv => TypeOK
  BY DEF TypeInv
<1> QED
  BY <1>1, TypeInvHolds, PTL
-----------------------------------------------------------------------------
(* Where the supervisor is tells whether it has a child.  A child that       *)
(* somebody else reaped is gone for good.                                    *)

\* SIGSTOP, SIGCONT and the termination signals do not change whether the
\* child lives.
LEMMA StateKept ==
  ASSUME NEW p \in Proc, NEW t \in Throttle
  PROVE  /\ resume(p, t).state = p.state
         /\ \A sig \in Signals : kill(p, sig).state = p.state
         /\ \A seen, over \in BOOLEAN, n \in Nat : update(p, t, seen, over, n).state = p.state
BY DEF Proc, resume, kill, update, sigstop, sigcont

PidInv ==
  /\ pc = "start" => proc = Unborn
  /\ pc \notin {"start", "done"} => proc.state \in {"running", "zombie", "gone"}
  /\ OkMeansReaped

GoneForGood == proc.state = "gone" => proc'.state = "gone"

\* Every step keeps PidInv, and none brings a lost child back.
LEMMA PidStep ==
  ASSUME TypeOK, PidInv, [Next]_vars
  PROVE  PidInv' /\ GoneForGood
<1>0. /\ now \in Nat /\ proc \in Proc /\ thr \in Throttle /\ fin \in Fin
      /\ cfg.signal \in Signals /\ "KILL" \in Signals
  BY SupervisorAssumption, KillIsSignal DEF TypeOK, ConfigType
<1>a. ASSUME pc \notin {"start", "done"}, pc' \notin {"start", "done"}, proc'.state = proc.state
      PROVE  PidInv' /\ GoneForGood
  BY <1>a DEF PidInv, OkMeansReaped, GoneForGood
<1>b. ASSUME NEW p \in Proc, NEW t \in Throttle, p.state = proc.state, Fail(p, t)
      PROVE  PidInv' /\ GoneForGood
  BY <1>b, StateKept DEF Fail, NoResult, PidInv, OkMeansReaped, GoneForGood
<1>c. ASSUME CanReap(proc), Return(wait(proc), proc.status)
      PROVE  PidInv' /\ GoneForGood
  <2>1. wait(proc) \in Proc /\ wait(proc).state = "reaped" /\ mark_process_exited(thr) \in Throttle
    BY <1>0, ProcTypes, ThrottleTypes DEF wait, Proc
  <2>2. pc' = "done" /\ proc'.state = "reaped"
    BY <1>c, <2>1, StateKept DEF Return
  <2> QED
    BY <1>c, <2>2 DEF PidInv, OkMeansReaped, GoneForGood, CanReap
<1>d. ASSUME SampleThrottle
      PROVE  proc'.state = proc.state
  <2>1. CASE ~ ThrottleDue
    BY <1>d, <2>1 DEF SampleThrottle
  <2>2. CASE ThrottleDue
    <3>1. PICK seen \in Samples(proc), over \in BOOLEAN :
             proc' = update(proc, thr, seen, over, now)
      BY <1>d, <2>2 DEF SampleThrottle
    <3>2. seen \in BOOLEAN
      BY DEF Samples
    <3> QED
      BY <1>0, <3>1, <3>2, StateKept
  <2> QED
    BY <2>1, <2>2
<1>e. ASSUME NEW sig \in Signals, NEW why, SendSignal(sig, why)
      PROVE  proc'.state = proc.state
  BY <1>0, <1>e, ProcTypes, StateKept DEF SendSignal
<1>f. ASSUME NEW p \in Proc, ChildStep(p), proc.state \in {"running", "zombie"},
             p.state \in {"running", "zombie", "gone"}
      PROVE  PidInv' /\ GoneForGood
  BY <1>f DEF ChildStep, PidInv, OkMeansReaped, GoneForGood, Unborn
<1>1. CASE SpawnFails \/ WaitFails \/ EventLostExit
  BY <1>0, <1>1, <1>b DEF SpawnFails, WaitFails, EventLostExit
<1>2. CASE Spawn
  <2>1. pc' \in {"wait", "monitor"} /\ proc'.state = "running" /\ proc.state # "gone"
    BY <1>0, <1>2 DEF Spawn, Spawned, PidInv, Unborn, Proc
  <2> QED
    BY <2>1 DEF PidInv, OkMeansReaped, GoneForGood
<1>3. CASE Monitor \/ Enter \/ LoopArm \/ EventStdin \/ ReadStdin \/ EventSignal
  BY <1>3, <1>a DEF Monitor, Enter, LoopArm, EventStdin, ReadStdin, EventSignal, OnSignal
<1>4. CASE LoopDeadline \/ LoopIdle \/ EventLostEsrch
  BY <1>4, <1>a DEF LoopDeadline, LoopIdle, EventLostEsrch, OnTimedOut
<1>5. CASE EventExit \/ WaitChild
  BY <1>5, <1>c DEF EventExit, WaitChild
<1>6. CASE EventTimerMemory \/ EventTimerIdle \/ EventTimerDeadline \/ EventTimerAgain
  BY <1>6, <1>a, <1>d DEF EventTimerMemory, EventTimerIdle, EventTimerDeadline, EventTimerAgain,
                          TimerFired, OnTimedOut, OnMemoryLimit
<1>7. CASE HookFails \/ HookSpawn \/ HookWaitFails \/ HookExited \/ HookTimedOut \/ HookExits
  BY <1>7, <1>a DEF HookFails, HookSpawn, HookWaitFails, HookExited, HookTimedOut, HookExits
<1>8. CASE SendFails
  BY <1>0, <1>8, <1>b, ProcTypes, ThrottleTypes, StateKept DEF SendFails
<1>9. CASE Terminate \/ Forward \/ Escalate
  BY <1>0, <1>9, <1>a, <1>e DEF Terminate, Forward, Escalate, Fin
<1>10. CASE WaitLost
  <2>1. proc.state = "gone"
    BY <1>10 DEF WaitLost, echild, PidInv
  <2>2. CASE fin.kind = "SignalForwarded"
    <3>1. mark_process_exited(thr) \in Throttle
      BY <1>0, ThrottleTypes
    <3>2. pc' = "done" /\ proc'.state = "gone" /\ res'.kind = "SignalForwarded"
      BY <1>0, <1>10, <2>1, <2>2, <3>1, StateKept DEF WaitLost, Return
    <3> QED
      BY <3>2 DEF PidInv, OkMeansReaped, GoneForGood
  <2> QED
    BY <1>0, <1>10, <1>b, <2>2 DEF WaitLost
<1>11. CASE ChildExits \/ ChildExecs \/ ChildLost
  <2>1. /\ Exited(proc) \in Proc /\ Exited(proc).state = "zombie"
        /\ Execed(proc) \in Proc /\ Execed(proc).state = proc.state
        /\ Lost(proc) \in Proc /\ Lost(proc).state = "gone"
    BY <1>0, ProcTypes DEF Exited, Execed, Lost, Proc
  <2> QED
    BY <1>11, <1>f, <2>1 DEF ChildExits, ChildExecs, ChildLost, CanExit, CanExec, CanBeLost, Running
<1>12. ASSUME NEW sig \in Signals, ChildDies(sig) \/ ChildHandles(sig) \/ ChildKilled
       PROVE  PidInv' /\ GoneForGood
  <2>1. \A g \in Signals : /\ DiedOf(proc, g) \in Proc /\ DiedOf(proc, g).state = "zombie"
                           /\ Handled(proc, g) \in Proc /\ Handled(proc, g).state = proc.state
    BY <1>0, ProcTypes DEF DiedOf, Handled, Proc
  <2> QED
    BY <1>0, <1>12, <1>f, <2>1 DEF ChildDies, ChildHandles, ChildKilled, CanActOn, CanHandle,
                                   CanBeKilled, Running
<1>13. ASSUME NEW sig \in Signals, ChildInherits(sig)
       PROVE  PidInv' /\ GoneForGood
  <2>1. proc.state = "running" /\ proc'.state = "running" /\ pc' = pc /\ pc # "done"
    BY <1>0, <1>13 DEF ChildInherits, CanActOn, Running, Handled, Proc
  <2> QED
    BY <2>1 DEF PidInv, OkMeansReaped, GoneForGood, Unborn
<1>14. ASSUME NEW sig \in UserSignals, SignalArrives(sig)
       PROVE  PidInv' /\ GoneForGood
  BY <1>14 DEF SignalArrives, PidInv, OkMeansReaped, GoneForGood
<1>15. CASE Tick \/ StdinData \/ StdinEof \/ ChildReads \/ UNCHANGED vars
  BY <1>15 DEF Tick, StdinData, StdinEof, ChildReads, StdinStep, vars, PidInv, OkMeansReaped,
               GoneForGood
<1> QED
  BY <1>0, <1>1, <1>2, <1>3, <1>4, <1>5, <1>6, <1>7, <1>8, <1>9, <1>10, <1>11, <1>12, <1>13,
     <1>14, <1>15
  DEF Next, Supervise, Failures, Environment, Returned

\* In every state the child is where the supervisor's place in the code says.
LEMMA PidHolds == Spec => [](TypeOK /\ PidInv)
<1>1. Init => PidInv
  BY DEF Init, PidInv, OkMeansReaped
<1>2. TypeOK /\ PidInv /\ [Next]_vars => PidInv'
  BY PidStep
<1> QED
  BY <1>1, <1>2, TypeCorrect, PTL DEF Spec

\* Every Ok result comes with the child reaped, unless somebody else reaped it
\* while a forwarded signal took effect.
THEOREM NoZombieLeft == Spec => []OkMeansReaped
<1>1. PidInv => OkMeansReaped
  BY DEF PidInv
<1> QED
  BY <1>1, PidHolds, PTL
-----------------------------------------------------------------------------
(* The child and its throttle.  None of the three safety properties is       *)
(* inductive alone: that no signal goes astray needs the child to be owned   *)
(* while the supervisor is at work, that the child is free once signalled    *)
(* needs the throttle to know of every stop it caused, and that needs the    *)
(* throttle not to take a live child for a dead one.                         *)

Fresh == pc \in {"start", "monitor"} => thr = Detached /\ w.phase = "main"

NotYetSpawned == pc = "start" => proc = Unborn

OwnedWhileAtWork == pc \notin {"start", "done"} => Owned(proc)

SignalledIsGrace == hist.sent # {} => w.phase = "grace" \/ pc \in {"wait", "done"}

\* A child held by SIGSTOP is one the throttle will continue, and the throttle
\* believes the child dead only when it is.
StopsAreKnown(p, t) ==
  /\ Running(p) /\ p.stopped => resume_signals(t)
  /\ t.suspended => t.on
  /\ t.exited => ~ Running(p)

ChildInv ==
  /\ Fresh /\ NotYetSpawned /\ OwnedWhileAtWork /\ SignalledIsGrace
  /\ pc # "done" => StopsAreKnown(proc, thr)
  /\ ~ proc.stray /\ FreeOnceSignalled /\ ReleasedOnReturn

\* resume() frees the child, sends nothing astray while the child is owned,
\* and leaves the throttle with nothing to undo.
LEMMA ResumeFrees ==
  ASSUME NEW p \in Proc, NEW t \in Throttle, StopsAreKnown(p, t), ~ p.stray,
         Owned(p) \/ ~ t.suspended
  PROVE  /\ ~ (Running(resume(p, t)) /\ resume(p, t).stopped)
         /\ ~ resume(p, t).stray
         /\ resume(p, t).state = p.state
         /\ StopsAreKnown(resume(p, t), resumed(t))
         /\ Owned(p) => Owned(resume(p, t))
BY DEF Proc, Throttle, StopsAreKnown, resume, resumed, resume_signals, sigcont, Running, Owned

\* Once the state is marked, returning sends the reaped pid no signal.
LEMMA MarkedIsSilent ==
  ASSUME NEW p \in Proc, NEW t \in Throttle, t.suspended => t.on
  PROVE  resume(p, mark_process_exited(t)) = p
BY DEF Proc, Throttle, resume, resume_signals, mark_process_exited

\* A throttle sample of an owned child keeps the books right.
LEMMA SampleKeepsBooks ==
  ASSUME NEW p \in Proc, NEW t \in Throttle, NEW n \in Nat, NEW over \in BOOLEAN,
         NEW seen \in Samples(p), StopsAreKnown(p, t), Owned(p), t.on, ~ p.stray
  PROVE  /\ StopsAreKnown(update(p, t, seen, over, n), updated(t, seen, over, n))
         /\ ~ update(p, t, seen, over, n).stray
         /\ Owned(update(p, t, seen, over, n))
BY DEF Proc, Throttle, Samples, StopsAreKnown, resume_signals, update, updated, MustStop,
       MustCont, sigstop, sigcont, Running, Owned

\* A termination signal to an owned child does not stop it and is not astray.
LEMMA KillKeepsBooks ==
  ASSUME NEW p \in Proc, NEW t \in Throttle, NEW sig \in Signals,
         StopsAreKnown(p, t), Owned(p), ~ p.stray
  PROVE  /\ StopsAreKnown(kill(p, sig), t) /\ ~ kill(p, sig).stray /\ Owned(kill(p, sig))
         /\ kill(p, sig).stopped = p.stopped /\ kill(p, sig).state = p.state
BY DEF Proc, Throttle, StopsAreKnown, resume_signals, kill, Running, Owned

\* Every step but the one that loses the child keeps ChildInv.
LEMMA ChildStepKeeps ==
  ASSUME proc'.state # "gone", TypeOK, ChildInv, [Next]_vars
  PROVE  ChildInv'
<1>0. /\ now \in Nat /\ proc \in Proc /\ thr \in Throttle /\ w \in WaitLocals
      /\ fin \in Fin /\ cfg.signal \in Signals /\ "KILL" \in Signals
  BY SupervisorAssumption, KillIsSignal DEF TypeOK, ConfigType
<1>a. /\ Fresh /\ NotYetSpawned /\ OwnedWhileAtWork /\ SignalledIsGrace
      /\ ~ proc.stray /\ FreeOnceSignalled /\ ReleasedOnReturn
      /\ pc # "done" => StopsAreKnown(proc, thr)
  BY DEF ChildInv
<1>b. ASSUME pc \notin {"start", "done"}, pc' \notin {"start", "monitor", "done"},
             UNCHANGED <<proc, thr>>, hist'.sent = hist.sent,
             w'.phase = w.phase, pc # "wait"
      PROVE  ChildInv'
  BY <1>a, <1>b DEF ChildInv, Fresh, NotYetSpawned, OwnedWhileAtWork, SignalledIsGrace,
                    FreeOnceSignalled, ReleasedOnReturn,
                    StopsAreKnown, Owned, Running, resume_signals
<1>c. ASSUME pc # "done", NEW t \in Throttle, NEW p \in Proc, StopsAreKnown(p, t), ~ p.stray,
             Owned(p) \/ ~ t.suspended, Fail(p, t)
      PROVE  ChildInv'
  <2>1. /\ pc' = "done" /\ res'.kind = "Err" /\ proc' = resume(p, t)
    BY <1>c DEF Fail, NoResult
  <2>2. ~ (Running(proc') /\ proc'.stopped) /\ ~ proc'.stray
    BY <1>c, <2>1, ResumeFrees
  <2> QED
    BY <2>1, <2>2
      DEF ChildInv, Fresh, NotYetSpawned, OwnedWhileAtWork, SignalledIsGrace,
          FreeOnceSignalled, ReleasedOnReturn, Running
<1>d. ASSUME pc \notin {"start", "done"}, CanReap(proc), Return(wait(proc), proc.status)
      PROVE  ChildInv'
  <2>1. wait(proc) \in Proc /\ wait(proc).state = "reaped" /\ ~ wait(proc).stray
    BY <1>0, <1>a DEF wait, Proc, ProcState
  <2>2. proc' = wait(proc) /\ pc' = "done"
    BY <1>0, <1>a, <1>d, <2>1, MarkedIsSilent DEF Return, StopsAreKnown
  <2> QED
    BY <2>1, <2>2
      DEF ChildInv, Fresh, NotYetSpawned, OwnedWhileAtWork, SignalledIsGrace,
          FreeOnceSignalled, ReleasedOnReturn, Running
<1>e. ASSUME pc \in {"term", "forward", "kill"}, NEW sig \in Signals,
             NEW why \in {"limit", "kill", "forward"}, SendSignal(sig, why),
             pc' \in {"enter", "wait"}, pc' = "enter" => w'.phase = "grace"
      PROVE  ChildInv'
  <2>1. Owned(proc) /\ ~ proc.stray /\ StopsAreKnown(proc, thr)
    BY <1>a, <1>e DEF OwnedWhileAtWork
  <2>2. resume(proc, thr) \in Proc /\ resumed(thr) \in Throttle
    BY <1>0, ProcTypes, ThrottleTypes
  <2>3. /\ StopsAreKnown(resume(proc, thr), resumed(thr)) /\ Owned(resume(proc, thr))
        /\ ~ resume(proc, thr).stray
        /\ ~ (Running(resume(proc, thr)) /\ resume(proc, thr).stopped)
    BY <1>0, <2>1, ResumeFrees
  <2>4. proc' = kill(resume(proc, thr), sig) /\ thr' = resumed(thr)
    BY <1>e DEF SendSignal
  <2>5. /\ StopsAreKnown(proc', thr') /\ ~ proc'.stray /\ Owned(proc')
        /\ ~ (Running(proc') /\ proc'.stopped)
    BY <1>e, <2>2, <2>3, <2>4, KillKeepsBooks DEF Running
  <2> QED
    BY <1>e, <2>5
      DEF ChildInv, Fresh, NotYetSpawned, OwnedWhileAtWork, SignalledIsGrace,
          FreeOnceSignalled, ReleasedOnReturn, StopsAreKnown
<1>f. ASSUME pc = "kevent", SampleThrottle, pc' \notin {"start", "monitor", "wait", "done"},
             hist'.sent = hist.sent, w'.phase = w.phase
      PROVE  ChildInv'
  <2>1. Owned(proc) /\ ~ proc.stray /\ StopsAreKnown(proc, thr)
    BY <1>a, <1>f DEF OwnedWhileAtWork
  <2>2. CASE ~ ThrottleDue
    BY <1>b, <1>f, <2>2 DEF SampleThrottle
  <2>3. CASE ThrottleDue
    <3>1. PICK seen \in Samples(proc), over \in BOOLEAN :
             /\ proc' = update(proc, thr, seen, over, now)
             /\ thr' = updated(thr, seen, over, now)
      BY <1>f, <2>3 DEF SampleThrottle
    <3>2. thr.on /\ w.phase = "main"
      BY <2>3 DEF ThrottleDue, throttled, Main
    <3>3. StopsAreKnown(proc', thr') /\ ~ proc'.stray /\ Owned(proc')
      BY <1>0, <2>1, <3>1, <3>2, SampleKeepsBooks
    <3>4. hist'.sent = {}
      BY <1>a, <1>f, <3>2 DEF SignalledIsGrace
    <3> QED
      BY <1>f, <3>3, <3>4
        DEF ChildInv, Fresh, NotYetSpawned, OwnedWhileAtWork, SignalledIsGrace,
            FreeOnceSignalled, ReleasedOnReturn, StopsAreKnown
  <2> QED
    BY <2>2, <2>3
<1>g. ASSUME NEW p \in Proc, ChildStep(p), Owned(p), Owned(proc), p.stray = proc.stray,
             Running(p) => Running(proc) /\ p.stopped = proc.stopped
      PROVE  ChildInv'
  BY <1>a, <1>g
    DEF ChildInv, Fresh, NotYetSpawned, OwnedWhileAtWork, SignalledIsGrace,
        FreeOnceSignalled, ReleasedOnReturn, StopsAreKnown,
        ChildStep, Unborn, Owned, resume_signals
<1>1. CASE SpawnFails
  <2>1. Owned(proc) \/ ~ thr.suspended
    BY <1>1, <1>a DEF SpawnFails, Fresh, Detached
  <2> QED
    BY <1>0, <1>1, <1>a, <1>c, <2>1 DEF SpawnFails
<1>2. CASE Spawn
  <2>1. /\ proc' = [Unborn EXCEPT !.state = "running", !.execed = ~ cfg.limits]
        /\ thr' = Detached
        /\ w'.phase = "main" /\ hist' = hist /\ pc' \in {"wait", "monitor"}
    BY <1>2, <1>a DEF Spawn, Fresh, NotYetSpawned, Spawned
  <2>2. hist.sent = {}
    BY <1>2, <1>a DEF Spawn, Fresh, SignalledIsGrace
  <2> QED
    BY <2>1, <2>2
      DEF ChildInv, Fresh, NotYetSpawned, OwnedWhileAtWork, SignalledIsGrace, Unborn,
          FreeOnceSignalled, ReleasedOnReturn, StopsAreKnown,
          Detached, Owned, Running
<1>3. CASE Monitor
  <2>1. /\ thr' = Detached \/ thr' = Attached(now)
        /\ w'.phase = "main" /\ pc' = "enter" /\ proc' = proc /\ hist' = hist
    BY <1>3 DEF Monitor, Idle
  <2>2. hist.sent = {} /\ ~ (Running(proc) /\ proc.stopped) /\ Owned(proc)
    BY <1>3, <1>a DEF Monitor, Fresh, SignalledIsGrace, OwnedWhileAtWork, StopsAreKnown,
                      resume_signals, Detached
  <2>3. ~ thr'.suspended /\ ~ thr'.exited
    <3>1. thr' = Detached => ~ thr'.suspended /\ ~ thr'.exited
      BY DEF Detached
    <3>2. thr' = Attached(now) => ~ thr'.suspended /\ ~ thr'.exited
      BY <1>0 DEF Detached, Attached
    <3> QED
      BY <2>1, <3>1, <3>2
  <2>4. StopsAreKnown(proc', thr')
    BY <2>1, <2>2, <2>3 DEF StopsAreKnown
  <2> QED
    BY <1>a, <2>1, <2>2, <2>4
      DEF ChildInv, Fresh, NotYetSpawned, OwnedWhileAtWork, SignalledIsGrace,
          FreeOnceSignalled, ReleasedOnReturn
<1>4. CASE WaitFails \/ EventLostExit
  BY <1>0, <1>4, <1>a, <1>c DEF WaitFails, EventLostExit, OwnedWhileAtWork
<1>5. CASE Enter
  <2>1. hist'.sent = hist.sent
    BY <1>5, <1>0 DEF Enter, TypeOK, Hist
  <2>2. w'.phase = w.phase
    BY <1>5, <1>0 DEF Enter, polled, WaitLocals
  <2> QED
    BY <1>5, <1>b, <2>1, <2>2 DEF Enter
<1>6. ASSUME OnTimedOut("WallClock") \/ OnTimedOut("StdinIdle") \/ OnMemoryLimit
      PROVE  hist'.sent = hist.sent /\ pc' \in {"hook", "term", "kill"}
  BY <1>6 DEF OnTimedOut, OnMemoryLimit, TypeOK, Hist
<1>7. CASE LoopDeadline \/ LoopIdle \/ EventLostEsrch
  BY <1>7, <1>6, <1>b DEF LoopDeadline, LoopIdle, EventLostEsrch
<1>8. CASE LoopArm
  BY <1>0, <1>8, <1>b DEF LoopArm, WaitLocals
<1>9. CASE EventExit \/ WaitChild
  BY <1>9, <1>d DEF EventExit, WaitChild
<1>10. CASE EventSignal
  BY <1>10, <1>b DEF EventSignal, OnSignal
<1>11. CASE EventStdin \/ ReadStdin
  BY <1>0, <1>11, <1>b, LocalsTypes DEF EventStdin, ReadStdin
<1>12. CASE EventTimerMemory \/ EventTimerIdle \/ EventTimerDeadline
  BY <1>12, <1>6, <1>f, ChecksTypes
    DEF EventTimerMemory, EventTimerIdle, EventTimerDeadline, TimerFired
<1>13. CASE EventTimerAgain
  <2>1. w'.phase = w.phase
    BY <1>13, ChecksTypes DEF EventTimerAgain, WaitLocals
  <2> QED
    BY <1>13, <2>1, <1>f DEF EventTimerAgain, TimerFired
<1>14. CASE HookFails \/ HookSpawn \/ HookWaitFails \/ HookExited \/ HookTimedOut \/ HookExits
  BY <1>14, <1>b DEF HookFails, HookSpawn, HookWaitFails, HookExited, HookTimedOut, HookExits
<1>15. CASE SendFails
  <2>1. pc \notin {"start", "done"} /\ Owned(proc) /\ ~ proc.stray /\ StopsAreKnown(proc, thr)
    BY <1>15, <1>a DEF SendFails, OwnedWhileAtWork
  <2>2. resume(proc, thr) \in Proc /\ resumed(thr) \in Throttle
    BY <1>0, ProcTypes, ThrottleTypes
  <2>3. /\ StopsAreKnown(resume(proc, thr), resumed(thr)) /\ Owned(resume(proc, thr))
        /\ ~ resume(proc, thr).stray
    BY <1>0, <2>1, ResumeFrees
  <2> QED
    BY <1>15, <1>c, <2>1, <2>2, <2>3 DEF SendFails
<1>16. CASE Terminate
  <2>1. w'.phase = "grace"
    BY <1>0, <1>16 DEF Terminate, WaitLocals
  <2> QED
    BY <1>0, <1>16, <1>e, <2>1 DEF Terminate
<1>17. CASE Forward
  BY <1>0, <1>17, <1>e DEF Forward, Fin
<1>18. CASE Escalate
  BY <1>0, <1>18, <1>e DEF Escalate
<1>19. CASE WaitLost
  BY <1>19, <1>a DEF WaitLost, echild, OwnedWhileAtWork, Owned
<1>20. CASE ChildExits
  <2>1. Exited(proc) \in Proc /\ Exited(proc).state = "zombie" /\ Exited(proc).stray = proc.stray
    BY <1>0, ProcTypes DEF Exited, Proc
  <2> QED
    BY <1>20, <1>g, <2>1 DEF ChildExits, CanExit, Running, Owned
<1>21. ASSUME NEW sig \in Signals, ChildStep(DiedOf(proc, sig)), Running(proc)
       PROVE  ChildInv'
  <2>1. /\ DiedOf(proc, sig) \in Proc /\ DiedOf(proc, sig).state = "zombie"
        /\ DiedOf(proc, sig).stray = proc.stray
    BY <1>0, ProcTypes DEF DiedOf, Proc
  <2> QED
    BY <1>21, <1>g, <2>1 DEF Running, Owned
<1>22. ASSUME NEW sig \in Signals, ChildHandles(sig)
       PROVE  ChildInv'
  <2>1. /\ Handled(proc, sig) \in Proc /\ Handled(proc, sig).state = proc.state
        /\ Handled(proc, sig).stray = proc.stray /\ Handled(proc, sig).stopped = proc.stopped
    BY <1>0, ProcTypes DEF Handled, Proc
  <2> QED
    BY <1>22, <1>g, <2>1 DEF ChildHandles, CanHandle, CanActOn, Running, Owned
<1>28. CASE ChildExecs
  <2>1. /\ Execed(proc) \in Proc /\ Execed(proc).state = proc.state
        /\ Execed(proc).stray = proc.stray /\ Execed(proc).stopped = proc.stopped
    BY <1>0, ProcTypes DEF Execed, Proc
  <2> QED
    BY <1>28, <1>g, <2>1 DEF ChildExecs, CanExec, Running, Owned
<1>29. ASSUME NEW sig \in Signals, ChildInherits(sig)
       PROVE  ChildInv'
  <2>1. /\ proc'.state = proc.state /\ proc'.stray = proc.stray
        /\ proc'.stopped = proc.stopped /\ Running(proc)
    BY <1>0, <1>29 DEF ChildInherits, CanActOn, Handled, Proc
  <2>2. /\ hist'.sent = hist.sent /\ w' = w /\ thr' = thr /\ pc' = pc /\ res' = res
        /\ pc # "done"
    BY <1>29 DEF ChildInherits, TypeOK, Hist
  <2> QED
    BY <1>a, <2>1, <2>2
      DEF ChildInv, Fresh, NotYetSpawned, OwnedWhileAtWork, SignalledIsGrace, Unborn,
          FreeOnceSignalled, ReleasedOnReturn, StopsAreKnown,
          Owned, Running, resume_signals
<1>23. ASSUME NEW sig \in UserSignals, SignalArrives(sig)
       PROVE  ChildInv'
  <2>1. /\ hist'.sent = hist.sent /\ w' = w /\ proc' = proc /\ thr' = thr /\ pc # "done"
        /\ pc' = pc \/ (pc = "kevent" /\ pc' = "loop")
    BY <1>23 DEF SignalArrives, TypeOK, Hist
  <2> QED
    BY <1>a, <2>1
      DEF ChildInv, Fresh, NotYetSpawned, OwnedWhileAtWork, SignalledIsGrace,
          FreeOnceSignalled, ReleasedOnReturn, StopsAreKnown,
          Owned, Running, resume_signals
<1>24. CASE Tick \/ StdinData \/ StdinEof \/ ChildReads \/ UNCHANGED vars
  <2>1. /\ hist'.sent = hist.sent /\ w' = w /\ proc' = proc /\ thr' = thr
        /\ pc' = pc /\ res' = res
    BY <1>24 DEF Tick, StdinData, StdinEof, ChildReads, StdinStep, vars, TypeOK, Hist
  <2> QED
    BY <1>a, <2>1
      DEF ChildInv, Fresh, NotYetSpawned, OwnedWhileAtWork, SignalledIsGrace,
          FreeOnceSignalled, ReleasedOnReturn, StopsAreKnown,
          Owned, Running, resume_signals
<1>25. ~ ChildLost
  BY <1>0 DEF ChildLost, ChildStep, Lost, Proc
<1>26. ChildKilled => Running(proc) /\ ChildStep(DiedOf(proc, "KILL"))
  BY DEF ChildKilled, CanBeKilled
<1>27. \A sig \in Signals : ChildDies(sig) => Running(proc) /\ ChildStep(DiedOf(proc, sig))
  BY DEF ChildDies, CanActOn
<1> QED
  BY <1>0, <1>1, <1>2, <1>3, <1>4, <1>5, <1>7, <1>8, <1>9, <1>10, <1>11, <1>12, <1>13,
     <1>14, <1>15, <1>16, <1>17, <1>18, <1>19, <1>20, <1>21, <1>22, <1>23, <1>24,
     <1>25, <1>26, <1>27, <1>28, <1>29
  DEF Next, Supervise, Failures, Environment, Returned

\* Until somebody else reaps the child, it and its throttle agree.
SafeInv == proc.state # "gone" => ChildInv

\* The child and its throttle in every state of a run.
THEOREM ChildSafe == Spec => [](TypeOK /\ PidInv /\ SafeInv)
<1>1. Init => SafeInv
  BY DEF Init, SafeInv, ChildInv, Fresh, NotYetSpawned, OwnedWhileAtWork, SignalledIsGrace,
         FreeOnceSignalled, ReleasedOnReturn, StopsAreKnown, resume_signals, Idle, Detached,
         Unborn, NoHist, Running
<1>2. TypeOK /\ PidInv /\ SafeInv /\ [Next]_vars => SafeInv'
  BY ChildStepKeeps, PidStep DEF SafeInv, GoneForGood
<1> QED
  BY <1>1, <1>2, PidHolds, PTL DEF Spec

\* No signal ever reaches a pid that is not the child's any more: neither the
\* throttle's SIGSTOP and SIGCONT, Drop included, nor a termination signal;
\* only a child that somebody else reaped is still signalled.
THEOREM NothingAstray == Spec => []NoStraySignal
<1>1. SafeInv => NoStraySignal
  BY DEF SafeInv, ChildInv, NoStraySignal
<1> QED
  BY <1>1, ChildSafe, PTL

\* A child that was sent a termination signal is never held by SIGSTOP.
THEOREM SignalledIsFree == Spec => []FreeOnceSignalled
<1>1. SafeInv => FreeOnceSignalled
  BY DEF SafeInv, ChildInv, FreeOnceSignalled, Running
<1> QED
  BY <1>1, ChildSafe, PTL

\* No return of run_command leaves the child stopped.
THEOREM NeverLeftStopped == Spec => []ReleasedOnReturn
<1>1. SafeInv => ReleasedOnReturn
  BY DEF SafeInv, ChildInv, ReleasedOnReturn, Running
<1> QED
  BY <1>1, ChildSafe, PTL

-----------------------------------------------------------------------------
(* One attempt implements RunContract: every step of Supervisor is, under    *)
(* the refinement mapping, a step of the contract or leaves it alone.        *)
(* Fairness is not part of the contract.                                     *)

\* why the command has been signalled so far
Why == {m.why : m \in hist.sent}

Limits == {"TimedOut", "MemoryLimitExceeded"}

(* Where the supervisor is tells which signals it has sent, and the result   *)
(* it is heading for says the same.                                          *)
UntouchedInMain ==
  /\ pc \in {"start", "monitor"} =>
       w.phase = "main" /\ Why = {} /\ fin.kind = "Completed" /\ ~ fin.killed
  /\ pc \in {"enter", "loop", "kevent", "read"} /\ w.phase = "main" =>
       Why = {} /\ fin.kind = "Completed" /\ ~ fin.killed

LimitInGrace ==
  /\ pc \in {"enter", "loop", "kevent", "read"} /\ w.phase = "grace" =>
       Why = {"limit"} /\ fin.kind \in Limits /\ ~ fin.killed
  /\ pc = "kill" => Why = {"limit"} /\ fin.kind \in Limits /\ ~ fin.killed
  /\ pc \in {"hook", "hookwait", "term"} =>
       Why = {} /\ fin.kind \in Limits /\ ~ fin.killed

ForwardedOnce ==
  pc = "forward" => Why \in {{}, {"limit"}} /\ fin.kind = "SignalForwarded"

\* the result kind k, with SIGKILL or not, fits the signals
Tells(k, killed, why) ==
  /\ k = "Completed" => why = {}
  /\ k = "SignalForwarded" => why \in {{"forward"}, {"limit", "forward"}}
  /\ k \in Limits => why = IF killed THEN {"limit", "kill"} ELSE {"limit"}

FinTells == pc = "wait" => Tells(fin.kind, fin.killed, Why)
ResTells == pc = "done" /\ res.kind # "Err" => Tells(res.kind, res.killed, Why)

SentInv ==
  /\ UntouchedInMain /\ LimitInGrace /\ ForwardedOnce /\ FinTells /\ ResTells
  /\ res.kind = "None" <=> pc # "done"

\* A signal that is sent adds its reason and nothing else.
LEMMA SentGrows ==
  ASSUME TypeOK, NEW sig \in Signals, NEW why \in {"limit", "kill", "forward"},
         SendSignal(sig, why)
  PROVE  Why' = Why \cup {why}
<1>1. hist'.sent = hist.sent \cup {[sig |-> sig, why |-> why, at |-> now]}
  BY DEF SendSignal, TypeOK, Hist
<1>2. [sig |-> sig, why |-> why, at |-> now].why = why
  OBVIOUS
<1> QED
  BY <1>1, <1>2 DEF Why

-----------------------------------------------------------------------------
\* Every step keeps SentInv, whoever reaps the child.
LEMMA SentStep ==
  ASSUME TypeOK, SentInv, [Next]_vars
  PROVE  SentInv'
<1>0. /\ w \in WaitLocals /\ fin \in Fin /\ res \in Result /\ hist \in Hist
      /\ cfg.signal \in Signals /\ "KILL" \in Signals /\ pc \in Locations
  BY SupervisorAssumption, KillIsSignal DEF TypeOK, ConfigType
<1>w. w.phase \in {"main", "grace"}
  BY <1>0 DEF WaitLocals
<1>a. /\ UntouchedInMain /\ LimitInGrace /\ ForwardedOnce /\ FinTells /\ ResTells
      /\ res.kind = "None" <=> pc # "done"
  BY DEF SentInv
<1> DEFINE InLoop == {"enter", "loop", "kevent", "read"}

\* moving about in the wait loop
<1>b. ASSUME pc \in InLoop, pc' \in InLoop, w'.phase = w.phase, hist'.sent = hist.sent,
             fin' = fin, res' = res
      PROVE  SentInv'
  <2>1. Why' = Why
    BY <1>b DEF Why
  <2> QED
    BY <1>a, <1>b, <1>w, <2>1 DEF SentInv, UntouchedInMain, LimitInGrace, ForwardedOnce, FinTells,
                            ResTells

\* the two ways to return
<1>c. ASSUME NEW p, NEW t, Fail(p, t), hist' = hist
      PROVE  SentInv'
  <2>1. pc' = "done" /\ res'.kind = "Err"
    BY <1>c DEF Fail, NoResult
  <2> QED
    BY <2>1 DEF SentInv, UntouchedInMain, LimitInGrace, ForwardedOnce, FinTells, ResTells
<1>d. ASSUME NEW p, NEW status, Return(p, status), hist' = hist,
             Tells(fin.kind, fin.killed, Why)
      PROVE  SentInv'
  <2>1. pc' = "done" /\ res'.kind = fin.kind /\ res'.killed = fin.killed /\ Why' = Why
    BY <1>d DEF Return, Why
  <2>2. fin.kind # "None"
    BY <1>0 DEF Fin, Kinds
  <2> QED
    BY <1>d, <2>1, <2>2
      DEF SentInv, UntouchedInMain, LimitInGrace, ForwardedOnce, FinTells, ResTells

\* the verdicts of the wait loop
<1>e. ASSUME pc \in InLoop, NEW reason \in Reasons, OnTimedOut(reason) \/ OnMemoryLimit,
             OnMemoryLimit => w.phase = "main"
      PROVE  SentInv'
  <2>1. Why' = Why /\ res' = res
    BY <1>0, <1>e DEF OnTimedOut, OnMemoryLimit, Why, Hist
  <2>2. CASE w.phase = "main"
    <3>1. pc' \in {"hook", "term"} /\ fin'.kind \in Limits /\ fin'.killed = fin.killed
      BY <1>0, <1>e, <2>2 DEF OnTimedOut, OnMemoryLimit, Main, Limits, Fin
    <3> QED
      BY <1>a, <1>e, <2>1, <2>2, <3>1
        DEF SentInv, UntouchedInMain, LimitInGrace, ForwardedOnce, FinTells, ResTells
  <2>3. CASE w.phase = "grace"
    <3>1. pc' = "kill" /\ fin' = fin
      BY <1>e, <2>3 DEF OnTimedOut, Main
    <3> QED
      BY <1>a, <1>e, <2>1, <2>3, <3>1
        DEF SentInv, UntouchedInMain, LimitInGrace, ForwardedOnce, FinTells, ResTells
  <2> QED
    BY <1>w, <2>2, <2>3

\* steps that leave control and result alone
<1>f. ASSUME UNCHANGED <<pc, w, fin, res>>, hist'.sent = hist.sent
      PROVE  SentInv'
  <2>1. Why' = Why
    BY <1>f DEF Why
  <2> QED
    BY <1>a, <1>f, <2>1
      DEF SentInv, UntouchedInMain, LimitInGrace, ForwardedOnce, FinTells, ResTells
<1>1. CASE SpawnFails \/ WaitFails \/ EventLostExit \/ SendFails
  BY <1>1, <1>c DEF SpawnFails, WaitFails, EventLostExit, SendFails
<1>2. CASE Spawn \/ Monitor
  <2>1. /\ Why' = Why /\ fin' = fin /\ res' = res /\ w'.phase = "main"
        /\ pc \in {"start", "monitor"} /\ pc' \in {"wait", "monitor", "enter"}
    BY <1>a, <1>2 DEF Spawn, Monitor, Why, Idle, UntouchedInMain
  <2> QED
    BY <1>a, <2>1
      DEF SentInv, UntouchedInMain, LimitInGrace, ForwardedOnce, FinTells, ResTells, Tells, Limits
<1>3. CASE Enter
  <2>1. hist'.sent = hist.sent /\ w'.phase = w.phase
    BY <1>3, <1>0 DEF Enter, Hist, polled, WaitLocals
  <2> QED
    BY <1>3, <1>b, <2>1 DEF Enter
<1>4. CASE LoopDeadline \/ LoopIdle \/ EventLostEsrch
  BY <1>4, <1>e DEF LoopDeadline, LoopIdle, EventLostEsrch, Reasons, OnTimedOut, OnMemoryLimit, Main
<1>5. CASE LoopArm
  BY <1>0, <1>5, <1>b DEF LoopArm, WaitLocals
<1>6. CASE EventExit
  <2>1. Tells(fin.kind, fin.killed, Why)
    BY <1>a, <1>w, <1>6 DEF EventExit, UntouchedInMain, LimitInGrace, Tells, Limits
  <2> QED
    BY <1>6, <1>d, <2>1 DEF EventExit
<1>7. CASE EventSignal
  <2>1. Why' = Why /\ res' = res /\ pc = "kevent"
    BY <1>7 DEF EventSignal, OnSignal, Why
  <2>2. \/ pc' = "kill" /\ fin' = fin /\ w.phase # "main"
        \/ pc' = "forward" /\ fin'.kind = "SignalForwarded"
    BY <1>0, <1>7 DEF EventSignal, OnSignal, Main, Fin
  <2> QED
    BY <1>a, <1>w, <2>1, <2>2
      DEF SentInv, UntouchedInMain, LimitInGrace, ForwardedOnce, FinTells, ResTells
<1>8. CASE EventStdin \/ ReadStdin
  BY <1>0, <1>8, <1>b, LocalsTypes DEF EventStdin, ReadStdin
<1>9. CASE EventTimerMemory
  <2>1. w.phase = "main" /\ pc \in InLoop
    BY <1>9 DEF EventTimerMemory, MemDue, Main, TimerFired
  <2> QED
    BY <1>9, <1>e, <2>1 DEF EventTimerMemory, Reasons
<1>10. CASE EventTimerIdle \/ EventTimerDeadline
  <2>1. OnMemoryLimit => w.phase = "main"
    BY <1>10 DEF EventTimerIdle, EventTimerDeadline, OnTimedOut, OnMemoryLimit, Main
  <2> QED
    BY <1>10, <1>e, <2>1 DEF EventTimerIdle, EventTimerDeadline, Reasons, TimerFired
<1>11. CASE EventTimerAgain
  <2>1. w'.phase = w.phase
    BY <1>11, ChecksTypes DEF EventTimerAgain, WaitLocals
  <2> QED
    BY <1>11, <1>b, <2>1 DEF EventTimerAgain, TimerFired
<1>12. CASE HookFails \/ HookSpawn \/ HookWaitFails \/ HookExited \/ HookTimedOut
  <2>1. /\ Why' = Why /\ fin' = fin /\ res' = res /\ pc \in {"hook", "hookwait"}
        /\ pc' \in {"hookwait", "term"}
    BY <1>12 DEF HookFails, HookSpawn, HookWaitFails, HookExited, HookTimedOut, Why
  <2> QED
    BY <1>a, <2>1
      DEF SentInv, UntouchedInMain, LimitInGrace, ForwardedOnce, FinTells, ResTells
<1>13. CASE Terminate
  <2>1. Why' = Why \cup {"limit"}
    BY <1>0, <1>13, SentGrows DEF Terminate
  <2>2. /\ pc = "term" /\ pc' \in {"wait", "enter"} /\ fin' = fin /\ res' = res
        /\ w'.phase = "grace"
    BY <1>0, <1>13 DEF Terminate, WaitLocals
  <2>3. Why = {} /\ fin.kind \in Limits /\ ~ fin.killed
    BY <1>a, <2>2 DEF LimitInGrace
  <2> QED
    BY <1>a, <2>1, <2>2, <2>3
      DEF SentInv, UntouchedInMain, LimitInGrace, ForwardedOnce, FinTells, ResTells, Tells, Limits
<1>14. CASE Forward
  <2>1. Why' = Why \cup {"forward"}
    BY <1>0, <1>14, SentGrows DEF Forward, Fin
  <2>2. pc = "forward" /\ pc' = "wait" /\ fin' = fin /\ res' = res
    BY <1>14 DEF Forward
  <2>3. Why \in {{}, {"limit"}} /\ fin.kind = "SignalForwarded"
    BY <1>a, <2>2 DEF ForwardedOnce
  <2>4. Why' \in {{"forward"}, {"limit", "forward"}}
    BY <2>1, <2>3
  <2> QED
    BY <1>a, <2>2, <2>3, <2>4
      DEF SentInv, UntouchedInMain, LimitInGrace, ForwardedOnce, FinTells, ResTells, Tells, Limits
<1>15. CASE Escalate
  <2>1. Why' = Why \cup {"kill"}
    BY <1>0, <1>15, SentGrows DEF Escalate
  <2>2. /\ pc = "kill" /\ pc' = "wait" /\ fin'.kind = fin.kind /\ fin'.killed /\ res' = res
    BY <1>0, <1>15 DEF Escalate, Fin
  <2>3. Why = {"limit"} /\ fin.kind \in Limits
    BY <1>a, <2>2 DEF LimitInGrace
  <2>4. Why' = {"limit", "kill"}
    BY <2>1, <2>3
  <2> QED
    BY <1>a, <2>2, <2>3, <2>4
      DEF SentInv, UntouchedInMain, LimitInGrace, ForwardedOnce, FinTells, ResTells, Tells, Limits
<1>16. CASE WaitChild
  BY <1>a, <1>16, <1>d DEF WaitChild, FinTells
<1>17. CASE WaitLost
  BY <1>a, <1>17, <1>c, <1>d DEF WaitLost, FinTells
<1>18. CASE \E p : ChildStep(p)
  BY <1>18, <1>f DEF ChildStep
<1>19. ASSUME NEW sig \in UserSignals, SignalArrives(sig)
       PROVE  SentInv'
  <2>1. hist'.sent = hist.sent
    BY <1>0, <1>19 DEF SignalArrives, Hist
  <2> QED
    BY <1>19, <1>b, <1>f, <2>1 DEF SignalArrives
<1>20. CASE Tick \/ StdinData \/ StdinEof \/ ChildReads \/ HookExits \/ UNCHANGED vars
  <2>1. hist'.sent = hist.sent
    BY <1>0, <1>20 DEF Tick, StdinData, StdinEof, ChildReads, StdinStep, HookExits, vars, Hist
  <2> QED
    BY <1>20, <1>f, <2>1
      DEF Tick, StdinData, StdinEof, ChildReads, StdinStep, HookExits, vars
<1>21. ChildExecs \/ ChildExits \/ ChildKilled \/ ChildLost => \E p : ChildStep(p)
  BY DEF ChildExecs, ChildExits, ChildKilled, ChildLost
<1>22. \A sig \in Signals : ChildDies(sig) \/ ChildHandles(sig) => \E p : ChildStep(p)
  BY DEF ChildDies, ChildHandles
<1>23. ASSUME NEW sig \in Signals, ChildInherits(sig)
       PROVE  SentInv'
  <2>1. hist'.sent = hist.sent
    BY <1>0, <1>23 DEF ChildInherits, Hist
  <2> QED
    BY <1>23, <1>f, <2>1 DEF ChildInherits
<1> QED
  BY <1>1, <1>2, <1>3, <1>4, <1>5, <1>6, <1>7, <1>8, <1>9, <1>10, <1>11, <1>12, <1>13,
     <1>14, <1>15, <1>16, <1>17, <1>18, <1>19, <1>20, <1>21, <1>22, <1>23
  DEF Next, Supervise, Failures, Environment, Returned

\* In every state of a run the signals sent, the place in the code and the
\* result agree.
THEOREM SentAgrees == Spec => [](TypeOK /\ SentInv)
<1>1. Init => SentInv
  BY DEF Init, SentInv, UntouchedInMain, LimitInGrace, ForwardedOnce, FinTells, ResTells, Why,
         NoHist, NoFin, NoResult, Idle
<1>2. TypeOK /\ SentInv /\ [Next]_vars => SentInv'
  BY SentStep
<1> QED
  BY <1>1, <1>2, TypeCorrect, PTL DEF Spec

\* What run_command returns tells exactly which signals it sent, even when
\* the child was reaped behind its back.
THEOREM ResultIsTrue == Spec => []ResultTellsSignals
<1>1. ASSUME TypeOK, SentInv
      PROVE  ResultTellsSignals
  <2>1. ASSUME pc = "done", res.kind # "Err"
        PROVE  Tells(res.kind, res.killed, Why) /\ res.kind \in Kinds
    BY <1>1, <2>1 DEF SentInv, ResTells, TypeOK, Result
  <2> QED
    BY <2>1 DEF ResultTellsSignals, Tells, Limits, Kinds, Why
<1> QED
  BY <1>1, SentAgrees, PTL

-----------------------------------------------------------------------------
\* Every step of Supervisor is a step of the contract or a stutter.
LEMMA ContractStep ==
  ASSUME TypeOK, PidInv, SentInv, [Next]_vars
  PROVE  [Contract!Next]_(Contract!vars)
<1> USE DEF Contract!vars
<1>0. /\ now \in Nat /\ proc \in Proc /\ thr \in Throttle /\ w \in WaitLocals
      /\ fin \in Fin /\ hist \in Hist /\ cfg.signal \in Signals /\ "KILL" \in Signals
  BY SupervisorAssumption, KillIsSignal DEF TypeOK, ConfigType
<1>a. /\ pc # "done" <=> res.kind = "None"
      /\ pc \notin {"start", "done"} => proc.state \in {"running", "zombie", "gone"}
      /\ pc = "start" => proc = Unborn
  BY DEF SentInv, PidInv
<1>b. ASSUME proc'.state = proc.state, hist'.sent = hist.sent, res' = res
      PROVE  UNCHANGED Contract!vars
  BY <1>b
<1>c. ASSUME pc # "done", NEW p \in Proc, NEW t \in Throttle, p.state = proc.state,
             Fail(p, t), hist' = hist
      PROVE  Contract!Fail
  <2>1. res'.kind = "Err" /\ proc'.state = proc.state
    BY <1>c, StateKept DEF Fail, NoResult
  <2> QED
    BY <1>a, <1>c, <2>1 DEF Contract!Fail
<1>d. ASSUME pc # "done", CanReap(proc), Return(wait(proc), proc.status), hist' = hist,
             Tells(fin.kind, fin.killed, Why)
      PROVE  Contract!Finish
  <2>1. wait(proc) \in Proc /\ wait(proc).state = "reaped"
    BY <1>0 DEF wait, Proc, ProcState
  <2>2. proc'.state = "reaped" /\ res'.kind = fin.kind
    BY <1>0, <1>d, <2>1, ThrottleTypes, StateKept DEF Return
  <2>3. fin.kind \in Kinds
    BY <1>0 DEF Fin
  <2>4. fin.kind \in Contract!Outcomes
    BY <1>d, <2>3 DEF Contract!Outcomes, Tells, Limits, Kinds, Why
  <2>5. Why' = Why
    BY <1>d DEF Why
  <2> QED
    BY <1>a, <1>d, <2>2, <2>4, <2>5 DEF Contract!Finish, CanReap, Why
<1>e. ASSUME pc \in {"term", "forward", "kill"}, NEW sig \in Signals,
             NEW why \in {"limit", "kill", "forward"}, SendSignal(sig, why), res' = res,
             \/ why = "limit" /\ Why = {}
             \/ why = "kill" /\ Why = {"limit"}
             \/ why = "forward" /\ Why \in {{}, {"limit"}}
      PROVE  Contract!Signal(why)
  <2>1. Why' = Why \cup {why}
    BY <1>e, SentGrows
  <2>2. resume(proc, thr) \in Proc
    BY <1>0, ProcTypes
  <2>3. proc'.state = proc.state
    BY <1>0, <1>e, <2>2, StateKept DEF SendSignal
  <2> QED
    BY <1>a, <1>e, <2>1, <2>3 DEF Contract!Signal, Why
<1>f. ASSUME SampleThrottle
      PROVE  proc'.state = proc.state
  <2>1. CASE ~ ThrottleDue
    BY <1>f, <2>1 DEF SampleThrottle
  <2>2. CASE ThrottleDue
    <3>1. PICK seen \in Samples(proc), over \in BOOLEAN :
             proc' = update(proc, thr, seen, over, now)
      BY <1>f, <2>2 DEF SampleThrottle
    <3>2. seen \in BOOLEAN
      BY DEF Samples
    <3> QED
      BY <1>0, <3>1, <3>2, StateKept
  <2> QED
    BY <2>1, <2>2
<1>1. CASE SpawnFails \/ WaitFails \/ EventLostExit
  BY <1>0, <1>1, <1>c DEF SpawnFails, WaitFails, EventLostExit, Contract!Next
<1>2. CASE Spawn
  <2>1. proc.state = "unborn" /\ proc'.state = "running" /\ hist' = hist /\ res' = res
    BY <1>0, <1>a, <1>2 DEF Spawn, Spawned, Unborn, Proc
  <2> QED
    BY <1>a, <1>2, <2>1 DEF Contract!Start, Contract!Next, Spawn
<1>3. CASE Enter
  <2>1. hist'.sent = hist.sent
    BY <1>0, <1>3 DEF Enter, Hist
  <2> QED
    BY <1>3, <1>b, <2>1 DEF Enter
<1>4. CASE Monitor \/ LoopArm \/ EventStdin \/ ReadStdin
  BY <1>4, <1>b DEF Monitor, LoopArm, EventStdin, ReadStdin
<1>5. ASSUME OnTimedOut("WallClock") \/ OnTimedOut("StdinIdle") \/ OnMemoryLimit
      PROVE  hist'.sent = hist.sent /\ res' = res
  BY <1>0, <1>5 DEF OnTimedOut, OnMemoryLimit, Hist
<1>6. CASE LoopDeadline \/ LoopIdle \/ EventLostEsrch
  BY <1>6, <1>5, <1>b DEF LoopDeadline, LoopIdle, EventLostEsrch
<1>7. CASE EventExit
  <2>1. Tells(fin.kind, fin.killed, Why)
    BY <1>0, <1>7 DEF EventExit, SentInv, UntouchedInMain, LimitInGrace, Tells, Limits, WaitLocals
  <2> QED
    BY <1>7, <1>d, <2>1 DEF EventExit, Contract!Next
<1>8. CASE EventSignal
  BY <1>8, <1>b DEF EventSignal, OnSignal
<1>9. CASE EventTimerMemory \/ EventTimerIdle \/ EventTimerDeadline
  BY <1>9, <1>5, <1>f, <1>b DEF EventTimerMemory, EventTimerIdle, EventTimerDeadline
<1>10. CASE EventTimerAgain
  BY <1>10, <1>f, <1>b DEF EventTimerAgain
<1>11. CASE HookFails \/ HookSpawn \/ HookWaitFails \/ HookExited \/ HookTimedOut \/ HookExits
  BY <1>11, <1>b DEF HookFails, HookSpawn, HookWaitFails, HookExited, HookTimedOut, HookExits
<1>12. CASE SendFails
  <2>1. /\ resume(proc, thr) \in Proc /\ resumed(thr) \in Throttle
        /\ resume(proc, thr).state = proc.state
    BY <1>0, ProcTypes, ThrottleTypes, StateKept
  <2> QED
    BY <1>12, <1>c, <2>1 DEF SendFails, Contract!Next
<1>13. CASE Terminate
  BY <1>0, <1>13, <1>e DEF Terminate, SentInv, LimitInGrace, Contract!Next
<1>14. CASE Forward
  BY <1>0, <1>14, <1>e DEF Forward, Fin, SentInv, ForwardedOnce, Contract!Next
<1>15. CASE Escalate
  BY <1>0, <1>15, <1>e DEF Escalate, SentInv, LimitInGrace, Contract!Next
<1>16. CASE WaitChild
  BY <1>16, <1>d DEF WaitChild, SentInv, FinTells, Contract!Next
<1>17. CASE WaitLost
  <2>1. proc.state = "gone" /\ pc = "wait" /\ hist' = hist
    BY <1>17, <1>a DEF WaitLost, echild
  <2>2. CASE fin.kind = "SignalForwarded"
    <3>1. "forward" \in Why
      BY <2>1, <2>2 DEF SentInv, FinTells, Tells
    <3>2. proc'.state = "gone" /\ res'.kind = "SignalForwarded"
      <4>1. mark_process_exited(thr) \in Throttle
        BY <1>0, ThrottleTypes
      <4> QED
        BY <1>0, <1>17, <2>1, <2>2, <4>1, StateKept DEF WaitLost, Return
    <3> QED
      BY <1>a, <2>1, <3>1, <3>2 DEF Contract!FinishLost, Contract!Next, Why
  <2>3. CASE fin.kind # "SignalForwarded"
    BY <1>0, <1>17, <1>c, <2>1, <2>3 DEF WaitLost, Contract!Next
  <2> QED
    BY <2>2, <2>3
<1>18. ASSUME NEW p \in Proc, p.state = "zombie", Running(proc), ChildStep(p)
       PROVE  Contract!End
  BY <1>a, <1>18 DEF ChildStep, Contract!End, Running
<1>19. CASE ChildExits
  <2>1. Exited(proc) \in Proc
    BY <1>0, ProcTypes
  <2>2. Exited(proc).state = "zombie"
    BY <1>0 DEF Exited, Proc
  <2> QED
    BY <1>18, <1>19, <2>1, <2>2 DEF ChildExits, CanExit, Contract!Next
<1>20. ASSUME NEW sig \in Signals, ChildStep(DiedOf(proc, sig)), Running(proc)
       PROVE  Contract!End
  <2>1. DiedOf(proc, sig) \in Proc
    BY <1>0, <1>20, ProcTypes
  <2>2. DiedOf(proc, sig).state = "zombie"
    BY <1>0 DEF DiedOf, Proc
  <2> QED
    BY <1>18, <1>20, <2>1, <2>2
<1>21. ASSUME NEW sig \in Signals, ChildHandles(sig)
       PROVE  UNCHANGED Contract!vars
  BY <1>0, <1>21, <1>b DEF ChildHandles, ChildStep, Handled, Proc
<1>29. CASE ChildExecs
  BY <1>0, <1>29, <1>b DEF ChildExecs, ChildStep, Execed, Proc
<1>30. ASSUME NEW sig \in Signals, ChildInherits(sig)
       PROVE  UNCHANGED Contract!vars
  <2>1. hist'.sent = hist.sent /\ proc'.state = proc.state
    BY <1>0, <1>30 DEF ChildInherits, Hist, Handled, Proc
  <2> QED
    BY <1>30, <1>b, <2>1 DEF ChildInherits
<1>22. ASSUME NEW sig \in UserSignals, SignalArrives(sig)
       PROVE  UNCHANGED Contract!vars
  <2>1. hist'.sent = hist.sent
    BY <1>0, <1>22 DEF SignalArrives, Hist
  <2> QED
    BY <1>22, <1>b, <2>1 DEF SignalArrives
<1>23. CASE Tick \/ StdinData \/ StdinEof \/ ChildReads \/ UNCHANGED vars
  <2>1. hist'.sent = hist.sent
    BY <1>0, <1>23 DEF Tick, StdinData, StdinEof, ChildReads, StdinStep, vars, Hist
  <2> QED
    BY <1>23, <1>b, <2>1 DEF Tick, StdinData, StdinEof, ChildReads, StdinStep, vars
<1>24. CASE ChildLost
  <2>1. Lost(proc).state = "gone"
    BY <1>0 DEF Lost, Proc
  <2> QED
    BY <1>a, <1>24, <2>1 DEF ChildLost, ChildStep, CanBeLost, Contract!Lose, Contract!Next
<1>25. ChildKilled => Running(proc) /\ ChildStep(DiedOf(proc, "KILL"))
  BY DEF ChildKilled, CanBeKilled
<1>26. \A sig \in Signals : ChildDies(sig) => Running(proc) /\ ChildStep(DiedOf(proc, sig))
  BY DEF ChildDies, CanActOn
<1>27. CASE Supervise \/ Failures
  BY <1>27, <1>1, <1>2, <1>3, <1>4, <1>6, <1>7, <1>8, <1>9, <1>10, <1>11, <1>12, <1>13,
     <1>14, <1>15, <1>16, <1>17 DEF Supervise, Failures
<1>28. CASE Environment
  BY <1>0, <1>28, <1>11, <1>19, <1>20, <1>21, <1>22, <1>23, <1>24, <1>25, <1>26, <1>29,
     <1>30
  DEF Environment, Contract!Next
<1> QED
  BY <1>23, <1>27, <1>28 DEF Next, Returned

\* run_command keeps its contract: signals go only to a child that it has not
\* reaped, one for the limit, SIGKILL only after it, nothing after a forwarded
\* one, and the result comes with the reaping, unless somebody else took the
\* child, and says which.
THEOREM KeepsContract == Spec => ContractHolds
<1>1. Init => Contract!Init
  BY DEF Init, Contract!Init, Unborn, NoHist, NoResult
<1>2. TypeOK /\ PidInv /\ SentInv /\ [Next]_vars => [Contract!Next]_(Contract!vars)
  BY ContractStep
<1> QED
  BY <1>1, <1>2, PidHolds, SentAgrees, PTL DEF Spec, ContractHolds, Contract!Spec
=============================================================================
