-------------------------- MODULE ThrottleControl --------------------------
(***************************************************************************)
(* The control loop of --cpu-percent: the accounting of CpuThrottleState   *)
(* in throttle.rs, which decides the stops and resumptions of CpuThrottle, *)
(* driven by the samples that wait_with_kqueue takes every interval_ns,    *)
(* and a command that uses up to Cores processors while it is not stopped. *)
(* Wall and CPU time count the same ticks.                                 *)
(***************************************************************************)
EXTENDS CpuThrottle, TimeMath

CONSTANTS
  Percent,    \* --cpu-percent: 100 is one processor
  Interval,   \* interval_ns
  Cores,      \* the processors the command can use at once
  MaxLate,    \* bound: ticks a sample is late
  MaxTime     \* bound: the last tick

\* NoWrap: the budget fits in a u64 for as long as the run lasts
ASSUME ThrottleAssumption ==
  /\ Percent \in Nat \ {0} /\ Interval \in Nat \ {0} /\ Cores \in Nat \ {0}
  /\ MaxLate \in Nat /\ MaxTime \in Nat
  /\ MaxTime + Interval + MaxLate <= U64Max
ASSUME NoWrap == \A t \in 0 .. MaxTime : (t * Percent) \div 100 <= U64Max

VARIABLES
  proc, thr,   \* the command and the throttle's flags, see CpuThrottle
  cpu,         \* the CPU time the kernel has counted for the command
  start_cpu, last_cpu, last_wall,   \* start_cpu_ns, last_cpu_ns, last_wall_ns
  next,        \* next_throttle_ns of wait_with_kqueue
  now,
  since        \* history: when the command was stopped last

vars == <<proc, thr, cpu, start_cpu, last_cpu, last_wall, next, now, since>>

\* CpuThrottleState::new, with the CPU time the command has used by then
Init ==
  /\ proc = Spawned(Unborn, FALSE)
  /\ cpu \in 0 .. Cores /\ start_cpu = cpu /\ last_cpu = cpu
  /\ now = 0 /\ last_wall = now
  /\ thr = Attached(now)
  /\ next = advance_ns(last_wall, Interval)
  /\ since = 0

-----------------------------------------------------------------------------
\* mutation: the wall time of the interval, not of the whole run
total_wall_ns_of_interval(t) == saturating_sub(t, last_wall)

total_wall_ns(t) == saturating_sub(t, thr.start)

\* mutation: the CPU time of the interval, not of the whole run
total_cpu_ns_of_interval == saturating_sub(cpu, last_cpu)

total_cpu_ns == saturating_sub(cpu, start_cpu)

\* The cast to u64 keeps the low bits
cpu_budget_ns(t) == ((total_wall_ns(t) * Percent) \div 100) % (U64Max + 1)

\* The wake-up of the loop that finds next_throttle_ns reached
Sample ==
  /\ proc.state # "reaped" /\ deadline_reached(now, next)
  /\ \E seen \in Samples(proc) :
       LET over == total_cpu_ns > cpu_budget_ns(now)
       IN  /\ proc' = update(proc, thr, seen, over, now)
           /\ thr' = updated(thr, seen, over, now)
           /\ last_cpu' = IF seen THEN cpu ELSE last_cpu
           /\ since' = IF seen /\ MustStop(thr, over, now) THEN now ELSE since
  /\ last_wall' = now
  /\ next' = advance_ns(now, Interval)
  /\ UNCHANGED <<cpu, start_cpu, now>>

\* A tick, in which the command runs on some of the processors unless it is
\* stopped or dead
Tick ==
  /\ now < MaxTime /\ now < next + MaxLate
  /\ now' = now + 1
  /\ \E used \in 0 .. Cores :
       /\ (Running(proc) /\ ~ proc.stopped) \/ used = 0
       /\ cpu' = cpu + used
  /\ UNCHANGED <<proc, thr, start_cpu, last_cpu, last_wall, next, since>>

ChildExits ==
  /\ CanExit(proc)
  /\ proc' = Exited(proc)
  /\ UNCHANGED <<thr, cpu, start_cpu, last_cpu, last_wall, next, now, since>>

ChildIsKilled ==
  /\ CanBeKilled(proc)
  /\ proc' = DiedOf(proc, "KILL")
  /\ UNCHANGED <<thr, cpu, start_cpu, last_cpu, last_wall, next, now, since>>

\* The loop sees the exit, reaps the child and tells the throttle
ExitSeen ==
  /\ CanReap(proc)
  /\ proc' = wait(proc)
  /\ thr' = mark_process_exited(thr)
  /\ UNCHANGED <<cpu, start_cpu, last_cpu, last_wall, next, now, since>>

Next == Sample \/ Tick \/ ChildExits \/ ChildIsKilled \/ ExitSeen

Spec == Init /\ [][Next]_vars

-----------------------------------------------------------------------------
(* Properties.                                                             *)

Window == Interval + MaxLate   \* the longest time between two samples

(* The command gets its share and no more, at every moment and over the    *)
(* whole run: it exceeds the percentage by at most what all the processors *)
(* can do between two samples ("converges to exact target percentage over  *)
(* process lifetime", throttle.rs:36).                                     *)
ShareBounded ==
  100 * (cpu - start_cpu) <= Percent * now + 100 * Cores * Window

(* A command that is stopped is resumed as soon as the budget has caught   *)
(* up with what one window on all the processors can have cost, and so     *)
(* never starves (the debt of CpuThrottleState::update).                   *)
NoStarvation ==
  Running(proc) /\ proc.stopped => Percent * (now - since) <= 100 * Cores * Window
=============================================================================
