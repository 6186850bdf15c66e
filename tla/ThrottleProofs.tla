-------------------------- MODULE ThrottleProofs --------------------------
(***************************************************************************)
(* ShareBounded and NoStarvation of ThrottleControl for every percentage,  *)
(* interval, latency and number of processors.                             *)
(*                                                                         *)
(* The inductive invariant accounts for the time since the last sample.  A *)
(* running command was within its budget at that sample and has had all    *)
(* processors since (Free).  A stopped one was over budget at that sample, *)
(* and its debt is at most what one window costs, less what the budget     *)
(* grew in it (Debt); Debt is what NoStarvation and ShareBounded do not    *)
(* say by themselves.                                                      *)
(***************************************************************************)
EXTENDS ThrottleControl, TLAPS

Used == cpu - start_cpu

Types ==
  /\ proc \in Proc /\ thr \in Throttle
  /\ proc.state \in {"running", "zombie", "reaped"}
  /\ cpu \in Nat /\ start_cpu \in Nat /\ start_cpu <= cpu
  /\ last_wall \in Nat /\ next \in Nat /\ now \in Nat /\ since \in Nat
  /\ thr.on /\ thr.start = 0

Clock ==
  /\ last_wall <= now /\ now <= MaxTime
  /\ next = last_wall + Interval
  /\ now <= last_wall + Window

FlagIsTrue == Running(proc) => proc.stopped = thr.suspended

Free ==
  Running(proc) /\ ~ proc.stopped =>
    100 * Used <= Percent * last_wall + (100 * Cores) * (now - last_wall)

Debt ==
  Running(proc) /\ proc.stopped =>
    /\ since <= last_wall
    /\ 100 * Used > Percent * last_wall
    /\ 100 * Used + Percent * Window <= Percent * since + (100 * Cores) * Window

IInv == Types /\ Clock /\ FlagIsTrue /\ Free /\ Debt /\ ShareBounded

-----------------------------------------------------------------------------
(* Arithmetic with a constant factor, of which the provers know nothing    *)
(* until they are told.                                                    *)
LEMMA Distributes ==
  ASSUME NEW c \in Nat, NEW a \in Int, NEW b \in Int
  PROVE  c * a \in Int /\ c * (a + b) = c * a + c * b /\ c * (a - b) = c * a - c * b
OBVIOUS

LEMMA Monotone ==
  ASSUME NEW c \in Nat, NEW a \in Nat, NEW b \in Nat, a <= b
  PROVE  c * a \in Nat /\ c * b \in Nat /\ c * a <= c * b
<1>1. b - a \in Nat OBVIOUS
<1>2. c * (b - a) \in Nat BY <1>1
<1>3. c * b = c * a + c * (b - a) BY <1>1, Distributes
<1> QED BY <1>1, <1>2, <1>3

(* The truncating budget of update() decides as exact arithmetic would:    *)
(* total_cpu_ns > cpu_budget_ns exactly when the share is exceeded.        *)
LEMMA BudgetExact ==
  ASSUME Types, Clock
  PROVE  total_cpu_ns > cpu_budget_ns(now) <=> 100 * Used > Percent * now
<1> DEFINE n == now * Percent
<1>1. n \in Nat /\ n = Percent * now BY ThrottleAssumption DEF Types
<1>2. n \div 100 \in 0 .. U64Max
  <2>1. now \in 0 .. MaxTime BY ThrottleAssumption DEF Types, Clock
  <2>2. n \div 100 <= U64Max BY <2>1, NoWrap
  <2>3. \A m \in Nat : m \div 100 \in Nat OBVIOUS
  <2>4. n \div 100 \in Nat BY <2>3, <1>1
  <2> HIDE DEF n
  <2> QED BY <2>2, <2>4, TimeBounds
<1>3. total_cpu_ns = Used /\ Used \in Nat BY DEF Types, total_cpu_ns, saturating_sub, Used
<1>4. total_wall_ns(now) = now BY DEF Types, total_wall_ns, saturating_sub
<1>5. cpu_budget_ns(now) = n \div 100
  <2>1. cpu_budget_ns(now) = (n \div 100) % (U64Max + 1) BY <1>4 DEF cpu_budget_ns
  <2>2. \A m \in 0 .. U64Max : m % (U64Max + 1) = m BY TimeBounds
  <2> QED BY <2>1, <2>2, <1>2
<1>6. \A u, m \in Nat : u > m \div 100 <=> 100 * u > m OBVIOUS
<1> HIDE DEF n
<1> QED BY <1>1, <1>3, <1>5, <1>6

-----------------------------------------------------------------------------
LEMMA WindowType == Window \in Nat /\ 100 * Cores \in Nat /\ Percent \in Nat
BY ThrottleAssumption DEF Window

(* CpuThrottleState::new: nothing has been used and no time has passed.    *)
LEMMA InitHolds == Init => IInv
<1> SUFFICES ASSUME Init PROVE IInv OBVIOUS
<1>1. Types
  <2>1. /\ proc = [Unborn EXCEPT !.state = "running", !.execed = ~ FALSE]
        /\ thr = [Detached EXCEPT !.on = TRUE, !.start = 0]
    BY DEF Init, Spawned, Attached
  <2>2. proc \in Proc /\ proc.state = "running" BY <2>1 DEF Unborn, Proc, ProcState, Status
  <2>3. thr \in Throttle /\ thr.on /\ thr.start = 0 BY <2>1 DEF Detached, Throttle
  <2>4. next \in Nat
    BY ThrottleAssumption, TimeBounds DEF Init, advance_ns, saturating_add, MinOf
  <2>5. cpu \in Nat /\ start_cpu = cpu BY ThrottleAssumption DEF Init
  <2>6. now = 0 /\ last_wall = 0 /\ since = 0 BY DEF Init
  <2> QED BY <2>2, <2>3, <2>4, <2>5, <2>6 DEF Types
<1>2. Clock
  BY ThrottleAssumption, TimeBounds, WindowType DEF Init, Clock, advance_ns, saturating_add, MinOf, Window
<1>3. Running(proc) /\ proc.stopped = FALSE /\ thr.suspended = FALSE
  BY DEF Init, Spawned, Unborn, Attached, Detached, Running
<1>4. Used = 0 /\ now = 0 /\ last_wall = 0 BY ThrottleAssumption DEF Init, Used
<1>5. Free BY <1>4, WindowType DEF Free
<1>6. ShareBounded
  <2>1. 100 * Cores * Window \in Nat BY WindowType
  <2> QED BY <1>4, <2>1, WindowType DEF ShareBounded, Used
<1> QED BY <1>1, <1>2, <1>3, <1>5, <1>6 DEF IInv, FlagIsTrue, Debt

-----------------------------------------------------------------------------
(* What a sample does to a command that runs: it is stopped afterwards     *)
(* exactly when it is over its share, and the flag says so.                *)
LEMMA SampleDecides ==
  ASSUME IInv, Sample, Running(proc)
  PROVE  /\ Running(proc')
         /\ proc'.stopped = (100 * Used > Percent * now)
         /\ thr'.suspended = proc'.stopped
         /\ since' = IF proc'.stopped /\ ~ proc.stopped THEN now ELSE since
         /\ proc' \in Proc /\ thr' \in Throttle /\ thr'.on /\ thr'.start = 0
<1> DEFINE over == total_cpu_ns > cpu_budget_ns(now)
<1>1. over <=> 100 * Used > Percent * now BY BudgetExact DEF IInv
<1>a. over = (100 * Used > Percent * now) BY <1>1
<1>2. now > thr.start
  BY ThrottleAssumption DEF IInv, Types, Clock, Sample, deadline_reached
<1>3. /\ proc' = update(proc, thr, TRUE, over, now)
      /\ thr' = updated(thr, TRUE, over, now)
      /\ since' = IF MustStop(thr, over, now) THEN now ELSE since
  BY DEF Sample, Samples
<1>4. proc \in Proc /\ thr \in Throttle /\ thr.on /\ thr.start = 0 /\ proc.stopped = thr.suspended
  BY DEF IInv, Types, FlagIsTrue
<1>5. proc.stopped \in BOOLEAN /\ thr.suspended \in BOOLEAN BY <1>4 DEF Proc, Throttle
<1>6. over \in BOOLEAN OBVIOUS
<1> HIDE DEF over
<1>7. CASE over /\ ~ thr.suspended
  <2>1. MustStop(thr, over, now) BY <1>7, <1>2 DEF MustStop
  <2>2. proc' = [proc EXCEPT !.stopped = TRUE] BY <2>1, <1>3 DEF update, sigstop
  <2>3. thr' = [thr EXCEPT !.suspended = TRUE] BY <2>1, <1>3 DEF updated
  <2> QED BY <1>1, <1>3, <1>4, <1>7, <2>1, <2>2, <2>3 DEF Proc, Throttle, Running
<1>8. CASE ~ over /\ thr.suspended
  <2>1. ~ MustStop(thr, over, now) /\ MustCont(thr, over, now)
    BY <1>8, <1>2 DEF MustStop, MustCont
  <2>2. proc' = [proc EXCEPT !.stopped = FALSE, !.stray = @ \/ ~ Owned(proc)]
    BY <2>1, <1>3 DEF update, sigcont
  <2>3. thr' = [thr EXCEPT !.suspended = FALSE] BY <2>1, <1>3 DEF updated
  <2>4. proc' \in Proc BY <2>2, <1>4 DEF Proc
  <2>5. Running(proc') /\ proc'.stopped = FALSE BY <2>2, <1>4 DEF Proc, Running
  <2>6. thr' \in Throttle /\ thr'.on /\ thr'.start = 0 /\ thr'.suspended = FALSE
    BY <2>3, <1>4 DEF Throttle
  <2>7. since' = since BY <1>3, <2>1
  <2>8. (100 * Used > Percent * now) = FALSE BY <1>1, <1>8
  <2> QED BY <2>4, <2>5, <2>6, <2>7, <2>8
<1>9. CASE over = thr.suspended
  <2>1. ~ MustStop(thr, over, now) /\ ~ MustCont(thr, over, now)
    BY <1>9, <1>5 DEF MustStop, MustCont
  <2>2. proc' = proc /\ thr' = thr BY <2>1, <1>3 DEF update, updated
  <2>3. since' = since BY <1>3, <2>1
  <2>4. proc.stopped = (100 * Used > Percent * now) BY <1>a, <1>4, <1>9, Zenon
  <2> QED BY <1>4, <2>2, <2>3, <2>4
<1> QED BY <1>5, <1>6, <1>7, <1>8, <1>9

(* A sample settles the account: the command goes on within its budget, or *)
(* is stopped with a debt of at most one window.                           *)
LEMMA SampleHolds == IInv /\ Sample => IInv'
<1> SUFFICES ASSUME IInv, Sample PROVE IInv' OBVIOUS
<1> USE WindowType
<1>1. /\ cpu' = cpu /\ start_cpu' = start_cpu /\ now' = now /\ last_wall' = now
      /\ next' = now + Interval /\ Used' = Used
  BY ThrottleAssumption, TimeBounds
  DEF Sample, IInv, Types, Clock, advance_ns, saturating_add, MinOf, Used
<1>2. Clock' BY <1>1, ThrottleAssumption DEF IInv, Types, Clock, Window
<1>3. ShareBounded' BY <1>1 DEF IInv, ShareBounded, Window
<1>4. Used \in Nat /\ now \in Nat /\ last_wall \in Nat /\ since \in Nat
      /\ last_wall <= now /\ now - last_wall <= Window
  BY DEF IInv, Types, Clock, Used
<1>5. Percent * now \in Nat /\ Percent * since \in Nat /\ Percent * last_wall \in Nat
      /\ Percent * Window \in Nat /\ (100 * Cores) * Window \in Nat
  BY <1>4
<1>6. CASE Running(proc)
  <2>1. /\ Running(proc')
        /\ proc'.stopped = (100 * Used > Percent * now)
        /\ thr'.suspended = proc'.stopped
        /\ since' = IF proc'.stopped /\ ~ proc.stopped THEN now ELSE since
        /\ proc' \in Proc /\ thr' \in Throttle /\ thr'.on /\ thr'.start = 0
    BY <1>6, SampleDecides
  <2>2. Types' BY <1>1, <1>4, <2>1, ThrottleAssumption DEF IInv, Types, Running
  <2>3. FlagIsTrue' BY <2>1 DEF FlagIsTrue
  <2>4. Free'
    <3> SUFFICES ASSUME ~ proc'.stopped
                 PROVE  100 * Used <= Percent * now + (100 * Cores) * (now - now)
      BY <1>1 DEF Free
    <3>a. ~ (100 * Used > Percent * now) BY <2>1, Zenon
    <3>1. 100 * Used <= Percent * now BY <3>a, <1>4, <1>5
    <3> QED BY <3>1, <1>4, <1>5
  <2>5. Debt'
    <3> SUFFICES ASSUME proc'.stopped
                 PROVE  /\ since' <= now
                        /\ 100 * Used > Percent * now
                        /\ 100 * Used + Percent * Window <= Percent * since' + (100 * Cores) * Window
      BY <1>1 DEF Debt
    <3>1. 100 * Used > Percent * now BY <2>1
    <3>2. CASE proc.stopped
      <4>1. since' = since BY <2>1, <3>2
      <4> QED BY <3>1, <3>2, <4>1, <1>4, <1>6 DEF IInv, Debt
    <3>3. CASE ~ proc.stopped
      <4> DEFINE g == now - last_wall
                 k == 100 * Cores
      <4>1. since' = now BY <2>1, <3>3
      <4>2. 100 * Used <= Percent * last_wall + k * g BY <3>3, <1>6 DEF IInv, Free
      <4>3. g \in Nat /\ g <= Window /\ k \in Nat /\ now = last_wall + g BY <1>4
      <4> HIDE DEF g, k
      <4>4. Percent * now = Percent * last_wall + Percent * g BY <4>3, <1>4, Distributes
      <4>5. k * g \in Nat /\ Percent * g \in Nat BY <4>3
      <4>6. Percent <= k
        <5>1. SUFFICES ASSUME k < Percent PROVE FALSE BY <4>3
        <5>2. g * k <= g * Percent BY <4>3, <5>1, Monotone
        <5>3. g * k = k * g /\ g * Percent = Percent * g BY <4>3
        <5> QED BY <5>2, <5>3, <3>1, <4>2, <4>4, <4>5, <1>4, <1>5
      <4>7. k - Percent \in Nat BY <4>3, <4>6
      <4>8. (k - Percent) * g <= (k - Percent) * Window BY <4>3, <4>7, Monotone
      <4>9. /\ (k - Percent) * g = k * g - Percent * g
            /\ (k - Percent) * Window = k * Window - Percent * Window
        BY <4>3
      <4>10. 100 * Used + Percent * Window <= Percent * now + k * Window
        BY <4>2, <4>4, <4>5, <4>8, <4>9, <4>3, <1>4, <1>5
      <4> QED BY <4>1, <4>10, <3>1, <1>4 DEF k
    <3> QED BY <3>2, <3>3
  <2> QED BY <1>2, <1>3, <2>2, <2>3, <2>4, <2>5 DEF IInv
<1>7. CASE ~ Running(proc)
  <2>1. proc.state \in {"zombie", "reaped"} /\ proc.state # "reaped"
    BY <1>7 DEF IInv, Types, Running, Sample
  <2> DEFINE over == total_cpu_ns > cpu_budget_ns(now)
  <2>2. PICK seen \in Samples(proc) :
          /\ proc' = update(proc, thr, seen, over, now)
          /\ thr' = updated(thr, seen, over, now)
          /\ since' = IF seen /\ MustStop(thr, over, now) THEN now ELSE since
    BY DEF Sample
  <2> HIDE DEF over
  <2>3. proc' \in Proc /\ proc'.state = "zombie"
    BY <2>1, <2>2 DEF update, sigstop, sigcont, Running, Owned, Proc, IInv, Types
  <2>4. thr' \in Throttle /\ thr'.on /\ thr'.start = 0
    BY <2>2 DEF updated, Throttle, IInv, Types
  <2>5. ~ Running(proc') BY <2>3 DEF Running
  <2>6. Types' BY <1>1, <1>4, <2>2, <2>3, <2>4, ThrottleAssumption DEF IInv, Types
  <2> QED BY <1>2, <1>3, <2>5, <2>6 DEF IInv, FlagIsTrue, Free, Debt
<1> QED BY <1>6, <1>7

(* A tick costs at most one unit of every processor, and no sample is      *)
(* later than MaxLate.                                                     *)
LEMMA TickHolds == IInv /\ Tick => IInv'
<1> SUFFICES ASSUME IInv, Tick PROVE IInv' OBVIOUS
<1> USE WindowType
<1>1. PICK used \in 0 .. Cores : ((Running(proc) /\ ~ proc.stopped) \/ used = 0) /\ cpu' = cpu + used
  BY DEF Tick
<1>2. /\ now' = now + 1 /\ proc' = proc /\ thr' = thr /\ start_cpu' = start_cpu
      /\ last_wall' = last_wall /\ next' = next /\ since' = since
  BY DEF Tick
<1>3. used \in Nat /\ used <= Cores BY ThrottleAssumption
<1>4. Types' BY <1>1, <1>2, <1>3 DEF IInv, Types
<1>5. Clock' BY <1>2, ThrottleAssumption DEF IInv, Types, Clock, Window, Tick
<1>6. FlagIsTrue' BY <1>2 DEF IInv, FlagIsTrue
<1>7. Used' = Used + used /\ Used \in Nat BY <1>1, <1>2, <1>3 DEF IInv, Types, Used
<1>8. now \in Nat /\ last_wall \in Nat /\ now - last_wall \in Nat /\ now - last_wall <= Window
      /\ now + 1 - last_wall <= Window
  BY <1>2, <1>5 DEF IInv, Types, Clock
<1>9. Free'
  <2> SUFFICES ASSUME Running(proc), ~ proc.stopped
               PROVE  100 * Used' <= Percent * last_wall' + (100 * Cores) * (now' - last_wall')
    BY <1>2 DEF Free
  <2> DEFINE k == 100 * Cores
             g == now - last_wall
  <2>1. 100 * Used <= Percent * last_wall + k * g BY DEF IInv, Free
  <2>2. 100 * used <= k BY <1>3, ThrottleAssumption
  <2>3. k \in Nat /\ g \in Nat /\ now + 1 - last_wall = g + 1 BY <1>8
  <2> HIDE DEF k, g
  <2>4. k * (g + 1) = k * g + k BY <2>3
  <2>5. k * g \in Nat /\ Percent * last_wall \in Nat BY <2>3, <1>8
  <2>6. 100 * (Used + used) <= Percent * last_wall + k * (g + 1)
    BY <2>1, <2>2, <2>4, <2>5, <2>3, <1>3, <1>7
  <2>7. now' - last_wall' = g + 1 /\ Used' = Used + used /\ last_wall' = last_wall
    BY <2>3, <1>2, <1>7, <1>8
  <2> QED BY <2>6, <2>7, Zenon DEF k
<1>10. Debt'
  <2> SUFFICES ASSUME Running(proc), proc.stopped PROVE Debt' BY <1>2 DEF Debt
  <2>1. used = 0 /\ Used' = Used BY <1>1, <1>7
  <2> QED BY <1>2, <2>1 DEF IInv, Debt
<1>11. ShareBounded'
  <2>1. Percent * now \in Nat /\ Percent * last_wall \in Nat /\ (100 * Cores) * Window \in Nat
    BY <1>8
  <2>2. Percent * (now + 1) = Percent * now + Percent BY <1>8
  <2>3. CASE Running(proc) /\ ~ proc.stopped
    <3> DEFINE h == now + 1 - last_wall
    <3>1. 100 * Used' <= Percent * last_wall + (100 * Cores) * h
      <4>1. 100 * Used' <= Percent * last_wall' + (100 * Cores) * (now' - last_wall')
        BY <1>2, <1>9, <2>3 DEF Free
      <4>2. now' - last_wall' = h /\ last_wall' = last_wall BY <1>2, <1>8
      <4> HIDE DEF h
      <4> QED BY <4>1, <4>2, Zenon
    <3>2. h \in Nat /\ h <= Window /\ last_wall <= now + 1 BY <1>8
    <3> HIDE DEF h
    <3>3. (100 * Cores) * h <= (100 * Cores) * Window /\ (100 * Cores) * h \in Nat
      BY <3>2, Monotone
    <3>4. Percent * last_wall <= Percent * (now + 1) BY <3>2, <1>8, Monotone
    <3>5. 100 * Used' <= Percent * (now + 1) + (100 * Cores) * Window
      BY <3>1, <3>3, <3>4, <2>1, <2>2, <1>7, <1>3
    <3> QED BY <3>5, <1>2 DEF ShareBounded, Used, Window
  <2>4. CASE used = 0
    <3>1. 100 * Used <= Percent * now + (100 * Cores) * Window
      BY DEF IInv, ShareBounded, Used
    <3>2. 100 * Used <= Percent * (now + 1) + (100 * Cores) * Window
      BY <3>1, <2>1, <2>2, <1>7
    <3>3. Used' = Used BY <2>4, <1>7
    <3> QED BY <3>2, <3>3, <1>2 DEF ShareBounded, Used, Window
  <2> QED BY <1>1, <2>3, <2>4
<1> QED BY <1>4, <1>5, <1>6, <1>9, <1>10, <1>11 DEF IInv

(* Once the command is dead it uses nothing, and nobody is held stopped.   *)
LEMMA DeathHolds == IInv /\ (ChildExits \/ ChildIsKilled \/ ExitSeen) => IInv'
<1> SUFFICES ASSUME IInv, ChildExits \/ ChildIsKilled \/ ExitSeen PROVE IInv' OBVIOUS
<1>1. /\ cpu' = cpu /\ start_cpu' = start_cpu /\ now' = now /\ last_wall' = last_wall
      /\ next' = next /\ since' = since
  BY DEF ChildExits, ChildIsKilled, ExitSeen
<1>2. proc' \in Proc /\ proc'.state \in {"zombie", "reaped"}
  BY KillIsSignal
  DEF ChildExits, ChildIsKilled, ExitSeen, Exited, DiedOf, wait, Proc, ProcState, Status, IInv, Types
<1>3. thr' \in Throttle /\ thr'.on /\ thr'.start = 0
  BY DEF ChildExits, ChildIsKilled, ExitSeen, mark_process_exited, Throttle, IInv, Types
<1>4. Types' BY <1>1, <1>2, <1>3 DEF IInv, Types
<1>5. ~ Running(proc') BY <1>2 DEF Running
<1>6. Clock' /\ ShareBounded' BY <1>1 DEF IInv, Clock, ShareBounded, Window
<1> QED BY <1>4, <1>5, <1>6 DEF IInv, FlagIsTrue, Free, Debt

LEMMA NextHolds == IInv /\ [Next]_vars => IInv'
<1> SUFFICES ASSUME IInv, [Next]_vars PROVE IInv' OBVIOUS
<1>1. CASE Sample BY <1>1, SampleHolds
<1>2. CASE Tick BY <1>2, TickHolds
<1>3. CASE ChildExits \/ ChildIsKilled \/ ExitSeen BY <1>3, DeathHolds
<1>4. CASE UNCHANGED vars
  BY <1>4 DEF vars, IInv, Types, Clock, FlagIsTrue, Free, Debt, ShareBounded, Used, Window
<1> QED BY <1>1, <1>2, <1>3, <1>4 DEF Next

(* The debt of a stopped command is paid within the time NoStarvation      *)
(* allows: at the last sample it was still in debt, so the budget had      *)
(* grown by less than the debt since the stop.                             *)
LEMMA DebtIsPaid == IInv => NoStarvation
<1> SUFFICES ASSUME IInv, Running(proc), proc.stopped
             PROVE  Percent * (now - since) <= 100 * Cores * Window
  BY DEF NoStarvation
<1> USE WindowType
<1>1. /\ 100 * Used > Percent * last_wall
      /\ 100 * Used + Percent * Window <= Percent * since + (100 * Cores) * Window
  BY DEF IInv, Debt
<1>2. now \in Nat /\ since \in Nat /\ last_wall \in Nat /\ Used \in Nat /\ now <= last_wall + Window
  BY DEF IInv, Types, Clock, Used
<1>3. Percent * now <= Percent * (last_wall + Window)
  <2>1. last_wall + Window \in Nat BY <1>2
  <2> QED BY <1>2, <2>1, Monotone
<1>4. Percent * (last_wall + Window) = Percent * last_wall + Percent * Window
      /\ Percent * (now - since) = Percent * now - Percent * since
  BY <1>2, Distributes
<1>5. Percent * now \in Nat /\ Percent * since \in Nat /\ Percent * last_wall \in Nat
      /\ Percent * Window \in Nat /\ (100 * Cores) * Window \in Nat
  BY <1>2
<1> QED BY <1>1, <1>2, <1>3, <1>4, <1>5

(* The command never has more than its percentage of the time since the    *)
(* throttle was attached, but for what all processors do in one sampling   *)
(* window (CpuThrottleState::update, throttle.rs:89).                      *)
THEOREM ShareIsBounded == Spec => []ShareBounded
<1>1. IInv => ShareBounded BY DEF IInv
<1> QED BY InitHolds, NextHolds, <1>1, PTL DEF Spec

(* A command that is stopped is resumed in bounded time, whatever it has   *)
(* done before (CpuThrottleState::update, throttle.rs:89).                 *)
THEOREM NeverStarves == Spec => []NoStarvation
BY InitHolds, NextHolds, DebtIsPaid, PTL DEF Spec
=============================================================================
