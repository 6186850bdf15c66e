------------------------- MODULE WaitForFileProofs -------------------------
(***************************************************************************)
(* Proofs about wait_for_file: for every timeout, poll interval and        *)
(* latency, the wait looks at the file once more after its last sleep, it  *)
(* stays within a millisecond of its deadline, and it never spins.         *)
(***************************************************************************)
EXTENDS WaitForFile, TLAPS

-----------------------------------------------------------------------------
(* The interval slept, sleep_time of wait.rs, in a state of the loop. *)

\* A remainder in milliseconds, times PerMs, is the remainder rounded down.
LEMMA DivBounds ==
  ASSUME NEW a \in Nat, NEW b \in Nat \ {0}
  PROVE  /\ a \div b \in Nat
         /\ (a \div b) * b <= a
         /\ a < (a \div b) * b + b
  BY SMT

\* Multiplication by a natural number keeps the order.
LEMMA TimesMonotone ==
  ASSUME NEW a \in Nat, NEW b \in Nat, NEW c \in Nat, a <= b
  PROVE  a * c <= b * c /\ a * c \in Nat
  BY SMT

\* The sleep is at least a millisecond and at most the poll interval.
LEMMA SleepTimeBounds ==
  ASSUME TypeOK
  PROVE  sleep_time \in 1 .. poll
<1>. poll \in Nat /\ poll >= 1 /\ now \in Nat
  BY WaitAssumption DEF TypeOK
<1>1. CASE deadline = None
  BY <1>1 DEF sleep_time
<1>2. CASE deadline # None
  <2>1. deadline \in Nat
    BY <1>2 DEF TypeOK
  <2>2. remaining_ns(now, deadline) \in Nat
    BY <2>1 DEF remaining_ns, saturating_sub
  <2>3. remaining_ns(now, deadline) \div PerMs \in Nat
    BY <2>2, DivBounds, WaitAssumption
  <2>. QED
    BY <1>2, <2>3 DEF sleep_time, MinOf
<1>. QED
  BY <1>1, <1>2

\* A sleep that starts before the deadline ends less than a millisecond after
\* it: the interval is cut at the remainder, and only a remainder below a
\* millisecond is rounded up.
LEMMA SleepEndsByDeadline ==
  ASSUME TypeOK, deadline # None, ~ deadline_reached(now, deadline)
  PROVE  now + sleep_time * PerMs < deadline + PerMs
<1> DEFINE rest == deadline - now
           ms   == rest \div PerMs
<1>1. deadline \in Nat /\ now \in Nat /\ rest \in Nat /\ rest >= 1 /\ poll \in Nat /\ poll >= 1
  BY WaitAssumption DEF TypeOK, deadline_reached
<1>2. PerMs \in Nat \ {0}
  BY WaitAssumption
<1>3. remaining_ns(now, deadline) = rest
  BY <1>1 DEF remaining_ns, saturating_sub
<1>4. ms \in Nat /\ ms * PerMs <= rest
  BY <1>1, <1>2, DivBounds
<1>5. sleep_time = MinOf(poll, IF ms >= 1 THEN ms ELSE 1)
  BY <1>3 DEF sleep_time
<1>6. sleep_time \in Nat /\ (sleep_time <= ms \/ sleep_time = 1)
  <2>. HIDE DEF ms
  <2>. QED
    BY <1>1, <1>4, <1>5 DEF MinOf
<1>. HIDE DEF ms
<1>7. CASE sleep_time <= ms
  <2>1. sleep_time * PerMs <= ms * PerMs /\ sleep_time * PerMs \in Nat /\ ms * PerMs \in Nat
    BY <1>2, <1>4, <1>6, <1>7, TimesMonotone
  <2>. QED
    BY <2>1, <1>1, <1>2, <1>4
<1>8. CASE sleep_time = 1
  BY <1>8, <1>1, <1>2
<1>. QED
  BY <1>6, <1>7, <1>8

-----------------------------------------------------------------------------
(* Type correctness. *)

LEMMA InitTypeOK == Init => TypeOK
  BY WaitAssumption DEF Init, TypeOK

LEMMA NextTypeOK == TypeOK /\ [Next]_vars => TypeOK'
<1>. SUFFICES ASSUME TypeOK, [Next]_vars
              PROVE  TypeOK'
  OBVIOUS
<1>. USE DEF TypeOK
<1>1. CASE Found
  BY <1>1 DEF Found, Return
<1>2. CASE StatFails
  BY <1>2 DEF StatFails, Return
<1>3. CASE FirstMissing
  BY <1>3 DEF FirstMissing
<1>4. CASE SetDeadline
  <2>1. CASE timeout = None
    BY <1>4, <2>1 DEF SetDeadline
  <2>2. CASE timeout # None
    <3>1. timeout \in Nat
      BY <2>2, WaitAssumption
    <3>2. advance_ns(now, MinOf(timeout, U64Max)) \in Nat
      BY <3>1, TimeBounds DEF advance_ns, saturating_add, MinOf
    <3>. QED
      BY <1>4, <2>2, <3>2 DEF SetDeadline
  <2>. QED
    BY <2>1, <2>2
<1>5. CASE TimedOut
  BY <1>5 DEF TimedOut, Return
<1>6. CASE Sleep
  <2>1. sleep_time \in Nat
    BY SleepTimeBounds, WaitAssumption
  <2>2. sleep_time * PerMs \in Nat
    BY <2>1, TimesMonotone, WaitAssumption
  <2>3. now + sleep_time * PerMs \in Nat
    BY <2>2
  <2>. QED
    BY <1>6, <2>3 DEF Sleep
<1>7. CASE Wake
  BY <1>7 DEF Wake
<1>8. CASE Missing
  <2>1. Doubled \in 1 .. MAX_POLL_MS
    BY WaitAssumption DEF Doubled, MinOf
  <2>. QED
    BY <1>8, <2>1 DEF Missing
<1>9. CASE Tick
  BY <1>9 DEF Tick
<1>10. CASE FileCreated
  BY <1>10 DEF FileCreated
<1>11. CASE FileDeleted
  BY <1>11 DEF FileDeleted
<1>12. CASE UNCHANGED vars
  BY <1>12 DEF vars
<1>. QED
  BY <1>1, <1>2, <1>3, <1>4, <1>5, <1>6, <1>7, <1>8, <1>9, <1>10, <1>11, <1>12
     DEF Next, Program, Over

\* Every variable of wait_for_file keeps its type, whatever the file does: the
\* poll interval stays within 1 .. MAX_POLL_MS and the deadline is a time.
THEOREM WaitTypeCorrect == Spec => []TypeOK
  BY InitTypeOK, NextTypeOK, PTL DEF Spec

-----------------------------------------------------------------------------
(* The inductive invariant. *)

\* No round ends more than a millisecond after the deadline.
Wakes == pc = "sleep" /\ deadline # None => wake < deadline + PerMs

\* Until the first look at the clock every tick is latency.
AllLate == pc \in {"first", "deadline"} => late = now /\ deadline = None

\* Between a stat that missed the file and the next sleep every tick is
\* latency, and so is the age of a file that turned up meanwhile.
NewFile == pc \in {"deadline", "loop"} /\ file => since + late >= now

\* A timeout is reported at the end only.
Reported == res = "Timeout" => pc = "done" /\ deadline # None

WaitInv == Wakes /\ AllLate /\ NewFile /\ Reported /\ NoOvershoot /\ FoundInTime

LEMMA InitWaitInv == Init => WaitInv
  BY WaitAssumption
     DEF Init, WaitInv, Wakes, AllLate, NewFile, Reported, NoOvershoot, FoundInTime

LEMMA NextWaitInv == TypeOK /\ WaitInv /\ [Next]_vars => WaitInv'
<1>. SUFFICES ASSUME TypeOK, WaitInv, [Next]_vars
              PROVE  WaitInv'
  OBVIOUS
<1>0. /\ PerMs \in Nat \ {0} /\ now \in Nat /\ late \in Nat /\ since \in Nat /\ wake \in Nat
      /\ deadline \in Nat \cup {None} /\ None = -1
  BY WaitAssumption DEF TypeOK, None
<1>. USE DEF WaitInv, Wakes, AllLate, NewFile, Reported, NoOvershoot, FoundInTime
<1>1. CASE Found
  BY <1>0, <1>1 DEF Found, Return
<1>2. CASE StatFails
  BY <1>0, <1>2 DEF StatFails, Return
<1>3. CASE FirstMissing
  BY <1>0, <1>3 DEF FirstMissing
<1>4. CASE SetDeadline
  <2>1. deadline' = None \/ deadline' \in Nat
    BY <1>4, NextTypeOK DEF TypeOK
  <2>2. late = now
    BY <1>4 DEF SetDeadline
  <2>3. NoOvershoot'
    BY <1>0, <1>4, <2>1, <2>2 DEF SetDeadline
  <2>. QED
    BY <1>0, <1>4, <2>3 DEF SetDeadline
<1>5. CASE TimedOut
  <2>1. deadline # None /\ now >= deadline
    BY <1>5 DEF TimedOut, deadline_reached
  <2>2. FoundInTime'
    BY <1>0, <1>5, <2>1 DEF TimedOut, Return
  <2>. QED
    BY <1>0, <1>5, <2>1, <2>2 DEF TimedOut, Return
<1>6. CASE Sleep
  <2>1. deadline # None => now + sleep_time * PerMs < deadline + PerMs
    BY <1>6, SleepEndsByDeadline DEF Sleep
  <2>2. Wakes'
    BY <1>6, <2>1 DEF Sleep
  <2>. QED
    BY <1>0, <1>6, <2>2 DEF Sleep
<1>7. CASE Wake
  BY <1>0, <1>7 DEF Wake
<1>8. CASE Missing
  BY <1>0, <1>8 DEF Missing
<1>9. CASE Tick
  <2>1. CASE Asleep
    BY <1>0, <1>9, <2>1 DEF Tick, Asleep
  <2>2. CASE ~ Asleep
    <3>1. now' = now + 1 /\ late' = late + 1
      BY <1>9, <2>2 DEF Tick
    <3>. QED
      BY <1>0, <1>9, <3>1 DEF Tick
  <2>. QED
    BY <2>1, <2>2
<1>10. CASE FileCreated
  BY <1>0, <1>10 DEF FileCreated
<1>11. CASE FileDeleted
  BY <1>0, <1>11 DEF FileDeleted
<1>12. CASE UNCHANGED vars
  BY <1>12 DEF vars
<1>. QED
  BY <1>1, <1>2, <1>3, <1>4, <1>5, <1>6, <1>7, <1>8, <1>9, <1>10, <1>11, <1>12
     DEF Next, Program, Over

LEMMA WaitInvariant == Spec => [](TypeOK /\ WaitInv)
<1>1. Init => TypeOK /\ WaitInv
  BY InitTypeOK, InitWaitInv
<1>2. TypeOK /\ WaitInv /\ [Next]_vars => (TypeOK /\ WaitInv)'
  BY NextTypeOK, NextWaitInv
<1>. QED
  BY <1>1, <1>2, PTL DEF Spec

-----------------------------------------------------------------------------
\* A file that had been there for longer than the latency when the deadline
\* passed is never reported as a timeout: wait_for_file stats once more after
\* its last sleep.
THEOREM WaitFoundInTime == Spec => []FoundInTime
<1>1. WaitInv => FoundInTime
  BY DEF WaitInv
<1>. QED
  BY <1>1, WaitInvariant, PTL

\* The wait is over less than a millisecond, plus the latency, after its
\* deadline: the last sleep is cut at the remainder.
THEOREM WaitNoOvershoot == Spec => []NoOvershoot
<1>1. WaitInv => NoOvershoot
  BY DEF WaitInv
<1>. QED
  BY <1>1, WaitInvariant, PTL

\* Each round of the loop sleeps for at least a millisecond, even when less
\* than one is left, and for at most MAX_POLL_MS.
THEOREM WaitSleepsAWhile == Spec => SleepsAWhile
<1> DEFINE Step == pc = "loop" /\ pc' = "sleep" =>
                     wake' \in now + PerMs .. now + MAX_POLL_MS * PerMs
<1>1. ASSUME TypeOK, Next
      PROVE  Step
  <2>. SUFFICES ASSUME pc = "loop", pc' = "sleep"
                PROVE  wake' \in now + PerMs .. now + MAX_POLL_MS * PerMs
    OBVIOUS
  <2>1. Sleep
    BY <1>1 DEF Next, Program, Over, vars, Found, StatFails, FirstMissing, SetDeadline, TimedOut,
                Wake, Missing, Tick, FileCreated, FileDeleted, Return
  <2>2. sleep_time \in Nat /\ 1 <= sleep_time /\ sleep_time <= MAX_POLL_MS
    BY <1>1, SleepTimeBounds, WaitAssumption DEF TypeOK
  <2>3. 1 * PerMs <= sleep_time * PerMs /\ sleep_time * PerMs <= MAX_POLL_MS * PerMs
        /\ sleep_time * PerMs \in Nat /\ MAX_POLL_MS * PerMs \in Nat
    BY <2>2, TimesMonotone, WaitAssumption
  <2>4. wake' = now + sleep_time * PerMs
    BY <2>1 DEF Sleep
  <2>. QED
    BY <1>1, <2>3, <2>4, WaitAssumption DEF TypeOK
<1>2. TypeOK /\ [Next]_vars => [Step]_vars
  BY <1>1
<1>. QED
  BY <1>2, WaitTypeCorrect, PTL DEF Spec, SleepsAWhile
=============================================================================
