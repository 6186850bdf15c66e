---------------------------- MODULE WaitForFile ----------------------------
(***************************************************************************)
(* wait_for_file of wait.rs: stat, then sleep and stat again with a        *)
(* doubling interval until the file is there, stat fails or the deadline   *)
(* passes.  Somebody else creates and deletes the file.  Time counts units *)
(* of which PerMs make a millisecond, the granularity of sleep_ms; late    *)
(* counts the ticks that pass while the program could run.                 *)
(***************************************************************************)
EXTENDS TimeMath

CONSTANTS
  Timeouts,        \* the timeouts explored; None: wait for ever
  INITIAL_POLL_MS, MAX_POLL_MS,
  PerMs,           \* time units in a millisecond
  StatErrors,      \* whether stat may fail with another errno than ENOENT
  MaxTime,         \* bound: the last tick
  MaxLate          \* bound: ticks of latency

ASSUME WaitAssumption ==
  /\ Timeouts \subseteq Nat \cup {None}
  /\ INITIAL_POLL_MS \in Nat \ {0} /\ MAX_POLL_MS \in Nat /\ INITIAL_POLL_MS <= MAX_POLL_MS
  /\ PerMs \in Nat \ {0} /\ StatErrors \in BOOLEAN
  /\ MaxTime \in Nat /\ MaxLate \in Nat

VARIABLES
  timeout,     \* the argument
  pc,          \* where wait_for_file is
  deadline,    \* deadline_ns, or None
  poll,        \* poll_interval_ms
  wake,        \* when the sleep ends
  file,        \* whether the file exists
  since,       \* history: when the file was created last
  res,         \* what wait_for_file returned
  now, late

vars == <<timeout, pc, deadline, poll, wake, file, since, res, now, late>>

TypeOK ==
  /\ timeout \in Timeouts
  /\ pc \in {"first", "deadline", "loop", "sleep", "stat", "done"}
  /\ deadline \in Nat \cup {None}
  /\ poll \in 1 .. MAX_POLL_MS /\ wake \in Nat
  /\ file \in BOOLEAN /\ since \in Nat
  /\ res \in {"None", "Ok", "Timeout", "Err"}
  /\ now \in Nat /\ late \in Nat

Init ==
  /\ timeout \in Timeouts
  /\ pc = "first"
  /\ deadline = None
  /\ poll = INITIAL_POLL_MS /\ wake = 0
  /\ file \in BOOLEAN /\ since = 0
  /\ res = "None"
  /\ now = 0 /\ late = 0

-----------------------------------------------------------------------------
Return(r) == pc' = "done" /\ res' = r

Doubled == MinOf(poll * 2, MAX_POLL_MS)

\* mutation: the interval is not cut at the deadline
sleep_time_uncapped == poll

\* mutation: a remainder below a millisecond is not slept
sleep_time_truncated ==
  IF deadline = None THEN poll ELSE MinOf(poll, remaining_ns(now, deadline) \div PerMs)

sleep_time ==
  IF deadline = None THEN poll
  ELSE LET ms == remaining_ns(now, deadline) \div PerMs
       IN  MinOf(poll, IF ms >= 1 THEN ms ELSE 1)

\* file_exists before the loop and after each sleep
Found ==
  /\ pc \in {"first", "stat"}
  /\ file
  /\ Return("Ok")
  /\ UNCHANGED <<timeout, deadline, poll, wake, file, since, now, late>>

StatFails ==
  /\ pc \in {"first", "stat"}
  /\ StatErrors
  /\ Return("Err")
  /\ UNCHANGED <<timeout, deadline, poll, wake, file, since, now, late>>

FirstMissing ==
  /\ pc = "first"
  /\ ~ file
  /\ pc' = "deadline"
  /\ UNCHANGED <<timeout, deadline, poll, wake, file, since, res, now, late>>

\* the clock is read after the first stat
SetDeadline ==
  /\ pc = "deadline"
  /\ deadline' = IF timeout = None THEN None ELSE advance_ns(now, MinOf(timeout, U64Max))
  /\ pc' = "loop"
  /\ UNCHANGED <<timeout, poll, wake, file, since, res, now, late>>

TimedOut ==
  /\ pc = "loop"
  /\ deadline # None /\ deadline_reached(now, deadline)
  /\ Return("Timeout")
  /\ UNCHANGED <<timeout, deadline, poll, wake, file, since, now, late>>

Sleep ==
  /\ pc = "loop"
  /\ deadline # None => ~ deadline_reached(now, deadline)
  /\ wake' = now + sleep_time * PerMs
  /\ pc' = "sleep"
  /\ UNCHANGED <<timeout, deadline, poll, file, since, res, now, late>>

\* mutation: the deadline is looked at before the file
Wake_deadline_first ==
  /\ pc = "sleep"
  /\ now >= wake
  /\ pc' = IF deadline # None /\ deadline_reached(now, deadline) THEN "loop" ELSE "stat"
  /\ UNCHANGED <<timeout, deadline, poll, wake, file, since, res, now, late>>

Wake ==
  /\ pc = "sleep"
  /\ now >= wake
  /\ pc' = "stat"
  /\ UNCHANGED <<timeout, deadline, poll, wake, file, since, res, now, late>>

\* mutation: an interval that doubles without the cap
Missing_uncapped ==
  /\ pc = "stat"
  /\ ~ file
  /\ poll' = poll * 2
  /\ pc' = "loop"
  /\ UNCHANGED <<timeout, deadline, wake, file, since, res, now, late>>

\* mutation: the deadline is computed anew in each round
Missing_restarts ==
  /\ pc = "stat"
  /\ ~ file
  /\ poll' = Doubled
  /\ pc' = "deadline"
  /\ UNCHANGED <<timeout, deadline, wake, file, since, res, now, late>>

Missing ==
  /\ pc = "stat"
  /\ ~ file
  /\ poll' = Doubled
  /\ pc' = "loop"
  /\ UNCHANGED <<timeout, deadline, wake, file, since, res, now, late>>

-----------------------------------------------------------------------------
Asleep == pc = "sleep" /\ now < wake

Tick ==
  /\ pc # "done" /\ now < MaxTime
  /\ Asleep \/ late < MaxLate
  /\ now' = now + 1
  /\ late' = IF Asleep THEN late ELSE late + 1
  /\ UNCHANGED <<timeout, pc, deadline, poll, wake, file, since, res>>

FileCreated ==
  /\ pc # "done" /\ ~ file
  /\ file' = TRUE /\ since' = now
  /\ UNCHANGED <<timeout, pc, deadline, poll, wake, res, now, late>>

\* at most once per tick
FileDeleted ==
  /\ pc # "done" /\ file /\ since < now
  /\ file' = FALSE
  /\ UNCHANGED <<timeout, pc, deadline, poll, wake, since, res, now, late>>

\* the call is over, or the bound on time is reached
Over == (pc = "done" \/ now = MaxTime) /\ UNCHANGED vars

Program ==
  Found \/ StatFails \/ FirstMissing \/ SetDeadline \/ TimedOut \/ Sleep \/ Wake \/ Missing

Next == Program \/ Tick \/ FileCreated \/ FileDeleted \/ Over

Spec == Init /\ [][Next]_vars

(* The program runs when it can and time passes; nobody owes it the file. *)
FairSpec == Spec /\ WF_vars(Program) /\ WF_vars(Tick)

-----------------------------------------------------------------------------
\* A file that was there when the deadline passed, and had been for longer
\* than the latency of the loop, is never reported as a timeout: the loop looks
\* once more after its last sleep.
FoundInTime ==
  res = "Timeout" /\ file => since + late >= deadline

\* The wait overshoots its deadline by less than a millisecond of sleep, the
\* rest is latency ("Check timeout BEFORE sleeping to avoid overshoot",
\* wait.rs:319).
NoOvershoot ==
  deadline # None => now < deadline + PerMs + late

\* The loop neither spins nor oversleeps: each round sleeps for at least a
\* millisecond, even just before the deadline, and for at most MAX_POLL_MS.
SleepsAWhile ==
  [][pc = "loop" /\ pc' = "sleep" =>
       wake' \in now + PerMs .. now + MAX_POLL_MS * PerMs]_vars

\* With a timeout the wait ends, whatever happens to the file.
WaitEnds == timeout # None ~> pc = "done"
=============================================================================
