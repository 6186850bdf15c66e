------------------------------ MODULE TimeMath ------------------------------
(***************************************************************************)
(* The checked and saturating arithmetic of time_math.rs on u64 timestamps.*)
(* U64Max stands for u64::MAX and MaxTimer for MAX_TIMER_NS, which is      *)
(* isize::MAX; the models instantiate both with small numbers.             *)
(***************************************************************************)
EXTENDS Integers

CONSTANTS
  U64Max,    \* u64::MAX: "never" when it is used as a point in time
  MaxTimer   \* MAX_TIMER_NS: the longest interval a kqueue timer is given

ASSUME TimeBounds == U64Max \in Nat /\ MaxTimer \in Nat /\ MaxTimer < U64Max

u64 == 0 .. U64Max

\* Option::None for a u64
None == -1

MinOf(a, b) == IF a <= b THEN a ELSE b

saturating_add(a, b) == MinOf(a + b, U64Max)
saturating_sub(a, b) == IF a >= b THEN a - b ELSE 0

-----------------------------------------------------------------------------
elapsed_ns(start, now) == IF now >= start THEN now - start ELSE None

remaining_ns(now, deadline) == saturating_sub(deadline, now)

\* mutation: off by one at the boundary
deadline_reached_early(now, deadline) == now + 1 >= deadline

deadline_reached(now, deadline) == now >= deadline

\* mutation: base + offset, which may overflow the u64
advance_ns_unchecked(base, offset) == base + offset

advance_ns(base, offset) == saturating_add(base, offset)

\* offset is a signed i64
adjust_ns(base, offset) ==
  IF base + offset \in u64 THEN base + offset ELSE None

\* Some(TRUE), Some(FALSE) or None
idle_timeout_exceeded(last, now, timeout) ==
  IF elapsed_ns(last, now) = None THEN None ELSE elapsed_ns(last, now) >= timeout

time_to_idle_timeout(last, now, timeout) ==
  IF elapsed_ns(last, now) = None
  THEN None
  ELSE saturating_sub(timeout, elapsed_ns(last, now))

\* a Duration as a timer interval: saturated, then clamped for kqueue
duration_to_ns(d) == MinOf(MinOf(d, U64Max), MaxTimer)
=============================================================================
