---------------------------- MODULE RetryProofs ----------------------------
(***************************************************************************)
(* Proofs about run_with_retry: for every number of retries, delay and     *)
(* multiplier, the record of attempts is complete, no two commands run     *)
(* side by side, no signal is lost between attempts, the back-off grows up *)
(* to its cap and every delay is waited out.                               *)
(***************************************************************************)
EXTENDS Retry, WellFoundedInduction, TLAPS

Limits == {"TimedOut", "MemoryLimitExceeded"}

Hist == [got : Nat, dropped : Nat, forwarded : Nat, started : Nat,
         kinds : Seq(Kinds \cup {"Err"}), ended : Nat]

\* the status push records for the result kind k
Status(k) ==
  CASE k = "Completed" -> "completed" [] k = "SignalForwarded" -> "signal_forwarded"
    [] OTHER -> "timeout"

HistType == hist \in Hist

\* the loop variable stays below max_attempts, and below the last attempt
\* where another attempt is still to come
AttemptBound ==
  /\ attempt + 1 <= max_attempts
  /\ pc \in {"delay", "kevent", "sleep"} => attempt + 1 < max_attempts

\* attempts started, ended and recorded
Counted ==
  /\ hist.started = IF pc = "attempt" THEN attempt ELSE attempt + 1
  /\ Len(hist.kinds) = IF pc = "running" THEN attempt ELSE hist.started
  /\ Len(attempts) = IF \/ pc \in {"delay", "kevent", "sleep"}
                        \/ pc = "done" /\ res # "Err"
                     THEN attempt + 1 ELSE attempt

\* the record tells how each attempt ended, and only limits are followed by
\* another attempt
Recorded ==
  /\ \A i \in 1 .. Len(attempts) : attempts[i] = Status(hist.kinds[i])
  /\ \A i \in 1 .. attempt : hist.kinds[i] \in Limits
  /\ pc \in {"delay", "kevent", "sleep"} => hist.kinds[attempt + 1] \in Limits
  /\ pc = "ended" => hist.kinds[attempt + 1] = outcome

\* RunContract's own invariant: the result of a limit comes with the reaping
Reaps ==
  /\ outcome \in Limits => child = "reaped"
  /\ pc = "attempt" => child = "unborn" /\ sent = {} /\ outcome = "None"
  /\ pc = "running" => outcome = "None"
  /\ pc = "ended" => outcome # "None"
  /\ pc \in {"delay", "kevent", "sleep"} => outcome \in Limits

RetryInv ==
  /\ TypeOK /\ HistType /\ AttemptBound /\ Counted /\ Recorded /\ Reaps /\ NoSignalLost

LEMMA Constants ==
  /\ MAX_RETRIES \in Nat \ {0} /\ PerMs \in Nat \ {0} /\ MaxDelayMs \in Nat
  /\ U64Max \in Nat \ {0} /\ MaxTimer \in Nat
  BY RetryAssumption, TimeBounds

-----------------------------------------------------------------------------
(* Arithmetic.  The powers are a recursive function, and the induction over  *)
(* its argument comes from the well-foundedness of the natural numbers: a    *)
(* set of naturals that is not empty has a smallest element.                 *)

LEMMA NatMin ==
  ASSUME NEW T, T \subseteq Nat, T # {}
  PROVE  \E x \in T : \A y \in T : ~ (y < x)
<1> DEFINE R == {ss \in Nat \X Nat : ss[1] < ss[2]}
<1>1. IsWellFoundedOn(R, Nat)
  BY NatLessThanWellFounded, Zenon DEF OpToRel
<1>2. \A x, y \in Nat : y < x => <<y, x>> \in R
  OBVIOUS
<1> HIDE DEF R
<1>3. \E x \in T : \A y \in T : ~ (<<y, x>> \in R)
  BY <1>1, WFMin
<1> QED
  BY <1>2, <1>3

\* Induction over the natural numbers, for the set P of those that satisfy it.
LEMMA SetInduction ==
  ASSUME NEW P, 0 \in P, \A n \in Nat : n \in P => n + 1 \in P
  PROVE  \A n \in Nat : n \in P
<1> DEFINE T == {n \in Nat : n \notin P}
<1>. SUFFICES ASSUME T # {} PROVE FALSE
  OBVIOUS
<1>1. PICK x \in T : \A y \in T : ~ (y < x)
  <2>. T \subseteq Nat 
    OBVIOUS
  <2>. HIDE DEF T
  <2>. QED
    BY NatMin
<1>2. x \in Nat /\ x # 0 /\ x \notin P
  OBVIOUS
<1>3. x - 1 \in Nat /\ x - 1 < x
  BY <1>2
<1>4. x - 1 \in P
  BY <1>1, <1>3
<1> QED
  BY <1>2, <1>3, <1>4

\* the first powers of a, as a table
Table(a, m, g) == g \in [0 .. m -> Nat] /\ g[0] = 1 /\ \A i \in 1 .. m : g[i] = a * g[i - 1]

LEMMA TableExists ==
  ASSUME NEW a \in Nat
  PROVE  \A m \in Nat : \E g : Table(a, m, g)
<1> DEFINE P == {m \in Nat : \E g : Table(a, m, g)}
<1>1. 0 \in P
  <2>1. Table(a, 0, [i \in 0 .. 0 |-> 1])
    BY DEF Table
  <2>. QED
    BY <2>1
<1>2. ASSUME NEW m \in Nat, m \in P
      PROVE  m + 1 \in P
  <2>1. PICK g : Table(a, m, g)
    BY <1>2
  <2> DEFINE h == [i \in 0 .. m + 1 |-> IF i = m + 1 THEN a * g[m] ELSE g[i]]
  <2>2. g[m] \in Nat /\ a * g[m] \in Nat
    BY <2>1 DEF Table
  <2>3. h \in [0 .. m + 1 -> Nat]
    BY <2>1, <2>2 DEF Table
  <2>4. h[0] = 1
    BY <2>1 DEF Table
  <2>5. ASSUME NEW i \in 1 .. m + 1 PROVE h[i] = a * h[i - 1]
    <3>1. i - 1 \in 0 .. m /\ i - 1 # m + 1 /\ h[i - 1] = g[i - 1]
      OBVIOUS
    <3>2. CASE i = m + 1
      BY <3>1, <3>2
    <3>3. CASE i # m + 1
      <4>1. i \in 1 .. m /\ h[i] = g[i]
        BY <3>3
      <4> QED
        BY <4>1, <3>1, <2>1 DEF Table
    <3> QED
      BY <3>2, <3>3
  <2>6. Table(a, m + 1, h)
    BY <2>3, <2>4, <2>5 DEF Table
  <2>. HIDE DEF h
  <2>. QED
    BY <2>6
<1>. HIDE DEF P
<1>3. \A m \in Nat : m \in P
  BY <1>1, <1>2, SetInduction
<1>. QED
  BY <1>3 DEF P

LEMMA TableUnique ==
  ASSUME NEW a \in Nat, NEW m \in Nat, NEW k \in Nat, NEW g, NEW h, m <= k,
         Table(a, m, g), Table(a, k, h)
  PROVE  \A i \in 0 .. m : g[i] = h[i]
<1> DEFINE P == {i \in Nat : i <= m => g[i] = h[i]}
<1>1. 0 \in P
  BY DEF Table
<1>2. ASSUME NEW i \in Nat, i \in P PROVE i + 1 \in P
  <2>. SUFFICES ASSUME i + 1 <= m PROVE g[i + 1] = h[i + 1]
    OBVIOUS
  <2>1. i + 1 \in 1 .. m /\ i + 1 \in 1 .. k /\ (i + 1) - 1 = i
    OBVIOUS
  <2>2. g[i + 1] = a * g[i] /\ h[i + 1] = a * h[i]
    BY <2>1 DEF Table
  <2>. QED
    BY <1>2, <2>2
<1>. HIDE DEF P
<1>3. \A i \in Nat : i \in P
  BY <1>1, <1>2, SetInduction
<1>. QED
  BY <1>3 DEF P

LEMMA PowersDef ==
  ASSUME NEW a \in Nat
  PROVE  \A n \in Nat : /\ powers(a)[n] \in Nat
                        /\ powers(a)[n] = IF n = 0 THEN 1 ELSE a * powers(a)[n - 1]
<1> DEFINE G(n) == CHOOSE g : Table(a, n, g)
           F == [n \in Nat |-> G(n)[n]]
<1>1. ASSUME NEW n \in Nat PROVE Table(a, n, G(n))
  BY TableExists
<1>. HIDE DEF G
<1>2. ASSUME NEW n \in Nat
      PROVE  F[n] \in Nat /\ F[n] = IF n = 0 THEN 1 ELSE a * F[n - 1]
  <2>1. F[n] = G(n)[n] /\ (n # 0 => F[n - 1] = G(n - 1)[n - 1])
    OBVIOUS
  <2>2. G(n)[n] \in Nat
    BY <1>1 DEF Table
  <2>3. CASE n = 0
    BY <2>1, <2>2, <2>3, <1>1 DEF Table
  <2>4. CASE n # 0
    <3>1. n - 1 \in Nat
      BY <2>4
    <3>2. G(n - 1)[n - 1] = G(n)[n - 1]
      BY <1>1, <3>1, TableUnique
    <3>3. G(n)[n] = a * G(n)[n - 1]
      BY <1>1, <2>4 DEF Table
    <3>. QED
      BY <2>1, <2>2, <2>4, <3>2, <3>3
  <2>. QED
    BY <2>3, <2>4
<1>3. F = [n \in Nat |-> IF n = 0 THEN 1 ELSE a * F[n - 1]]
  BY <1>2
<1>. HIDE DEF F
<1> DEFINE D(p) == [n \in Nat |-> IF n = 0 THEN 1 ELSE a * p[n - 1]]
<1>4. powers(a) = D(powers(a))
  <2>1. \E p : p = D(p)
    BY <1>3
  <2>2. powers(a) = CHOOSE p : p = D(p)
    BY DEF powers
  <2>. HIDE DEF D
  <2>. QED
    BY <2>1, <2>2
<1> DEFINE p == powers(a)
<1>5. p = [n \in Nat |-> IF n = 0 THEN 1 ELSE a * p[n - 1]]
  BY <1>4
<1>6. \A n \in Nat : p[n] = IF n = 0 THEN 1 ELSE a * p[n - 1]
  <2>. HIDE DEF p
  <2>. QED
    BY <1>5
<1> DEFINE P == {n \in Nat : p[n] \in Nat}
<1>7. 0 \in P
  BY <1>6
<1>8. ASSUME NEW n \in Nat, n \in P PROVE n + 1 \in P
  <2>1. p[n + 1] = a * p[n]
    BY <1>6
  <2>. HIDE DEF p
  <2>. QED
    BY <1>8, <2>1
<1>. HIDE DEF P
<1>9. \A n \in Nat : n \in P
  BY <1>7, <1>8, SetInduction
<1>. QED
  BY <1>6, <1>9 DEF P

\* The powers of a positive number never shrink.
LEMMA PowersGrow ==
  ASSUME NEW a \in Nat \ {0}, NEW n \in Nat
  PROVE  powers(a)[n] <= powers(a)[n + 1]
<1>1. powers(a)[n] \in Nat /\ powers(a)[n + 1] = a * powers(a)[n]
  BY PowersDef
<1>. HIDE DEF powers
<1>. QED
  BY <1>1, SMT

LEMMA DivBounds ==
  ASSUME NEW a \in Nat, NEW b \in Nat \ {0}
  PROVE  /\ a \div b \in Nat
         /\ (a \div b) * b <= a
         /\ a < (a \div b) * b + b
  BY SMT

LEMMA TimesMonotone ==
  ASSUME NEW a \in Nat, NEW b \in Nat, NEW c \in Nat, a <= b
  PROVE  a * c <= b * c /\ c * a <= c * b /\ a * c \in Nat /\ b * c \in Nat
  BY SMT

-----------------------------------------------------------------------------
(* The delay between two attempts. *)

\* the delay in milliseconds before the cap
Uncapped(a) == saturating_mul(duration_ms(cfg.retry_delay), saturating_pow(cfg.retry_backoff, a))

LEMMA ConfigTypes ==
  ASSUME cfg \in RetryConfigs
  PROVE  /\ cfg.retry_delay \in Nat /\ cfg.retry_backoff \in Nat /\ cfg.fd \in BOOLEAN
         /\ duration_ms(cfg.retry_delay) \in Nat
<1>1. cfg.retry_delay \in Nat /\ cfg.retry_backoff \in Nat /\ cfg.fd \in BOOLEAN
  BY RetryAssumption DEF RetryConfigType
<1>2. duration_ms(cfg.retry_delay) \in Nat
  BY <1>1, Constants, DivBounds DEF duration_ms
<1>. QED
  BY <1>1, <1>2

LEMMA UncappedGrows ==
  ASSUME cfg \in RetryConfigs, NEW a \in Nat, cfg.retry_backoff > 1
  PROVE  Uncapped(a) \in Nat /\ Uncapped(a) <= Uncapped(a + 1)
<1> DEFINE b == cfg.retry_backoff
           d == duration_ms(cfg.retry_delay)
           p == saturating_pow(b, a)
           q == saturating_pow(b, a + 1)
<1>1. b \in Nat \ {0} /\ d \in Nat /\ U64Max \in Nat
  BY ConfigTypes, Constants
<1>2. powers(b)[a] \in Nat /\ powers(b)[a + 1] \in Nat /\ powers(b)[a] <= powers(b)[a + 1]
  BY <1>1, PowersDef, PowersGrow
<1>3. p \in Nat /\ q \in Nat /\ p <= q
  BY <1>1, <1>2 DEF saturating_pow, MinOf
<1>4. Uncapped(a) = MinOf(d * p, U64Max) /\ Uncapped(a + 1) = MinOf(d * q, U64Max)
  BY DEF Uncapped, saturating_mul
<1>. HIDE DEF b, d, p, q
<1>5. d * p <= d * q /\ d * p \in Nat /\ d * q \in Nat
  BY <1>1, <1>3, TimesMonotone
<1>. QED
  BY <1>1, <1>4, <1>5 DEF MinOf

\* The delay is a time, grows with the attempts and is capped.
LEMMA RetryDelay ==
  ASSUME cfg \in RetryConfigs, NEW a \in Nat
  PROVE  /\ retry_delay(a) \in Nat
         /\ retry_delay(a) <= retry_delay(a + 1)
         /\ cfg.retry_backoff > 1 => retry_delay(a) <= MaxDelayMs * PerMs
<1>1. CASE cfg.retry_backoff > 1
  <2> DEFINE x == MinOf(Uncapped(a), MaxDelayMs)
             y == MinOf(Uncapped(a + 1), MaxDelayMs)
  <2>1. retry_delay(a) = x * PerMs /\ retry_delay(a + 1) = y * PerMs
    BY <1>1 DEF retry_delay, Uncapped
  <2>2. Uncapped(a) \in Nat /\ Uncapped(a + 1) \in Nat /\ Uncapped(a) <= Uncapped(a + 1)
    BY <1>1, UncappedGrows
  <2>3. x \in Nat /\ y \in Nat /\ x <= y /\ x <= MaxDelayMs
    BY <2>2, Constants DEF MinOf
  <2>. HIDE DEF x, y
  <2>4. x * PerMs <= y * PerMs /\ x * PerMs <= MaxDelayMs * PerMs /\ x * PerMs \in Nat
    BY <2>3, Constants, TimesMonotone
  <2>. QED
    BY <2>1, <2>4
<1>2. CASE ~ (cfg.retry_backoff > 1)
  BY <1>2, ConfigTypes DEF retry_delay
<1>. QED
  BY <1>1, <1>2

-----------------------------------------------------------------------------
(* The steps of the loop: what each helper of the match on the result does.  *)

\* The number of attempts fits into the record, whatever was asked for.
LEMMA MaxAttempts ==
  ASSUME cfg \in RetryConfigs
  PROVE  max_attempts \in 1 .. MAX_RETRIES
<1>1. cfg.retry_count \in Nat
  BY RetryAssumption DEF RetryConfigType
<1>. QED
  BY <1>1, Constants DEF max_attempts, saturating_add, MinOf

\* push finds room.
LEMMA Pushed ==
  ASSUME RetryInv, pc = "ended", NEW s \in Statuses, push(s)
  PROVE  /\ attempts' \in Seq(Statuses) /\ Len(attempts') = attempt + 1
         /\ Len(attempts') <= MAX_RETRIES
         /\ \A i \in 1 .. attempt : attempts'[i] = attempts[i]
         /\ attempts'[attempt + 1] = s
<1>1. Len(attempts) = attempt /\ attempt \in Nat /\ attempts \in Seq(Statuses)
  BY DEF RetryInv, Counted, TypeOK
<1>2. attempt < MAX_RETRIES
  BY <1>1, MaxAttempts, Constants DEF RetryInv, AttemptBound, TypeOK
<1>3. attempts' = Append(attempts, s)
  BY <1>1, <1>2 DEF push
<1>. QED
  BY <1>1, <1>2, <1>3, Constants

LEMMA InitRetryInv == Init => RetryInv
<1>. SUFFICES ASSUME Init
              PROVE  RetryInv
  OBVIOUS
<1>1. cfg \in RetryConfigs
  BY DEF Init
<1>2. max_attempts \in Nat /\ 1 <= max_attempts
  BY <1>1, MaxAttempts, Constants
<1>3. TypeOK
  BY Constants DEF Init, TypeOK
<1>4. HistType
  BY DEF Init, HistType, Hist, NoHist
<1>5. AttemptBound
  BY <1>2 DEF Init, AttemptBound
<1>6. Counted /\ NoSignalLost
  BY DEF Init, Counted, NoHist, NoSignalLost
<1>7. Recorded /\ Reaps
  BY DEF Init, Recorded, Reaps, NoHist, Kinds, Limits
<1>. QED
  BY <1>3, <1>4, <1>5, <1>6, <1>7 DEF RetryInv

\* Nothing of the record moves.
Kept == UNCHANGED <<cfg, attempt, attempts, hist>>

LEMMA KeptRecord ==
  ASSUME RetryInv, Kept,
         \/ pc' = pc /\ res' = res
         \/ pc = "kevent" /\ pc' = "delay" /\ res' = res
         \/ pc = "delay" /\ pc' \in {"kevent", "sleep"} /\ res' = res
         \/ pc = "ended" /\ pc' = "done" /\ res' = "Err",
         pc' = "ended" => outcome' = outcome
  PROVE  HistType' /\ AttemptBound' /\ Counted' /\ Recorded'
BY DEF RetryInv, Kept, HistType, AttemptBound, Counted, Recorded, max_attempts

\* Another attempt: all that is needed of where the loop comes from.
LEMMA NextAttemptKeeps ==
  ASSUME RetryInv, NextAttempt, UNCHANGED <<cfg, pipe, late, now, res, hist>>,
         deadline' \in Nat, timer' \in Nat, pc \notin {"attempt", "running"},
         attempts' \in Seq(Statuses), Len(attempts') = attempt + 1, attempt + 1 < max_attempts,
         \A i \in 1 .. attempt + 1 : attempts'[i] = Status(hist.kinds[i]),
         hist.kinds[attempt + 1] \in Limits
  PROVE  RetryInv'
<1>0. /\ max_attempts \in Nat /\ max_attempts <= MAX_RETRIES /\ MAX_RETRIES \in Nat
      /\ attempt \in Nat /\ attempt' = attempt + 1 /\ pc' = "attempt"
  BY MaxAttempts, Constants DEF RetryInv, TypeOK, NextAttempt
<1>1. TypeOK'
  BY <1>0 DEF RetryInv, TypeOK, NextAttempt
<1>2. HistType' /\ NoSignalLost'
  BY DEF RetryInv, HistType, NoSignalLost
<1>3. AttemptBound'
  BY <1>0 DEF AttemptBound, max_attempts
<1>4. Counted'
  BY <1>0 DEF RetryInv, Counted
<1>5. Recorded'
  BY <1>0 DEF RetryInv, Recorded
<1>6. Reaps'
  BY DEF NextAttempt, Reaps, Kinds, Limits
<1>. QED
  BY <1>1, <1>2, <1>3, <1>4, <1>5, <1>6 DEF RetryInv

\* The loop returns with the last attempt recorded.
LEMMA DoneKeeps ==
  ASSUME RetryInv, pc = "ended", pc' = "done", res' = outcome, outcome \in Kinds,
         push(Status(outcome)),
         UNCHANGED <<cfg, attempt, run, pipe, now, late, deadline, timer, hist>>
  PROVE  RetryInv'
<1>1. Status(outcome) \in Statuses
  BY DEF Status, Statuses
<1>2. /\ attempts' \in Seq(Statuses) /\ Len(attempts') = attempt + 1
      /\ Len(attempts') <= MAX_RETRIES
      /\ \A i \in 1 .. attempt : attempts'[i] = attempts[i]
      /\ attempts'[attempt + 1] = Status(outcome)
  BY <1>1, Pushed
<1>3. /\ Len(attempts) = attempt /\ attempt \in Nat
      /\ \A i \in 1 .. attempt : attempts[i] = Status(hist.kinds[i])
      /\ hist.kinds[attempt + 1] = outcome
  BY DEF RetryInv, TypeOK, Counted, Recorded
<1>4. TypeOK'
  BY <1>2 DEF RetryInv, TypeOK, run
<1>5. HistType' /\ NoSignalLost' /\ AttemptBound' /\ Reaps'
  BY DEF RetryInv, HistType, NoSignalLost, AttemptBound, max_attempts, Reaps, run
<1>6. Counted'
  BY <1>2, <1>3 DEF RetryInv, Counted, Kinds
<1>7. \A i \in 1 .. attempt + 1 : attempts'[i] = Status(hist.kinds[i])
  BY <1>2, <1>3
<1>8. Recorded'
  BY <1>2, <1>7 DEF RetryInv, Recorded
<1>. QED
  BY <1>4, <1>5, <1>6, <1>8 DEF RetryInv

\* A delay begins after the attempt was recorded.
LEMMA DelayKeeps ==
  ASSUME RetryInv, pc = "ended", outcome \in Limits, ~ is_last_attempt,
         pc' \in {"delay", "sleep"}, push("timeout"), deadline' \in Nat, timer' \in Nat,
         UNCHANGED <<cfg, attempt, run, pipe, now, late, res, hist>>
  PROVE  RetryInv'
<1>2. /\ attempts' \in Seq(Statuses) /\ Len(attempts') = attempt + 1
      /\ Len(attempts') <= MAX_RETRIES
      /\ \A i \in 1 .. attempt : attempts'[i] = attempts[i]
      /\ attempts'[attempt + 1] = "timeout"
  BY Pushed DEF Statuses
<1>3. /\ Len(attempts) = attempt /\ attempt \in Nat
      /\ \A i \in 1 .. attempt : attempts[i] = Status(hist.kinds[i])
      /\ hist.kinds[attempt + 1] = outcome /\ Status(outcome) = "timeout"
  BY DEF RetryInv, TypeOK, Counted, Recorded, Status, Limits
<1>4. TypeOK'
  BY <1>2 DEF RetryInv, TypeOK, run
<1>5. HistType' /\ NoSignalLost' /\ Reaps'
  BY DEF RetryInv, HistType, NoSignalLost, Reaps, run, Limits, Kinds
<1>6. AttemptBound'
  BY <1>3, MaxAttempts, Constants DEF RetryInv, TypeOK, AttemptBound, max_attempts, is_last_attempt
<1>7. Counted'
  BY <1>2, <1>3 DEF RetryInv, Counted
<1>8. \A i \in 1 .. attempt + 1 : attempts'[i] = Status(hist.kinds[i])
  BY <1>2, <1>3
<1>9. Recorded'
  BY <1>2, <1>3, <1>8 DEF RetryInv, Recorded
<1>. QED
  BY <1>4, <1>5, <1>6, <1>7, <1>9 DEF RetryInv

-----------------------------------------------------------------------------
(* Every step keeps the invariant. *)

\* A history variable that counts one more signal or attempt, or records how
\* the attempt ended.
LEMMA HistCounts ==
  ASSUME NEW h \in Hist, NEW k \in Kinds \cup {"Err"}, NEW t \in Nat
  PROVE  /\ [h EXCEPT !.got = h.got + 1] \in Hist
         /\ [h EXCEPT !.dropped = h.dropped + 1] \in Hist
         /\ [h EXCEPT !.forwarded = h.forwarded + 1] \in Hist
         /\ [h EXCEPT !.started = h.started + 1] \in Hist
         /\ [h EXCEPT !.kinds = Append(h.kinds, k), !.ended = t] \in Hist
<1>1. /\ h.got + 1 \in Nat /\ h.dropped + 1 \in Nat /\ h.forwarded + 1 \in Nat
      /\ h.started + 1 \in Nat /\ Append(h.kinds, k) \in Seq(Kinds \cup {"Err"})
  BY DEF Hist
<1>. QED
  BY <1>1 DEF Hist

LEMMA NextRetryInv == RetryInv /\ [Next]_vars => RetryInv'
<1>. SUFFICES ASSUME RetryInv, [Next]_vars
              PROVE  RetryInv'
  OBVIOUS
<1>0. TypeOK /\ hist \in Hist /\ cfg \in RetryConfigs /\ attempt \in Nat /\ now \in Nat
  BY DEF RetryInv, HistType, TypeOK
<1>h. /\ hist.got \in Nat /\ hist.dropped \in Nat /\ hist.forwarded \in Nat
      /\ hist.started \in Nat /\ hist.kinds \in Seq(Kinds \cup {"Err"})
  BY <1>0 DEF Hist
<1>d. retry_delay(attempt) \in Nat
  BY <1>0, RetryDelay
<1>1. CASE StartAttempt
  <2>1. /\ pc = "attempt" /\ pc' = "running" /\ hist' = [hist EXCEPT !.started = hist.started + 1]
        /\ UNCHANGED <<cfg, attempt, attempts, child, sent, outcome, pipe, now, late, deadline, timer, res>>
    BY <1>1 DEF StartAttempt, run
  <2>2. /\ hist' \in Hist /\ hist'.started = hist.started + 1 /\ hist'.kinds = hist.kinds
        /\ hist'.got = hist.got /\ hist'.dropped = hist.dropped /\ hist'.forwarded = hist.forwarded
    BY <1>0, <2>1, HistCounts DEF Hist
  <2>3. TypeOK' /\ HistType'
    BY <2>1, <2>2 DEF RetryInv, TypeOK, HistType
  <2>4. AttemptBound' /\ Counted' /\ NoSignalLost'
    BY <1>0, <2>1, <2>2 DEF RetryInv, AttemptBound, max_attempts, Counted, NoSignalLost
  <2>5. Recorded' /\ Reaps'
    BY <2>1, <2>2 DEF RetryInv, Recorded, Reaps, Kinds, Limits
  <2>. QED
    BY <2>3, <2>4, <2>5 DEF RetryInv
<1>2. CASE AttemptStep
  <2>1. /\ pc = "running" /\ outcome = "None" /\ outcome' = outcome
        /\ child' \in {"unborn", "running", "zombie", "reaped", "gone"}
        /\ sent' \subseteq {"limit", "kill", "forward"}
    BY <1>2 DEF AttemptStep, Run!Start, Run!End, Run!Lose, Run!Signal, RetryInv, TypeOK
  <2>2. Kept /\ UNCHANGED <<pc, pipe, now, late, deadline, timer, res>>
    BY <1>2 DEF AttemptStep, Kept
  <2>3. TypeOK' /\ NoSignalLost'
    BY <2>1, <2>2 DEF RetryInv, TypeOK, NoSignalLost, Kept
  <2>4. Reaps'
    BY <2>1, <2>2 DEF RetryInv, Reaps, Kinds, Limits
  <2>. QED
    BY <2>1, <2>2, <2>3, <2>4, KeptRecord DEF RetryInv
<1>3. CASE AttemptForwards
  <2>1. /\ pc = "running" /\ outcome = "None" /\ outcome' = outcome
        /\ child' \in {"unborn", "running", "zombie", "reaped", "gone"}
        /\ sent' \subseteq {"limit", "kill", "forward"}
    BY <1>3 DEF AttemptForwards, Run!Signal, RetryInv, TypeOK
  <2>2. /\ UNCHANGED <<cfg, pc, attempt, attempts, now, late, deadline, timer, res>>
        /\ pipe # << >> /\ pipe' = Tail(pipe)
        /\ hist' = [hist EXCEPT !.forwarded = hist.forwarded + 1]
    BY <1>3 DEF AttemptForwards
  <2>3. /\ hist' \in Hist /\ hist'.forwarded = hist.forwarded + 1 /\ hist'.started = hist.started
        /\ hist'.kinds = hist.kinds /\ hist'.got = hist.got /\ hist'.dropped = hist.dropped
    BY <1>0, <2>2, HistCounts DEF Hist
  <2>4. pipe' \in Seq(UserSignals) /\ Len(pipe') = Len(pipe) - 1 /\ Len(pipe) \in Nat
    BY <1>0, <2>2 DEF TypeOK
  <2>5. TypeOK' /\ HistType'
    BY <2>1, <2>2, <2>3, <2>4 DEF RetryInv, TypeOK, HistType
  <2>7. NoSignalLost'
    BY <1>h, <2>3, <2>4 DEF RetryInv, NoSignalLost
  <2>6. AttemptBound' /\ Counted' /\ Recorded' /\ Reaps'
    BY <2>1, <2>2, <2>3 DEF RetryInv, AttemptBound, max_attempts, Counted, Recorded, Reaps, Kinds, Limits
  <2>. QED
    BY <2>5, <2>6, <2>7 DEF RetryInv
<1>4. CASE AttemptDrops
  <2>1. /\ pc = "running" /\ outcome = "None" /\ outcome' = outcome
        /\ child' \in {"unborn", "running", "zombie", "reaped", "gone"}
        /\ sent' \subseteq {"limit", "kill", "forward"}
    BY <1>4 DEF AttemptDrops, Run!Signal, RetryInv, TypeOK
  <2>2. /\ UNCHANGED <<cfg, pc, attempt, attempts, now, late, deadline, timer, res>>
        /\ pipe # << >> /\ pipe' = Tail(pipe)
        /\ hist' = [hist EXCEPT !.dropped = hist.dropped + 1]
    BY <1>4 DEF AttemptDrops
  <2>3. /\ hist' \in Hist /\ hist'.dropped = hist.dropped + 1 /\ hist'.started = hist.started
        /\ hist'.kinds = hist.kinds /\ hist'.got = hist.got /\ hist'.forwarded = hist.forwarded
    BY <1>0, <2>2, HistCounts DEF Hist
  <2>4. pipe' \in Seq(UserSignals) /\ Len(pipe') = Len(pipe) - 1 /\ Len(pipe) \in Nat
    BY <1>0, <2>2 DEF TypeOK
  <2>5. TypeOK' /\ HistType'
    BY <2>1, <2>2, <2>3, <2>4 DEF RetryInv, TypeOK, HistType
  <2>7. NoSignalLost'
    BY <1>h, <2>3, <2>4 DEF RetryInv, NoSignalLost
  <2>6. AttemptBound' /\ Counted' /\ Recorded' /\ Reaps'
    BY <2>1, <2>2, <2>3 DEF RetryInv, AttemptBound, max_attempts, Counted, Recorded, Reaps, Kinds, Limits
  <2>. QED
    BY <2>5, <2>6, <2>7 DEF RetryInv
<1>5. CASE AttemptEnds
  <2>1. /\ pc = "running" /\ pc' = "ended"
        /\ UNCHANGED <<cfg, attempt, attempts, pipe, now, late, deadline, timer, res>>
        /\ hist' = [hist EXCEPT !.kinds = Append(hist.kinds, outcome'), !.ended = now]
    BY <1>5 DEF AttemptEnds
  <2>2. /\ outcome' \in Kinds \cup {"Err"} /\ sent' = sent
        /\ child' \in {"unborn", "running", "zombie", "reaped", "gone"}
        /\ outcome' \in Limits => child' = "reaped"
    BY <1>5 DEF AttemptEnds, Run!Finish, Run!FinishLost, Run!Fail, Run!Outcomes, RetryInv,
                TypeOK, Kinds, Limits
  <2>3. /\ hist' \in Hist /\ hist'.kinds = Append(hist.kinds, outcome')
        /\ hist'.started = hist.started /\ hist'.dropped = hist.dropped
        /\ hist'.got = hist.got /\ hist'.forwarded = hist.forwarded
    BY <1>0, <2>1, <2>2, HistCounts DEF Hist
  <2>4. /\ Len(hist'.kinds) = attempt + 1 /\ hist'.kinds[attempt + 1] = outcome'
        /\ \A i \in 1 .. attempt : hist'.kinds[i] = hist.kinds[i]
    BY <1>0, <1>h, <2>1, <2>2, <2>3 DEF RetryInv, Counted
  <2>5. TypeOK' /\ HistType' /\ NoSignalLost'
    BY <2>1, <2>2, <2>3 DEF RetryInv, TypeOK, HistType, NoSignalLost
  <2>6. AttemptBound' /\ Counted'
    BY <1>0, <2>1, <2>3, <2>4 DEF RetryInv, AttemptBound, max_attempts, Counted
  <2>7. Recorded'
    BY <2>1, <2>4 DEF RetryInv, Counted, Recorded
  <2>8. Reaps'
    BY <2>1, <2>2 DEF Reaps, Kinds, Limits
  <2>. QED
    BY <2>5, <2>6, <2>7, <2>8 DEF RetryInv
<1>6. CASE AttemptError
  <2>1. Kept /\ pc = "ended" /\ pc' = "done" /\ res' = "Err"
        /\ UNCHANGED <<child, sent, outcome, pipe, now, late, deadline, timer>>
    BY <1>6 DEF AttemptError, Done, Kept, run
  <2>2. TypeOK' /\ NoSignalLost' /\ Reaps'
    BY <2>1 DEF RetryInv, TypeOK, NoSignalLost, Reaps, Kept
  <2>. QED
    BY <2>1, <2>2, KeptRecord DEF RetryInv
<1>7. CASE AttemptFinal
  <2>1. outcome \in Kinds /\ push(Status(outcome))
    BY <1>7 DEF AttemptFinal, Kinds, Status
  <2>. QED
    BY <1>7, <2>1, DoneKeeps DEF AttemptFinal, Done
<1>8. CASE LimitLast
  <2>1. outcome \in Kinds /\ push(Status(outcome))
    BY <1>8 DEF LimitLast, Kinds, Status
  <2>. QED
    BY <1>8, <2>1, DoneKeeps DEF LimitLast, Done
<1>9. CASE LimitNoDelay
  <2>1. pc = "ended" /\ outcome \in Limits /\ ~ is_last_attempt /\ push("timeout")
    BY <1>9 DEF LimitNoDelay, Limits
  <2>2. /\ attempts' \in Seq(Statuses) /\ Len(attempts') = attempt + 1
        /\ \A i \in 1 .. attempt : attempts'[i] = attempts[i]
        /\ attempts'[attempt + 1] = "timeout"
    BY <2>1, Pushed DEF Statuses
  <2>3. /\ \A i \in 1 .. attempt : attempts[i] = Status(hist.kinds[i])
        /\ hist.kinds[attempt + 1] = outcome /\ Status(outcome) = "timeout"
    BY <2>1 DEF RetryInv, TypeOK, Counted, Recorded, Status, Limits
  <2>4. \A i \in 1 .. attempt + 1 : attempts'[i] = Status(hist.kinds[i])
    BY <1>0, <2>2, <2>3
  <2>5. attempt + 1 < max_attempts
    BY <1>0, <2>1, MaxAttempts, Constants DEF is_last_attempt
  <2>6. /\ NextAttempt /\ UNCHANGED <<cfg, pipe, late, now, res, hist>>
        /\ deadline' \in Nat /\ timer' \in Nat
    BY <1>0, <1>9 DEF LimitNoDelay, TypeOK
  <2>. QED
    BY <2>1, <2>2, <2>3, <2>4, <2>5, <2>6, NextAttemptKeeps
<1>10. CASE LimitDelay
  <2>1. deadline' \in Nat
    BY <1>0, <1>d, <1>10, Constants DEF LimitDelay, advance_ns, saturating_add, MinOf
  <2>2. timer' \in Nat
    BY <1>0, <1>10 DEF LimitDelay, TypeOK
  <2>. QED
    BY <1>10, <2>1, <2>2, DelayKeeps DEF LimitDelay, Limits
<1>11. CASE LimitSleep
  <2>1. duration_ms(retry_delay(attempt)) \in Nat
    BY <1>d, Constants, DivBounds DEF duration_ms
  <2>2. duration_ms(retry_delay(attempt)) * PerMs \in Nat
    BY <2>1, Constants, TimesMonotone
  <2>3. timer' \in Nat /\ deadline' \in Nat
    BY <1>0, <1>11, <2>2 DEF LimitSleep, TypeOK
  <2>. QED
    BY <1>11, <2>3, DelayKeeps DEF LimitSleep, Limits
<1>12. ASSUME DelayOver \/ DelayTimer
       PROVE  RetryInv'
  <2>1. /\ pc \in {"delay", "kevent", "sleep"} /\ NextAttempt /\ attempts' = attempts
        /\ UNCHANGED <<cfg, pipe, late, now, res, hist>> /\ deadline' \in Nat /\ timer' \in Nat
    BY <1>0, <1>12 DEF DelayOver, DelayTimer, TypeOK
  <2>2. /\ Len(attempts) = attempt + 1 /\ attempt + 1 < max_attempts
        /\ attempts' \in Seq(Statuses) /\ hist.kinds[attempt + 1] \in Limits
    BY <2>1 DEF RetryInv, Counted, AttemptBound, TypeOK, Recorded
  <2>3. \A i \in 1 .. attempt + 1 : attempts'[i] = Status(hist.kinds[i])
    BY <2>1, <2>2 DEF RetryInv, Recorded
  <2>. QED
    BY <2>1, <2>2, <2>3, NextAttemptKeeps
<1>13. CASE DelayArm
  <2>1. timer' \in Nat
    BY <1>0, <1>13, Constants DEF DelayArm, TypeOK, MinOf, remaining_ns, saturating_sub
  <2>2. /\ Kept /\ pc = "delay" /\ pc' = "kevent"
        /\ UNCHANGED <<child, sent, outcome, pipe, now, late, deadline, res>>
    BY <1>13 DEF DelayArm, Kept, run
  <2>3. TypeOK' /\ NoSignalLost' /\ Reaps'
    BY <2>1, <2>2 DEF RetryInv, TypeOK, NoSignalLost, Reaps, Kept
  <2>. QED
    BY <2>2, <2>3, KeptRecord DEF RetryInv
<1>14. CASE DelayFails
  <2>1. remaining_ns(now, deadline) \in Nat
    BY <1>0, <1>14 DEF TypeOK, remaining_ns, saturating_sub
  <2>2. duration_ms(remaining_ns(now, deadline)) \in Nat
    BY <2>1, Constants, DivBounds DEF duration_ms
  <2>3. duration_ms(remaining_ns(now, deadline)) * PerMs \in Nat
    BY <2>2, Constants, TimesMonotone
  <2>4. timer' \in Nat
    BY <1>0, <1>14, <2>3 DEF DelayFails
  <2>5. /\ Kept /\ pc = "delay" /\ pc' = "sleep"
        /\ UNCHANGED <<child, sent, outcome, pipe, now, late, deadline, res>>
    BY <1>14 DEF DelayFails, Kept, run
  <2>6. TypeOK' /\ NoSignalLost' /\ Reaps'
    BY <2>4, <2>5 DEF RetryInv, TypeOK, NoSignalLost, Reaps, Kept
  <2>. QED
    BY <2>5, <2>6, KeptRecord DEF RetryInv
<1>15. CASE DelaySignal
  <2>1. /\ pc = "kevent" /\ pc' = "done" /\ res' = "SignalForwarded"
        /\ pipe # << >> /\ pipe' = Tail(pipe)
        /\ UNCHANGED <<cfg, attempt, attempts, child, sent, outcome, now, late, deadline, timer>>
        /\ hist' = [hist EXCEPT !.forwarded = hist.forwarded + 1]
    BY <1>15 DEF DelaySignal, Done, run
  <2>2. /\ hist' \in Hist /\ hist'.forwarded = hist.forwarded + 1 /\ hist'.started = hist.started
        /\ hist'.kinds = hist.kinds /\ hist'.got = hist.got /\ hist'.dropped = hist.dropped
    BY <1>0, <2>1, HistCounts DEF Hist
  <2>3. pipe' \in Seq(UserSignals) /\ Len(pipe') = Len(pipe) - 1 /\ Len(pipe) \in Nat
    BY <1>0, <2>1 DEF TypeOK
  <2>4. TypeOK' /\ HistType' /\ NoSignalLost'
    BY <1>h, <2>1, <2>2, <2>3 DEF RetryInv, TypeOK, HistType, NoSignalLost, Kinds
  <2>5. AttemptBound' /\ Counted' /\ Recorded' /\ Reaps'
    BY <1>0, <2>1, <2>2 DEF RetryInv, AttemptBound, max_attempts, Counted, Recorded, Reaps
  <2>. QED
    BY <2>4, <2>5 DEF RetryInv
<1>16. CASE Tick
  <2>1. /\ Kept /\ now' \in Nat /\ late' \in Nat
        /\ UNCHANGED <<pc, child, sent, outcome, pipe, deadline, timer, res>>
    BY <1>0, <1>16 DEF Tick, Kept, run, TypeOK
  <2>2. TypeOK' /\ NoSignalLost' /\ Reaps'
    BY <2>1 DEF RetryInv, TypeOK, NoSignalLost, Reaps, Kept
  <2>. QED
    BY <2>1, <2>2, KeptRecord DEF RetryInv
<1>17. ASSUME NEW sig \in UserSignals, SignalArrives(sig)
       PROVE  RetryInv'
  <2>1. /\ pipe' = Append(pipe, sig)
        /\ \/ pc' = pc
           \/ pc = "kevent" /\ pc' = "delay"
        /\ UNCHANGED <<cfg, attempt, attempts, child, sent, outcome, now, late, deadline, timer, res>>
        /\ hist' = [hist EXCEPT !.got = hist.got + 1]
    BY <1>17 DEF SignalArrives, run
  <2>2. /\ hist' \in Hist /\ hist'.got = hist.got + 1 /\ hist'.started = hist.started
        /\ hist'.kinds = hist.kinds /\ hist'.forwarded = hist.forwarded /\ hist'.dropped = hist.dropped
    BY <1>0, <2>1, HistCounts DEF Hist
  <2>3. pipe' \in Seq(UserSignals) /\ Len(pipe') = Len(pipe) + 1 /\ Len(pipe) \in Nat
    BY <1>0, <1>17, <2>1 DEF TypeOK
  <2>4. TypeOK' /\ HistType'
    BY <2>1, <2>2, <2>3 DEF RetryInv, TypeOK, HistType
  <2>6. NoSignalLost'
    <3>1. hist.got = Len(pipe) + hist.forwarded + hist.dropped
      BY DEF RetryInv, NoSignalLost
    <3>2. /\ hist'.got = hist.got + 1 /\ Len(pipe') = Len(pipe) + 1
          /\ hist'.forwarded = hist.forwarded /\ hist'.dropped = hist.dropped
          /\ Len(pipe) \in Nat /\ hist.forwarded \in Nat /\ hist.dropped \in Nat
      BY <1>h, <2>2, <2>3
    <3>. QED
      BY <3>1, <3>2 DEF NoSignalLost
  <2>5. AttemptBound' /\ Counted' /\ Recorded' /\ Reaps'
    BY <1>0, <2>1, <2>2 DEF RetryInv, AttemptBound, max_attempts, Counted, Recorded, Reaps
  <2>. QED
    BY <2>4, <2>5, <2>6 DEF RetryInv
<1>18. CASE UNCHANGED vars
  <2>1. /\ Kept
        /\ UNCHANGED <<pc, child, sent, outcome, pipe, now, late, deadline, timer, res>>
    BY <1>18 DEF vars, Kept, run
  <2>2. TypeOK' /\ NoSignalLost' /\ Reaps'
    BY <2>1 DEF RetryInv, TypeOK, NoSignalLost, Reaps, Kept
  <2>. QED
    BY <2>1, <2>2, KeptRecord DEF RetryInv
<1>. QED
  BY <1>1, <1>2, <1>3, <1>4, <1>5, <1>6, <1>7, <1>8, <1>9, <1>10, <1>11, <1>12, <1>13, <1>14,
     <1>15, <1>16, <1>17, <1>18
     DEF Next, Loop, Returned

LEMMA RetryInvariant == Spec => []RetryInv
  BY InitRetryInv, NextRetryInv, PTL DEF Spec

-----------------------------------------------------------------------------
\* The loop keeps its types whatever was asked for: the attempt counter and
\* the record stay within MAX_RETRIES.
THEOREM RetryTypeCorrect == Spec => []TypeOK
<1>1. RetryInv => TypeOK
  BY DEF RetryInv
<1>. QED
  BY <1>1, RetryInvariant, PTL

\* The steps that go on to another attempt.
LEMMA AnotherAttempt ==
  ASSUME Next, pc' = "attempt", pc # "attempt"
  PROVE  LimitNoDelay \/ DelayOver \/ DelayTimer
BY DEF Next, Loop, Returned, vars, StartAttempt, AttemptStep, AttemptForwards, AttemptDrops,
       AttemptEnds, AttemptError, AttemptFinal, LimitLast, LimitDelay, LimitSleep, DelayArm,
       DelayFails, DelaySignal, Tick, SignalArrives, Done

\* run_with_retry goes on to another attempt, at once or after any of its
\* delays, only when the child of the last one has been reaped.
THEOREM RetryOneCommand == Spec => OneCommandAtATime
<1> DEFINE After == pc' = "attempt" /\ pc # "attempt" => child = "reaped"
<1>1. ASSUME RetryInv, Next, pc' = "attempt", pc # "attempt"
      PROVE  child = "reaped"
  <2>1. outcome \in Limits
    BY <1>1, AnotherAttempt DEF LimitNoDelay, DelayOver, DelayTimer, RetryInv, Reaps, Limits
  <2>. QED
    BY <1>1, <2>1 DEF RetryInv, Reaps
<1>2. RetryInv /\ [Next]_vars => [After]_vars
  BY <1>1
<1>. QED
  BY <1>2, RetryInvariant, PTL DEF Spec, OneCommandAtATime

\* When run_with_retry returns a result, every attempt is in the record, in
\* order and with its own status, and all but the last were timeouts: push
\* never drops one.
THEOREM RetryRecords == Spec => []RecordsEveryAttempt
<1>1. ASSUME RetryInv
      PROVE  RecordsEveryAttempt
  <2>. SUFFICES ASSUME pc = "done", res # "Err"
                PROVE  /\ Len(attempts) = hist.started
                       /\ \A i \in 1 .. Len(attempts) :
                            /\ attempts[i] = Status(hist.kinds[i])
                            /\ i < Len(attempts) => attempts[i] = "timeout"
    BY DEF RecordsEveryAttempt, Status
  <2>1. Len(attempts) = attempt + 1 /\ hist.started = attempt + 1 /\ attempt \in Nat
    BY <1>1 DEF RetryInv, Counted, TypeOK
  <2>2. \A i \in 1 .. attempt : hist.kinds[i] \in Limits
    BY <1>1 DEF RetryInv, Recorded
  <2>3. \A k \in Limits : Status(k) = "timeout"
    BY DEF Limits, Status
  <2>4. \A i \in 1 .. Len(attempts) : attempts[i] = Status(hist.kinds[i])
    BY <1>1 DEF RetryInv, Recorded
  <2>. QED
    BY <2>1, <2>2, <2>3, <2>4
<1>. QED
  BY <1>1, RetryInvariant, PTL

\* Every byte the handler wrote is in the pipe, was forwarded or reported, or
\* ended a grace period, across all attempts and delays.
THEOREM RetryNoSignalLost == Spec => []NoSignalLost
<1>1. RetryInv => NoSignalLost
  BY DEF RetryInv
<1>. QED
  BY <1>1, RetryInvariant, PTL

\* The back-off of run_with_retry grows from one attempt to the next and stays
\* within MAX_DELAY_MS, for every delay and multiplier, saturated or not.
THEOREM RetryBackoffGrows == Spec => []BackoffGrows
<1>1. ASSUME RetryInv
      PROVE  BackoffGrows
  <2>1. cfg \in RetryConfigs /\ attempt \in Nat
    BY <1>1 DEF RetryInv, TypeOK
  <2>. QED
    BY <2>1, RetryDelay DEF BackoffGrows
<1>. QED
  BY <1>1, RetryInvariant, PTL

-----------------------------------------------------------------------------
(* The delay is waited out.  Two things can cut it short in kqueue_delay by  *)
(* design: a deadline saturated at u64::MAX, and a timer clamped to          *)
(* MAX_TIMER_NS.  Both take a delay or an uptime of centuries.               *)

\* the delay fits a timer and does not carry the clock past u64::MAX
DelayFits ==
  retry_delay(attempt) <= MaxTimer /\ now + retry_delay(attempt) <= U64Max

DelayInv ==
  /\ hist.ended <= now
  /\ pc \in {"delay", "kevent"} => deadline >= hist.ended + retry_delay(attempt)
  /\ pc \in {"delay", "kevent"} => deadline <= now + retry_delay(attempt)
  /\ pc = "kevent" => timer >= deadline
  /\ pc = "sleep" => timer + PerMs > hist.ended + retry_delay(attempt)

LEMMA DelayKept ==
  ASSUME UNCHANGED <<cfg, attempt>>
  PROVE  retry_delay(attempt)' = retry_delay(attempt)
BY DEF retry_delay

\* Nothing that the delay depends on moves.
LEMMA DelayInvKept ==
  ASSUME DelayInv, UNCHANGED <<cfg, pc, attempt, deadline, timer, hist, now>>
  PROVE  DelayInv'
BY DelayKept DEF DelayInv

LEMMA NextDelayInv ==
  ASSUME RetryInv, DelayInv, DelayFits, [Next]_vars
  PROVE  DelayInv'
<1>0. /\ hist \in Hist /\ cfg \in RetryConfigs /\ attempt \in Nat /\ now \in Nat
      /\ deadline \in Nat /\ timer \in Nat /\ hist.ended \in Nat /\ hist.ended <= now
  BY DEF RetryInv, HistType, Hist, TypeOK, DelayInv
<1>d. retry_delay(attempt) \in Nat
  BY <1>0, RetryDelay
<1>c. PerMs \in Nat \ {0} /\ MaxTimer \in Nat /\ U64Max \in Nat
  BY Constants
<1>1. CASE StartAttempt
  <2>1. pc' = "running" /\ hist'.ended = hist.ended /\ now' = now
    BY <1>0, <1>1 DEF StartAttempt, Hist
  <2>. QED
    BY <1>0, <2>1 DEF DelayInv
<1>2. CASE AttemptStep
  <2>1. UNCHANGED <<cfg, pc, attempt, deadline, timer, hist, now>>
    BY <1>2 DEF AttemptStep
  <2>. QED
    BY <2>1, DelayInvKept
<1>3. ASSUME AttemptForwards \/ AttemptDrops
      PROVE  DelayInv'
  <2>1. pc' = "running" /\ hist'.ended = hist.ended /\ now' = now
    BY <1>0, <1>3 DEF AttemptForwards, AttemptDrops, Hist
  <2>. QED
    BY <1>0, <2>1 DEF DelayInv
<1>4. CASE AttemptEnds
  <2>1. pc' = "ended" /\ hist'.ended = now /\ now' = now
    BY <1>0, <1>4 DEF AttemptEnds, Hist
  <2>. QED
    BY <1>0, <2>1 DEF DelayInv
<1>5. ASSUME AttemptError \/ AttemptFinal \/ LimitLast \/ LimitNoDelay \/ DelayOver \/ DelayTimer
      PROVE  DelayInv'
  <2>1. pc' \in {"done", "attempt"} /\ hist' = hist /\ now' = now
    BY <1>5 DEF AttemptError, AttemptFinal, LimitLast, LimitNoDelay, DelayOver, DelayTimer,
                Done, NextAttempt
  <2>. QED
    BY <1>0, <2>1 DEF DelayInv
<1>6. CASE LimitDelay
  <2>1. /\ pc' = "delay" /\ hist' = hist /\ now' = now /\ UNCHANGED <<cfg, attempt>>
        /\ deadline' = advance_ns(now, retry_delay(attempt))
    BY <1>6 DEF LimitDelay
  <2>2. deadline' = now + retry_delay(attempt)
    BY <1>0, <1>c, <1>d, <2>1 DEF DelayFits, advance_ns, saturating_add, MinOf
  <2>. QED
    BY <1>0, <1>d, <2>1, <2>2, DelayKept DEF DelayInv
<1>7. CASE LimitSleep
  <2> DEFINE d == retry_delay(attempt)
  <2>1. /\ pc' = "sleep" /\ hist' = hist /\ now' = now /\ UNCHANGED <<cfg, attempt>>
        /\ timer' = now + (d \div PerMs) * PerMs
    BY <1>7 DEF LimitSleep, duration_ms
  <2>2. d' = d
    BY <2>1, DelayKept
  <2>. HIDE DEF d
  <2>3. d \in Nat
    BY <1>d DEF d
  <2>4. d \div PerMs \in Nat /\ d < (d \div PerMs) * PerMs + PerMs
    BY <1>c, <2>3, DivBounds
  <2>5. (d \div PerMs) * PerMs \in Nat
    BY <1>c, <2>4, TimesMonotone
  <2>6. timer' + PerMs > hist.ended + d
    BY <1>0, <1>c, <2>1, <2>3, <2>4, <2>5
  <2>. QED
    BY <1>0, <2>1, <2>2, <2>6 DEF DelayInv, d
<1>8. CASE DelayArm
  <2>1. /\ pc = "delay" /\ pc' = "kevent" /\ UNCHANGED <<cfg, attempt, deadline, hist, now>>
        /\ ~ deadline_reached(now, deadline)
        /\ timer' = now + MinOf(remaining_ns(now, deadline), MaxTimer)
    BY <1>8 DEF DelayArm
  <2>2. deadline > now /\ deadline <= now + retry_delay(attempt)
    BY <1>0, <2>1 DEF DelayInv, deadline_reached
  <2>3. timer' = deadline
    BY <1>0, <1>c, <1>d, <2>1, <2>2 DEF DelayFits, MinOf, remaining_ns, saturating_sub
  <2>. QED
    BY <1>0, <2>1, <2>3, DelayKept DEF DelayInv
<1>9. CASE DelayFails
  <2> DEFINE r == deadline - now
             d == retry_delay(attempt)
  <2>1. /\ pc = "delay" /\ pc' = "sleep" /\ UNCHANGED <<cfg, attempt, deadline, hist, now>>
        /\ deadline > now
    BY <1>0, <1>9 DEF DelayFails, deadline_reached
  <2>2. r \in Nat /\ timer' = now + (r \div PerMs) * PerMs
    BY <1>0, <1>9, <2>1 DEF DelayFails, duration_ms, remaining_ns, saturating_sub
  <2>3. d' = d /\ d \in Nat /\ deadline >= hist.ended + d /\ now + r = deadline
    BY <1>0, <1>d, <2>1, DelayKept DEF DelayInv
  <2>. HIDE DEF r, d
  <2>4. r \div PerMs \in Nat /\ r < (r \div PerMs) * PerMs + PerMs
    BY <1>c, <2>2, DivBounds
  <2>5. (r \div PerMs) * PerMs \in Nat
    BY <1>c, <2>4, TimesMonotone
  <2>6. timer' + PerMs > hist.ended + d
    BY <1>0, <1>c, <2>2, <2>3, <2>4, <2>5
  <2>. QED
    BY <1>0, <2>1, <2>3, <2>6 DEF DelayInv, d
<1>10. CASE DelaySignal
  <2>1. pc' = "done" /\ hist'.ended = hist.ended /\ now' = now
    BY <1>0, <1>10 DEF DelaySignal, Done, Hist
  <2>. QED
    BY <1>0, <2>1 DEF DelayInv
<1>11. CASE Tick
  <2>1. now' = now + 1 /\ UNCHANGED <<cfg, pc, attempt, deadline, timer, hist>>
    BY <1>11 DEF Tick
  <2>. QED
    BY <1>0, <1>d, <2>1, DelayKept DEF DelayInv
<1>12. ASSUME NEW sig \in UserSignals, SignalArrives(sig)
       PROVE  DelayInv'
  <2>1. /\ \/ pc' = pc
           \/ pc = "kevent" /\ pc' = "delay"
        /\ hist'.ended = hist.ended /\ UNCHANGED <<cfg, attempt, deadline, timer, now>>
    BY <1>0, <1>12 DEF SignalArrives, Hist
  <2>. QED
    BY <2>1, DelayKept DEF DelayInv
<1>13. CASE UNCHANGED vars
  BY <1>13, DelayInvKept DEF vars
<1>. QED
  BY <1>1, <1>2, <1>3, <1>4, <1>5, <1>6, <1>7, <1>8, <1>9, <1>10, <1>11, <1>12, <1>13
     DEF Next, Loop, Returned

\* A retry starts only after the whole delay, whatever signals or EINTRs came
\* in between; when kqueue fails and the rest is a plain sleep, it is less
\* than a millisecond early.
THEOREM RetryDelayHonoured == Spec /\ []DelayFits => DelayHonoured
<1> DEFINE Honours ==
      pc' = "attempt" /\ pc # "attempt" =>
        LET lost == IF pc = "sleep" THEN PerMs - 1 ELSE 0
        IN  now + lost >= hist.ended + retry_delay(attempt)
<1>1. Init => DelayInv
  BY DEF Init, DelayInv, NoHist
<1>2. ASSUME RetryInv, DelayInv, Next
      PROVE  Honours
  <2>. SUFFICES ASSUME pc' = "attempt", pc # "attempt"
                PROVE  now + (IF pc = "sleep" THEN PerMs - 1 ELSE 0)
                         >= hist.ended + retry_delay(attempt)
    OBVIOUS
  <2>0. /\ cfg \in RetryConfigs /\ attempt \in Nat /\ now \in Nat /\ deadline \in Nat
        /\ timer \in Nat /\ hist.ended \in Nat /\ hist.ended <= now /\ PerMs \in Nat \ {0}
    BY <1>2, Constants DEF RetryInv, HistType, Hist, TypeOK, DelayInv
  <2>d. retry_delay(attempt) \in Nat
    BY <2>0, RetryDelay
  <2>1. LimitNoDelay \/ DelayOver \/ DelayTimer
    BY <1>2, AnotherAttempt
  <2>2. CASE LimitNoDelay
    BY <2>0, <2>2 DEF LimitNoDelay
  <2>3. CASE DelayOver
    BY <1>2, <2>0, <2>d, <2>3 DEF DelayOver, deadline_reached, DelayInv
  <2>4. CASE DelayTimer
    BY <1>2, <2>0, <2>d, <2>4 DEF DelayTimer, DelayInv
  <2>. QED
    BY <2>1, <2>2, <2>3, <2>4
<1>3. RetryInv /\ DelayInv /\ [Next]_vars => [Honours]_vars
  BY <1>2
<1>4. RetryInv /\ DelayInv /\ DelayFits /\ [Next]_vars => DelayInv'
  BY NextDelayInv
<1>. QED
  BY <1>1, <1>3, <1>4, RetryInvariant, PTL DEF Spec, DelayHonoured

=============================================================================
