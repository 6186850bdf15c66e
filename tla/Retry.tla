------------------------------- MODULE Retry -------------------------------
(***************************************************************************)
(* run_with_retry of runner.rs and the kqueue_delay of wait.rs it sleeps   *)
(* in: attempts, back-off, the delay, and the signals that arrive between  *)
(* and during attempts.  One attempt is what RunContract says of it, which *)
(* Supervisor implements; here the contract's steps are the attempt's own. *)
(*                                                                         *)
(* Time counts units of which PerMs make a millisecond, so that the        *)
(* conversion of a Duration to milliseconds truncates as in the code.      *)
(***************************************************************************)
EXTENDS TimeMath, Sequences, FiniteSets

CONSTANTS
  RetryConfigs,   \* the RunConfigs explored, see RetryConfigType
  MAX_RETRIES,    \* the capacity of Attempts
  MaxDelayMs,     \* MAX_DELAY_MS: the cap of the back-off
  PerMs,          \* time units in a millisecond
  UserSignals,    \* signals sent to the program
  MaxSignals,     \* bound: how many of them
  MaxLate,        \* bound: ticks that pass while the program could run
  DelayFaults     \* whether kqueue() or kevent() may fail in the delay

\* fd: SIGNAL_PIPE is set
RetryConfigType == [retry_count : Nat, retry_delay : Nat, retry_backoff : Nat, fd : BOOLEAN]

ASSUME RetryAssumption ==
  /\ RetryConfigs \subseteq RetryConfigType
  /\ MAX_RETRIES \in Nat \ {0} /\ PerMs \in Nat \ {0}
  /\ MaxDelayMs \in Nat /\ MaxSignals \in Nat /\ MaxLate \in Nat
  /\ DelayFaults \in BOOLEAN

VARIABLES
  cfg,        \* the RunConfig
  pc,         \* where run_with_retry is
  attempt,    \* the loop variable
  attempts,   \* Attempts: the status recorded for each attempt
  child, sent, outcome,   \* the attempt under way, see RunContract
  pipe,       \* bytes in the self-pipe
  now, late,  \* the time, and the ticks it is late
  deadline,   \* deadline_ns of kqueue_delay
  timer,      \* when the armed timer or the fallback sleep ends
  res,        \* what run_with_retry returned
  hist        \* history: signals received, attempts started, and more

run  == <<child, sent, outcome>>
vars == <<cfg, pc, attempt, attempts, run, pipe, now, late, deadline, timer, res, hist>>

Kinds    == {"Completed", "TimedOut", "MemoryLimitExceeded", "SignalForwarded"}
Statuses == {"timeout", "completed", "signal_forwarded"}

(* got: signals that reached the pipe; dropped: read and neither forwarded   *)
(* nor reported; started: attempts started; kinds: how they ended; ended:    *)
(* when the last one did                                                     *)
NoHist == [got |-> 0, dropped |-> 0, forwarded |-> 0, started |-> 0, kinds |-> << >>,
           ended |-> 0]

TypeOK ==
  /\ cfg \in RetryConfigs
  /\ pc \in {"attempt", "running", "ended", "delay", "kevent", "sleep", "done"}
  /\ attempt \in 0 .. MAX_RETRIES
  /\ attempts \in Seq(Statuses) /\ Len(attempts) <= MAX_RETRIES
  /\ child \in {"unborn", "running", "zombie", "reaped", "gone"}
  /\ sent \subseteq {"limit", "kill", "forward"}
  /\ outcome \in Kinds \cup {"None", "Err"}
  /\ pipe \in Seq(UserSignals)
  /\ now \in Nat /\ late \in Nat /\ deadline \in Nat /\ timer \in Nat
  /\ res \in {"None", "Err"} \cup Kinds

Init ==
  /\ cfg \in RetryConfigs
  /\ pc = "attempt"
  /\ attempt = 0
  /\ attempts = << >>
  /\ child = "unborn" /\ sent = {} /\ outcome = "None"
  /\ pipe = << >>
  /\ now = 0 /\ late = 0 /\ deadline = 0 /\ timer = 0
  /\ res = "None"
  /\ hist = NoHist

-----------------------------------------------------------------------------
(* The numbers                                                               *)

saturating_mul(a, b) == MinOf(a * b, U64Max)

\* the powers of a
powers(a) ==
  LET p[n \in Nat] == IF n = 0 THEN 1 ELSE a * p[n - 1]
  IN  p

saturating_pow(a, n) == MinOf(powers(a)[n], U64Max)

duration_ms(d) == d \div PerMs

\* mutation: the count of retries instead of the count of attempts is capped
max_attempts_uncapped == cfg.retry_count + 1

max_attempts == saturating_add(MinOf(cfg.retry_count, MAX_RETRIES - 1), 1)

\* mutation: the multiplication wraps before the cap is applied
retry_delay_wrapping(a) ==
  IF cfg.retry_backoff > 1
  THEN MinOf((duration_ms(cfg.retry_delay) * cfg.retry_backoff ^ a) % (U64Max + 1),
             MaxDelayMs) * PerMs
  ELSE cfg.retry_delay

\* the delay after attempt number a, counted from zero
retry_delay(a) ==
  IF cfg.retry_backoff > 1
  THEN MinOf(saturating_mul(duration_ms(cfg.retry_delay),
                            saturating_pow(cfg.retry_backoff, a)), MaxDelayMs) * PerMs
  ELSE cfg.retry_delay

-----------------------------------------------------------------------------
(* An attempt: run_command as its contract has it                            *)

Run == INSTANCE RunContract

StartAttempt ==
  /\ pc = "attempt"
  /\ pc' = "running"
  /\ hist' = [hist EXCEPT !.started = @ + 1]
  /\ UNCHANGED <<cfg, attempt, attempts, run, pipe, now, late, deadline, timer, res>>

\* the steps of the attempt that do not touch the signal pipe
AttemptStep ==
  /\ pc = "running"
  /\ \/ Run!Start \/ Run!End \/ Run!Lose
     \/ Run!Signal("limit") \/ Run!Signal("kill")
  /\ UNCHANGED <<cfg, pc, attempt, attempts, pipe, now, late, deadline, timer, res, hist>>

\* one byte is read and forwarded
AttemptForwards ==
  /\ pc = "running" /\ cfg.fd
  /\ pipe # << >>
  /\ Run!Signal("forward")
  /\ pipe' = Tail(pipe)
  /\ hist' = [hist EXCEPT !.forwarded = @ + 1]
  /\ UNCHANGED <<cfg, pc, attempt, attempts, now, late, deadline, timer, res>>

\* one byte is read in the grace period of the memory limit, which it ends
AttemptDrops ==
  /\ pc = "running" /\ cfg.fd
  /\ pipe # << >>
  /\ Run!Signal("kill")
  /\ pipe' = Tail(pipe)
  /\ hist' = [hist EXCEPT !.dropped = @ + 1]
  /\ UNCHANGED <<cfg, pc, attempt, attempts, now, late, deadline, timer, res>>

AttemptEnds ==
  /\ pc = "running"
  /\ Run!Finish \/ Run!FinishLost \/ Run!Fail
  /\ pc' = "ended"
  /\ hist' = [hist EXCEPT !.kinds = Append(@, outcome'), !.ended = now]
  /\ UNCHANGED <<cfg, attempt, attempts, pipe, now, late, deadline, timer, res>>

-----------------------------------------------------------------------------
(* The match on the result                                                   *)

\* mutation: an attempt is recorded only if it is not the last one
push_unless_last(status) ==
  attempts' = IF Len(attempts) < max_attempts - 1 THEN Append(attempts, status) ELSE attempts

\* Attempts::push drops what does not fit
push(status) ==
  attempts' = IF Len(attempts) < MAX_RETRIES THEN Append(attempts, status) ELSE attempts

Done(r) == pc' = "done" /\ res' = r

\* the next iteration of the loop: a fresh child
NextAttempt ==
  /\ pc' = "attempt"
  /\ attempt' = attempt + 1
  /\ child' = "unborn" /\ sent' = {} /\ outcome' = "None"

\* mutation: an error is retried like a timeout
AttemptError_retried ==
  /\ pc = "ended" /\ outcome = "Err"
  /\ attempt + 1 < max_attempts
  /\ NextAttempt
  /\ UNCHANGED <<cfg, attempts, pipe, now, late, deadline, timer, res, hist>>

\* `?`
AttemptError ==
  /\ pc = "ended" /\ outcome = "Err"
  /\ Done("Err")
  /\ UNCHANGED <<cfg, attempt, attempts, run, pipe, now, late, deadline, timer, hist>>

\* Completed and SignalForwarded are final
AttemptFinal ==
  /\ pc = "ended" /\ outcome \in {"Completed", "SignalForwarded"}
  /\ push(IF outcome = "Completed" THEN "completed" ELSE "signal_forwarded")
  /\ Done(outcome)
  /\ UNCHANGED <<cfg, attempt, run, pipe, now, late, deadline, timer, hist>>

is_last_attempt == attempt + 1 >= max_attempts

LimitLast ==
  /\ pc = "ended" /\ outcome \in {"TimedOut", "MemoryLimitExceeded"}
  /\ is_last_attempt
  /\ push("timeout")
  /\ Done(outcome)
  /\ UNCHANGED <<cfg, attempt, run, pipe, now, late, deadline, timer, hist>>

LimitNoDelay ==
  /\ pc = "ended" /\ outcome \in {"TimedOut", "MemoryLimitExceeded"}
  /\ ~ is_last_attempt
  /\ retry_delay(attempt) = 0
  /\ push("timeout")
  /\ NextAttempt
  /\ UNCHANGED <<cfg, pipe, now, late, deadline, timer, res, hist>>

\* kqueue_delay is entered
LimitDelay ==
  /\ pc = "ended" /\ outcome \in {"TimedOut", "MemoryLimitExceeded"}
  /\ ~ is_last_attempt
  /\ retry_delay(attempt) > 0
  /\ push("timeout")
  /\ deadline' = advance_ns(now, retry_delay(attempt))
  /\ pc' = "delay"
  /\ UNCHANGED <<cfg, attempt, run, pipe, now, late, timer, res, hist>>

\* kqueue() fails: the delay is a sleep_ms of its whole milliseconds, deaf to
\* the signal pipe
LimitSleep ==
  /\ DelayFaults
  /\ pc = "ended" /\ outcome \in {"TimedOut", "MemoryLimitExceeded"}
  /\ ~ is_last_attempt
  /\ retry_delay(attempt) > 0
  /\ push("timeout")
  /\ timer' = now + duration_ms(retry_delay(attempt)) * PerMs
  /\ pc' = "sleep"
  /\ UNCHANGED <<cfg, attempt, run, pipe, now, late, deadline, res, hist>>

-----------------------------------------------------------------------------
(* kqueue_delay                                                              *)

\* mutation: EINTR ends the delay
DelayOver_early ==
  /\ pc = "delay"
  /\ deadline > 0
  /\ NextAttempt
  /\ UNCHANGED <<cfg, attempts, pipe, now, late, deadline, timer, res, hist>>

\* the loop top after an EINTR that came too late
DelayOver ==
  /\ pc = "delay"
  /\ deadline_reached(now, deadline)
  /\ NextAttempt
  /\ UNCHANGED <<cfg, attempts, pipe, now, late, deadline, timer, res, hist>>

DelayArm ==
  /\ pc = "delay"
  /\ ~ deadline_reached(now, deadline)
  /\ timer' = now + MinOf(remaining_ns(now, deadline), MaxTimer)
  /\ pc' = "kevent"
  /\ UNCHANGED <<cfg, attempt, attempts, run, pipe, now, late, deadline, res, hist>>

\* kevent() fails, at once or after an EINTR: sleep_ms for the whole
\* milliseconds that remain
DelayFails ==
  /\ DelayFaults
  /\ pc = "delay"
  /\ ~ deadline_reached(now, deadline)
  /\ timer' = now + duration_ms(remaining_ns(now, deadline)) * PerMs
  /\ pc' = "sleep"
  /\ UNCHANGED <<cfg, attempt, attempts, run, pipe, now, late, deadline, res, hist>>

DelayTimer ==
  /\ pc \in {"kevent", "sleep"}
  /\ now >= timer
  /\ NextAttempt
  /\ UNCHANGED <<cfg, attempts, pipe, now, late, deadline, timer, res, hist>>

\* mutation: the byte that woke the delay stays in the pipe for nobody
DelaySignal_unread ==
  /\ pc = "kevent" /\ cfg.fd
  /\ pipe # << >>
  /\ Done("SignalForwarded")
  /\ hist' = [hist EXCEPT !.forwarded = @ + 1]
  /\ UNCHANGED <<cfg, attempt, attempts, run, pipe, now, late, deadline, timer>>

\* the signal pipe is readable: no more attempts, and the byte is the result
DelaySignal ==
  /\ pc = "kevent" /\ cfg.fd
  /\ pipe # << >>
  /\ pipe' = Tail(pipe)
  /\ Done("SignalForwarded")
  /\ hist' = [hist EXCEPT !.forwarded = @ + 1]
  /\ UNCHANGED <<cfg, attempt, attempts, run, now, late, deadline, timer>>

-----------------------------------------------------------------------------
Waiting ==
  \/ pc = "kevent" /\ now < timer /\ (cfg.fd => pipe = << >>)
  \/ pc = "sleep" /\ now < timer

\* how long an attempt takes is Supervisor's subject: the clock stands still
Tick ==
  /\ pc \notin {"running", "done"}
  /\ Waiting \/ late < MaxLate
  /\ now' = now + 1
  /\ late' = IF Waiting THEN late ELSE late + 1
  /\ UNCHANGED <<cfg, pc, attempt, attempts, run, pipe, deadline, timer, res, hist>>

\* a kevent in progress may return EINTR
SignalArrives(sig) ==
  /\ pc # "done" /\ cfg.fd
  /\ hist.got < MaxSignals
  /\ pipe' = Append(pipe, sig)
  /\ hist' = [hist EXCEPT !.got = @ + 1]
  /\ pc' \in IF pc = "kevent" THEN {"kevent", "delay"} ELSE {pc}
  /\ UNCHANGED <<cfg, attempt, attempts, run, now, late, deadline, timer, res>>

Returned == pc = "done" /\ UNCHANGED vars

Loop ==
  \/ StartAttempt \/ AttemptStep \/ AttemptForwards \/ AttemptDrops \/ AttemptEnds
  \/ AttemptError \/ AttemptFinal \/ LimitLast \/ LimitNoDelay \/ LimitDelay \/ LimitSleep
  \/ DelayOver \/ DelayArm \/ DelayFails \/ DelayTimer \/ DelaySignal

Next == Loop \/ Tick \/ (\E sig \in UserSignals : SignalArrives(sig)) \/ Returned

Spec == Init /\ [][Next]_vars

-----------------------------------------------------------------------------
\* The loop goes on to another attempt, after a delay or at once, only when the
\* child of the attempt before it has been reaped: retrying never leaves two
\* commands running side by side.
OneCommandAtATime ==
  [][pc' = "attempt" /\ pc # "attempt" => child = "reaped"]_vars

\* Every attempt that was started is in the record exactly once and in order,
\* however many retries were asked for: push never drops one, and all but the
\* last of them are timeouts.
RecordsEveryAttempt ==
  pc = "done" /\ res # "Err" =>
    /\ Len(attempts) = hist.started
    /\ \A i \in 1 .. Len(attempts) :
         /\ attempts[i] = CASE hist.kinds[i] = "Completed" -> "completed"
                            [] hist.kinds[i] = "SignalForwarded" -> "signal_forwarded"
                            [] OTHER -> "timeout"
         /\ i < Len(attempts) => attempts[i] = "timeout"

\* The delays never shrink from one retry to the next and never exceed the cap
\* of the back-off, however large the multiplier grows.
BackoffGrows ==
  /\ retry_delay(attempt) <= retry_delay(attempt + 1)
  /\ cfg.retry_backoff > 1 => retry_delay(attempt) <= MaxDelayMs * PerMs

\* A retry waits for the whole delay, whatever interrupts it; if kqueue fails,
\* at once or after an EINTR, and the rest of the delay becomes a plain sleep,
\* it is less than a millisecond early.
DelayHonoured ==
  [][pc' = "attempt" /\ pc # "attempt" =>
       LET lost == IF pc = "sleep" THEN PerMs - 1 ELSE 0
       IN  now + lost >= hist.ended + retry_delay(attempt)]_vars

\* A signal the handler wrote is in the pipe, was forwarded to some attempt, is
\* the reported result, or ended a memory grace period: a retry loses none.
NoSignalLost ==
  hist.got = Len(pipe) + hist.forwarded + hist.dropped
=============================================================================
