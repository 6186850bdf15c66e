# A verification project for procguard (darwin-timeout)

procguard runs a command under a time limit on macOS: it spawns the command,
waits for it with kqueue, and when a limit is hit runs a hook, signals the
command, waits a grace period and kills it. It can also throttle the command's
CPU with SIGSTOP and SIGCONT, limit its memory, watch its stdin for idleness,
forward signals, retry with back-off and wait for a file first.

The repository tests its arithmetic and parsers well (proptest, fuzzing, kani).
What tests hardly reach is the order of events: a signal in the grace period, a
child that dies while the throttle stops it, an EINTR at the deadline, a handler
interrupting the set-up of its own pipe. That is what most of these modules are
about. Around it stands the program itself: which words of the command line
become the command, which settings win, and what the exit code says.

## 1. The system

| Component | State it keeps | Operations | What makes it correct |
|---|---|---|---|
| run supervision, `runner.rs` | the locals of the wait loop, the verdict, the hook | `run_command`, `monitor_with_timeout`, `wait_with_kqueue`, `run_on_timeout_hook`, `send_signal` | signals only to a live, resumed child; verdicts neither early nor late; a result that tells what was done; the run ends |
| child, `process.rs` | pid, `exited`, whether a forked child has reached `execvp` | spawn, fork and exec, `wait`, `try_wait`, `kill` | reaped exactly once before any Ok; a signal sent to it reaches the command |
| CPU throttle, `throttle.rs` | `suspended`, `process_exited`, start of the budget | `new`, `update`, `resume`, `mark_process_exited`, `Drop` | never leaves a child stopped, never touches a recycled pid; the share is bounded and nobody starves |
| time arithmetic, `time_math.rs` | none | checked and saturating u64 operations | no wrap-around: a deadline never moves into the past |
| retry, `runner.rs`, `wait.rs` | attempt number, `Attempts`, the delay's deadline | `run_with_retry`, `kqueue_delay` | one command at a time, every attempt recorded, no signal lost, delays honoured |
| signal pipe, `runner.rs` | `SIGNAL_PIPE`, `SIGNAL_WRITE_FD`, dispositions, descriptors | set-up, clean-up, handler, read | the handler always finds its pipe, no descriptor leaks |
| one-time cell, `sync.rs` | state byte, value | `get`, `set`, `get_or_init` | no torn read, one writer, write-once |
| file wait, `wait.rs` | deadline, poll interval | `wait_for_file` | finds a file in time, neither spins nor overshoots |
| command line, `args.rs` | position in argv, separator seen, flags, options, positionals | `parse_from_slice`, `parse_args` | every word is used once; the command gets its own words; CLI before environment before default |
| durations, sizes, signals; `duration.rs`, `rlimit.rs`, `signal.rs` | none | `parse_duration`, `parse_mem_limit`, `parse_cpu_percent`, `parse_signal` | the value written is the value used; overflow is refused |
| program, `main.rs`, `error.rs` | configuration, result, exit code | `run_main`, `resolve_args`, `RunConfig::from_args`, `RunResult::exit_code`, JSON | the exit code tells what happened and the JSON document agrees |
| rlimit enforcement; process information; clocks; runtime support | none | system calls, formatting | partly or not modelled, see section 9 |

How they interact. `main` waits for the file, sets the signal pipe up and calls
`run_with_retry`, which calls `run_command` once per attempt. The supervisor is
one thread. Around it act the command (which may handle, ignore or die of a
signal, read the shared stdin and exit at any time), the user (signals, through
the handler and the pipe), the writer of stdin, the hook and time. The throttle
is called from the timer event of the wait loop, and again when the supervisor
is about to signal the child or drops the throttle on return. The one-time cell
holds the clock's timebase and is the only lock-free data structure.

What is hard: races between the child's exit and every signal sent to its pid;
one kqueue timer that serves five deadlines; a level-triggered, shared stdin;
blocking calls that no timer interrupts; error returns in the middle of a
termination sequence; signals at the edge between two phases or two attempts.
`PROJECT.json` lists these hazards one by one, with their lines.

## 2. The modules

| Module | Models | Built on |
|---|---|---|
| `TimeMath` | `time_math.rs` | |
| `ChildProcess` | the command as the kernel presents it, `process.rs` | |
| `CpuThrottle` | `throttle.rs`: its flags and signals | `ChildProcess` |
| `ThrottleControl` | the budget of `throttle.rs`, its samples, and a command on several processors | `CpuThrottle`, `TimeMath` |
| `Supervisor` | one attempt: `run_command` and all it calls | `CpuThrottle`, `TimeMath` |
| `RunContract` | the abstract promise of one attempt | |
| `Retry` | `run_with_retry`, `kqueue_delay` | `TimeMath`, and `RunContract` for an attempt |
| `SignalPipe` | set-up, clean-up, handler, read | |
| `OnceCell`, `AtomicOnce` | a write-once cell, and `sync.rs` | |
| `WaitForFile` | `wait_for_file` | `TimeMath` |
| `Values` | the parsers of durations, sizes, percentages and signals | |
| `CommandLine` | `args.rs` | `Values` |
| `Main` | `run_main` with `resolve_args`, `from_args`, exit codes and JSON | `CommandLine` |
| `SupervisorProofs` | theorems: types, the child, the result, the contract | `Supervisor`, `RunContract` |
| `TimingProofs` | theorems: deadlines, grace, signals, statuses | `SupervisorProofs` |
| `RetryProofs`, `SignalPipeProofs`, `WaitForFileProofs`, `ThrottleProofs`, `AtomicOnceProofs` | theorems about the module in the name | |
| `MainProofs` | theorems about `Main`, `CommandLine` and `Values` | `Main` |
| `MC...` | instances for TLC | |

Definitions whose comment begins with "mutation:" are faulty variants of the
definition after them. Nothing uses them; each shows that some property
notices that fault when the variant takes the definition's place.

### Supervisor

`pc` is the place in the code: `start` (before spawn), `monitor`, `enter`
(`wait_with_kqueue` up to its loop), `loop` (its top), `kevent`, `read`
(the blocking `read(0)`), `hook`, `hookwait`, `term`, `forward`, `kill`
(about to call `send_signal`), `wait` (blocking `child.wait()`), `done`.
`w` holds the loop's locals under the code's names, `w.phase` tells the main
wait from the grace period, `fin` is the result the control flow is heading for.
Each action is the code from one place where something else can happen to the
next: `EventTimerAgain`, for instance, is the whole timer event, sample of the
throttle, memory check, stdin poll and heartbeat included.

The environment's actions interleave freely. When several events are due,
kevent may return any of them. The reply of `proc_pid_rusage` and the memory
and CPU verdicts are arbitrary.

With resource limits the child is forked and executes the supervisor's own code
until `execvp` (`proc.execed` is false): it still has the supervisor's handlers
for the signals in `Caught` and the write end of the signal pipe, so that a
caught signal sent to it becomes a byte in the pipe (`Inherits`,
`ChildInherits`) and is not delivered to the command. `ChildExecs` ends that
stage, and setting a limit may fail in it. `WaitFails` is every early return with
an error before and in `wait_with_kqueue`: a clock that cannot be read, which can
only happen before the loop, until its timebase is cached; kqueue, before the loop;
and kevent, in it.

A child that somebody else reaps (a caller's own `waitpid`, an ignored SIGCHLD) is
"gone". The supervisor learns of it as ECHILD and takes it for a timeout
(runner.rs:1701), so the properties about signals and early verdicts make an
exception for such a child and for no other. Descriptor 0 may be non-blocking
(fault `nonblock`), and then `read(0)` gives EAGAIN where it would block. Input on
stdin is an event of the main wait, in which alone it is looked at.

Time is a counter of ticks. A tick that passes while the supervisor could run
counts as lateness, and `MaxLate` bounds the lateness of a run: this explores
late scheduling and late timers at every point, and lets properties such as
`NoOverrun` say "by latency only". `MaxTime` ends the clock; it is larger than
timeout + hook limit + grace period + `MaxLate` in every configuration with
`--kill-after`, which is where termination is asked for.

Assumptions about the system below, for a reader to check:
- kevent returns EINTR when a handler ran, although SA_RESTART is set;
  `read(0)` restarts.
- A change-list entry with flags 0 does nothing, as the comment at
  runner.rs:1580 has it.
- A signal to a zombie succeeds without effect; killpg may fail with EPERM
  (fault `eperm`). SIGCONT between processes of one session is permitted.
- The process group is represented by the child.
- New input on stdin comes at most once per tick.
- Killing and reaping the hook after its limit is one step.

### RunContract and Retry

`RunContract` has three variables: the child, the reasons it was signalled for
and the kind of the result. `Supervisor` implements it (`ContractHolds`, checked
and proved), and `Retry` uses its steps as the attempt, so a retry is composed
with every behaviour the supervisor can show. One step is added: in the grace
period of the memory limit a byte is read from the pipe and not forwarded
(`AttemptDrops`). The clock stands still during an attempt, whose duration is
the supervisor's subject. A millisecond is `PerMs` units of time, so the
conversion to milliseconds truncates as in the code.

### SignalPipe

Each atomic access and each system call that others can observe is a step: the
compare-exchange, the store, every single sigaction, swap, close. A signal may
interrupt a thread between any two; the thread continues when the handler has
returned, and another signal may interrupt the handler. Each thread has a role: an
owner sets up, reads and cleans up, a caller does not clean up, a bystander only
has signals delivered to it; `Scenes` says which roles meet. The descriptor table is
shared with the rest of the process, and the kernel hands out the lowest free
number, so that a closed descriptor can be reused.

### ThrottleControl

Wall time and CPU time count the same ticks; while it is not stopped the command
uses any number of processors up to `Cores` in each tick. A sample may be late
by up to `MaxLate`. `update` is the one of `CpuThrottle`, here with the verdict
the code computes from the totals, the truncating division and the cast to u64
included; in `Supervisor` that verdict is arbitrary.

### Values, CommandLine and Main

A text is a sign, an integer, a fraction (a sequence of digits) and a suffix, or
a name; the parsers work on these parts and keep the code's widths, padding,
truncation and checks with smaller numbers: `FracDigits` for nine digits,
`Multiplier` for nanoseconds per unit, `U32Max`, `U64Max`, `U128Max`. Numbers made
of digits and powers of ten are one recursive function, `Numeral`. The exit
statuses have the widths of the masks in process.rs, seven bits of a signal or
eight of a code (`StatusType`). A word of
the command line is a text and the form the parser sees in it, and the loop of
`parse_from_slice` takes one action per word: `CommandWord`, `Separator`,
`Info`, `Option`, `BadOption`, `Positional`. The history `role` records what each
word was taken for. `Main` continues with `Resolve`, `Configure`, the wait for
the file and the run. What these two return is any outcome that `WaitForFile`,
`Supervisor` and `Retry` can produce; `Main` does not repeat their steps.

### AtomicOnce

Each atomic access is a step, and the non-atomic write is two, with a torn value
in between. Acquire and Release are treated as sequentially consistent: what the
orders guarantee is that the value is published by the store, and that is the
only path by which a reader gets to the value.

## 3. Runs that pass

| Run | Instance | What it shows |
|---|---|---|
| `Run` | 16 configurations: no limit, timeouts 1, 2, 3 and 5, grace 0 and 2, throttle, heartbeat, hook, stdin idle time in both modes, with and without a command that takes the input, memory, several of these together, and a forked child that is slow to exec; 2 signals, latency 1; kqueue, clock and EPERM failures, a non-blocking stdin, and a child that may be reaped by somebody else at any time (1.85 million states) | no signal to a pid that is not the child's; a signalled child is not stopped; no return leaves it stopped; Ok means reaped; the result tells the signals and invents no status; SIGKILL waits for the grace period; timeouts are not early; no sleep past a deadline; no deadline overflows; no signal is lost; `RunContract` is implemented; with `--kill-after` the run ends, whatever the command and the hook do |
| `Retry` | up to 3 retries, back-off 1 to 3, delays with and without a fraction of a millisecond and above the cap, 2 signals, failing kqueue and kevent | one command at a time, a complete record, growing and capped delays, no lost signal, delays honoured, to the millisecond when kqueue fails |
| `Pipe` | one owner alone; two callers, or a caller and a bystander, where nobody cleans up; 3 signals, 3 pipes of 2 bytes | the handler has its pipe, nothing leaks, every signal is accounted for, set-up is complete once no thread is inside it; of two pipes one survives |
| `Once` | two threads, three values | no torn read, one writer, write-once, the abstract cell; every call returns |
| `WaitFile` | timeouts none, 0, 1, 7 and 13 half milliseconds; poll interval 1 to 4 ms | file found in time, no overshoot, no spinning, termination |
| `Main` | all command lines of up to three of 13 words (every form the parser tells apart), longer ones around a command, each option twice with 10 values, durations with up to three fraction digits, and with other characters among them; 4 environments; both names of the program; every outcome of the wait and the run | the command gets its own words; CLI before environment before default; durations are exact or too short by less than the last digit kept; exit code and JSON tell what happened |
| `Throttle` | 70 %, two processors, a sample every 2 ticks and up to 1 late, 22 ticks | the share exceeds the percentage by at most one window on all processors, at any time; no pause lasts longer than it takes to pay such a window back |

Why the bounds are enough. The properties depend on the order of deadlines, not
on their distance: with timeout 3, grace 2 and periods of 1 and 2 every order of
deadline, heartbeat, sample, check and idle time occurs, also with equal times.
`U64Max` is 20 in `Run` and its clock stops at 8, so the deadlines of timeout and
grace period do not saturate there; one hook has a limit of 30, beyond the width,
whose deadline is clamped and saturated. In `Retry` it is 26, where an unsaturated
back-off would wrap to 0. Two signals
suffice for one to arrive while another is being handled; one pipe byte more
than `PipeSize` makes the pipe overflow. In `Main` three free words reach every
pair of successive decisions of the parser, the widths are such that sums,
products and digits overflow inside the explored values, and one digit more than
`FracDigits` is cut off. In `Throttle` 22 ticks are seven windows, enough for
several rounds of debt and repayment, with a percentage that does not divide the
ticks. `Main` and `Throttle` do not check for deadlock: the program exits, and
the clock of the throttle has a last tick.

Fairness. `Supervisor` assumes that the supervisor runs when it can, that time
passes and that SIGKILL kills. The first two are the scheduler's and the clock's,
the third the kernel's. Nothing is assumed of the command, the user, the writer
of stdin or the hook, and a failing system call is never forced: without the
fairness of `Failures` a run that hangs cannot count on an error to end it.
`AtomicOnce` assumes that a thread inside a call is
scheduled, and `WaitForFile` that the program and time go on.

## 4. Runs that show a disagreement

Each checks one sentence of the documentation or a comment, and TLC finds the
behaviour of the code that contradicts it. `PROJECT.json` quotes the sentences.

| Run | What happens |
|---|---|
| `VMemoryGrace` | a signal in the grace period of the memory limit ends it with SIGKILL |
| `VReadRace` | the command takes the input first, and `read(0)` blocks for ever |
| `VForkSignal` | a forked child that has not reached `execvp` takes the termination signal with the supervisor's handler: the command never gets it, and the result is a forwarded signal that nobody sent |
| `VEnvOptions` | `TIMEOUT=9 procguard cmd -v`: the `-v` is taken for procguard's own, and the command runs without it |
| `VIdle` | with `--stdin-passthrough`, a command such as `cat` that takes its input at once is killed for an idle stdin: activity is a level sampled at timer events (runner.rs:1788), and input that is gone by then counts as none |

`VReadRace` is temporal; its counterexample is under the fairness above and ends
in a blocking call that nothing interrupts.

Three more sentences of the documentation do not fit the code. They take one step to
see, and `Main` states what the code does (`ExitCodeTells`, `WordsReachCommand`):
- The JSON document of a command that ended by a signal on its own has exit code -1
  (main.rs:428), where docs/json-output.md:68 says 0-255; the program itself returns
  128 + n. In every other document the two agree.
- `TIMEOUT=5s procguard` without words runs a command named `5s`: args.rs:265 has
  already put the variable in the place of the duration, which `resolve_args` then
  takes for the command, and its own arm "No positionals, but env set" for exactly
  this case (main.rs:145-146), which gives no command, is never reached.
  `WordsReachCommand` speaks of command lines with a positional word.
- When the wait for the file times out the exit code of the error is 124, which is not
  among those of docs/json-output.md:291. (The 137 in the example of
  docs/json-output.md:262 for a memory limit is what `--preserve-status` gives; without
  it runner.rs:482-530 returns the timeout exit code, 124.)

Further behaviour a reader of the code may not expect. The models show it, and the
properties are stated so as to allow it:
- After a forwarded signal `run_command` waits without a limit, so `--kill-after`
  is off (the second disjunct of `KillAfterEnds`).
- With a zero timeout the memory limit and the throttle are off, although
  docs/resource-limits.md does not say so, and signals stay in the pipe until the
  next run (runner.rs:813).
- Without the signal pipe the number of changes no longer reaches the stdin filter,
  and stdin is not watched in consume mode (runner.rs:1662).
- A signal at the very end of a retry delay does not stop the retries; it reaches
  the next attempt (wait.rs:170; `NoSignalLost` says that it is not lost).
- Clean-up while a handler on another thread holds the write end lets it write to
  a closed or reused descriptor (runner.rs:183), and clean-up between another
  thread's compare-exchange and store leaves a write end behind (runner.rs:127).
  procguard itself never calls clean-up; a library caller may. In the scenes of `Pipe`
  a thread that cleans up is alone.
- In passthrough mode an EINTR at the idle deadline goes to the idle check without a
  sample; see `VIdle` for the rest.
- A child reaped elsewhere is taken for one that timed out, and its pid is signalled:
  the exception in `NoStraySignal`, `NotEarly` and `KillWaitsForGrace`.
- A memory kill is retried like a timeout.
- A SIGCONT or SIGSTOP from outside makes the throttle's `suspended` flag wrong
  until the next change of verdict; `ThrottleControl` has no such sender.
- The first `--` is dropped after the command too: `procguard 5 git checkout -- f`
  runs `git checkout f`.
- After the duration a cluster such as `-pv`, and `-r`, is the command.
- Digits after the ninth are cut off, so that a tiny duration is zero, which means
  no limit; what follows the ninth place is not looked at, so that `1.000000000x5s` is
  one second (duration.rs:118); `--cpu-time` is used in whole seconds.
- Errors in the arguments and in the configuration print no JSON document, even
  with `--json`.
- With resource limits a missing command is found after the fork: the result is a
  completed run with 127, not an error.
- With a back-off the first delay, too, is capped and truncated to milliseconds.
- A second thread's set-up returns before the first has installed its handlers
  (`SetupReady` speaks of the moment when no thread is inside set-up).
- `AtomicOnce::set` returns Err while the cell is INITIALIZING, before it has a
  value.

## 5. Theorems

TLC shows a property for an instance; the theorems hold for every set of
configurations, command lines and environments, any durations, any number of
threads, signals and ticks. Every invariant and every action property that a
passing run checks is proved, and so are the two refinements.

### The supervisor

`SupervisorProofs`:
- `TypeCorrect`: `Spec => []TypeOK`. The induction needs `TypeInv`, which adds to
  `TypeOK` that the grace period is only entered with a kill-after time: without
  that the deadline of the grace period has no type.
- `NothingAstray`, `SignalledIsFree`, `NeverLeftStopped`, `NoZombieLeft`: the four
  child properties of `Run`, from two inductive invariants. `PidInv`: until
  `run_command` returns the child is not reaped, or was lost to somebody else.
  `SafeInv`, of a child that was not lost, has `StopsAreKnown` at its core: a stopped
  child is one the throttle knows it stopped. From it follows that `resume()` frees
  the child wherever it is called, and that a marked throttle has nothing to undo.
  The rest relates the place in the code to the child's state, to the signals sent
  and to the phase. No hypothesis is made about who reaps: a child that is lost stays
  lost (`GoneForGood`), and the properties say what holds of it.
- `SentAgrees`: the signals sent, the place in the code and the result agree
  (`SentInv`).
- `ResultIsTrue`: hence the result tells exactly which signals were sent.
- `KeepsContract`: `Spec => ContractHolds`; the initial state maps to the
  contract's, every step to a step or a stutter (`ContractStep`, one case per
  action). The contract has a state for a child that was lost, from which only an
  error or the result of a forwarded signal follows.

`TimingProofs`. The lemma `Moves` sorts the steps of `Next` into a few kinds of
move and the verdicts, so that an invariant about time is shown once per kind:
- `NeverOverruns`: `Spec => []NoOverrun`. The one timer serves five deadlines; the
  invariant says that an armed timer is never later than the deadline of the phase
  nor, while stdin is watched, than the idle deadline.
- `TimeoutNotEarly` and `GraceIsWhole`: `NotEarly` and `KillWaitsForGrace`. The
  invariant keeps the deadline of the main wait at or after start + timeout, and
  that of the grace period at or after the termination signal + kill-after.
  Both are shown as long as the child is not lost (`VerdictWhole`, `KillWhole`), and
  a lost child stays lost. Hypothesis `DurationsFit`: timeout and kill-after fit in a
  kernel timer and in the clock. Without it the saturated deadline of time_math.rs is
  early by construction.
- `ResultCarriesStatus`: `ResultHasStatus`.
- `NoSignalDropped`: `SignalsConserved`. `ConservedInv` adds that the set of
  forwarded signals is finite, so that each one forwarded counts.

### Retry, signal pipe, file

`RetryProofs`, from `RetryInv`, which counts the attempts started, ended and
recorded at each place of the loop, and says that only a limit is followed by
another attempt and that its child is reaped by then:
- `RetryTypeCorrect`, `RetryRecords`, `RetryNoSignalLost`.
- `RetryOneCommand`: the action property `OneCommandAtATime`, about every step that
  goes on to another attempt, the one without a delay included (`AnotherAttempt`).
- `RetryBackoffGrows`: the powers of the multiplier do not shrink, nor do their
  saturation and their cap.
- `RetryDelayHonoured`: `Spec /\ []DelayFits => DelayHonoured`. `DelayFits` says that
  a delay fits in a kernel timer and, added to the time of day, in the clock;
  a saturated deadline would be early.

`SignalPipeProofs`, from `PipeInv`: the place of every thread tells what the two
statics and the dispositions are (`Place`), one thread wins the compare-exchange
(`OneWinner`), every open end is in a static or in the hands of one thread
(`NoneLost`, `Ends`), and a handler runs only while the write end is published
(`Handling`).
- `PipeTypeCorrect`, without hypothesis.
- `HandlerAlwaysHasPipe`, `NoCallLeaks`, `SetupIsReady`, `AllSignalsAccounted`, for
  any number of threads in set-up and any nesting of handlers. Hypothesis
  `OwnerIsAlone`: the thread that cleans up is the only one. Section 4 says what
  clean-up does to another thread. The last one adds up the handlers of all
  threads and the bytes of all pipes, hence `IsFiniteSet(Threads)` among the
  assumptions.

`WaitForFileProofs`: `WaitTypeCorrect`, `WaitFoundInTime`, `WaitNoOvershoot`,
`WaitSleepsAWhile`. The arithmetic is that of a remainder cut to milliseconds; the
invariant relates the end of a sleep to the deadline and the file's history to
the last look at it.

### The program

`MainProofs`, without hypotheses:
- `PrecedenceHolds`: `SettingsPrecedence`. While the words are read, `SettingsInv`
  ties each option to the last word that gave it; that word is named by an
  existential, so that the induction needs no maximum, and `LastIsMax` turns it
  into the property's `LastGiven` at the end. From there the invariant follows
  the option through the environment and the alias.
- `ExitCodeIsTrue`: `ExitCodeTells`. `ExitInv` adds what the configuration owes to
  the words (the timeout exit code in 0..255, the signal in 1..31), and splits the
  ends of the program in three: quiet, failed, ran.
- `CommandGetsItsWords`: `WordsReachCommand`. `WordsInv`: the positional words read so
  far are in `duration`, `command` and `args` in their order, and behind the command
  there are only arguments and one separator. `resolve_args` may shift them by one;
  when it leaves a duration that does not parse, `from_args` refuses it. The invariant
  keeps the case without positional words apart, of which the property says nothing.
- `DurationsAreExact`: `DurationExact`, for texts with any number of digits, any
  `FracDigits`, units and widths. `Split` is the heart: the numeral of n + j digits
  is that of the first n, shifted by j digits, plus less than a unit of the last
  digit kept, and exactly that when the text has no more than n digits;
  `PaddedQuotient` and `CutQuotient` carry this through the multiplication and the
  truncating division. `DurationInv` says that what the configuration holds was
  parsed from the text.

Proving these found an imprecision in the model: `exit_code` was a `CASE` whose
guards overlap, which in TLA+ leaves the choice open where the code takes the
first match. It is a chain of IFs now.

### Throttle and cell

`ThrottleProofs`, for any percentage, interval, latency and number of processors:
- `ShareIsBounded`: `Spec => []ShareBounded`, and `NeverStarves`:
  `Spec => []NoStarvation`. Neither is inductive. `IInv` adds `Clock` (a sample at
  most a window ago), `FlagIsTrue` (the throttle knows whether the command is
  stopped), `Free` (a running command was within its budget at the last sample)
  and `Debt` (a stopped one was over it at the last sample, by no more than a
  window can cost, counted from the moment it was stopped). `Debt` is the heart:
  it links the size of the debt to the time it was incurred, and so bounds the
  pause. Assumptions: `ThrottleAssumption` (positive parameters, the clock does
  not saturate) and `NoWrap` (the budget fits in a u64 while the run lasts; the
  cast at throttle.rs:127 keeps the low bits, which would take an astronomical
  percentage times a long run).

`AtomicOnceProofs`, for any sets of threads and values:
- `OnceSafe`: the lock discipline of the state byte (`OnceInv`: a thread between
  its compare-exchange and its store is the only one, and the state is
  INITIALIZING then).
- `NoTornRead`, `MutualExclusion`, `NeverReplaced`, `IsOnceCell` follow from it.

### Assumptions, induction, and what TLC checks alone

The assumptions on constants stand in the modules that declare them, and TLC
evaluates them in every run. Besides types they say that a status is not the name
of a signal (`StatusIsNoSignal`), that the clock and the timers do not saturate in
`ThrottleControl`, and that the units of time are positive.

Powers, sums over finite sets and numerals are recursive functions or defined by
cardinality. What they compute is proved by induction with a set in the place of
a predicate: a set of naturals that is not empty has a least element (`NatMin`,
`SmallestNat`), and a function defined by recursion is first shown to exist, put
together from its finite tables (`TableExists`, `NumeralDef`).

TLC has checked the inductive invariants as invariants of the instances: `TypeInv`,
`PidInv`, `SafeInv` and `SentInv` in `Run`; `IInv` of `ThrottleProofs` in `Throttle`;
`PipeInv` in `Pipe`; `SettingsInv`, `ExitInv`, `WordsInv` and `DurationInv` in `Main`.
The instance of `Run` satisfies `DurationsFit` and that of `Pipe` `OwnerIsAlone`, so
the hypotheses are not empty.

Out of the prover's reach, and left to TLC: liveness under fairness, which is
`KillAfterEnds`, `CallsReturn` and `WaitEnds`; and what the violations of section 4
show.

## 6. Plan

Done: the core (`TimeMath`, `ChildProcess`, `CpuThrottle`, `Supervisor`,
`RunContract`); `AtomicOnce`, `Retry`, `SignalPipe` and `WaitForFile`; the fork
stage of the child, `ThrottleControl`, and the program around the run (`Values`,
`CommandLine`, `Main`); theorems for every safety property and action property
of the passing runs.

Next theorems:
1. `SignalPipe` with a thread that cleans up next to threads that only receive
   signals, for the properties that still hold then.
2. `parse_mem_limit` and `parse_backoff` against reference definitions, as for
   durations.

What is left to model is small: stdin descriptors that become invalid during a run
(runner.rs:1844-1879), a panic inside `AtomicOnce::get_or_init`, and a library
caller that sets up and cleans up over several runs.

## 7. Running

    tlc -workers 2 -config Run.cfg MCSupervisor
    tlc -workers 2 -config Throttle.cfg ThrottleControl
    tlapm SupervisorProofs.tla

`PROJECT.json` names the module and configuration of every run, the variant that
each property detects, and the source lines each definition stands for.

## 8. Reading order

`RunContract`, then `Supervisor` from its variables to `Next`, then its properties;
`Retry` after that. `CommandLine` and then `Main` show the way from the words to a
run. `AtomicOnce`, `SignalPipe` and `ThrottleControl` stand alone.

## 9. Not modelled

- Strings: where a number ends and which letters a cluster holds is decided when a
  text or a word is made; trimming and case only as far as a property needs them.
- JSON fields other than status and exit codes, escaping, messages, heartbeat
  output, help and version texts.
- What the kernel does with rlimits once they are set; rusage numbers.
- The conversion of Mach ticks to nanoseconds; the failure of a clock is a
  `WaitFails`.
- Process groups and foreground mode: the child stands for its group.
- EV_ERROR events on stdin (EBADF, ENOENT). With EBADF the stdin branch takes the
  event before the EV_ERROR branch sees it (runner.rs:1849) and the loop may spin.
- A panic in the closure of `AtomicOnce::get_or_init` (sync.rs:136) leaves the
  state at INITIALIZING, and later callers spin.
- Memory orders weaker than sequential consistency.
- The formatted output, the allocator and the panic handler (`io.rs`,
  `allocator.rs`, `panic.rs`): plumbing without state of its own.
