---------------------------- MODULE MCSupervisor ----------------------------
(***************************************************************************)
(* Instances of Supervisor for TLC.  A run explores a set of RunConfigs,   *)
(* each made from Plain by setting the options it is about.  Ticks stand   *)
(* for the durations of the command line: a timeout of 3, a grace period   *)
(* of 2, checks every tick or every other tick.                            *)
(***************************************************************************)
EXTENDS Supervisor

Plain == [timeout |-> 3, killAfter |-> None, signal |-> "TERM",
          hook |-> FALSE, hookLimit |-> 0,
          stdin |-> "off", stdinIdle |-> 0,
          heartbeat |-> 0, throttle |-> 0, mem |-> 0, limits |-> FALSE, fd |-> TRUE,
          reads |-> FALSE]

Grace == [Plain EXCEPT !.killAfter = 2]

\* the last hook may take longer than the clock is wide
LimitConfigs ==
  { Plain,
    Grace,
    [Plain EXCEPT !.timeout = 0],
    [Grace EXCEPT !.killAfter = 0],
    [Grace EXCEPT !.throttle = 1],
    [Plain EXCEPT !.throttle = 2, !.heartbeat = 2],
    [Grace EXCEPT !.hook = TRUE, !.hookLimit = 1],
    [Grace EXCEPT !.hook = TRUE, !.hookLimit = 2, !.throttle = 1, !.timeout = 1],
    [Plain EXCEPT !.hook = TRUE, !.hookLimit = 30] }

\* --stdin-timeout alone, and beside a command that shares the input
ConsumeConfigs ==
  { [Plain EXCEPT !.stdin = "consume", !.stdinIdle = 2, !.timeout = 5],
    [Plain EXCEPT !.stdin = "consume", !.stdinIdle = 1, !.heartbeat = 1, !.reads = TRUE,
                  !.timeout = 2] }

PassthroughConfigs ==
  { [Plain EXCEPT !.stdin = "passthrough", !.stdinIdle = 2, !.reads = TRUE],
    [Grace EXCEPT !.stdin = "passthrough", !.stdinIdle = 2, !.heartbeat = 1, !.fd = FALSE] }

\* many options at once
MixedConfigs ==
  { [Plain EXCEPT !.mem = 1, !.limits = TRUE, !.throttle = 1, !.stdin = "consume", !.stdinIdle = 1,
                  !.timeout = 2],
    [Grace EXCEPT !.mem = 1, !.limits = TRUE, !.throttle = 1, !.timeout = 2] }

\* --cpu-time and nothing else: the command is forked, and may be slow to exec
ForkConfigs == { [Grace EXCEPT !.limits = TRUE, !.timeout = 1] }

RunConfigs == LimitConfigs \cup ConsumeConfigs \cup PassthroughConfigs
                \cup MixedConfigs \cup ForkConfigs

\* a blocking stdin shared with the command
SharedStdin ==
  { [Grace EXCEPT !.stdin = "consume", !.stdinIdle = 1, !.timeout = 2, !.reads = TRUE] }

\* stdin goes to a command such as cat
CatConfigs == { c \in PassthroughConfigs : c.reads }

MemoryConfigs ==
  { [Plain EXCEPT !.mem = 1, !.limits = TRUE],
    [Grace EXCEPT !.mem = 2, !.limits = TRUE],
    [Grace EXCEPT !.mem = 1, !.limits = TRUE, !.throttle = 1] }
=============================================================================
