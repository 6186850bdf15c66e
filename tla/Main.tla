-------------------------------- MODULE Main --------------------------------
(***************************************************************************)
(* run_main of main.rs around the parser of CommandLine: which words are   *)
(* the duration and the command (resolve_args), the RunConfig              *)
(* (RunConfig::from_args), the wait for a file, the run, the exit code and *)
(* the JSON document.  What the wait and the run return is any outcome     *)
(* that WaitForFile, Retry and Supervisor allow.                           *)
(***************************************************************************)
EXTENDS CommandLine, FiniteSetsExt

CONSTANTS
  RunStatuses,   \* the exit statuses of a command that are explored, see StatusType
  RunSignals     \* the signals a result may name, by number

\* RawExitStatus: seven bits of a signal or eight of an exit code; NoStatus is None
StatusType == [signal : 1 .. 127 \cup {Nothing}, code : 0 .. 255 \cup {Nothing}]
NoStatus   == [signal |-> Nothing, code |-> Nothing]

ASSUME MainAssumption ==
  /\ RunStatuses \subseteq StatusType /\ NoStatus \notin RunStatuses
  /\ \A s \in RunStatuses : s.signal = Nothing <=> s.code # Nothing
  /\ RunSignals \subseteq 1 .. 31

VARIABLES
  alias,    \* argv[0] is timeout
  target,   \* what resolve_args chose: duration, command and args
  config,   \* the RunConfig
  result,   \* what run_with_retry, or the wait for the file, returned
  out,      \* the JSON documents printed
  code      \* the exit code of the program

vars == <<words, env, pc, parsing, alias, target, config, result, out, code>>

NoTarget == [duration |-> NoText, command |-> NoText, args |-> << >>]
NoResult == [kind |-> "none"]

TIMEOUT        == 124
INTERNAL_ERROR == 125
CANNOT_INVOKE  == 126
NOT_FOUND      == 127

Init ==
  /\ ParseInit
  /\ alias \in BOOLEAN
  /\ target = NoTarget
  /\ config = << >>
  /\ result = NoResult
  /\ out = << >>
  /\ code = Nothing

Parse == ParseNext /\ UNCHANGED <<alias, target, config, result, out, code>>

Exit(c, documents) == pc' = "exit" /\ code' = c /\ out' = documents

\* The parser has left the program or returned an error
ParserExits ==
  /\ pc \in {"info", "refused"}
  /\ Exit(IF pc = "info" THEN 0 ELSE INTERNAL_ERROR, << >>)
  /\ UNCHANGED <<words, env, parsing, alias, target, config, result>>

-----------------------------------------------------------------------------
\* mutation: the command's first argument is lost in the shift
resolve_args_short ==
  IF env.duration # NoText /\ parse_duration(duration) = Bad /\ command # NoText
  THEN [duration |-> env.duration, command |-> duration, args |-> args]
  ELSE [duration |-> duration, command |-> command, args |-> args]

\* With TIMEOUT set the parser may have taken the command for the duration
resolve_args ==
  CASE env.duration # NoText /\ command # NoText /\ parse_duration(duration) = Bad ->
         [duration |-> env.duration, command |-> duration, args |-> <<command>> \o args]
    [] env.duration # NoText /\ command = NoText ->
         [duration |-> env.duration, command |-> duration, args |-> args]
    [] OTHER -> [duration |-> duration, command |-> command, args |-> args]

Complete(t) == t.duration # NoText /\ t.command # NoText

Resolve ==
  /\ pc = "parsed" /\ Complete(resolve_args)
  /\ target' = resolve_args
  /\ opts' = IF alias /\ opts.confine = NoText
             THEN [opts EXCEPT !.confine = Name("active")] ELSE opts
  /\ pc' = "config"
  /\ UNCHANGED <<words, env, i, saw_separator, flags, duration, command, args, role,
                 alias, config, result, out, code>>

Incomplete ==
  /\ pc = "parsed" /\ ~ Complete(resolve_args)
  /\ Exit(INTERNAL_ERROR, << >>)
  /\ UNCHANGED <<words, env, parsing, alias, target, config, result>>

-----------------------------------------------------------------------------
Durations == {"kill_after", "on_timeout_limit", "retry_delay", "heartbeat", "stdin_timeout",
              "cpu_time"}
Parsable  == Durations \cup {"signal", "retry", "retry_backoff", "mem_limit", "cpu_percent"}

Default(o) == CASE o \in {"retry", "retry_delay"} -> 0
                [] o = "retry_backoff"            -> 1
                [] OTHER                          -> Nothing

parse_option(o, t) ==
  CASE o \in Durations       -> parse_duration(t)
    [] o = "signal"          -> parse_signal(t)
    [] o = "retry"           -> parse_unsigned(t, U32Max)
    [] o = "retry_backoff"   -> parse_backoff(t)
    [] o = "mem_limit"       -> parse_mem_limit(t)
    [] o = "cpu_percent"     -> parse_cpu_percent(t)

from_args ==
  [o \in Parsable \cup {"timeout", "timeout_exit_code"} |->
     CASE o = "timeout"           -> parse_duration(target.duration)
       [] o = "timeout_exit_code" -> IF opts[o] = NoText THEN TIMEOUT ELSE opts[o].int
       [] OTHER                   -> IF opts[o] = NoText THEN Default(o)
                                     ELSE parse_option(o, opts[o])]

Consistent(c) ==
  /\ \A o \in DOMAIN c : c[o] # Bad
  /\ "stdin_passthrough" \in flags => c.stdin_timeout # Nothing

Configure ==
  /\ pc = "config" /\ Consistent(from_args)
  /\ config' = from_args
  /\ pc' = IF opts.wait_for_file = NoText THEN "run" ELSE "file"
  /\ UNCHANGED <<words, env, parsing, alias, target, result, out, code>>

\* An error in the configuration prints no JSON
BadConfig ==
  /\ pc = "config" /\ ~ Consistent(from_args)
  /\ Exit(INTERNAL_ERROR, << >>)
  /\ UNCHANGED <<words, env, parsing, alias, target, config, result>>

-----------------------------------------------------------------------------
\* TimeoutError::exit_code
error_code(e) == CASE e = "CommandNotFound"    -> NOT_FOUND
                   [] e = "PermissionDenied"   -> CANNOT_INVOKE
                   [] e = "WaitForFileTimeout" -> TIMEOUT
                   [] OTHER                    -> INTERNAL_ERROR

print_json_error(e) == [status |-> "error", exit_code |-> error_code(e)]

Printed(document) == IF "json" \in flags THEN <<document>> ELSE << >>

Fails(e) ==
  /\ result' = [kind |-> "Err", error |-> e]
  /\ Exit(error_code(e), Printed(print_json_error(e)))

FileWait == opts.wait_for_file_timeout
BadWait  == FileWait # NoText /\ parse_duration(FileWait) = Bad

FileFound ==
  /\ pc = "file" /\ ~ BadWait
  /\ pc' = "run"
  /\ UNCHANGED <<words, env, parsing, alias, target, config, result, out, code>>

\* wait_for_file fails: stat does, or the deadline passes, when there is one
FileMissing ==
  /\ pc = "file" /\ ~ BadWait
  /\ \/ Fails("WaitForFileError")
     \/ FileWait # NoText /\ Fails("WaitForFileTimeout")
  /\ UNCHANGED <<words, env, parsing, alias, target, config>>

BadFileWait ==
  /\ pc = "file" /\ BadWait
  /\ Exit(INTERNAL_ERROR, << >>)
  /\ UNCHANGED <<words, env, parsing, alias, target, config, result>>

-----------------------------------------------------------------------------
signal_exit_code(sig) == (128 + sig) % 256

status_to_exit_code(s) ==
  IF s.signal # Nothing THEN signal_exit_code(s.signal) ELSE s.code % 256

LimitKinds == {"TimedOut", "MemoryLimitExceeded"}

\* mutation: --preserve-status is not looked at
exit_code_plain(r) == IF r.kind \in LimitKinds THEN config.timeout_exit_code
                      ELSE IF r.status = NoStatus THEN signal_exit_code(r.signal)
                      ELSE status_to_exit_code(r.status)

\* RunResult::exit_code
exit_code(r) ==
  IF r.kind \in LimitKinds /\ "preserve_status" \notin flags THEN config.timeout_exit_code
  ELSE IF r.status # NoStatus THEN status_to_exit_code(r.status)
  ELSE signal_exit_code(IF r.kind \in LimitKinds /\ r.killed THEN SignalNumber.KILL ELSE r.signal)

JsonStatus == [Completed |-> "completed", TimedOut |-> "timeout",
               MemoryLimitExceeded |-> "memory_limit", SignalForwarded |-> "signal_forwarded"]

\* For a completed run exit_code is the command's own, and -1 after a signal
print_json_output(r, c) ==
  [status |-> JsonStatus[r.kind],
   exit_code |-> IF r.kind = "Completed" THEN r.status.code ELSE c,
   command_exit_code |-> r.status.code]

\* What run_with_retry may return
Results ==
  [kind : LimitKinds, signal : {config.signal}, killed : BOOLEAN,
   status : RunStatuses \cup {NoStatus}]
    \cup [kind : {"Completed"}, signal : {Nothing}, killed : {FALSE}, status : RunStatuses]
    \cup [kind : {"SignalForwarded"}, signal : RunSignals, killed : {FALSE},
          status : RunStatuses \cup {NoStatus}]

RunReturns ==
  /\ pc = "run"
  /\ \E r \in Results :
       /\ result' = r
       /\ Exit(exit_code(r), Printed(print_json_output(r, exit_code(r))))
  /\ UNCHANGED <<words, env, parsing, alias, target, config>>

RunFails ==
  /\ pc = "run"
  /\ \E e \in {"CommandNotFound", "PermissionDenied", "SpawnError"} : Fails(e)
  /\ UNCHANGED <<words, env, parsing, alias, target, config>>

Next ==
  \/ Parse \/ ParserExits
  \/ Resolve \/ Incomplete
  \/ Configure \/ BadConfig
  \/ FileFound \/ FileMissing \/ BadFileWait
  \/ RunReturns \/ RunFails

Spec == Init /\ [][Next]_vars

-----------------------------------------------------------------------------
(* Properties.                                                             *)

RolesIn(S) == { k \in DOMAIN role : role[k] \in S }

\* ts are the texts of the words at the positions in K, in the order of the words
InOrder(ts, K) ==
  /\ Len(ts) = Cardinality(K)
  /\ \A k \in K : ts[Cardinality({ l \in K : l <= k })] = words[k].text

Resolved   == pc \in {"config", "file", "run"}
Configured == pc \in {"file", "run"}

(* Every word of the command line gets one role, and the words that are    *)
(* the command's by their role reach it: after the command all but the     *)
(* first -- go to it and nothing there is read as an option, and the       *)
(* command runs with exactly the positional words, in their order, with or *)
(* without the first of them, which may be the time limit (parse_from_     *)
(* slice, resolve_args).  It says nothing of a command line without a      *)
(* positional word, which resolve_args gives no command.                   *)
WordsReachCommand ==
  Configured =>
    LET K == RolesIn({"duration", "command", "arg"})
        texts == <<target.command>> \o target.args
    IN  /\ Len(role) = Len(words)
        /\ \A c \in RolesIn({"command"}), k \in DOMAIN role :
             k > c => role[k] = "arg" \/ words[k].form = "separator"
        /\ Cardinality(RolesIn({"separator"})) <= 1
        /\ K # {} => InOrder(texts, K) \/ InOrder(<<target.duration>> \o texts, K)

Given(o) == { k \in RolesIn({"option"}) : words[k].opt = o }
LastGiven(o) == Max(Given(o))

(* CLI > env > default for every setting a run starts with: the last word  *)
(* that sets an option decides, then the variable, then the default; a     *)
(* flag is set exactly when a word sets it; and the time limit is the word *)
(* on the command line whenever the two words before the command can be a  *)
(* duration and a command (parse_args, run_main).                          *)
SettingsPrecedence ==
  Resolved =>
    /\ \A o \in Options :
         LET fallback == IF o \in EnvOptions THEN env[o] ELSE NoText
             default  == CASE o = "signal" -> Name("TERM")
                           [] o = "confine" /\ alias -> Name("active")
                           [] OTHER -> Unset[o]
         IN  opts[o] = IF Given(o) # {} /\ (o = "signal" => ValueOf(LastGiven(o)) # Empty)
                       THEN ValueOf(LastGiven(o))
                       ELSE IF fallback = NoText \/ (o = "retry" /\ fallback = Empty)
                            THEN default ELSE fallback
    /\ flags = UNION { words[k].flags : k \in RolesIn({"option"}) }
    /\ LET D == RolesIn({"duration"})
       IN  IF \E d \in D : RolesIn({"command"}) # {} /\ parse_duration(words[d].text) # Bad
           THEN target.duration \in { words[d].text : d \in D }
           ELSE target.duration = env.duration \/ env.duration = NoText

\* The value of a text, in nanoseconds and rounded down, all its digits counted
ExactValue(t) ==
  LET n == Len(t.frac)
      m == (IF t.int = Nothing THEN 0 ELSE t.int) * PowerOf10(n) + Digits(t.frac, n)
  IN  (m * Multiplier[t.suffix]) \div PowerOf10(n)

IsNumber(t) == \A k \in DOMAIN t.frac : t.frac[k] # NoDigit

DurationTexts == { <<"timeout", target.duration>> }
                   \cup { <<o, opts[o]>> : o \in { d \in Durations : opts[d] # NoText } }

(* A duration the program runs with is the one the user wrote, if it is a  *)
(* number at all: exact to the nanosecond when the fraction has no more    *)
(* digits than are kept, and otherwise too short by less than one unit of  *)
(* the last digit kept; it never wraps around (parse_duration).            *)
DurationExact ==
  Configured =>
    \A p \in DurationTexts :
      LET t == p[2]
          d == ExactValue(t) - config[p[1]]
      IN  IsNumber(t) =>
          /\ config[p[1]] \in 0 .. U64Max
          /\ d >= 0
          /\ Len(t.frac) <= FracDigits => d = 0
          /\ d * Scale <= Multiplier[t.suffix] + Scale

(* The exit code tells a script what happened, and the JSON document says  *)
(* the same.  Without a run it is 0, 124 or 125; a limit is reported as    *)
(* the timeout exit code unless --preserve-status; otherwise the command's *)
(* own status is passed on, 128 + n for a signal.  With --json one         *)
(* document is printed for every command line that got as far as the file  *)
(* or the run.  The exit code in it is the program's, but for a command    *)
(* that ended by a signal on its own: there, and only there, it is -1, the *)
(* code such a command does not have (run_main, RunResult::exit_code,      *)
(* print_json_output).                                                     *)
ExitCodeTells ==
  pc = "exit" =>
    /\ code \in 0 .. 255
    /\ result.kind = "none" => out = << >> /\ code \in {0, INTERNAL_ERROR}
    /\ result.kind # "none" => Len(out) = IF "json" \in flags THEN 1 ELSE 0
    /\ result.kind = "Err" =>
         /\ code \in {TIMEOUT, INTERNAL_ERROR, CANNOT_INVOKE, NOT_FOUND}
         /\ code = TIMEOUT => FileWait # NoText /\ result.error = "WaitForFileTimeout"
         /\ result.error = "WaitForFileTimeout" => code = TIMEOUT
    /\ result.kind \in LimitKinds /\ "preserve_status" \notin flags =>
         code = IF Given("timeout_exit_code") = {} THEN TIMEOUT
                ELSE ValueOf(LastGiven("timeout_exit_code")).int
    /\ /\ result.kind \in LimitKinds \cup {"Completed", "SignalForwarded"}
       /\ result.kind \in LimitKinds => "preserve_status" \in flags
       => \/ result.status.signal # Nothing /\ code = 128 + result.status.signal
          \/ result.status.code # Nothing /\ code = result.status.code % 256
          \/ result.status = NoStatus /\ code \in 129 .. 159
    /\ \A k \in DOMAIN out :
         out[k].exit_code = IF result.kind = "Completed" /\ result.status.signal # Nothing
                            THEN Nothing ELSE code

(* With TIMEOUT set, "TIMEOUT=dur cmd arg1 arg2" runs cmd with its         *)
(* arguments (main.rs:117): no word after the command is taken for an      *)
(* option of the program.                                                  *)
EnvCommandVerbatim ==
  Configured /\ RolesIn({"duration"}) # {} /\ target.duration = env.duration =>
    \A d \in RolesIn({"duration"}) : \A k \in DOMAIN role :
      k > d => role[k] \notin {"option", "value"}
=============================================================================
