---------------------------- MODULE CommandLine ----------------------------
(***************************************************************************)
(* The argument parser of args.rs: parse_from_slice, one action for each   *)
(* kind of word its loop meets, and the environment fallbacks of           *)
(* parse_args.                                                             *)
(*                                                                         *)
(* A word has the text a command would receive, and the form the parser    *)
(* sees in it:                                                             *)
(*   separator  --                                                         *)
(*   info       --help, -h, --version, -V                                  *)
(*   exact      a word of the match: --json, -p, -s, --signal,             *)
(*              --signal=KILL, ...                                         *)
(*   cluster    another word with one dash: -pv, -sKILL, -r, -x            *)
(*   number     a dash and a digit: -5                                     *)
(*   long       any other word with two dashes                             *)
(*   plain      everything else, a single dash included                    *)
(* An exact word or a cluster sets flags, and then may set one option: opt *)
(* names it, and val is the value in the word, or NoText when the value is *)
(* the next word.  opt is Unknown for a cluster the parser refuses: a      *)
(* letter it does not know, or h or V among others.                        *)
(***************************************************************************)
EXTENDS Values, FiniteSets

CONSTANTS
  CommandLines,   \* the sequences of words explored
  Environments    \* the environments explored, see EnvType

Flags == {"json", "preserve_status", "foreground", "verbose", "quiet", "stdin_passthrough"}

EnvOptions == {"signal", "kill_after", "wait_for_file", "wait_for_file_timeout", "retry",
               "heartbeat", "stdin_timeout"}
Options == EnvOptions \cup
           {"timeout_exit_code", "on_timeout", "on_timeout_limit", "confine", "retry_delay",
            "retry_backoff", "mem_limit", "cpu_time", "cpu_percent"}

NoOption == "none"
Unknown  == "unknown"

Texts == TextType \cup {NoText}

WordType == [text  : TextType,
             form  : {"separator", "info", "exact", "cluster", "number", "long", "plain"},
             flags : SUBSET Flags,
             opt   : Options \cup {NoOption, Unknown},
             val   : Texts]

\* TIMEOUT is env.duration; NoText: the variable is not set
EnvType == [EnvOptions \cup {"duration"} -> Texts]

ASSUME CommandLineAssumption ==
  /\ \A ws \in CommandLines : ws \in Seq(WordType)
  /\ \A e \in Environments : e \in EnvType

VARIABLES
  words, env,      \* argv[1..] and the environment
  pc,              \* how far the program is
  i,               \* the word the loop is at
  saw_separator,
  flags,           \* the flags that are set
  opts,            \* the value of every option
  duration, command, args,
  role             \* history: what each word read so far was taken for

parsing == <<i, saw_separator, flags, opts, duration, command, args, role>>

\* signal is a String, empty until it is given
Unset == [o \in Options |-> CASE o = "signal" -> Empty
                              [] o = "on_timeout_limit" -> Number(5, "s")
                              [] OTHER -> NoText]

ParseInit ==
  /\ words \in CommandLines /\ env \in Environments
  /\ pc = "parse"
  /\ i = 1
  /\ saw_separator = FALSE
  /\ flags = {} /\ opts = Unset
  /\ duration = NoText /\ command = NoText /\ args = << >>
  /\ role = << >>

-----------------------------------------------------------------------------
AtWord == pc = "parse" /\ i <= Len(words)
Word   == words[i]

ReadsOptions == AtWord /\ ~ saw_separator /\ command = NoText

Advance(roles) == i' = i + Len(roles) /\ role' = role \o roles

\* After the separator, and after the command
CommandWord ==
  /\ AtWord /\ ~ ReadsOptions
  /\ saw_separator \/ Word.form # "separator"
  /\ IF command = NoText
     THEN command' = Word.text /\ Advance(<<"command">>) /\ UNCHANGED args
     ELSE args' = Append(args, Word.text) /\ Advance(<<"arg">>) /\ UNCHANGED command
  /\ UNCHANGED <<words, env, pc, saw_separator, flags, opts, duration>>

\* The first -- is dropped, after the command too
Separator ==
  /\ AtWord /\ ~ saw_separator /\ Word.form = "separator"
  /\ saw_separator' = TRUE
  /\ Advance(<<"separator">>)
  /\ UNCHANGED <<words, env, pc, flags, opts, duration, command, args>>

\* --help and --version leave the program
Info ==
  /\ ReadsOptions /\ Word.form = "info"
  /\ pc' = "info"
  /\ UNCHANGED <<words, env, parsing>>

-----------------------------------------------------------------------------
\* A cluster is one only until the duration is known
IsOption(w) == w.form = "exact" \/ (w.form = "cluster" /\ duration = NoText)

TakesNext(w) == w.opt \notin {NoOption, Unknown} /\ w.val = NoText

ValueOf(k) == IF words[k].val = NoText THEN words[k + 1].text ELSE words[k].val

\* The options that are checked here and not in RunConfig::from_args; the
\* modes of --confine are read in any case
Accepts(o, t) == CASE o = "timeout_exit_code" -> parse_unsigned(t, 255) # Bad
                   [] o = "confine"           -> t \in { Name(s) : s \in {"wall", "Wall", "active", "Active"} }
                   [] OTHER                   -> TRUE

OptionIsGood ==
  /\ Word.opt # Unknown
  /\ TakesNext(Word) => i < Len(words)
  /\ Word.opt # NoOption => Accepts(Word.opt, ValueOf(i))

Option ==
  /\ ReadsOptions /\ IsOption(Word) /\ OptionIsGood
  /\ flags' = flags \cup Word.flags
  /\ opts' = IF Word.opt = NoOption THEN opts ELSE [opts EXCEPT ![Word.opt] = ValueOf(i)]
  /\ Advance(IF TakesNext(Word) THEN <<"option", "value">> ELSE <<"option">>)
  /\ UNCHANGED <<words, env, pc, saw_separator, duration, command, args>>

BadOption ==
  /\ ReadsOptions
  /\ Word.form = "long" \/ (IsOption(Word) /\ ~ OptionIsGood)
  /\ pc' = "refused"
  /\ UNCHANGED <<words, env, parsing>>

\* A plain word, a negative number, and a cluster after the duration
Positional ==
  /\ ReadsOptions
  /\ Word.form \in {"plain", "number", "cluster"} /\ ~ IsOption(Word)
  /\ IF duration = NoText
     THEN duration' = Word.text /\ Advance(<<"duration">>) /\ UNCHANGED command
     ELSE command' = Word.text /\ Advance(<<"command">>) /\ UNCHANGED duration
  /\ UNCHANGED <<words, env, pc, saw_separator, flags, opts, args>>

-----------------------------------------------------------------------------
\* mutation: a variable that is set wins
env_fallback_first(o) ==
  IF o \in EnvOptions /\ env[o] # NoText THEN env[o] ELSE opts[o]

\* CLI > env > default; only an empty TIMEOUT_RETRY counts as unset
env_fallback(o) ==
  CASE o = "signal" /\ opts[o] = Empty ->
         IF env[o] = NoText THEN Name("TERM") ELSE env[o]
    [] o = "retry" /\ opts[o] = NoText ->
         IF env[o] = Empty THEN NoText ELSE env[o]
    [] o \in EnvOptions \ {"signal", "retry"} /\ opts[o] = NoText -> env[o]
    [] OTHER -> opts[o]

Conflict == {"verbose", "quiet"} \subseteq flags

\* The end of the words
Parsed ==
  /\ pc = "parse" /\ i > Len(words) /\ ~ Conflict
  /\ opts' = [o \in Options |-> env_fallback(o)]
  /\ duration' = IF duration = NoText THEN env.duration ELSE duration
  /\ pc' = "parsed"
  /\ UNCHANGED <<words, env, i, saw_separator, flags, command, args, role>>

Conflicting ==
  /\ pc = "parse" /\ i > Len(words) /\ Conflict
  /\ pc' = "refused"
  /\ UNCHANGED <<words, env, parsing>>

ParseNext ==
  \/ CommandWord \/ Separator
  \/ Info \/ Option \/ BadOption \/ Positional
  \/ Parsed \/ Conflicting
=============================================================================
