------------------------------- MODULE MCMain -------------------------------
(***************************************************************************)
(* Command lines for TLC: every sequence of up to three of a few words     *)
(* that cover the forms the parser knows, and longer ones built around a   *)
(* command, an option or a number, so that every option and every shape of *)
(* number is reached.                                                      *)
(***************************************************************************)
EXTENDS Main

Plain(t) == [text |-> t, form |-> "plain", flags |-> {}, opt |-> NoOption, val |-> NoText]
Dashed(s, form) == [Plain(Name(s)) EXCEPT !.form = form]
Flag(s, F) == [Dashed(s, "exact") EXCEPT !.flags = F]
Takes(s, o) == [Dashed(s, "exact") EXCEPT !.opt = o]
Inline(o, v) == [Dashed("--opt=v", "exact") EXCEPT !.opt = o, !.val = v]

Five == Plain(Number(5, "s"))
Cmd  == Plain(Name("cmd"))
Sep  == Dashed("--", "separator")

\* -5, -v, -pv, -q, -s, -psKILL, -r, -x, --frob, --help
ShortWords ==
  { Five, Cmd, Sep,
    [Plain([Number(5, "") EXCEPT !.sign = "-"]) EXCEPT !.form = "number"],
    Flag("-v", {"verbose"}), Flag("-q", {"quiet"}),
    [Dashed("-pv", "cluster") EXCEPT !.flags = {"preserve_status", "verbose"}],
    Takes("-s", "signal"),
    [Dashed("-psKILL", "cluster") EXCEPT !.flags = {"preserve_status"}, !.opt = "signal",
                                         !.val = Name("KILL")],
    [Dashed("-r", "cluster") EXCEPT !.opt = "retry"],
    [Dashed("-x", "cluster") EXCEPT !.opt = Unknown],
    Dashed("--frob", "long"), Dashed("--help", "info") }

Tuples(S, n) == UNION { [1 .. k -> S] : k \in 0 .. n }

Fractions == Tuples({0, 4, 9}, 3) \cup {<<NoDigit, 4>>, <<4, NoDigit, 9>>, <<4, 9, NoDigit, 4>>}
NumberTexts ==
  { [Decimal(n, f, u) EXCEPT !.dot = d, !.sign = s] :
      n \in {Nothing, 0, 7, 300}, f \in Fractions, u \in {"", "ms", "m", "w"},
      d \in {TRUE}, s \in {"", "+"} }
    \cup { Number(n, u) : n \in {0, 1, 7, 12, 300, 30000}, u \in {"", "ms", "m", "x", "k", "kb"} }
    \cup { Name("SIGTERM"), Name("IOT"), Name("nosuch"), Empty }

Json == Flag("--json", {"json"})
Optional(S) == {<< >>} \cup { <<w>> : w \in S }

ValueTexts == { Number(0, ""), Number(2, "x"), Number(7, ""), Number(3, "k"), Number(300, ""),
                Decimal(1, <<5>>, "m"), Name("SIGTERM"), Name("active"), Name("nosuch"), Empty }

Lines ==
  Tuples(ShortWords, 3)
    \cup { p \o t : p \in {<<Five, Cmd>>, <<Cmd>>},
                    t \in Tuples({Sep, Cmd, Flag("-v", {"verbose"}), Takes("-s", "signal")}, 4) }
    \cup { <<d, Cmd>> : d \in { Plain(t) : t \in NumberTexts } }
    \cup { <<w, Inline(o, v), Takes("--opt", o), Plain(v), Five, Cmd, Sep, Sep>> :
             w \in {Json, Flag("--stdin-passthrough", {"stdin_passthrough"})},
             o \in Options, v \in ValueTexts }
    \cup { j \o p \o <<Inline("timeout_exit_code", Number(n, ""))>> \o f \o <<Five, Cmd>> :
             j \in Optional({Json}), p \in Optional({Flag("-p", {"preserve_status"})}),
             n \in {0, 125, 300},
             f \in Optional({Inline("wait_for_file", Name("f"))}) }

NoEnv == [o \in EnvOptions \cup {"duration"} |-> NoText]
Envs == { NoEnv,
          [NoEnv EXCEPT !.duration = Number(9, "")],
          [NoEnv EXCEPT !.duration = Name("soon"), !.retry = Empty, !.signal = Name("IOT")],
          [NoEnv EXCEPT !.retry = Number(1, ""), !.kill_after = Number(0, ""),
                        !.wait_for_file = Name("f"), !.wait_for_file_timeout = Number(1, "ms"),
                        !.heartbeat = Number(1, "m"), !.stdin_timeout = Number(3, "")] }

Units    == [s |-> 100, ms |-> 7, m |-> 600]
UnitsOf  == [u \in {"", "s", "ms", "m"} |-> IF u = "" THEN 100 ELSE Units[u]]
MemUnits == [u \in {"", "b", "k", "kb", "m"} |-> CASE u \in {"", "b"} -> 1 [] u = "m" -> 64 [] OTHER -> 8]

Ended == { [signal |-> Nothing, code |-> 0], [signal |-> Nothing, code |-> 3],
           [signal |-> 9, code |-> Nothing] }
=============================================================================
