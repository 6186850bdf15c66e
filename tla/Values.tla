------------------------------- MODULE Values -------------------------------
(***************************************************************************)
(* What the words of a command line denote: parse_duration of duration.rs, *)
(* parse_mem_limit and parse_cpu_percent of rlimit.rs, parse_signal of     *)
(* signal.rs, and the integer parses of args.rs and runner.rs.             *)
(*                                                                         *)
(* Of a text only its shape is kept: an optional sign, an integer part, a  *)
(* fraction, and what follows the number.  Numbers are scaled down: a      *)
(* fraction has FracDigits digits where the code keeps nine, and a u64 and *)
(* a u128 end at U64Max and U128Max.  Bad stands for an Err, Nothing for a *)
(* None.                                                                   *)
(***************************************************************************)
EXTENDS Integers, Sequences

CONSTANTS
  FracDigits,     \* digits of a fraction that count: 9 in the code
  Multiplier,     \* suffix |-> nanoseconds in the unit (lower case)
  MemMultiplier,  \* suffix |-> bytes in the unit (lower case)
  U32Max, U64Max, U128Max

\* What c and the first n of the digits s are as a number, padded with zeros
Numeral(c, s) ==
  LET v[n \in Nat] == IF n = 0 THEN c ELSE 10 * v[n - 1] + (IF n <= Len(s) THEN s[n] ELSE 0)
  IN  v

PowerOf10(n) == Numeral(1, << >>)[n]

Scale == PowerOf10(FracDigits)   \* one, in fixed point; also the nanoseconds in a second

ASSUME ValuesAssumption ==
  /\ FracDigits \in Nat \ {0}
  /\ \A u \in DOMAIN Multiplier : Multiplier[u] \in Nat \ {0}
  /\ \A u \in DOMAIN MemMultiplier : MemMultiplier[u] \in Nat \ {0}
  /\ "" \in DOMAIN Multiplier /\ Multiplier[""] = Scale
  /\ U32Max \in Nat /\ U64Max \in Nat /\ U128Max \in Nat
  /\ U128Max \div Scale > U64Max

Bad     == -2
Nothing == -1

NoDigit == 10     \* a character after the point that is no digit

\* int is Nothing when the text has no digit before the point
TextType == [sign : {"", "+", "-"}, int : Nat \cup {Nothing}, dot : BOOLEAN,
             frac : Seq(0 .. NoDigit), suffix : STRING]

Name(s)      == [sign |-> "", int |-> Nothing, dot |-> FALSE, frac |-> << >>, suffix |-> s]
Number(n, s) == [Name(s) EXCEPT !.int = n]
Decimal(n, f, s) == [Number(n, s) EXCEPT !.dot = TRUE, !.frac = f]
NoText == [Name("") EXCEPT !.sign = "none"]   \* an Option<String> that is None
Empty  == Name("")

\* str::parse of an unsigned integer of the given maximum
parse_unsigned(t, max) ==
  IF t.int = Nothing \/ t.dot \/ t.sign = "-" \/ t.suffix # "" \/ t.int > max
  THEN Bad ELSE t.int

-----------------------------------------------------------------------------
\* The first n digits of f as a number, padded with zeros
Digits(f, n) == Numeral(0, f)[n]

\* mutation: the digits after the point are not padded
Digits_unpadded(f) == Digits(f, IF Len(f) < FracDigits THEN Len(f) ELSE FracDigits)

frac_val(f) == Digits(f, FracDigits)

\* Fixed point with FracDigits decimals; Bad for a negative, an empty, an
\* overflowing or no number.  What follows the last place that counts is not
\* looked at: 1.000000000x5s is one second.
parse_decimal_to_nanos(t) ==
  LET nanos == (IF t.int = Nothing THEN 0 ELSE t.int) * Scale + frac_val(t.frac)
  IN  IF \/ t.sign = "-"
         \/ t.int = Nothing /\ t.frac = << >>
         \/ t.int = Nothing /\ t.sign = "+"
         \/ \E k \in DOMAIN t.frac : k <= FracDigits /\ t.frac[k] = NoDigit
         \/ nanos > U128Max
      THEN Bad ELSE nanos

parse_duration(t) ==
  LET nanos == parse_decimal_to_nanos(t)
  IN  IF nanos = Bad \/ t.suffix \notin DOMAIN Multiplier THEN Bad
      ELSE IF nanos * Multiplier[t.suffix] > U128Max THEN Bad
      ELSE IF (nanos * Multiplier[t.suffix]) \div Scale > U64Max THEN Bad
      ELSE (nanos * Multiplier[t.suffix]) \div Scale

is_no_timeout(d) == d = 0

-----------------------------------------------------------------------------
parse_mem_limit(t) ==
  IF t.int = Nothing \/ t.dot \/ t.sign # "" \/ t.int > U64Max \/ t.suffix \notin DOMAIN MemMultiplier
  THEN Bad
  ELSE IF t.int * MemMultiplier[t.suffix] > U64Max THEN Bad
  ELSE t.int * MemMultiplier[t.suffix]

parse_cpu_percent(t) ==
  IF parse_unsigned(t, U32Max) = 0 THEN Bad ELSE parse_unsigned(t, U32Max)

\* trim_end_matches('x') and then ('X'); the result is at least 1
parse_backoff(t) ==
  LET n == parse_unsigned([t EXCEPT !.suffix = ""], U32Max)
  IN  IF n = Bad \/ t.suffix \notin {"", "x", "xx", "X", "Xx"} THEN Bad
      ELSE IF n = 0 THEN 1 ELSE n

-----------------------------------------------------------------------------
\* The signals of the enum Signal, by number on Darwin
SignalNumber ==
  [HUP |-> 1, INT |-> 2, QUIT |-> 3, ILL |-> 4, TRAP |-> 5, ABRT |-> 6, FPE |-> 8,
   KILL |-> 9, BUS |-> 10, SEGV |-> 11, SYS |-> 12, PIPE |-> 13, ALRM |-> 14, TERM |-> 15,
   URG |-> 16, STOP |-> 17, TSTP |-> 18, CONT |-> 19, CHLD |-> 20, TTIN |-> 21, TTOU |-> 22,
   IO |-> 23, XCPU |-> 24, XFSZ |-> 25, VTALRM |-> 26, PROF |-> 27, WINCH |-> 28,
   USR1 |-> 30, USR2 |-> 31]

\* The SIG prefix and the case are ignored, and IOT is ABRT: the spellings explored
SignalName(s) == CASE s \in {"SIGTERM", "term", "sigterm"} -> "TERM"
                   [] s \in {"SIGKILL", "kill"}            -> "KILL"
                   [] s \in {"IOT", "SIGIOT"}              -> "ABRT"
                   [] OTHER                                -> s

try_from_raw(n) == IF \E s \in DOMAIN SignalNumber : SignalNumber[s] = n THEN n ELSE Bad

\* A number first, then a name
parse_signal(t) ==
  IF t.int # Nothing /\ ~ t.dot /\ t.suffix = ""
  THEN IF t.sign = "-" THEN Bad ELSE try_from_raw(t.int)
  ELSE IF t.int = Nothing /\ t.sign = "" /\ SignalName(t.suffix) \in DOMAIN SignalNumber
       THEN SignalNumber[SignalName(t.suffix)] ELSE Bad
=============================================================================
