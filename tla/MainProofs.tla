----------------------------- MODULE MainProofs -----------------------------
(***************************************************************************)
(* Proofs about Main, for every set of command lines and environments:     *)
(* where the settings of a run come from (SettingsPrecedence), what the    *)
(* exit code says (ExitCodeTells), which words the command gets            *)
(* (WordsReachCommand) and what a duration is worth (DurationExact).       *)
(***************************************************************************)
EXTENDS Main, FiniteSetTheorems, WellFoundedInduction, TLAPS

Roles == {"separator", "option", "value", "duration", "command", "arg"}
Pcs   == {"parse", "info", "refused", "parsed", "config", "file", "run", "exit"}

ParseTypes ==
  /\ words \in Seq(WordType)
  /\ env \in EnvType
  /\ pc \in Pcs
  /\ i \in Nat
  /\ DOMAIN opts = Options
  /\ role \in Seq(Roles)
  /\ i = Len(role) + 1
  /\ Len(role) <= Len(words)

(* What a word sets is a text: the value of an option that takes the next  *)
(* word is never beyond the words, and the parser has checked it.          *)
ValuesGiven ==
  \A o \in Options : \A k \in Given(o) : ValueOf(k) \in TextType /\ Accepts(o, ValueOf(k))

IsLast(o, k) == k \in Given(o) /\ \A l \in Given(o) : l <= k

(* v is what the words alone give to the option o.                         *)
Raw(o, v) == IF Given(o) = {} THEN v = Unset[o]
             ELSE \E k \in Given(o) : IsLast(o, k) /\ v = ValueOf(k)

Offered(o) == {Unset[o]} \cup { ValueOf(k) : k \in Given(o) }

(* env_fallback of an option that the words gave v.                        *)
Fallback(o, v) ==
  CASE o = "signal" /\ v = Empty -> IF env[o] = NoText THEN Name("TERM") ELSE env[o]
    [] o = "retry" /\ v = NoText -> IF env[o] = Empty THEN NoText ELSE env[o]
    [] o \in EnvOptions \ {"signal", "retry"} /\ v = NoText -> env[o]
    [] OTHER -> v

Confined(o, t) == IF o = "confine" /\ alias /\ t = NoText THEN Name("active") ELSE t

(* The command line has been turned into settings.                         *)
Settled == Resolved \/ (pc = "exit" /\ result # NoResult)

OptsRead    == pc = "parse"  => \A o \in Options : Raw(o, opts[o])
OptsParsed  == pc = "parsed" => \A o \in Options :
                 \E v \in Offered(o) : Raw(o, v) /\ opts[o] = Fallback(o, v)
OptsSettled == Settled => \A o \in Options :
                 \E v \in Offered(o) : Raw(o, v) /\ opts[o] = Confined(o, Fallback(o, v))

FlagsRead == flags = UNION { words[k].flags : k \in RolesIn({"option"}) }

(* The positional words that were read are in duration and command.        *)
PositionsRead ==
  /\ pc = "parse" => (duration = NoText <=> RolesIn({"duration"}) = {})
  /\ pc = "parsed" /\ RolesIn({"duration"}) = {} => duration = env.duration
  /\ pc \in {"parse", "parsed"} => \A d \in RolesIn({"duration"}) : duration = words[d].text
  /\ command = NoText <=> RolesIn({"command"}) = {}

LimitChosen ==
  Resolved =>
    LET D == RolesIn({"duration"})
    IN  IF \E d \in D : RolesIn({"command"}) # {} /\ parse_duration(words[d].text) # Bad
        THEN target.duration \in { words[d].text : d \in D }
        ELSE target.duration = env.duration \/ env.duration = NoText

BeforeExit == pc # "exit" => result = NoResult

SettingsInv ==
  /\ ParseTypes /\ ValuesGiven
  /\ OptsRead /\ OptsParsed /\ OptsSettled
  /\ FlagsRead /\ PositionsRead /\ LimitChosen /\ BeforeExit

-----------------------------------------------------------------------------
(* Facts about texts and words.                                            *)

LEMMA NoTextIsNone == NoText \notin TextType /\ NoText \in Texts /\ TextType \subseteq Texts
  BY DEF NoText, Name, TextType, Texts

LEMMA NamesAreTexts == ASSUME NEW s PROVE Name(s) # NoText
  BY DEF Name, NoText

LEMMA WordFacts ==
  ASSUME NEW w \in WordType
  PROVE  /\ w.text \in TextType /\ w.text # NoText
         /\ w.flags \in SUBSET Flags
         /\ w.opt \in Options \cup {NoOption, Unknown}
         /\ w.val \in Texts
  <1>1. w.text \in TextType /\ w.flags \in SUBSET Flags /\ w.val \in Texts
        /\ w.opt \in Options \cup {NoOption, Unknown}
    BY DEF WordType
  <1> QED BY <1>1, NoTextIsNone

LEMMA OptionNames == NoOption \notin Options /\ Unknown \notin Options /\ NoOption # Unknown
  BY DEF NoOption, Unknown, Options, EnvOptions

(* Appending roles keeps the earlier ones.                                 *)
LEMMA Append1 ==
  ASSUME NEW s \in Seq(Roles), NEW r \in Roles
  PROVE  /\ s \o <<r>> \in Seq(Roles) /\ Len(s \o <<r>>) = Len(s) + 1
         /\ DOMAIN (s \o <<r>>) = DOMAIN s \cup {Len(s) + 1}
         /\ \A k \in DOMAIN s : (s \o <<r>>)[k] = s[k]
         /\ (s \o <<r>>)[Len(s) + 1] = r
  OBVIOUS

LEMMA Append2 ==
  ASSUME NEW s \in Seq(Roles)
  PROVE  LET t == s \o <<"option", "value">>
         IN  /\ t \in Seq(Roles) /\ Len(t) = Len(s) + 2
             /\ DOMAIN t = DOMAIN s \cup {Len(s) + 1, Len(s) + 2}
             /\ \A k \in DOMAIN s : t[k] = s[k]
             /\ t[Len(s) + 1] = "option" /\ t[Len(s) + 2] = "value"
  BY DEF Roles

-----------------------------------------------------------------------------
(* What a step that reads words does to the roles.                         *)
Reads1(r) == r \in Roles /\ role' = role \o <<r>> /\ i' = i + 1

LEMMA Roles1 ==
  ASSUME ParseTypes, NEW r, Reads1(r)
  PROVE  /\ role' \in Seq(Roles) /\ Len(role') = Len(role) + 1
         /\ i \notin DOMAIN role
         /\ \A S : RolesIn(S)' = IF r \in S THEN RolesIn(S) \cup {i} ELSE RolesIn(S)
  <1>1. role \in Seq(Roles) /\ i = Len(role) + 1 /\ r \in Roles /\ role' = role \o <<r>>
    BY DEF ParseTypes, Reads1
  <1>2. /\ role' \in Seq(Roles) /\ Len(role') = Len(role) + 1
        /\ DOMAIN role' = DOMAIN role \cup {i}
        /\ \A k \in DOMAIN role : role'[k] = role[k]
        /\ role'[i] = r
    BY <1>1, Append1
  <1>3. i \notin DOMAIN role
    BY <1>1
  <1>4. ASSUME NEW S
        PROVE  RolesIn(S)' = IF r \in S THEN RolesIn(S) \cup {i} ELSE RolesIn(S)
    BY <1>2, <1>3 DEF RolesIn
  <1> QED BY <1>2, <1>3, <1>4

LEMMA Roles2 ==
  ASSUME ParseTypes, role' = role \o <<"option", "value">>
  PROVE  /\ role' \in Seq(Roles) /\ Len(role') = Len(role) + 2
         /\ i \notin DOMAIN role
         /\ RolesIn({"option"})' = RolesIn({"option"}) \cup {i}
         /\ \A S : "option" \notin S /\ "value" \notin S => RolesIn(S)' = RolesIn(S)
  <1>1. role \in Seq(Roles) /\ i = Len(role) + 1
    BY DEF ParseTypes
  <1>2. /\ role' \in Seq(Roles) /\ Len(role') = Len(role) + 2
        /\ DOMAIN role' = DOMAIN role \cup {i, i + 1}
        /\ \A k \in DOMAIN role : role'[k] = role[k]
        /\ role'[i] = "option" /\ role'[i + 1] = "value"
    BY <1>1, Append2
  <1>3. i \notin DOMAIN role
    BY <1>1
  <1>4. RolesIn({"option"})' = RolesIn({"option"}) \cup {i}
    BY <1>2, <1>3 DEF RolesIn
  <1>5. ASSUME NEW S, "option" \notin S, "value" \notin S
        PROVE  RolesIn(S)' = RolesIn(S)
    BY <1>2, <1>3, <1>5 DEF RolesIn
  <1> QED BY <1>2, <1>3, <1>4, <1>5

-----------------------------------------------------------------------------
(* A step that reads no option changes nothing in what the options are     *)
(* given.                                                                  *)
SameOptions == words' = words /\ RolesIn({"option"})' = RolesIn({"option"})

LEMMA GivenKept ==
  ASSUME SameOptions, NEW o
  PROVE  /\ Given(o)' = Given(o)
         /\ \A k : ValueOf(k)' = ValueOf(k)
         /\ \A v : Raw(o, v)' <=> Raw(o, v)
         /\ Offered(o)' = Offered(o)
  <1>1. Given(o)' = Given(o)
    BY DEF SameOptions, Given
  <1>2. \A k : ValueOf(k)' = ValueOf(k)
    BY DEF SameOptions, ValueOf
  <1>3. \A v : Raw(o, v)' <=> Raw(o, v)
    BY <1>1, <1>2 DEF Raw, IsLast
  <1>4. Offered(o)' = Offered(o)
    BY <1>1, <1>2 DEF Offered
  <1> QED BY <1>1, <1>2, <1>3, <1>4

LEMMA ValuesKept ==
  ASSUME ValuesGiven, SameOptions
  PROVE  ValuesGiven'
  <1> SUFFICES ASSUME NEW o \in Options, NEW k \in Given(o)'
               PROVE  ValueOf(k)' \in TextType /\ Accepts(o, ValueOf(k)')
    BY DEF ValuesGiven
  <1>1. k \in Given(o) /\ ValueOf(k)' = ValueOf(k)
    BY GivenKept
  <1> QED BY <1>1 DEF ValuesGiven

LEMMA FlagsKept ==
  ASSUME FlagsRead, SameOptions, flags' = flags
  PROVE  FlagsRead'
  BY DEF FlagsRead, SameOptions

LEMMA OptsReadKept ==
  ASSUME OptsRead, SameOptions, opts' = opts, pc' = "parse" => pc = "parse"
  PROVE  OptsRead'
  <1> SUFFICES ASSUME pc' = "parse", NEW o \in Options
               PROVE  Raw(o, opts[o])'
    BY DEF OptsRead
  <1>1. Raw(o, opts[o])
    BY DEF OptsRead
  <1>2. Given(o)' = Given(o) /\ (\A k : ValueOf(k)' = ValueOf(k))
    BY GivenKept
  <1> QED BY <1>1, <1>2 DEF Raw, IsLast

LEMMA OptsLaterKept ==
  ASSUME OptsParsed, OptsSettled, SameOptions,
         UNCHANGED <<opts, env, alias>>,
         pc' = "parsed" => pc = "parsed",
         Settled' => Settled
  PROVE  OptsParsed' /\ OptsSettled'
  <1>1. ASSUME pc' = "parsed", NEW o \in Options
        PROVE  \E v \in Offered(o)' : Raw(o, v)' /\ opts'[o] = Fallback(o, v)'
    <2>1. PICK v \in Offered(o) : Raw(o, v) /\ opts[o] = Fallback(o, v)
      BY <1>1 DEF OptsParsed
    <2>2. v \in Offered(o)' /\ Raw(o, v)'
      BY <2>1, GivenKept
    <2>3. Fallback(o, v)' = Fallback(o, v)
      BY DEF Fallback
    <2> QED BY <2>1, <2>2, <2>3
  <1>2. ASSUME Settled', NEW o \in Options
        PROVE  \E v \in Offered(o)' : Raw(o, v)' /\ opts'[o] = Confined(o, Fallback(o, v))'
    <2>1. PICK v \in Offered(o) : Raw(o, v) /\ opts[o] = Confined(o, Fallback(o, v))
      BY <1>2 DEF OptsSettled
    <2>2. v \in Offered(o)' /\ Raw(o, v)'
      BY <2>1, GivenKept
    <2>3. Confined(o, Fallback(o, v))' = Confined(o, Fallback(o, v))
      BY DEF Fallback, Confined
    <2> QED BY <2>1, <2>2, <2>3
  <1>3. OptsParsed'
    BY <1>1 DEF OptsParsed
  <1> QED BY <1>2, <1>3 DEF OptsSettled

(* A step after which the program is no nearer to its settings.            *)
LEMMA KeptStep ==
  ASSUME SettingsInv, UNCHANGED <<words, env, parsing, alias, target>>, pc' \in Pcs,
         pc' \in {"parse", "parsed"} => pc' = pc,
         Settled' => Settled, Resolved' => Resolved, BeforeExit'
  PROVE  SettingsInv'
  <1> USE DEF SettingsInv
  <1>0. UNCHANGED <<i, saw_separator, flags, opts, duration, command, args, role>>
    BY DEF parsing
  <1>1. SameOptions
    BY <1>0 DEF SameOptions, RolesIn
  <1>2. ParseTypes'
    BY <1>0 DEF ParseTypes
  <1>3. ValuesGiven' /\ FlagsRead' /\ OptsRead'
    BY <1>0, <1>1, ValuesKept, FlagsKept, OptsReadKept
  <1>4. OptsParsed' /\ OptsSettled'
    BY <1>0, <1>1, OptsLaterKept
  <1>5. PositionsRead'
    BY <1>0 DEF PositionsRead, RolesIn
  <1>6. LimitChosen'
    BY <1>0 DEF LimitChosen, RolesIn
  <1> QED BY <1>2, <1>3, <1>4, <1>5, <1>6

-----------------------------------------------------------------------------
(* One word that is not an option.                                         *)
LEMMA WordStep ==
  ASSUME SettingsInv, AtWord, NEW r \in Roles \ {"option"}, Reads1(r),
         UNCHANGED <<words, env, pc, flags, opts, alias, target, result>>,
         PositionsRead'
  PROVE  SettingsInv'
  <1> USE DEF SettingsInv
  <1>1. pc = "parse" /\ pc' = "parse" /\ i <= Len(words)
    BY DEF AtWord
  <1>2. /\ role' \in Seq(Roles) /\ Len(role') = Len(role) + 1
        /\ RolesIn({"option"})' = RolesIn({"option"})
    BY Roles1
  <1>3. ParseTypes'
    BY <1>1, <1>2 DEF ParseTypes, Reads1
  <1>4. SameOptions
    BY <1>2 DEF SameOptions
  <1>5. ValuesGiven' /\ FlagsRead' /\ OptsRead'
    BY <1>1, <1>4, ValuesKept, FlagsKept, OptsReadKept
  <1>6. OptsParsed' /\ OptsSettled' /\ LimitChosen'
    BY <1>1 DEF OptsParsed, OptsSettled, LimitChosen, Settled, Resolved
  <1>7. BeforeExit'
    BY <1>1 DEF BeforeExit
  <1> QED BY <1>3, <1>5, <1>6, <1>7

(* The word the loop is at.                                                *)
LEMMA AtAWord ==
  ASSUME ParseTypes, AtWord
  PROVE  i \in 1 .. Len(words) /\ Word \in WordType /\ Word.text # NoText
  <1>1. i \in 1 .. Len(words)
    BY DEF ParseTypes, AtWord
  <1>2. Word \in WordType
    BY <1>1 DEF ParseTypes, Word
  <1> QED BY <1>1, <1>2, WordFacts

LEMMA SeparatorKeeps ==
  ASSUME SettingsInv, Separator, UNCHANGED <<alias, target, config, result, out, code>>
  PROVE  SettingsInv'
  <1>1. Reads1("separator") /\ AtWord
    BY DEF Separator, Advance, Reads1, Roles
  <1>2. /\ RolesIn({"duration"})' = RolesIn({"duration"})
        /\ RolesIn({"command"})' = RolesIn({"command"})
    BY <1>1, Roles1 DEF SettingsInv
  <1>3. PositionsRead'
    BY <1>2 DEF SettingsInv, PositionsRead, Separator
  <1> QED BY <1>1, <1>3, WordStep DEF Separator, Roles

LEMMA CommandWordKeeps ==
  ASSUME SettingsInv, CommandWord, UNCHANGED <<alias, target, config, result, out, code>>
  PROVE  SettingsInv'
  <1>0. AtWord /\ UNCHANGED <<words, env, pc, flags, opts, duration>>
    BY DEF CommandWord
  <1>1. CASE command = NoText
    <2>1. Reads1("command") /\ command' = Word.text
      BY <1>1 DEF CommandWord, Advance, Reads1, Roles
    <2>2. /\ RolesIn({"duration"})' = RolesIn({"duration"})
          /\ RolesIn({"command"})' = RolesIn({"command"}) \cup {i}
      BY <2>1, Roles1 DEF SettingsInv
    <2>3. command' # NoText
      BY <2>1, <1>0, AtAWord DEF SettingsInv
    <2>4. PositionsRead'
      BY <1>0, <2>2, <2>3 DEF SettingsInv, PositionsRead
    <2> QED BY <1>0, <2>1, <2>4, WordStep DEF Roles
  <1>2. CASE command # NoText
    <2>1. Reads1("arg") /\ command' = command
      BY <1>2 DEF CommandWord, Advance, Reads1, Roles
    <2>2. /\ RolesIn({"duration"})' = RolesIn({"duration"})
          /\ RolesIn({"command"})' = RolesIn({"command"})
      BY <2>1, Roles1 DEF SettingsInv
    <2>3. PositionsRead'
      BY <1>0, <2>1, <2>2 DEF SettingsInv, PositionsRead
    <2> QED BY <1>0, <2>1, <2>3, WordStep DEF Roles
  <1> QED BY <1>1, <1>2

LEMMA PositionalKeeps ==
  ASSUME SettingsInv, Positional, UNCHANGED <<alias, target, config, result, out, code>>
  PROVE  SettingsInv'
  <1>0. AtWord /\ pc = "parse" /\ UNCHANGED <<words, env, pc, flags, opts>>
    BY DEF Positional, ReadsOptions, AtWord
  <1>1. CASE duration = NoText
    <2>1. Reads1("duration") /\ duration' = Word.text /\ command' = command
      BY <1>1 DEF Positional, Advance, Reads1, Roles
    <2>2. /\ RolesIn({"duration"})' = RolesIn({"duration"}) \cup {i}
          /\ RolesIn({"command"})' = RolesIn({"command"})
      BY <2>1, Roles1 DEF SettingsInv
    <2>3. duration' # NoText /\ RolesIn({"duration"}) = {}
      BY <1>0, <1>1, <2>1, AtAWord DEF SettingsInv, PositionsRead
    <2>4. PositionsRead'
      BY <1>0, <2>1, <2>2, <2>3 DEF SettingsInv, PositionsRead, Word
    <2> QED BY <1>0, <2>1, <2>4, WordStep DEF Roles
  <1>2. CASE duration # NoText
    <2>1. Reads1("command") /\ command' = Word.text /\ duration' = duration
      BY <1>2 DEF Positional, Advance, Reads1, Roles
    <2>2. /\ RolesIn({"duration"})' = RolesIn({"duration"})
          /\ RolesIn({"command"})' = RolesIn({"command"}) \cup {i}
      BY <2>1, Roles1 DEF SettingsInv
    <2>3. command' # NoText
      BY <2>1, <1>0, AtAWord DEF SettingsInv
    <2>4. PositionsRead'
      BY <1>0, <2>1, <2>2, <2>3 DEF SettingsInv, PositionsRead
    <2> QED BY <1>0, <2>1, <2>4, WordStep DEF Roles
  <1> QED BY <1>1, <1>2

-----------------------------------------------------------------------------
(* An option word: the newest of the words that give its option.           *)
LEMMA OptionReads ==
  ASSUME ParseTypes, Option
  PROVE  /\ role' \in Seq(Roles) /\ Len(role') <= Len(words) /\ i' = Len(role') + 1
         /\ RolesIn({"option"})' = RolesIn({"option"}) \cup {i}
         /\ RolesIn({"duration"})' = RolesIn({"duration"})
         /\ RolesIn({"command"})' = RolesIn({"command"})
         /\ \A k \in RolesIn({"option"}) : k < i
  <1>0. AtWord /\ i \in 1 .. Len(words) /\ i = Len(role) + 1 /\ role \in Seq(Roles)
    BY AtAWord DEF Option, ReadsOptions, ParseTypes
  <1>1. \A k \in RolesIn({"option"}) : k < i
    BY <1>0 DEF RolesIn
  <1>2. CASE TakesNext(Word)
    <2>1. role' = role \o <<"option", "value">> /\ i' = i + 2 /\ i < Len(words)
      BY <1>2 DEF Option, OptionIsGood, Advance
    <2>2. /\ role' \in Seq(Roles) /\ Len(role') = Len(role) + 2
          /\ RolesIn({"option"})' = RolesIn({"option"}) \cup {i}
          /\ RolesIn({"duration"})' = RolesIn({"duration"})
          /\ RolesIn({"command"})' = RolesIn({"command"})
      BY <2>1, Roles2
    <2> QED BY <1>0, <1>1, <2>1, <2>2
  <1>3. CASE ~ TakesNext(Word)
    <2>1. Reads1("option")
      BY <1>3 DEF Option, Advance, Reads1, Roles
    <2>2. /\ role' \in Seq(Roles) /\ Len(role') = Len(role) + 1
          /\ RolesIn({"option"})' = RolesIn({"option"}) \cup {i}
          /\ RolesIn({"duration"})' = RolesIn({"duration"})
          /\ RolesIn({"command"})' = RolesIn({"command"})
      BY <2>1, Roles1
    <2> QED BY <1>0, <1>1, <2>1, <2>2 DEF Reads1
  <1> QED BY <1>2, <1>3

LEMMA OptionValue ==
  ASSUME ParseTypes, Option, Word.opt # NoOption
  PROVE  Word.opt \in Options /\ ValueOf(i) \in TextType /\ Accepts(Word.opt, ValueOf(i))
  <1>0. i \in 1 .. Len(words) /\ Word \in WordType /\ Word.opt # Unknown
    BY AtAWord DEF Option, ReadsOptions, OptionIsGood
  <1>1. Word.opt \in Options /\ Word.val \in Texts
    BY <1>0, WordFacts
  <1>2. CASE Word.val = NoText
    <2>1. i < Len(words)
      BY <1>0, <1>2 DEF Option, OptionIsGood, TakesNext
    <2>2. words[i + 1] \in WordType
      BY <1>0, <2>1 DEF ParseTypes
    <2>3. ValueOf(i) = words[i + 1].text
      BY <1>2 DEF ValueOf, Word
    <2>4. ValueOf(i) \in TextType
      BY <2>2, <2>3, WordFacts
    <2> QED BY <1>1, <2>4 DEF Option, OptionIsGood
  <1>3. CASE Word.val # NoText
    <2>1. ValueOf(i) = Word.val
      BY <1>3 DEF ValueOf, Word
    <2>2. ValueOf(i) \in TextType
      BY <1>1, <1>3, <2>1 DEF Texts
    <2> QED BY <1>1, <2>2 DEF Option, OptionIsGood
  <1> QED BY <1>2, <1>3

LEMMA OptionGiven ==
  ASSUME ParseTypes, Option, NEW o \in Options
  PROVE  /\ Given(o)' = IF Word.opt = o THEN Given(o) \cup {i} ELSE Given(o)
         /\ \A k \in Given(o) : k < i /\ k \in Nat
         /\ \A k : ValueOf(k)' = ValueOf(k)
  <1>1. words' = words
    BY DEF Option
  <1>2. Given(o)' = IF Word.opt = o THEN Given(o) \cup {i} ELSE Given(o)
    BY <1>1, OptionReads DEF Given, Word
  <1>3. \A k \in Given(o) : k < i
    BY OptionReads DEF Given
  <1>4. \A k \in Given(o) : k \in Nat
    BY DEF Given, RolesIn, ParseTypes
  <1>5. \A k : ValueOf(k)' = ValueOf(k)
    BY <1>1 DEF ValueOf
  <1> QED BY <1>2, <1>3, <1>4, <1>5

LEMMA OptionKeeps ==
  ASSUME SettingsInv, Option, UNCHANGED <<alias, target, config, result, out, code>>
  PROVE  SettingsInv'
  <1>0. ParseTypes /\ pc = "parse" /\ UNCHANGED <<words, env, pc, duration, command>>
    BY DEF SettingsInv, Option, ReadsOptions, AtWord
  <1>1. ParseTypes'
    <2>1. DOMAIN opts' = Options
      BY <1>0 DEF ParseTypes, Option
    <2> QED BY <1>0, <2>1, OptionReads DEF ParseTypes
  <1>2. ValuesGiven'
    <2> SUFFICES ASSUME NEW o \in Options, NEW k \in Given(o)'
                 PROVE  ValueOf(k)' \in TextType /\ Accepts(o, ValueOf(k)')
      BY DEF ValuesGiven
    <2>1. ValueOf(k)' = ValueOf(k)
      BY <1>0, OptionGiven
    <2>2. CASE k \in Given(o)
      BY <2>1, <2>2 DEF SettingsInv, ValuesGiven
    <2>3. CASE k \notin Given(o)
      <3>1. k = i /\ Word.opt = o
        BY <1>0, <2>3, OptionGiven
      <3> QED BY <1>0, <2>1, <3>1, OptionValue, OptionNames
    <2> QED BY <2>2, <2>3
  <1>3. OptsRead'
    <2> SUFFICES ASSUME NEW o \in Options
                 PROVE  Raw(o, opts[o])'
      BY DEF OptsRead
    <2>0. Raw(o, opts[o])
      BY <1>0 DEF SettingsInv, OptsRead
    <2>1. CASE Word.opt = o
      <3>1. Given(o)' = Given(o) \cup {i} /\ (\A k \in Given(o) : k < i /\ k \in Nat) /\ i \in Nat
        BY <1>0, <2>1, OptionGiven DEF ParseTypes
      <3>2. PICK n \in Nat : n = i
        BY <3>1
      <3>3. opts'[o] = ValueOf(n)
        <4>1. opts' = [opts EXCEPT ![o] = ValueOf(i)]
          BY <2>1, OptionNames DEF Option
        <4> QED BY <1>0, <3>2, <4>1 DEF ParseTypes
      <3>4. opts'[o] = ValueOf(n)'
        BY <1>0, <3>3, OptionGiven
      <3>5. n \in Given(o)' /\ \A l \in Given(o)' : l <= n
        BY <3>1, <3>2
      <3> QED BY <3>4, <3>5 DEF Raw, IsLast
    <2>2. CASE Word.opt # o
      <3>1. Given(o)' = Given(o) /\ (\A k : ValueOf(k)' = ValueOf(k))
        BY <1>0, <2>2, OptionGiven
      <3>2. opts'[o] = opts[o]
        BY <1>0, <2>2 DEF Option, ParseTypes
      <3> QED BY <2>0, <3>1, <3>2 DEF Raw, IsLast
    <2> QED BY <2>1, <2>2
  <1>4. OptsParsed' /\ OptsSettled' /\ LimitChosen' /\ BeforeExit'
    BY <1>0 DEF SettingsInv, OptsParsed, OptsSettled, LimitChosen, Settled, Resolved, BeforeExit
  <1>5. FlagsRead'
    <2>1. flags' = flags \cup words[i].flags
      BY DEF Option, Word
    <2>2. flags = UNION { words[k].flags : k \in RolesIn({"option"}) }
      BY DEF SettingsInv, FlagsRead
    <2>3. flags' = UNION { words[k].flags : k \in RolesIn({"option"}) \cup {i} }
      BY <2>1, <2>2
    <2> QED BY <1>0, <2>3, OptionReads DEF FlagsRead
  <1>6. PositionsRead'
    BY <1>0, OptionReads DEF SettingsInv, PositionsRead
  <1> QED BY <1>1, <1>2, <1>3, <1>4, <1>5, <1>6 DEF SettingsInv

-----------------------------------------------------------------------------
(* The end of the words.                                                   *)
LEMMA ParsedKeeps ==
  ASSUME SettingsInv, Parsed, UNCHANGED <<alias, target, config, result, out, code>>
  PROVE  SettingsInv'
  <1>0. /\ pc = "parse" /\ pc' = "parsed"
        /\ UNCHANGED <<words, env, i, flags, command, role, alias, target, result>>
    BY DEF Parsed
  <1>1. SameOptions
    BY <1>0 DEF SameOptions, RolesIn
  <1>2. ParseTypes'
    BY <1>0 DEF SettingsInv, ParseTypes, Parsed, Pcs
  <1>3. ValuesGiven' /\ FlagsRead'
    BY <1>0, <1>1, ValuesKept, FlagsKept DEF SettingsInv
  <1>4. OptsRead' /\ OptsSettled' /\ LimitChosen' /\ BeforeExit'
    BY <1>0 DEF SettingsInv, OptsRead, OptsSettled, LimitChosen, Settled, Resolved, BeforeExit
  <1>5. OptsParsed'
    <2> SUFFICES ASSUME NEW o \in Options
                 PROVE  \E v \in Offered(o)' : Raw(o, v)' /\ opts'[o] = Fallback(o, v)'
      BY DEF OptsParsed
    <2>1. PICK v : v = opts[o]
      OBVIOUS
    <2>2. Raw(o, v)
      BY <1>0, <2>1 DEF SettingsInv, OptsRead
    <2>3. v \in Offered(o)
      BY <2>2 DEF Raw, Offered
    <2>4. v \in Offered(o)' /\ Raw(o, v)'
      BY <1>1, <2>2, <2>3, GivenKept
    <2>5. opts'[o] = env_fallback(o)
      BY DEF Parsed
    <2>6. env_fallback(o) = Fallback(o, v)
      BY <2>1 DEF env_fallback, Fallback
    <2>7. Fallback(o, v)' = Fallback(o, v)
      BY <1>0 DEF Fallback
    <2> QED BY <2>4, <2>5, <2>6, <2>7
  <1>6. PositionsRead'
    <2>1. /\ RolesIn({"duration"})' = RolesIn({"duration"})
          /\ RolesIn({"command"})' = RolesIn({"command"})
      BY <1>0 DEF RolesIn
    <2>2. duration' = IF duration = NoText THEN env.duration ELSE duration
      BY DEF Parsed
    <2> QED BY <1>0, <2>1, <2>2 DEF SettingsInv, PositionsRead
  <1> QED BY <1>2, <1>3, <1>4, <1>5, <1>6 DEF SettingsInv

(* resolve_args: the choice of the time limit, and the mode of the alias.  *)
LEMMA ResolveKeeps ==
  ASSUME SettingsInv, Resolve
  PROVE  SettingsInv'
  <1>0. /\ pc = "parsed" /\ pc' = "config"
        /\ UNCHANGED <<words, env, i, flags, duration, command, role, alias, result>>
    BY DEF Resolve
  <1>1. SameOptions
    BY <1>0 DEF SameOptions, RolesIn
  <1>2. ParseTypes'
    <2>1. DOMAIN opts' = Options
      BY DEF SettingsInv, ParseTypes, Resolve
    <2> QED BY <1>0, <2>1 DEF SettingsInv, ParseTypes, Pcs
  <1>3. ValuesGiven' /\ FlagsRead'
    BY <1>0, <1>1, ValuesKept, FlagsKept DEF SettingsInv
  <1>4. OptsRead' /\ OptsParsed' /\ BeforeExit'
    BY <1>0 DEF SettingsInv, OptsRead, OptsParsed, BeforeExit
  <1>5. OptsSettled'
    <2> SUFFICES ASSUME NEW o \in Options
                 PROVE  \E v \in Offered(o)' : Raw(o, v)' /\ opts'[o] = Confined(o, Fallback(o, v))'
      BY DEF OptsSettled
    <2>1. PICK v \in Offered(o) : Raw(o, v) /\ opts[o] = Fallback(o, v)
      BY <1>0 DEF SettingsInv, OptsParsed
    <2>2. v \in Offered(o)' /\ Raw(o, v)'
      BY <1>1, <2>1, GivenKept
    <2>3. opts'[o] = Confined(o, opts[o])
      BY DEF SettingsInv, ParseTypes, Resolve, Confined, Options
    <2>4. Confined(o, Fallback(o, v))' = Confined(o, Fallback(o, v))
      BY <1>0 DEF Fallback, Confined
    <2> QED BY <2>1, <2>2, <2>3, <2>4
  <1>6. PositionsRead'
    <2>1. /\ RolesIn({"duration"})' = RolesIn({"duration"})
          /\ RolesIn({"command"})' = RolesIn({"command"})
      BY <1>0 DEF RolesIn
    <2> QED BY <1>0, <2>1 DEF SettingsInv, PositionsRead
  <1>7. LimitChosen'
    <2> DEFINE D == RolesIn({"duration"})
               C == RolesIn({"command"})
    <2>1. D' = D /\ C' = C
      BY <1>0 DEF RolesIn
    <2>2. /\ D = {} => duration = env.duration
          /\ \A d \in D : duration = words[d].text
          /\ command = NoText <=> C = {}
      BY <1>0 DEF SettingsInv, PositionsRead
    <2>3. target' = resolve_args
      BY DEF Resolve
    <2>4. target'.duration \in {env.duration, duration}
      BY <2>3 DEF resolve_args
    <2>5. ASSUME env.duration # NoText, command = NoText \/ parse_duration(duration) = Bad
          PROVE  target'.duration = env.duration
      BY <2>3, <2>5 DEF resolve_args
    <2>6. ASSUME command # NoText, parse_duration(duration) # Bad
          PROVE  target'.duration = duration
      BY <2>3, <2>6 DEF resolve_args
    <2> HIDE DEF D, C
    <2>7. CASE \E d \in D : C # {} /\ parse_duration(words[d].text) # Bad
      <3>1. PICK d \in D : C # {} /\ parse_duration(words[d].text) # Bad
        BY <2>7
      <3>2. target'.duration = words[d].text
        BY <2>2, <2>6, <3>1
      <3> QED BY <1>0, <2>1, <2>7, <3>2 DEF LimitChosen, D, C
    <2>8. CASE ~ \E d \in D : C # {} /\ parse_duration(words[d].text) # Bad
      <3>1. target'.duration = env.duration \/ env.duration = NoText
        BY <2>2, <2>4, <2>5, <2>8
      <3> QED BY <1>0, <2>1, <2>8, <3>1 DEF LimitChosen, D, C
    <2> QED BY <2>7, <2>8
  <1> QED BY <1>2, <1>3, <1>4, <1>5, <1>6, <1>7 DEF SettingsInv

-----------------------------------------------------------------------------
LEMMA SettingsInit == Init => SettingsInv
  <1> SUFFICES ASSUME Init PROVE SettingsInv
    OBVIOUS
  <1>0. /\ words \in CommandLines /\ env \in Environments /\ pc = "parse" /\ i = 1
        /\ flags = {} /\ opts = Unset /\ duration = NoText /\ command = NoText /\ role = << >>
        /\ result = NoResult
    BY DEF Init, ParseInit
  <1>1. ParseTypes
    BY <1>0, CommandLineAssumption DEF ParseTypes, Pcs, Unset
  <1>2. \A S : RolesIn(S) = {}
    BY <1>0 DEF RolesIn
  <1>3. \A o : Given(o) = {}
    BY <1>2 DEF Given
  <1>4. ValuesGiven /\ OptsRead
    BY <1>0, <1>3 DEF ValuesGiven, OptsRead, Raw
  <1>5. FlagsRead /\ PositionsRead
    BY <1>0, <1>2 DEF FlagsRead, PositionsRead
  <1>6. OptsParsed /\ OptsSettled /\ LimitChosen /\ BeforeExit
    BY <1>0 DEF OptsParsed, OptsSettled, Settled, Resolved, LimitChosen, BeforeExit
  <1> QED BY <1>1, <1>4, <1>5, <1>6 DEF SettingsInv

LEMMA SettingsNext == SettingsInv /\ [Next]_vars => SettingsInv'
  <1> SUFFICES ASSUME SettingsInv, [Next]_vars PROVE SettingsInv'
    OBVIOUS
  <1>0. BeforeExit
    BY DEF SettingsInv
  <1>1. CASE Parse
    <2>0. UNCHANGED <<alias, target, config, result, out, code>>
      BY <1>1 DEF Parse
    <2>1. CASE CommandWord
      BY <2>0, <2>1, CommandWordKeeps
    <2>2. CASE Separator
      BY <2>0, <2>2, SeparatorKeeps
    <2>3. CASE Option
      BY <2>0, <2>3, OptionKeeps
    <2>4. CASE Positional
      BY <2>0, <2>4, PositionalKeeps
    <2>5. CASE Parsed
      BY <2>0, <2>5, ParsedKeeps
    <2>6. CASE Info \/ BadOption \/ Conflicting
      <3>1. /\ pc = "parse" /\ pc' \in {"info", "refused"}
            /\ UNCHANGED <<words, env, parsing>>
        BY <2>6 DEF Info, BadOption, Conflicting, ReadsOptions, AtWord
      <3> QED BY <1>0, <2>0, <3>1, KeptStep DEF Pcs, Settled, Resolved, BeforeExit
    <2> QED BY <1>1, <2>1, <2>2, <2>3, <2>4, <2>5, <2>6 DEF Parse, ParseNext
  <1>2. CASE ParserExits \/ Incomplete \/ BadConfig \/ BadFileWait
    <2>1. /\ pc # "exit" /\ pc' = "exit"
          /\ UNCHANGED <<words, env, parsing, alias, target, result>>
      BY <1>2 DEF ParserExits, Incomplete, BadConfig, BadFileWait, Exit
    <2> QED BY <1>0, <2>1, KeptStep DEF Pcs, Settled, Resolved, BeforeExit
  <1>3. CASE Resolve
    BY <1>3, ResolveKeeps
  <1>4. CASE Configure \/ FileFound
    <2>1. /\ pc \in {"config", "file"} /\ pc' \in {"file", "run"}
          /\ UNCHANGED <<words, env, parsing, alias, target, result>>
      BY <1>4 DEF Configure, FileFound
    <2> QED BY <1>0, <2>1, KeptStep DEF Pcs, Settled, Resolved, BeforeExit
  <1>5. CASE FileMissing \/ RunFails \/ RunReturns
    <2>1. /\ pc \in {"file", "run"} /\ pc' = "exit"
          /\ UNCHANGED <<words, env, parsing, alias, target>>
      BY <1>5 DEF FileMissing, RunFails, RunReturns, Fails, Exit
    <2> QED BY <2>1, KeptStep DEF Pcs, Settled, Resolved, BeforeExit
  <1>6. CASE UNCHANGED vars
    <2>1. UNCHANGED <<words, env, pc, parsing, alias, target, result>>
      BY <1>6 DEF vars
    <2> QED BY <1>0, <2>1, KeptStep DEF SettingsInv, ParseTypes, Settled, Resolved, BeforeExit
  <1> QED BY <1>1, <1>2, <1>3, <1>4, <1>5, <1>6 DEF Next

LEMMA SettingsHold == Spec => []SettingsInv
  BY SettingsInit, SettingsNext, PTL DEF Spec

-----------------------------------------------------------------------------
LEMMA LastIsMax ==
  ASSUME ParseTypes, NEW o, NEW k, IsLast(o, k)
  PROVE  LastGiven(o) = k
  <1>1. \A l \in Given(o) : l \in Nat
    BY DEF ParseTypes, Given, RolesIn
  <1>2. k \in Given(o) /\ \A l \in Given(o) : k >= l
    BY <1>1 DEF IsLast
  <1>3. LastGiven(o) \in Given(o) /\ \A l \in Given(o) : LastGiven(o) >= l
    BY <1>2 DEF LastGiven, Max
  <1> QED BY <1>1, <1>2, <1>3

(* What the words give an option, by its last word.                        *)
LEMMA RawIsLast ==
  ASSUME SettingsInv, NEW o \in Options, NEW v, Raw(o, v)
  PROVE  IF Given(o) = {} THEN v = Unset[o]
         ELSE v = ValueOf(LastGiven(o)) /\ v \in TextType
  <1>1. CASE Given(o) = {}
    BY <1>1 DEF Raw
  <1>2. CASE Given(o) # {}
    <2>1. PICK k \in Given(o) : IsLast(o, k) /\ v = ValueOf(k)
      BY <1>2 DEF Raw
    <2>2. LastGiven(o) = k
      BY <2>1, LastIsMax DEF SettingsInv
    <2>3. v \in TextType
      BY <2>1 DEF SettingsInv, ValuesGiven
    <2> QED BY <1>2, <2>1, <2>2, <2>3
  <1> QED BY <1>1, <1>2

Setting(o) ==
  LET fallback == IF o \in EnvOptions THEN env[o] ELSE NoText
      default  == CASE o = "signal" -> Name("TERM")
                    [] o = "confine" /\ alias -> Name("active")
                    [] OTHER -> Unset[o]
  IN  IF Given(o) # {} /\ (o = "signal" => ValueOf(LastGiven(o)) # Empty)
      THEN ValueOf(LastGiven(o))
      ELSE IF fallback = NoText \/ (o = "retry" /\ fallback = Empty)
           THEN default ELSE fallback

LEMMA SettingOf ==
  ASSUME SettingsInv, Settled, NEW o \in Options
  PROVE  opts[o] = Setting(o)
  <1>1. PICK v \in Offered(o) : Raw(o, v) /\ opts[o] = Confined(o, Fallback(o, v))
    BY DEF SettingsInv, OptsSettled
  <1>2. IF Given(o) = {} THEN v = Unset[o]
        ELSE v = ValueOf(LastGiven(o)) /\ v # NoText
    BY <1>1, RawIsLast, NoTextIsNone
  <1>3. Empty # NoText
    BY NamesAreTexts DEF Empty
  <1>4. Unset[o] = CASE o = "signal" -> Empty
                     [] o = "on_timeout_limit" -> Number(5, "s")
                     [] OTHER -> NoText
    BY DEF Unset
  <1>5. CASE o = "signal"
    <2>1. "signal" \in EnvOptions /\ "signal" # "confine" /\ "signal" # "retry"
      BY DEF EnvOptions
    <2>2. opts[o] = Fallback(o, v)
      BY <1>1, <1>5 DEF Confined
    <2> QED BY <1>2, <1>3, <1>4, <1>5, <2>1, <2>2 DEF Fallback, Setting
  <1>6. CASE o = "retry"
    <2>1. "retry" \in EnvOptions
      BY DEF EnvOptions
    <2>2. opts[o] = Fallback(o, v)
      BY <1>1, <1>6 DEF Confined
    <2> QED BY <1>2, <1>3, <1>4, <1>6, <2>1, <2>2 DEF Fallback, Setting
  <1>7. CASE o \in EnvOptions \ {"signal", "retry"}
    <2>1. o # "confine" /\ o # "on_timeout_limit"
      BY <1>7 DEF EnvOptions
    <2>2. opts[o] = Fallback(o, v)
      BY <1>1, <2>1 DEF Confined
    <2> QED BY <1>2, <1>3, <1>4, <1>7, <2>1, <2>2 DEF Fallback, Setting
  <1>8. CASE o \notin EnvOptions
    <2>1. o # "signal" /\ o # "retry"
      BY <1>8 DEF EnvOptions
    <2>2. Fallback(o, v) = v
      BY <1>8, <2>1 DEF Fallback
    <2> QED BY <1>1, <1>2, <1>4, <1>8, <2>1, <2>2 DEF Confined, Setting
  <1> QED BY <1>5, <1>6, <1>7, <1>8

(* CLI > env > default for every option, flag and time limit of a run, for *)
(* every command line and every environment (parse_args, run_main).        *)
THEOREM PrecedenceHolds == Spec => []SettingsPrecedence
  <1>1. SettingsInv => SettingsPrecedence
    <2> SUFFICES ASSUME SettingsInv, Resolved PROVE SettingsPrecedence
      BY DEF SettingsPrecedence
    <2>1. \A o \in Options : opts[o] = Setting(o)
      BY SettingOf DEF Settled
    <2>2. flags = UNION { words[k].flags : k \in RolesIn({"option"}) }
      BY DEF SettingsInv, FlagsRead
    <2>3. LimitChosen
      BY DEF SettingsInv
    <2> QED BY <2>1, <2>2, <2>3 DEF SettingsPrecedence, Setting, LimitChosen
  <1> QED BY <1>1, SettingsHold, PTL

-----------------------------------------------------------------------------
(* The exit code.  The settings it depends on are those of the words.      *)
TimeoutCode == IF opts.timeout_exit_code = NoText THEN TIMEOUT ELSE opts.timeout_exit_code.int

(* What the exit code depends on in the configuration.                     *)
ConfigKept == Configured => config.timeout_exit_code = TimeoutCode /\ config.signal \in 1 .. 31

Quiet == result.kind = "none" /\ out = << >> /\ code \in {0, INTERNAL_ERROR}

Failed ==
  /\ result.kind = "Err"
  /\ Len(out) = IF "json" \in flags THEN 1 ELSE 0
  /\ code \in {TIMEOUT, INTERNAL_ERROR, CANNOT_INVOKE, NOT_FOUND}
  /\ code = TIMEOUT <=> result.error = "WaitForFileTimeout"
  /\ result.error = "WaitForFileTimeout" => FileWait # NoText
  /\ \A k \in DOMAIN out : out[k].exit_code = code

(* The command's own status, or the signal that was sent in its absence.   *)
PassedOn(s, c) ==
  \/ s.signal # Nothing /\ c = 128 + s.signal
  \/ s.code # Nothing /\ c = s.code % 256
  \/ s = NoStatus /\ c \in 129 .. 159

Ran ==
  /\ result.kind \in LimitKinds \cup {"Completed", "SignalForwarded"}
  /\ Len(out) = IF "json" \in flags THEN 1 ELSE 0
  /\ code \in 0 .. 255
  /\ IF result.kind \in LimitKinds /\ "preserve_status" \notin flags
     THEN code = TimeoutCode
     ELSE PassedOn(result.status, code)
  /\ \A k \in DOMAIN out :
       out[k].exit_code = IF result.kind = "Completed" /\ result.status.signal # Nothing
                          THEN Nothing ELSE code

ExitInv == SettingsInv /\ ConfigKept /\ (pc = "exit" => Quiet \/ Failed \/ Ran)

-----------------------------------------------------------------------------
LEMMA SignalNumbers == \A s \in DOMAIN SignalNumber : SignalNumber[s] \in 1 .. 31
  BY DEF SignalNumber

LEMMA SignalRange ==
  ASSUME NEW t, parse_signal(t) # Bad
  PROVE  parse_signal(t) \in 1 .. 31
  <1>1. CASE t.int # Nothing /\ ~ t.dot /\ t.suffix = ""
    <2>1. parse_signal(t) = try_from_raw(t.int)
      BY <1>1 DEF parse_signal
    <2>2. \E s \in DOMAIN SignalNumber : SignalNumber[s] = parse_signal(t)
      BY <2>1 DEF try_from_raw
    <2> QED BY <2>2, SignalNumbers
  <1>2. CASE ~ (t.int # Nothing /\ ~ t.dot /\ t.suffix = "")
    <2>1. SignalName(t.suffix) \in DOMAIN SignalNumber
          /\ parse_signal(t) = SignalNumber[SignalName(t.suffix)]
      BY <1>2 DEF parse_signal
    <2> QED BY <2>1, SignalNumbers
  <1> QED BY <1>1, <1>2

LEMMA UnsignedRange ==
  ASSUME NEW t \in TextType, parse_unsigned(t, 255) # Bad
  PROVE  t.int \in 0 .. 255
  <1>1. t.int # Nothing /\ ~ (t.int > 255)
    BY Zenon DEF parse_unsigned
  <1>2. t.int \in Nat \cup {Nothing}
    BY DEF TextType
  <1> QED BY <1>1, <1>2

LEMMA TimeoutCodeRange ==
  ASSUME SettingsInv, Settled
  PROVE  /\ TimeoutCode \in 0 .. 255
         /\ TimeoutCode = IF Given("timeout_exit_code") = {} THEN TIMEOUT
                          ELSE ValueOf(LastGiven("timeout_exit_code")).int
  <1> DEFINE o == "timeout_exit_code"
  <1>0. o \in Options /\ o \notin EnvOptions /\ o \notin {"signal", "retry", "confine", "on_timeout_limit"}
    BY DEF Options, EnvOptions
  <1>1. opts[o] = Setting(o)
    BY <1>0, SettingOf
  <1>2. CASE Given(o) = {}
    <2>1. opts[o] = NoText
      BY <1>0, <1>1, <1>2 DEF Setting, Unset
    <2> QED BY <1>2, <2>1 DEF TimeoutCode, TIMEOUT
  <1>3. CASE Given(o) # {}
    <2>1. opts[o] = ValueOf(LastGiven(o))
      BY <1>0, <1>1, <1>3 DEF Setting
    <2>2. PICK v \in Offered(o) : Raw(o, v)
      BY <1>0 DEF SettingsInv, OptsSettled
    <2>3. PICK k \in Given(o) : IsLast(o, k)
      BY <1>3, <2>2 DEF Raw
    <2>4. LastGiven(o) \in Given(o)
      BY <2>3, LastIsMax DEF SettingsInv
    <2>5. opts[o] \in TextType /\ Accepts(o, opts[o])
      BY <1>0, <2>1, <2>4 DEF SettingsInv, ValuesGiven
    <2>6. opts[o] # NoText
      BY <2>5, NoTextIsNone
    <2>7. parse_unsigned(opts[o], 255) # Bad
      BY <2>5 DEF Accepts
    <2>8. opts[o].int \in 0 .. 255
      BY <2>5, <2>7, UnsignedRange
    <2> QED BY <1>3, <2>1, <2>6, <2>8 DEF TimeoutCode
  <1> QED BY <1>2, <1>3

LEMMA SignalChosen ==
  ASSUME SettingsInv, Settled
  PROVE  opts["signal"] # NoText
  <1> DEFINE o == "signal"
  <1>0. o \in Options /\ o \in EnvOptions
    BY DEF Options, EnvOptions
  <1>1. opts[o] = Setting(o)
    BY <1>0, SettingOf
  <1>2. CASE Given(o) # {} /\ ValueOf(LastGiven(o)) # Empty
    <2>1. PICK v \in Offered(o) : Raw(o, v)
      BY <1>0 DEF SettingsInv, OptsSettled
    <2>2. ValueOf(LastGiven(o)) \in TextType
      BY <1>0, <1>2, <2>1, RawIsLast
    <2> QED BY <1>1, <1>2, <2>2, NoTextIsNone DEF Setting
  <1>3. CASE ~ (Given(o) # {} /\ ValueOf(LastGiven(o)) # Empty)
    BY <1>0, <1>1, <1>3, NamesAreTexts DEF Setting
  <1> QED BY <1>2, <1>3

(* The exit code of a status, and of a signal.                             *)
LEMMA SignalCode == \A n \in 1 .. 127 : signal_exit_code(n) = 128 + n
  BY DEF signal_exit_code

LEMMA StatusCode ==
  ASSUME NEW s \in RunStatuses
  PROVE  /\ s # NoStatus
         /\ status_to_exit_code(s) \in 0 .. 255
         /\ PassedOn(s, status_to_exit_code(s))
  <1>1. /\ s \in StatusType /\ s # NoStatus
        /\ s.signal = Nothing <=> s.code # Nothing
    BY MainAssumption
  <1>2. s.signal \in 1 .. 127 \cup {Nothing} /\ s.code \in 0 .. 255 \cup {Nothing}
    BY <1>1 DEF StatusType
  <1>3. CASE s.signal # Nothing
    <2>1. s.signal \in 1 .. 127
      BY <1>2, <1>3
    <2>2. status_to_exit_code(s) = 128 + s.signal
      BY <1>3, <2>1, SignalCode DEF status_to_exit_code
    <2> QED BY <1>1, <1>3, <2>1, <2>2 DEF PassedOn
  <1>4. CASE s.signal = Nothing
    <2>1. s.code \in 0 .. 255 /\ s.code # Nothing
      BY <1>1, <1>2, <1>4
    <2>2. status_to_exit_code(s) = s.code % 256
      BY <1>4 DEF status_to_exit_code
    <2>3. s.code % 256 \in 0 .. 255
      BY <2>1
    <2> QED BY <1>1, <2>1, <2>2, <2>3 DEF PassedOn
  <1> QED BY <1>3, <1>4

(* What run_with_retry returns.                                            *)
LEMMA ResultFacts ==
  ASSUME NEW r \in Results, config.signal \in 1 .. 31
  PROVE  /\ r.kind \in LimitKinds \cup {"Completed", "SignalForwarded"}
         /\ r.status \in RunStatuses \cup {NoStatus}
         /\ r.kind = "Completed" => r.status \in RunStatuses
         /\ r.kind # "Completed" => r.signal \in 1 .. 31
  <1>1. CASE r \in [kind : LimitKinds, signal : {config.signal}, killed : BOOLEAN,
                    status : RunStatuses \cup {NoStatus}]
    BY <1>1 DEF LimitKinds
  <1>2. CASE r \in [kind : {"Completed"}, signal : {Nothing}, killed : {FALSE}, status : RunStatuses]
    BY <1>2
  <1>3. CASE r \in [kind : {"SignalForwarded"}, signal : RunSignals, killed : {FALSE},
                    status : RunStatuses \cup {NoStatus}]
    BY <1>3, MainAssumption
  <1> QED BY <1>1, <1>2, <1>3 DEF Results

(* RunResult::exit_code.                                                   *)
LEMMA ExitCodeOf ==
  ASSUME NEW r \in Results, ConfigKept, Configured, TimeoutCode \in 0 .. 255
  PROVE  /\ exit_code(r) \in 0 .. 255
         /\ IF r.kind \in LimitKinds /\ "preserve_status" \notin flags
            THEN exit_code(r) = TimeoutCode
            ELSE PassedOn(r.status, exit_code(r))
  <1>0. config.timeout_exit_code = TimeoutCode /\ config.signal \in 1 .. 31
    BY DEF ConfigKept
  <1>1. /\ r.kind \in LimitKinds \cup {"Completed", "SignalForwarded"}
        /\ r.status \in RunStatuses \cup {NoStatus}
        /\ r.kind = "Completed" => r.status \in RunStatuses
        /\ r.kind # "Completed" => r.signal \in 1 .. 31
    BY <1>0, ResultFacts
  <1>2. CASE r.kind \in LimitKinds /\ "preserve_status" \notin flags
    BY <1>0, <1>2 DEF exit_code
  <1>3. CASE ~ (r.kind \in LimitKinds /\ "preserve_status" \notin flags) /\ r.status # NoStatus
    <2>1. exit_code(r) = status_to_exit_code(r.status)
      BY <1>3 DEF exit_code
    <2>2. r.status \in RunStatuses
      BY <1>1, <1>3
    <2> QED BY <1>3, <2>1, <2>2, StatusCode
  <1>4. CASE ~ (r.kind \in LimitKinds /\ "preserve_status" \notin flags) /\ r.status = NoStatus
    <2>1. r.kind # "Completed" /\ r.signal \in 1 .. 31
      BY <1>1, <1>4, StatusCode
    <2>2. exit_code(r) \in {signal_exit_code(SignalNumber.KILL), signal_exit_code(r.signal)}
      BY <1>4 DEF exit_code
    <2>3. signal_exit_code(SignalNumber.KILL) = 137
      BY SignalCode DEF SignalNumber
    <2>4. signal_exit_code(r.signal) \in 129 .. 159
      BY <2>1, SignalCode
    <2>5. exit_code(r) \in 129 .. 159
      BY <2>2, <2>3, <2>4
    <2> QED BY <1>4, <2>5 DEF PassedOn
  <1> QED BY <1>2, <1>3, <1>4

-----------------------------------------------------------------------------
LEMMA ConfigureGives ==
  ASSUME SettingsInv, Configure
  PROVE  config'.timeout_exit_code = TimeoutCode /\ config'.signal \in 1 .. 31
  <1>0. Settled /\ config' = from_args /\ Consistent(from_args)
    BY DEF Configure, Settled, Resolved
  <1>1. config'["timeout_exit_code"] = TimeoutCode
    <2>1. from_args["timeout_exit_code"]
            = IF opts["timeout_exit_code"] = NoText THEN TIMEOUT ELSE opts["timeout_exit_code"].int
      BY DEF from_args
    <2> QED BY <1>0, <2>1 DEF TimeoutCode
  <1>2. config'["signal"] \in 1 .. 31
    <2>1. "signal" \in Parsable
      BY DEF Parsable
    <2>2. from_args["signal"] = parse_option("signal", opts["signal"])
      BY <1>0, <2>1, SignalChosen DEF from_args
    <2>3. parse_option("signal", opts["signal"]) = parse_signal(opts["signal"])
      BY DEF parse_option, Durations
    <2>4. from_args["signal"] # Bad
      BY <1>0, <2>1 DEF Consistent, from_args
    <2> QED BY <1>0, <2>2, <2>3, <2>4, SignalRange
  <1> QED BY <1>1, <1>2

LEMMA PrintsOne ==
  ASSUME NEW d
  PROVE  /\ Len(Printed(d)) = IF "json" \in flags THEN 1 ELSE 0
         /\ \A k \in DOMAIN Printed(d) : Printed(d)[k] = d
  BY DEF Printed

LEMMA FailsTells ==
  ASSUME NEW e \in {"CommandNotFound", "PermissionDenied", "SpawnError", "WaitForFileError",
                    "WaitForFileTimeout"},
         Fails(e), flags' = flags, opts' = opts, e = "WaitForFileTimeout" => FileWait # NoText
  PROVE  Failed'
  <1>1. /\ result' = [kind |-> "Err", error |-> e]
        /\ code' = error_code(e) /\ out' = Printed(print_json_error(e))
    BY DEF Fails, Exit
  <1>2. result'.kind = "Err" /\ result'.error = e
    BY <1>1
  <1>3. /\ error_code(e) \in {TIMEOUT, INTERNAL_ERROR, CANNOT_INVOKE, NOT_FOUND}
        /\ error_code(e) = TIMEOUT <=> e = "WaitForFileTimeout"
    BY DEF error_code, TIMEOUT, INTERNAL_ERROR, CANNOT_INVOKE, NOT_FOUND
  <1>4. /\ Len(out') = IF "json" \in flags' THEN 1 ELSE 0
        /\ \A k \in DOMAIN out' : out'[k].exit_code = code'
    <2>1. print_json_error(e).exit_code = error_code(e)
      BY DEF print_json_error
    <2>2. /\ Len(out') = IF "json" \in flags THEN 1 ELSE 0
          /\ \A k \in DOMAIN out' : out'[k] = print_json_error(e)
      BY <1>1, PrintsOne
    <2> QED BY <1>1, <2>1, <2>2
  <1>5. FileWait' = FileWait
    BY DEF FileWait
  <1> QED BY <1>1, <1>2, <1>3, <1>4, <1>5 DEF Failed

LEMMA RunTells ==
  ASSUME SettingsInv, ConfigKept, RunReturns
  PROVE  Ran'
  <1>0. /\ pc = "run" /\ Settled /\ Configured
        /\ UNCHANGED <<words, env, parsing, alias, target, config>>
    BY DEF RunReturns, Settled, Resolved, Configured
  <1>1. flags' = flags /\ opts' = opts
    BY <1>0 DEF parsing
  <1>2. PICK r \in Results : /\ result' = r
                             /\ code' = exit_code(r)
                             /\ out' = Printed(print_json_output(r, exit_code(r)))
    BY DEF RunReturns, Exit
  <1>3. TimeoutCode \in 0 .. 255 /\ TimeoutCode' = TimeoutCode
    BY <1>0, <1>1, TimeoutCodeRange DEF TimeoutCode
  <1>4. /\ exit_code(r) \in 0 .. 255
        /\ IF r.kind \in LimitKinds /\ "preserve_status" \notin flags
           THEN exit_code(r) = TimeoutCode
           ELSE PassedOn(r.status, exit_code(r))
    BY <1>0, <1>3, ExitCodeOf
  <1>5. r.kind \in LimitKinds \cup {"Completed", "SignalForwarded"}
    BY <1>0, ResultFacts DEF ConfigKept
  <1>6. /\ Len(out') = IF "json" \in flags THEN 1 ELSE 0
        /\ \A k \in DOMAIN out' : out'[k] = print_json_output(r, exit_code(r))
    BY <1>2, PrintsOne
  <1>7. print_json_output(r, exit_code(r)).exit_code
          = IF r.kind = "Completed" /\ r.status.signal # Nothing THEN Nothing ELSE exit_code(r)
    <2>1. CASE r.kind # "Completed"
      BY <2>1 DEF print_json_output
    <2>2. CASE r.kind = "Completed"
      <3>1. r.status \in RunStatuses
        BY <1>0, <2>2, ResultFacts DEF ConfigKept
      <3>2. /\ r.status \in StatusType /\ r.status # NoStatus
            /\ r.status.signal = Nothing <=> r.status.code # Nothing
        BY <3>1, MainAssumption
      <3>3. print_json_output(r, exit_code(r)).exit_code = r.status.code
        BY <2>2 DEF print_json_output
      <3>4. CASE r.status.signal # Nothing
        BY <2>2, <3>2, <3>3, <3>4
      <3>5. CASE r.status.signal = Nothing
        <4>1. r.status.code \in 0 .. 255
          BY <3>2, <3>5 DEF StatusType
        <4>2. exit_code(r) = r.status.code % 256
          BY <2>2, <3>2, <3>5 DEF exit_code, status_to_exit_code, LimitKinds
        <4> QED BY <3>3, <3>5, <4>1, <4>2
      <3> QED BY <3>4, <3>5
    <2> QED BY <2>1, <2>2
  <1>8. \A k \in DOMAIN out' :
          out'[k].exit_code = IF result'.kind = "Completed" /\ result'.status.signal # Nothing
                              THEN Nothing ELSE code'
    BY <1>2, <1>6, <1>7
  <1>9. /\ result'.kind \in LimitKinds \cup {"Completed", "SignalForwarded"}
        /\ code' \in 0 .. 255
        /\ IF result'.kind \in LimitKinds /\ "preserve_status" \notin flags'
           THEN code' = TimeoutCode'
           ELSE PassedOn(result'.status, code')
    BY <1>1, <1>2, <1>3, <1>4, <1>5
  <1>10. Len(out') = IF "json" \in flags' THEN 1 ELSE 0
    BY <1>1, <1>6
  <1> QED BY <1>8, <1>9, <1>10 DEF Ran, PassedOn

LEMMA ExitInit == Init => ExitInv
  <1>1. ASSUME Init PROVE pc = "parse"
    BY <1>1 DEF Init, ParseInit
  <1> QED BY <1>1, SettingsInit DEF ExitInv, ConfigKept, Configured

LEMMA ExitNext == ExitInv /\ [Next]_vars => ExitInv'
  <1> SUFFICES ASSUME ExitInv, [Next]_vars PROVE ExitInv'
    OBVIOUS
  <1>0. SettingsInv /\ SettingsInv' /\ ConfigKept /\ BeforeExit
    BY SettingsNext DEF ExitInv, SettingsInv
  <1>1. CASE Parse \/ Resolve
    <2>1. pc' \in {"parse", "info", "refused", "parsed", "config"}
      BY <1>1 DEF Parse, ParseNext, CommandWord, Separator, Info, Option, BadOption, Positional,
                  Parsed, Conflicting, ReadsOptions, AtWord, Resolve
    <2> QED BY <1>0, <2>1 DEF ExitInv, ConfigKept, Configured
  <1>2. CASE ParserExits \/ Incomplete \/ BadConfig \/ BadFileWait
    <2>1. /\ pc # "exit" /\ pc' = "exit" /\ result' = result
          /\ code' \in {0, INTERNAL_ERROR} /\ out' = << >>
      BY <1>2 DEF ParserExits, Incomplete, BadConfig, BadFileWait, Exit
    <2>2. result'.kind = "none"
      BY <1>0, <2>1 DEF BeforeExit, NoResult
    <2> QED BY <1>0, <2>1, <2>2 DEF ExitInv, ConfigKept, Configured, Quiet
  <1>3. CASE Configure
    <2>1. pc' \in {"file", "run"} /\ TimeoutCode' = TimeoutCode
      BY <1>3 DEF Configure, TimeoutCode, parsing
    <2> QED BY <1>0, <1>3, <2>1, ConfigureGives DEF ExitInv, ConfigKept
  <1>4. CASE FileFound
    <2>1. pc = "file" /\ pc' = "run" /\ config' = config /\ TimeoutCode' = TimeoutCode
      BY <1>4 DEF FileFound, TimeoutCode, parsing
    <2> QED BY <1>0, <2>1 DEF ExitInv, ConfigKept, Configured
  <1>5. CASE FileMissing \/ RunFails
    <2>1. pc' = "exit" /\ flags' = flags /\ opts' = opts
      BY <1>5 DEF FileMissing, RunFails, Fails, Exit, parsing
    <2>2. PICK e \in {"CommandNotFound", "PermissionDenied", "SpawnError", "WaitForFileError",
                      "WaitForFileTimeout"} :
            Fails(e) /\ (e = "WaitForFileTimeout" => FileWait # NoText)
      BY <1>5 DEF FileMissing, RunFails
    <2>3. Failed'
      BY <2>1, <2>2, FailsTells
    <2> QED BY <1>0, <2>1, <2>3 DEF ExitInv, ConfigKept, Configured
  <1>6. CASE RunReturns
    <2>1. pc' = "exit"
      BY <1>6 DEF RunReturns, Exit
    <2> QED BY <1>0, <1>6, <2>1, RunTells DEF ExitInv, ConfigKept, Configured
  <1>7. CASE UNCHANGED vars
    <2>1. /\ UNCHANGED <<pc, config, result, out, code, flags, opts>>
      BY <1>7 DEF vars, parsing
    <2>2. ConfigKept'
      BY <1>0, <2>1 DEF ConfigKept, Configured, TimeoutCode
    <2>3. pc' = "exit" => Quiet' \/ Failed' \/ Ran'
      BY <2>1 DEF ExitInv, Quiet, Failed, Ran, TimeoutCode, PassedOn, FileWait
    <2> QED BY <1>0, <2>2, <2>3 DEF ExitInv
  <1> QED BY <1>1, <1>2, <1>3, <1>4, <1>5, <1>6, <1>7 DEF Next

(* The exit code and the JSON document tell what happened, for every       *)
(* command line, environment and outcome of the run (run_main,             *)
(* RunResult::exit_code).                                                  *)
THEOREM ExitCodeIsTrue == Spec => []ExitCodeTells
  <1>1. ExitInv => ExitCodeTells
    <2> SUFFICES ASSUME ExitInv, pc = "exit" PROVE ExitCodeTells
      BY DEF ExitCodeTells
    <2>1. CASE Quiet
      BY <2>1 DEF Quiet, ExitCodeTells, LimitKinds, INTERNAL_ERROR
    <2>2. CASE Failed
      BY <2>2 DEF Failed, ExitCodeTells, LimitKinds, INTERNAL_ERROR, TIMEOUT, CANNOT_INVOKE,
                  NOT_FOUND
    <2>3. CASE Ran
      <3>1. Settled
        BY <2>3 DEF Ran, Settled, NoResult, LimitKinds
      <3>2. TimeoutCode = IF Given("timeout_exit_code") = {} THEN TIMEOUT
                          ELSE ValueOf(LastGiven("timeout_exit_code")).int
        BY <3>1, TimeoutCodeRange DEF ExitInv
      <3> QED BY <2>3, <3>2 DEF Ran, PassedOn, ExitCodeTells, LimitKinds
    <2> QED BY <2>1, <2>2, <2>3 DEF ExitInv
  <1> QED BY <1>1, ExitInit, ExitNext, PTL DEF Spec

-----------------------------------------------------------------------------
(* The words the command gets.  Taken are the positional words read so     *)
(* far; the words behind the command are never anything but its arguments  *)
(* and one separator.                                                      *)
Own == {"duration", "command", "arg"}

OptSeq(t) == IF t = NoText THEN << >> ELSE <<t>>
Leading   == IF RolesIn({"duration"}) = {} THEN << >> ELSE <<duration>>
Taken     == (Leading \o OptSeq(command)) \o args

WordTypes == duration \in Texts /\ command \in Texts /\ args \in Seq(Texts)

TakenInOrder == pc \in {"parse", "parsed"} => InOrder(Taken, RolesIn(Own))

NothingLeft == pc \in {"parsed", "config", "file", "run"} => Len(role) = Len(words)

AfterCommand ==
  /\ command = NoText => args = << >>
  /\ \A c \in RolesIn({"command"}), k \in RolesIn(Roles \ {"arg"}) :
       k > c => words[k].form = "separator"

OneSeparator == IF saw_separator THEN \E k : RolesIn({"separator"}) = {k}
                ELSE RolesIn({"separator"}) = {}

(* A limit that does not parse ends the program in from_args.              *)
CommandChosen ==
  Resolved =>
    LET texts == <<target.command>> \o target.args
    IN  \/ InOrder(texts, RolesIn(Own))
        \/ InOrder(<<target.duration>> \o texts, RolesIn(Own))
        \/ RolesIn(Own) = {} /\ texts = <<env.duration>>
        \/ parse_duration(target.duration) = Bad

LimitParses == Configured => parse_duration(target.duration) # Bad

WordsInv == /\ SettingsInv /\ WordTypes /\ TakenInOrder /\ NothingLeft /\ AfterCommand
            /\ OneSeparator /\ CommandChosen /\ LimitParses

-----------------------------------------------------------------------------
LEMMA RolesBelow ==
  ASSUME ParseTypes, NEW S
  PROVE  /\ RolesIn(S) \in SUBSET (1 .. Len(role)) /\ IsFiniteSet(RolesIn(S))
         /\ i \in Nat /\ \A k \in RolesIn(S) : k \in Nat /\ k < i
  <1>1. role \in Seq(Roles) /\ i = Len(role) + 1 /\ Len(role) \in Nat
    BY DEF ParseTypes
  <1>2. RolesIn(S) \in SUBSET (1 .. Len(role))
    BY <1>1 DEF RolesIn
  <1>3. IsFiniteSet(1 .. Len(role))
    BY <1>1, FS_Interval
  <1>4. IsFiniteSet(RolesIn(S))
    BY <1>2, <1>3, FS_Subset
  <1> QED BY <1>1, <1>2, <1>4

(* A later word goes to the end.                                           *)
LEMMA InOrderAppend ==
  ASSUME NEW ts \in Seq(Texts), NEW K \in SUBSET Nat, IsFiniteSet(K), NEW n \in Nat,
         \A k \in K : k < n, InOrder(ts, K)
  PROVE  InOrder(Append(ts, words[n].text), K \cup {n})
  <1> DEFINE L == K \cup {n}
             us == Append(ts, words[n].text)
             Upto(M, k) == { l \in M : l <= k }
  <1>1. IsFiniteSet(L) /\ Cardinality(L) = Cardinality(K) + 1 /\ Cardinality(K) \in Nat
    <2>1. n \notin K
      OBVIOUS
    <2> QED BY <2>1, FS_AddElement, FS_CardinalityType
  <1>2. Len(ts) = Cardinality(K) /\ \A k \in K : ts[Cardinality(Upto(K, k))] = words[k].text
    BY DEF InOrder
  <1>3. Len(us) = Cardinality(L)
    BY <1>1, <1>2
  <1>4. ASSUME NEW k \in K
        PROVE  us[Cardinality(Upto(L, k))] = words[k].text
    <2>1. Upto(L, k) = Upto(K, k)
      OBVIOUS
    <2>2. Upto(K, k) \in SUBSET K /\ k \in Upto(K, k)
      OBVIOUS
    <2>3. IsFiniteSet(Upto(K, k)) /\ Cardinality(Upto(K, k)) <= Cardinality(K)
      BY <2>2, FS_Subset
    <2>4. Cardinality(Upto(K, k)) \in Nat \ {0}
      BY <2>2, <2>3, FS_EmptySet, FS_CardinalityType
    <2>5. Cardinality(Upto(K, k)) \in 1 .. Len(ts)
      BY <1>1, <1>2, <2>3, <2>4
    <2>6. us[Cardinality(Upto(K, k))] = ts[Cardinality(Upto(K, k))]
      <3> HIDE DEF Upto
      <3> QED BY <2>5
    <2> QED BY <1>2, <2>1, <2>6
  <1>5. us[Cardinality(Upto(L, n))] = words[n].text
    <2>1. \A l \in K : l \in Nat /\ l < n
      OBVIOUS
    <2>2. \A l \in L : l <= n
      BY <2>1
    <2>3. Upto(L, n) = L
      <3> HIDE DEF L
      <3> QED BY <2>2
    <2>4. us[Len(ts) + 1] = words[n].text
      OBVIOUS
    <2> QED BY <1>1, <1>2, <2>3, <2>4
  <1> QED BY <1>3, <1>4, <1>5 DEF InOrder

LEMMA InOrderKept ==
  ASSUME words' = words, NEW ts, NEW K, InOrder(ts, K)
  PROVE  InOrder(ts, K)'
  BY DEF InOrder

LEMMA TakenSeqs ==
  ASSUME NEW a \in Seq(Texts), NEW b \in Seq(Texts), NEW t \in Texts
  PROVE  /\ (a \o << >>) \o << >> = a
         /\ (a \o <<t>>) \o << >> = Append(a, t)
         /\ (<<t>> \o << >>) \o << >> = Append(<< >>, t)
         /\ (a \o <<t>>) \o b = a \o (<<t>> \o b)
         /\ a \o Append(b, t) = Append(a \o b, t)
  <1>1. (a \o << >>) \o << >> = a /\ (a \o <<t>>) \o << >> = Append(a, t)
    OBVIOUS
  <1>2. (<<t>> \o << >>) \o << >> = Append(<< >>, t)
    OBVIOUS
  <1>3. (a \o <<t>>) \o b = a \o (<<t>> \o b)
    OBVIOUS
  <1>4. a \o Append(b, t) = Append(a \o b, t)
    OBVIOUS
  <1> QED BY <1>1, <1>2, <1>3, <1>4

LEMMA TakenTypes ==
  ASSUME WordTypes
  PROVE  Leading \in Seq(Texts) /\ OptSeq(command) \in Seq(Texts) /\ Taken \in Seq(Texts)
  BY DEF WordTypes, Leading, OptSeq, Taken

(* A word for the command or the duration.                                 *)
LEMMA OwnWord ==
  ASSUME WordsInv, AtWord, NEW r \in Own, Reads1(r), words' = words,
         Taken' = Append(Taken, Word.text)
  PROVE  InOrder(Taken, RolesIn(Own))'
  <1>0. ParseTypes /\ pc = "parse" /\ Word = words[i]
    BY DEF WordsInv, SettingsInv, AtWord, Word
  <1>1. RolesIn(Own)' = RolesIn(Own) \cup {i}
    BY <1>0, Roles1
  <1>2. InOrder(Taken, RolesIn(Own)) /\ Taken \in Seq(Texts)
    BY <1>0, TakenTypes DEF WordsInv, TakenInOrder
  <1>3. /\ RolesIn(Own) \in SUBSET Nat /\ IsFiniteSet(RolesIn(Own)) /\ i \in Nat
        /\ \A k \in RolesIn(Own) : k < i
    BY <1>0, RolesBelow
  <1>4. InOrder(Append(Taken, words[i].text), RolesIn(Own) \cup {i})
    BY <1>2, <1>3, InOrderAppend
  <1>5. InOrder(Taken', RolesIn(Own)')
    BY <1>0, <1>1, <1>4
  <1> QED BY <1>5 DEF InOrder

LEMMA PositionalWords ==
  ASSUME WordsInv, Positional, UNCHANGED <<alias, target, config, result, out, code>>,
         SettingsInv'
  PROVE  WordsInv'
  <1>0. /\ ParseTypes /\ WordTypes /\ AtWord /\ pc = "parse" /\ pc' = "parse" /\ command = NoText
        /\ UNCHANGED <<words, saw_separator, args>>
    BY DEF WordsInv, SettingsInv, Positional, ReadsOptions, AtWord
  <1>1. Word.text \in Texts /\ Word.text # NoText
    BY <1>0, AtAWord, WordFacts, NoTextIsNone
  <1>2. args = << >> /\ RolesIn({"command"}) = {}
    BY <1>0 DEF WordsInv, AfterCommand, SettingsInv, PositionsRead
  <1>3. Leading \in Seq(Texts) /\ OptSeq(command) = << >> /\ Taken = Leading
    BY <1>0, <1>1, <1>2, TakenTypes, TakenSeqs DEF Taken, OptSeq
  <1>4. CASE duration = NoText
    <2>1. Reads1("duration") /\ duration' = Word.text /\ command' = command
      BY <1>4 DEF Positional, Advance, Reads1, Roles
    <2>2. /\ RolesIn({"duration"})' = RolesIn({"duration"}) \cup {i}
          /\ RolesIn({"command"})' = {}
          /\ RolesIn({"separator"})' = RolesIn({"separator"})
      BY <1>0, <1>2, <2>1, Roles1
    <2>3. Leading = << >>
      BY <1>0, <1>4 DEF Leading, WordsInv, SettingsInv, PositionsRead
    <2>4. Taken' = Append(Taken, Word.text)
      BY <1>0, <1>1, <1>2, <1>3, <2>1, <2>2, <2>3, TakenSeqs DEF Taken, Leading, OptSeq
    <2>5. InOrder(Taken, RolesIn(Own))'
      BY <1>0, <2>1, <2>4, OwnWord DEF Own
    <2>6. AfterCommand' /\ OneSeparator'
      BY <1>0, <1>2, <2>2 DEF WordsInv, AfterCommand, OneSeparator
    <2>7. WordTypes'
      BY <1>0, <1>1, <2>1 DEF WordTypes
    <2> QED BY <1>0, <2>5, <2>6, <2>7
            DEF WordsInv, TakenInOrder, NothingLeft, CommandChosen, LimitParses, Resolved, Configured
  <1>5. CASE duration # NoText
    <2>1. Reads1("command") /\ command' = Word.text /\ duration' = duration
      BY <1>5 DEF Positional, Advance, Reads1, Roles
    <2>2. /\ RolesIn({"duration"})' = RolesIn({"duration"})
          /\ RolesIn({"command"})' = {i}
          /\ RolesIn({"separator"})' = RolesIn({"separator"})
          /\ RolesIn(Roles \ {"arg"})' = RolesIn(Roles \ {"arg"}) \cup {i}
      BY <1>0, <1>2, <2>1, Roles1 DEF Roles
    <2>3. Leading' = Leading
      BY <2>1, <2>2 DEF Leading
    <2>4. Taken' = Append(Taken, Word.text)
      BY <1>0, <1>1, <1>2, <1>3, <2>1, <2>3, TakenSeqs DEF Taken, OptSeq
    <2>5. InOrder(Taken, RolesIn(Own))'
      BY <1>0, <2>1, <2>4, OwnWord DEF Own
    <2>6. AfterCommand'
      <3>1. \A k \in RolesIn(Roles \ {"arg"})' : ~ (k > i)
        BY <1>0, <2>2, RolesBelow
      <3> QED BY <1>1, <2>1, <2>2, <3>1 DEF AfterCommand
    <2>7. OneSeparator'
      BY <1>0, <2>2 DEF WordsInv, OneSeparator
    <2>8. WordTypes'
      BY <1>0, <1>1, <2>1 DEF WordTypes
    <2> QED BY <1>0, <2>5, <2>6, <2>7, <2>8
            DEF WordsInv, TakenInOrder, NothingLeft, CommandChosen, LimitParses, Resolved, Configured
  <1> QED BY <1>4, <1>5

LEMMA CommandWords ==
  ASSUME WordsInv, CommandWord, UNCHANGED <<alias, target, config, result, out, code>>,
         SettingsInv'
  PROVE  WordsInv'
  <1>0. /\ ParseTypes /\ WordTypes /\ AtWord /\ pc = "parse" /\ pc' = "parse"
        /\ UNCHANGED <<words, saw_separator, duration>>
    BY DEF WordsInv, SettingsInv, CommandWord, AtWord
  <1>1. Word.text \in Texts /\ Word.text # NoText
    BY <1>0, AtAWord, WordFacts, NoTextIsNone
  <1>2. Leading \in Seq(Texts) /\ OptSeq(command) \in Seq(Texts) /\ args \in Seq(Texts)
    BY <1>0, TakenTypes DEF WordTypes
  <1>3. CASE command = NoText
    <2>1. Reads1("command") /\ command' = Word.text /\ args' = args
      BY <1>3 DEF CommandWord, Advance, Reads1, Roles
    <2>2. args = << >> /\ RolesIn({"command"}) = {} /\ OptSeq(command) = << >>
      BY <1>3 DEF WordsInv, AfterCommand, SettingsInv, PositionsRead, OptSeq
    <2>3. /\ RolesIn({"duration"})' = RolesIn({"duration"})
          /\ RolesIn({"command"})' = {i}
          /\ RolesIn({"separator"})' = RolesIn({"separator"})
          /\ RolesIn(Roles \ {"arg"})' = RolesIn(Roles \ {"arg"}) \cup {i}
      BY <1>0, <2>1, <2>2, Roles1 DEF Roles
    <2>4. Leading' = Leading
      BY <1>0, <2>3 DEF Leading
    <2>5. Taken' = Append(Taken, Word.text)
      BY <1>1, <1>2, <2>1, <2>2, <2>4, TakenSeqs DEF Taken, OptSeq
    <2>6. InOrder(Taken, RolesIn(Own))'
      BY <1>0, <2>1, <2>5, OwnWord DEF Own
    <2>7. AfterCommand'
      <3>1. \A k \in RolesIn(Roles \ {"arg"})' : ~ (k > i)
        BY <1>0, <2>3, RolesBelow
      <3> QED BY <1>1, <2>1, <2>3, <3>1 DEF AfterCommand
    <2>8. OneSeparator'
      BY <1>0, <2>3 DEF WordsInv, OneSeparator
    <2>9. WordTypes'
      BY <1>0, <1>1, <2>1 DEF WordTypes
    <2> QED BY <1>0, <2>6, <2>7, <2>8, <2>9
            DEF WordsInv, TakenInOrder, NothingLeft, CommandChosen, LimitParses, Resolved, Configured
  <1>4. CASE command # NoText
    <2>1. Reads1("arg") /\ args' = Append(args, Word.text) /\ command' = command
      BY <1>4 DEF CommandWord, Advance, Reads1, Roles
    <2>2. /\ RolesIn({"duration"})' = RolesIn({"duration"})
          /\ RolesIn({"command"})' = RolesIn({"command"})
          /\ RolesIn({"separator"})' = RolesIn({"separator"})
          /\ RolesIn(Roles \ {"arg"})' = RolesIn(Roles \ {"arg"})
      BY <1>0, <2>1, Roles1
    <2>3. Leading' = Leading /\ OptSeq(command') = OptSeq(command)
      BY <1>0, <2>1, <2>2 DEF Leading
    <2>4. Taken' = Append(Taken, Word.text)
      <3>1. Leading \o OptSeq(command) \in Seq(Texts)
        BY <1>2
      <3>2. Taken' = (Leading \o OptSeq(command)) \o Append(args, Word.text)
        BY <2>1, <2>3 DEF Taken, OptSeq
      <3> QED BY <1>1, <1>2, <3>1, <3>2, TakenSeqs DEF Taken
    <2>5. InOrder(Taken, RolesIn(Own))'
      BY <1>0, <2>1, <2>4, OwnWord DEF Own
    <2>6. AfterCommand'
      BY <1>0, <1>4, <2>1, <2>2 DEF WordsInv, AfterCommand
    <2>7. OneSeparator'
      BY <1>0, <2>2 DEF WordsInv, OneSeparator
    <2>8. WordTypes'
      BY <1>0, <1>1, <2>1 DEF WordTypes
    <2> QED BY <1>0, <2>5, <2>6, <2>7, <2>8
            DEF WordsInv, TakenInOrder, NothingLeft, CommandChosen, LimitParses, Resolved, Configured
  <1> QED BY <1>3, <1>4

(* A word that is not the command's.                                       *)
LEMMA OtherWord ==
  ASSUME WordsInv, words' = words, UNCHANGED <<duration, command, args>>,
         RolesIn(Own)' = RolesIn(Own), RolesIn({"duration"})' = RolesIn({"duration"}),
         pc = "parse", pc' = "parse"
  PROVE  TakenInOrder' /\ WordTypes' /\ NothingLeft' /\ CommandChosen' /\ LimitParses'
  <1>1. Taken' = Taken
    BY DEF Taken, Leading, OptSeq
  <1>2. InOrder(Taken, RolesIn(Own))
    BY DEF WordsInv, TakenInOrder
  <1>3. InOrder(Taken, RolesIn(Own))'
    BY <1>1, <1>2 DEF InOrder
  <1> QED BY <1>3 DEF WordsInv, WordTypes, TakenInOrder, NothingLeft, CommandChosen, LimitParses,
                      Resolved, Configured

LEMMA SeparatorWords ==
  ASSUME WordsInv, Separator, UNCHANGED <<alias, target, config, result, out, code>>,
         SettingsInv'
  PROVE  WordsInv'
  <1>0. /\ ParseTypes /\ AtWord /\ pc = "parse" /\ pc' = "parse" /\ ~ saw_separator
        /\ words[i].form = "separator" /\ saw_separator'
        /\ UNCHANGED <<words, duration, command, args>>
    BY DEF WordsInv, SettingsInv, Separator, AtWord, Word
  <1>1. Reads1("separator")
    BY DEF Separator, Advance, Reads1, Roles
  <1>2. /\ RolesIn(Own)' = RolesIn(Own)
        /\ RolesIn({"duration"})' = RolesIn({"duration"})
        /\ RolesIn({"command"})' = RolesIn({"command"})
        /\ RolesIn({"separator"})' = RolesIn({"separator"}) \cup {i}
        /\ RolesIn(Roles \ {"arg"})' = RolesIn(Roles \ {"arg"}) \cup {i}
    BY <1>0, <1>1, Roles1 DEF Roles, Own
  <1>3. TakenInOrder' /\ WordTypes' /\ NothingLeft' /\ CommandChosen' /\ LimitParses'
    BY <1>0, <1>2, OtherWord
  <1>4. AfterCommand'
    BY <1>0, <1>2 DEF WordsInv, AfterCommand
  <1>5. OneSeparator'
    <2>1. RolesIn({"separator"})' = {i}
      BY <1>0, <1>2 DEF WordsInv, OneSeparator
    <2> QED BY <1>0, <2>1 DEF OneSeparator
  <1> QED BY <1>3, <1>4, <1>5 DEF WordsInv

LEMMA OptionWords ==
  ASSUME WordsInv, Option, UNCHANGED <<alias, target, config, result, out, code>>,
         SettingsInv'
  PROVE  WordsInv'
  <1>0. /\ ParseTypes /\ AtWord /\ pc = "parse" /\ pc' = "parse" /\ command = NoText
        /\ UNCHANGED <<words, saw_separator, duration, command, args>>
    BY DEF WordsInv, SettingsInv, Option, ReadsOptions, AtWord
  <1>1. \A S : "option" \notin S /\ "value" \notin S => RolesIn(S)' = RolesIn(S)
    <2>1. CASE TakesNext(Word)
      <3>1. role' = role \o <<"option", "value">>
        BY <2>1 DEF Option, Advance
      <3> QED BY <1>0, <3>1, Roles2
    <2>2. CASE ~ TakesNext(Word)
      <3>1. Reads1("option")
        BY <2>2 DEF Option, Advance, Reads1, Roles
      <3> QED BY <1>0, <3>1, Roles1
    <2> QED BY <2>1, <2>2
  <1>2. /\ RolesIn(Own)' = RolesIn(Own)
        /\ RolesIn({"duration"})' = RolesIn({"duration"})
        /\ RolesIn({"command"})' = RolesIn({"command"})
        /\ RolesIn({"separator"})' = RolesIn({"separator"})
    BY <1>1 DEF Own
  <1>3. TakenInOrder' /\ WordTypes' /\ NothingLeft' /\ CommandChosen' /\ LimitParses'
    BY <1>0, <1>2, OtherWord
  <1>4. RolesIn({"command"})' = {}
    BY <1>0, <1>2 DEF WordsInv, SettingsInv, PositionsRead
  <1>5. AfterCommand' /\ OneSeparator'
    BY <1>0, <1>2, <1>4 DEF WordsInv, AfterCommand, OneSeparator
  <1> QED BY <1>3, <1>5 DEF WordsInv

LEMMA ParsedWords ==
  ASSUME WordsInv, Parsed, UNCHANGED <<alias, target, config, result, out, code>>,
         SettingsInv'
  PROVE  WordsInv'
  <1>0. /\ ParseTypes /\ pc = "parse" /\ pc' = "parsed" /\ i > Len(words)
        /\ UNCHANGED <<words, env, i, saw_separator, command, args, role>>
        /\ duration' = IF duration = NoText THEN env.duration ELSE duration
    BY DEF WordsInv, SettingsInv, Parsed
  <1>1. \A S : RolesIn(S)' = RolesIn(S)
    BY <1>0 DEF RolesIn
  <1>2. env.duration \in Texts
    BY <1>0 DEF ParseTypes, EnvType
  <1>3. WordTypes'
    BY <1>0, <1>2 DEF WordsInv, WordTypes
  <1>4. Leading' = Leading
    BY <1>0, <1>1 DEF Leading, WordsInv, SettingsInv, PositionsRead
  <1>5. Taken' = Taken
    BY <1>0, <1>4 DEF Taken, OptSeq
  <1>6. InOrder(Taken, RolesIn(Own))'
    <2>1. InOrder(Taken, RolesIn(Own))
      BY <1>0 DEF WordsInv, TakenInOrder
    <2> QED BY <1>0, <1>1, <1>5, <2>1 DEF InOrder
  <1>7. Len(role') = Len(words')
    BY <1>0 DEF ParseTypes
  <1>8. AfterCommand' /\ OneSeparator'
    BY <1>0, <1>1 DEF WordsInv, AfterCommand, OneSeparator
  <1> QED BY <1>0, <1>3, <1>6, <1>7, <1>8
          DEF WordsInv, TakenInOrder, NothingLeft, CommandChosen, LimitParses, Resolved, Configured

LEMMA ResolveWords ==
  ASSUME WordsInv, Resolve, SettingsInv'
  PROVE  WordsInv'
  <1>0. /\ ParseTypes /\ WordTypes /\ pc = "parsed" /\ pc' = "config"
        /\ UNCHANGED <<words, env, saw_separator, duration, command, args, role>>
        /\ target' = resolve_args /\ Complete(resolve_args)
    BY DEF WordsInv, SettingsInv, Resolve
  <1>1. \A S : RolesIn(S)' = RolesIn(S)
    BY <1>0 DEF RolesIn
  <1>2. WordTypes' /\ NothingLeft' /\ AfterCommand' /\ OneSeparator'
    BY <1>0, <1>1 DEF WordsInv, WordTypes, NothingLeft, AfterCommand, OneSeparator
  <1>3. TakenInOrder' /\ LimitParses'
    BY <1>0 DEF TakenInOrder, LimitParses, Configured
  <1> DEFINE t == resolve_args
             texts == <<t.command>> \o t.args
             D == RolesIn({"duration"})
  <1>4. InOrder(Taken, RolesIn(Own)) /\ Taken = (Leading \o OptSeq(command)) \o args
    BY <1>0 DEF WordsInv, TakenInOrder, Taken
  <1>5. Leading = IF D = {} THEN << >> ELSE <<duration>>
    BY DEF Leading
  <1>6. /\ D = {} => duration = env.duration
        /\ command = NoText => args = << >> /\ OptSeq(command) = << >>
        /\ command # NoText => OptSeq(command) = <<command>>
        /\ duration \in Texts /\ command \in Texts /\ args \in Seq(Texts)
    BY <1>0 DEF WordsInv, AfterCommand, SettingsInv, PositionsRead, OptSeq, WordTypes
  <1>7. \/ texts = Taken \/ <<t.duration>> \o texts = Taken
        \/ D = {} /\ Taken = << >> /\ texts = <<env.duration>>
        \/ parse_duration(t.duration) = Bad
    <2>1. CASE env.duration # NoText /\ command # NoText /\ parse_duration(duration) = Bad
      <3>1. t.duration = env.duration /\ t.command = duration /\ t.args = <<command>> \o args
        BY <2>1 DEF resolve_args
      <3>2. CASE D = {}
        BY <1>6, <2>1, <3>1, <3>2
      <3>3. CASE D # {}
        <4>1. Taken = (<<duration>> \o <<command>>) \o args
          BY <1>4, <1>5, <1>6, <2>1, <3>3
        <4>2. texts = <<duration>> \o (<<command>> \o args)
          BY <3>1
        <4>3. <<duration>> \in Seq(Texts)
          BY <1>6
        <4> QED BY <1>6, <4>1, <4>2, <4>3, TakenSeqs
      <3> QED BY <3>2, <3>3
    <2>2. CASE env.duration # NoText /\ command = NoText
      <3>1. t.duration = env.duration /\ t.command = duration /\ t.args = << >>
        BY <1>6, <2>2 DEF resolve_args
      <3>2. Taken = (Leading \o << >>) \o << >> /\ texts = <<duration>> \o << >>
        BY <1>4, <1>6, <2>2, <3>1
      <3>3. texts = <<duration>>
        BY <1>6, <3>2
      <3>4. CASE D = {}
        <4>1. Taken = << >>
          BY <1>5, <3>2, <3>4
        <4> QED BY <1>6, <3>3, <3>4, <4>1
      <3>5. CASE D # {}
        <4>1. Taken = <<duration>>
          BY <1>5, <1>6, <3>2, <3>5
        <4> QED BY <3>3, <4>1
      <3> QED BY <3>4, <3>5
    <2>3. CASE /\ ~ (env.duration # NoText /\ command # NoText /\ parse_duration(duration) = Bad)
               /\ ~ (env.duration # NoText /\ command = NoText)
      <3>1. t.duration = duration /\ t.command = command /\ t.args = args
        BY <2>3 DEF resolve_args
      <3>2. OptSeq(command) = <<command>>
        BY <1>0, <1>6, <3>1 DEF Complete
      <3>3. CASE D = {}
        BY <1>4, <1>5, <1>6, <3>1, <3>2, <3>3
      <3>4. CASE D # {}
        <4>1. Taken = (<<duration>> \o <<command>>) \o args
          BY <1>4, <1>5, <3>2, <3>4
        <4>2. <<t.duration>> \o texts = <<duration>> \o (<<command>> \o args)
          BY <3>1
        <4>3. <<duration>> \in Seq(Texts)
          BY <1>6
        <4> QED BY <1>6, <4>1, <4>2, <4>3, TakenSeqs
      <3> QED BY <3>3, <3>4
    <2> QED BY <2>1, <2>2, <2>3
  <1>8. Taken = << >> => RolesIn(Own) = {}
    <2>1. ASSUME Taken = << >> PROVE Cardinality(RolesIn(Own)) = 0
      BY <1>4, <2>1 DEF InOrder
    <2> QED BY <1>0, <2>1, RolesBelow, FS_EmptySet
  <1>9. CommandChosen'
    <2> HIDE DEF t, D
    <2>1. \/ InOrder(texts, RolesIn(Own)) \/ InOrder(<<t.duration>> \o texts, RolesIn(Own))
          \/ RolesIn(Own) = {} /\ texts = <<env.duration>>
          \/ parse_duration(t.duration) = Bad
      BY <1>4, <1>7, <1>8
    <2>2. target' = t
      BY <1>0 DEF t
    <2> QED BY <1>0, <1>1, <2>1, <2>2 DEF CommandChosen, InOrder
  <1> QED BY <1>2, <1>3, <1>9 DEF WordsInv

(* A step after the words have been read, or none.                         *)
LEMMA KeptWords ==
  ASSUME WordsInv, SettingsInv', UNCHANGED <<words, env, parsing, target>>,
         pc' \in {"parse", "parsed"} => pc' = pc,
         NothingLeft', Resolved' => Resolved, LimitParses'
  PROVE  WordsInv'
  <1>0. UNCHANGED <<saw_separator, duration, command, args, role>>
    BY DEF parsing
  <1>1. \A S : RolesIn(S)' = RolesIn(S)
    BY <1>0 DEF RolesIn
  <1>2. WordTypes' /\ AfterCommand' /\ OneSeparator'
    BY <1>0, <1>1 DEF WordsInv, WordTypes, AfterCommand, OneSeparator
  <1>3. TakenInOrder'
    BY <1>0, <1>1 DEF WordsInv, TakenInOrder, Taken, Leading, OptSeq, InOrder
  <1>4. CommandChosen'
    BY <1>0, <1>1 DEF WordsInv, CommandChosen, InOrder
  <1> QED BY <1>2, <1>3, <1>4 DEF WordsInv

LEMMA WordsInit == Init => WordsInv
  <1> SUFFICES ASSUME Init PROVE WordsInv
    OBVIOUS
  <1>0. /\ pc = "parse" /\ duration = NoText /\ command = NoText /\ args = << >> /\ role = << >>
        /\ saw_separator = FALSE
    BY DEF Init, ParseInit
  <1>1. \A S : RolesIn(S) = {}
    BY <1>0 DEF RolesIn
  <1>2. WordTypes
    BY <1>0, NoTextIsNone DEF WordTypes
  <1>3. Taken = << >>
    BY <1>0, <1>1 DEF Taken, Leading, OptSeq
  <1>4. TakenInOrder
    BY <1>1, <1>3, FS_EmptySet DEF TakenInOrder, InOrder
  <1>5. NothingLeft /\ AfterCommand /\ OneSeparator /\ CommandChosen /\ LimitParses
    BY <1>0, <1>1 DEF NothingLeft, AfterCommand, OneSeparator, CommandChosen, LimitParses,
                      Resolved, Configured
  <1> QED BY <1>2, <1>4, <1>5, SettingsInit DEF WordsInv

LEMMA WordsNext == WordsInv /\ [Next]_vars => WordsInv'
  <1> SUFFICES ASSUME WordsInv, [Next]_vars PROVE WordsInv'
    OBVIOUS
  <1>0. SettingsInv' /\ LimitParses /\ NothingLeft
    BY SettingsNext DEF WordsInv
  <1>1. CASE Parse
    <2>0. UNCHANGED <<alias, target, config, result, out, code>>
      BY <1>1 DEF Parse
    <2>1. CASE CommandWord
      BY <1>0, <2>0, <2>1, CommandWords
    <2>2. CASE Separator
      BY <1>0, <2>0, <2>2, SeparatorWords
    <2>3. CASE Option
      BY <1>0, <2>0, <2>3, OptionWords
    <2>4. CASE Positional
      BY <1>0, <2>0, <2>4, PositionalWords
    <2>5. CASE Parsed
      BY <1>0, <2>0, <2>5, ParsedWords
    <2>6. CASE Info \/ BadOption \/ Conflicting
      <3>1. /\ pc' \in {"info", "refused"} /\ UNCHANGED <<words, env, parsing>>
        BY <2>6 DEF Info, BadOption, Conflicting
      <3> QED BY <1>0, <2>0, <3>1, KeptWords DEF NothingLeft, Resolved, LimitParses, Configured
    <2> QED BY <1>1, <2>1, <2>2, <2>3, <2>4, <2>5, <2>6 DEF Parse, ParseNext
  <1>2. CASE \/ ParserExits \/ Incomplete \/ BadConfig \/ BadFileWait
             \/ FileMissing \/ RunFails \/ RunReturns
    <2>1. pc' = "exit" /\ UNCHANGED <<words, env, parsing, target>>
      BY <1>2 DEF ParserExits, Incomplete, BadConfig, BadFileWait, FileMissing, RunFails,
                  RunReturns, Fails, Exit
    <2> QED BY <1>0, <2>1, KeptWords DEF NothingLeft, Resolved, LimitParses, Configured
  <1>3. CASE Resolve
    BY <1>0, <1>3, ResolveWords
  <1>4. CASE Configure
    <2>1. /\ pc = "config" /\ pc' \in {"file", "run"} /\ Consistent(from_args)
          /\ UNCHANGED <<words, env, parsing, target>>
      BY <1>4 DEF Configure
    <2>2. from_args["timeout"] = parse_duration(target.duration) /\ "timeout" \in DOMAIN from_args
      BY DEF from_args
    <2>3. parse_duration(target.duration) # Bad
      BY <2>1, <2>2 DEF Consistent
    <2>4. NothingLeft' /\ LimitParses'
      BY <1>0, <2>1, <2>3 DEF NothingLeft, LimitParses, parsing
    <2> QED BY <1>0, <2>1, <2>4, KeptWords DEF Resolved
  <1>5. CASE FileFound
    <2>1. /\ pc = "file" /\ pc' = "run" /\ UNCHANGED <<words, env, parsing, target>>
      BY <1>5 DEF FileFound
    <2>2. NothingLeft' /\ LimitParses'
      BY <1>0, <2>1 DEF NothingLeft, LimitParses, Configured, parsing
    <2> QED BY <1>0, <2>1, <2>2, KeptWords DEF Resolved
  <1>6. CASE UNCHANGED vars
    <2>1. UNCHANGED <<words, env, pc, parsing, target>>
      BY <1>6 DEF vars
    <2>2. NothingLeft' /\ LimitParses'
      BY <1>0, <2>1 DEF NothingLeft, LimitParses, Configured, parsing
    <2> QED BY <1>0, <2>1, <2>2, KeptWords DEF Resolved
  <1> QED BY <1>1, <1>2, <1>3, <1>4, <1>5, <1>6 DEF Next

(* Every word gets one role, and the command runs with the positional      *)
(* words in their order, for every command line that has one               *)
(* (parse_from_slice, resolve_args).                                       *)
THEOREM CommandGetsItsWords == Spec => []WordsReachCommand
  <1>1. WordsInv => WordsReachCommand
    <2> SUFFICES ASSUME WordsInv, Configured PROVE WordsReachCommand
      BY DEF WordsReachCommand
    <2>0. Resolved /\ ParseTypes
      BY DEF Resolved, Configured, WordsInv, SettingsInv
    <2>1. Len(role) = Len(words)
      BY DEF WordsInv, NothingLeft, Configured
    <2>2. \A c \in RolesIn({"command"}), k \in DOMAIN role :
            k > c => role[k] = "arg" \/ words[k].form = "separator"
      <3> SUFFICES ASSUME NEW c \in RolesIn({"command"}), NEW k \in DOMAIN role, k > c,
                          role[k] # "arg"
                   PROVE  words[k].form = "separator"
        OBVIOUS
      <3>1. k \in RolesIn(Roles \ {"arg"})
        BY <2>0 DEF ParseTypes, RolesIn
      <3> QED BY <3>1 DEF WordsInv, AfterCommand
    <2>3. Cardinality(RolesIn({"separator"})) <= 1
      <3>1. RolesIn({"separator"}) = {} \/ \E k : RolesIn({"separator"}) = {k}
        BY DEF WordsInv, OneSeparator
      <3>2. CASE RolesIn({"separator"}) = {}
        BY <3>2, FS_EmptySet
      <3>3. CASE \E k : RolesIn({"separator"}) = {k}
        <4>1. PICK k : RolesIn({"separator"}) = {k}
          BY <3>3
        <4>2. Cardinality({k}) = 1
          BY FS_Singleton
        <4> QED BY <4>1, <4>2
      <3> QED BY <3>1, <3>2, <3>3
    <2>4. LET texts == <<target.command>> \o target.args
          IN  \/ InOrder(texts, RolesIn(Own))
              \/ InOrder(<<target.duration>> \o texts, RolesIn(Own))
              \/ RolesIn(Own) = {} /\ texts = <<env.duration>>
      BY <2>0 DEF WordsInv, CommandChosen, LimitParses
    <2>5. LET texts == <<target.command>> \o target.args
          IN  RolesIn(Own) # {} => \/ InOrder(texts, RolesIn(Own))
                                   \/ InOrder(<<target.duration>> \o texts, RolesIn(Own))
      BY <2>4
    <2> QED BY <2>1, <2>2, <2>3, <2>5 DEF WordsReachCommand, Own
  <1> QED BY <1>1, WordsInit, WordsNext, PTL DEF Spec

-----------------------------------------------------------------------------
(* Durations.  A numeral is a recursive function; the induction over the   *)
(* number of its digits comes from the well-foundedness of the naturals.   *)

LEMMA SmallestNat ==
  ASSUME NEW T, T \subseteq Nat, T # {}
  PROVE  \E x \in T : \A y \in T : ~ (y < x)
  <1> DEFINE R == { ss \in Nat \X Nat : ss[1] < ss[2] }
  <1>1. IsWellFoundedOn(R, Nat)
    BY NatLessThanWellFounded, Zenon DEF OpToRel
  <1>2. \A x, y \in Nat : y < x => <<y, x>> \in R
    OBVIOUS
  <1> HIDE DEF R
  <1>3. \E x \in T : \A y \in T : ~ (<<y, x>> \in R)
    BY <1>1, WFMin
  <1> QED BY <1>2, <1>3

LEMMA SetInduction ==
  ASSUME NEW P, 0 \in P, \A n \in Nat : n \in P => n + 1 \in P
  PROVE  \A n \in Nat : n \in P
  <1> DEFINE T == { n \in Nat : n \notin P }
  <1> SUFFICES ASSUME T # {} PROVE FALSE
    OBVIOUS
  <1>1. PICK x \in T : \A y \in T : ~ (y < x)
    <2> T \subseteq Nat
      OBVIOUS
    <2> HIDE DEF T
    <2> QED BY SmallestNat
  <1>2. x \in Nat /\ x # 0 /\ x \notin P
    OBVIOUS
  <1>3. x - 1 \in Nat /\ x - 1 < x
    BY <1>2
  <1>4. x - 1 \in P
    BY <1>1, <1>3
  <1> QED BY <1>2, <1>3, <1>4

(* The k-th digit of s.                                                    *)
Digit(s, k) == IF k <= Len(s) THEN s[k] ELSE 0

LEMMA DigitType ==
  ASSUME NEW s \in Seq(0 .. 9), NEW k \in Nat \ {0}
  PROVE  Digit(s, k) \in 0 .. 9
  BY DEF Digit

(* The first values of a numeral, as a table.                              *)
Table(c, s, m, g) ==
  /\ g \in [0 .. m -> Nat]
  /\ g[0] = c
  /\ \A k \in 1 .. m : g[k] = 10 * g[k - 1] + Digit(s, k)

LEMMA TableExists ==
  ASSUME NEW c \in Nat, NEW s \in Seq(0 .. 9)
  PROVE  \A m \in Nat : \E g : Table(c, s, m, g)
  <1> DEFINE P == { m \in Nat : \E g : Table(c, s, m, g) }
  <1>1. 0 \in P
    <2>1. Table(c, s, 0, [k \in 0 .. 0 |-> c])
      BY DEF Table
    <2> QED BY <2>1
  <1>2. ASSUME NEW m \in Nat, m \in P
        PROVE  m + 1 \in P
    <2>1. PICK g : Table(c, s, m, g)
      BY <1>2
    <2> DEFINE d == Digit(s, m + 1)
               h == [k \in 0 .. m + 1 |-> IF k = m + 1 THEN 10 * g[m] + d ELSE g[k]]
    <2>2. d \in Nat
      BY DigitType
    <2> HIDE DEF d
    <2>3. g[m] \in Nat /\ 10 * g[m] + d \in Nat
      BY <2>1, <2>2 DEF Table
    <2>4. h \in [0 .. m + 1 -> Nat]
      BY <2>1, <2>3 DEF Table
    <2>5. h[0] = c
      BY <2>1 DEF Table
    <2>6. ASSUME NEW k \in 1 .. m + 1 PROVE h[k] = 10 * h[k - 1] + Digit(s, k)
      <3>1. k - 1 \in 0 .. m /\ k - 1 # m + 1 /\ h[k - 1] = g[k - 1]
        OBVIOUS
      <3>2. CASE k = m + 1
        BY <3>1, <3>2 DEF d
      <3>3. CASE k # m + 1
        <4>1. k \in 1 .. m /\ h[k] = g[k]
          BY <3>3
        <4> QED BY <4>1, <3>1, <2>1 DEF Table
      <3> QED BY <3>2, <3>3
    <2>7. Table(c, s, m + 1, h)
      BY <2>4, <2>5, <2>6 DEF Table
    <2> HIDE DEF h
    <2> QED BY <2>7
  <1> HIDE DEF P
  <1>3. \A m \in Nat : m \in P
    BY <1>1, <1>2, SetInduction
  <1> QED BY <1>3 DEF P

LEMMA TableUnique ==
  ASSUME NEW c \in Nat, NEW s \in Seq(0 .. 9), NEW m \in Nat, NEW l \in Nat, NEW g, NEW h,
         m <= l, Table(c, s, m, g), Table(c, s, l, h)
  PROVE  \A k \in 0 .. m : g[k] = h[k]
  <1> DEFINE P == { k \in Nat : k <= m => g[k] = h[k] }
  <1>1. 0 \in P
    BY DEF Table
  <1>2. ASSUME NEW k \in Nat, k \in P PROVE k + 1 \in P
    <2> SUFFICES ASSUME k + 1 <= m PROVE g[k + 1] = h[k + 1]
      OBVIOUS
    <2>1. k + 1 \in 1 .. m /\ k + 1 \in 1 .. l /\ (k + 1) - 1 = k
      OBVIOUS
    <2>2. g[k + 1] = 10 * g[k] + Digit(s, k + 1) /\ h[k + 1] = 10 * h[k] + Digit(s, k + 1)
      BY <2>1 DEF Table
    <2> QED BY <1>2, <2>2
  <1> HIDE DEF P
  <1>3. \A k \in Nat : k \in P
    BY <1>1, <1>2, SetInduction
  <1> QED BY <1>3 DEF P

LEMMA NumeralDef ==
  ASSUME NEW c \in Nat, NEW s \in Seq(0 .. 9)
  PROVE  /\ \A n \in Nat : Numeral(c, s)[n] \in Nat
         /\ Numeral(c, s)[0] = c
         /\ \A n \in Nat : Numeral(c, s)[n + 1] = 10 * Numeral(c, s)[n] + Digit(s, n + 1)
  <1> DEFINE G(n) == CHOOSE g : Table(c, s, n, g)
             F == [n \in Nat |-> G(n)[n]]
             E(p) == [n \in Nat |-> IF n = 0 THEN c ELSE 10 * p[n - 1] + Digit(s, n)]
  <1>1. ASSUME NEW n \in Nat PROVE Table(c, s, n, G(n))
    BY TableExists
  <1> HIDE DEF G
  <1>2. ASSUME NEW n \in Nat
        PROVE  F[n] = IF n = 0 THEN c ELSE 10 * F[n - 1] + Digit(s, n)
    <2>1. F[n] = G(n)[n] /\ (n # 0 => F[n - 1] = G(n - 1)[n - 1])
      OBVIOUS
    <2>2. CASE n = 0
      BY <2>1, <2>2, <1>1 DEF Table
    <2>3. CASE n # 0
      <3>1. n - 1 \in Nat
        BY <2>3
      <3>2. G(n - 1)[n - 1] = G(n)[n - 1]
        BY <1>1, <3>1, TableUnique
      <3>3. G(n)[n] = 10 * G(n)[n - 1] + Digit(s, n)
        BY <1>1, <2>3 DEF Table
      <3> QED BY <2>1, <2>3, <3>2, <3>3
    <2> QED BY <2>2, <2>3
  <1>3. F = E(F)
    <2> HIDE DEF F
    <2> QED BY <1>2 DEF F
  <1> HIDE DEF F
  <1>4. Numeral(c, s) = E(Numeral(c, s))
    <2>1. \E p : p = E(p)
      BY <1>3
    <2>2. Numeral(c, s) = CHOOSE p : p = E(p)
      BY DEF Numeral, Digit
    <2> HIDE DEF E
    <2> QED BY <2>1, <2>2
  <1> DEFINE p == Numeral(c, s)
  <1>5. p = [n \in Nat |-> IF n = 0 THEN c ELSE 10 * p[n - 1] + Digit(s, n)]
    BY <1>4
  <1> HIDE DEF p
  <1>6. p[0] = c /\ \A n \in Nat : p[n + 1] = 10 * p[n] + Digit(s, n + 1)
    <2>1. p[0] = c
      BY <1>5
    <2>2. ASSUME NEW n \in Nat PROVE p[n + 1] = 10 * p[n] + Digit(s, n + 1)
      <3>1. n + 1 \in Nat /\ n + 1 # 0 /\ (n + 1) - 1 = n
        OBVIOUS
      <3> QED BY <1>5, <3>1
    <2> QED BY <2>1, <2>2
  <1> DEFINE P == { n \in Nat : p[n] \in Nat }
  <1>7. 0 \in P
    BY <1>6
  <1>8. ASSUME NEW n \in Nat, n \in P PROVE n + 1 \in P
    <2>1. p[n + 1] = 10 * p[n] + Digit(s, n + 1)
      BY <1>6
    <2>2. Digit(s, n + 1) \in 0 .. 9
      BY DigitType
    <2> QED BY <1>8, <2>1, <2>2
  <1> HIDE DEF P
  <1>9. \A n \in Nat : n \in P
    BY <1>7, <1>8, SetInduction
  <1> QED BY <1>6, <1>9 DEF P, p

(* Powers of ten multiply, and a prefix of the digits is the number cut    *)
(* off behind them.                                                        *)
LEMMA PowerType ==
  /\ PowerOf10(0) = 1
  /\ \A n \in Nat : PowerOf10(n) \in Nat \ {0} /\ PowerOf10(n + 1) = 10 * PowerOf10(n)
  <1>0. << >> \in Seq(0 .. 9) /\ 1 \in Nat
    OBVIOUS
  <1>1. PowerOf10(0) = 1
    BY <1>0, NumeralDef DEF PowerOf10
  <1>2. ASSUME NEW n \in Nat
        PROVE  PowerOf10(n) \in Nat /\ PowerOf10(n + 1) = 10 * PowerOf10(n)
    <2>1. PowerOf10(n) \in Nat
      BY <1>0, NumeralDef DEF PowerOf10
    <2>2. PowerOf10(n + 1) = 10 * PowerOf10(n) + Digit(<< >>, n + 1)
      BY <1>0, NumeralDef DEF PowerOf10
    <2>3. Digit(<< >>, n + 1) = 0
      BY DEF Digit
    <2> QED BY <2>1, <2>2, <2>3
  <1>3. \A n \in Nat : PowerOf10(n) \in Nat /\ PowerOf10(n + 1) = 10 * PowerOf10(n)
    BY <1>2
  <1> DEFINE P == { n \in Nat : PowerOf10(n) # 0 }
  <1>4. 0 \in P
    BY <1>1
  <1>5. ASSUME NEW n \in Nat, n \in P PROVE n + 1 \in P
    BY <1>3, <1>5
  <1> HIDE DEF P
  <1>6. \A n \in Nat : n \in P
    BY <1>4, <1>5, SetInduction
  <1> QED BY <1>1, <1>3, <1>6 DEF P

LEMMA SplitStep ==
  ASSUME NEW a \in Nat, NEW b \in Nat, NEW t \in Nat, NEW d \in 0 .. 9,
         b >= a * t, b < (a + 1) * t
  PROVE  /\ 10 * b + d >= a * (10 * t)
         /\ 10 * b + d < (a + 1) * (10 * t)
  <1> DEFINE x == a * t
  <1>1. x \in Nat /\ (a + 1) * t = x + t /\ a * (10 * t) = 10 * x
        /\ (a + 1) * (10 * t) = 10 * x + 10 * t
    OBVIOUS
  <1>2. b >= x /\ b < x + t
    BY <1>1
  <1> HIDE DEF x
  <1>3. 10 * b + d >= 10 * x /\ 10 * b + d < 10 * x + 10 * t
    BY <1>1, <1>2
  <1> QED BY <1>1, <1>3

(* What the first n digits say of the first n + j.                         *)
Splits(f, n, j) ==
  /\ PowerOf10(n + j) = PowerOf10(n) * PowerOf10(j)
  /\ Digits(f, n + j) >= Digits(f, n) * PowerOf10(j)
  /\ Digits(f, n + j) < (Digits(f, n) + 1) * PowerOf10(j)
  /\ Len(f) <= n => Digits(f, n + j) = Digits(f, n) * PowerOf10(j)

LEMMA DigitsDef ==
  ASSUME NEW f \in Seq(0 .. 9), NEW k \in Nat
  PROVE  Digits(f, k) \in Nat /\ Digits(f, k + 1) = 10 * Digits(f, k) + Digit(f, k + 1)
  BY NumeralDef DEF Digits

LEMMA SplitOne ==
  ASSUME NEW f \in Seq(0 .. 9), NEW n \in Nat, NEW j \in Nat, Splits(f, n, j)
  PROVE  Splits(f, n, j + 1)
  <1>0. PICK m \in Nat : m = n + j
    OBVIOUS
  <1>1. n + (j + 1) = m + 1
    BY <1>0
  <1>2. PICK d \in 0 .. 9 : d = Digit(f, m + 1)
    BY DigitType
  <1>3. PICK a \in Nat : a = Digits(f, n)
    BY DigitsDef
  <1>4. PICK b \in Nat : b = Digits(f, m)
    BY DigitsDef
  <1>5. PICK t \in Nat : t = PowerOf10(j)
    BY PowerType
  <1>6. PICK u \in Nat : u = PowerOf10(n)
    BY PowerType
  <1>7. PowerOf10(j + 1) = 10 * t /\ PowerOf10(m + 1) = 10 * PowerOf10(m)
    BY <1>5, PowerType
  <1>8. Digits(f, m + 1) = 10 * b + d
    BY <1>2, <1>4, DigitsDef
  <1>9. /\ PowerOf10(m) = u * t /\ b >= a * t /\ b < (a + 1) * t
        /\ Len(f) <= n => b = a * t
    BY <1>0, <1>3, <1>4, <1>5, <1>6 DEF Splits
  <1>10. Len(f) <= n => d = 0
    BY <1>0, <1>2 DEF Digit
  <1>11. PowerOf10(m + 1) = u * (10 * t)
    <2>1. 10 * (u * t) = u * (10 * t)
      OBVIOUS
    <2> QED BY <1>7, <1>9, <2>1
  <1>12. 10 * b + d >= a * (10 * t) /\ 10 * b + d < (a + 1) * (10 * t)
    BY <1>9, SplitStep
  <1>13. ASSUME Len(f) <= n PROVE 10 * b + d = a * (10 * t)
    <2>1. 10 * (a * t) = a * (10 * t)
      OBVIOUS
    <2>2. 10 * b + d = 10 * (a * t)
      BY <1>9, <1>10, <1>13
    <2> QED BY <2>1, <2>2
  <1> QED BY <1>1, <1>3, <1>6, <1>7, <1>8, <1>11, <1>12, <1>13 DEF Splits

LEMMA Split ==
  ASSUME NEW f \in Seq(0 .. 9), NEW n \in Nat
  PROVE  \A j \in Nat : Splits(f, n, j)
  <1> DEFINE P == { j \in Nat : Splits(f, n, j) }
  <1>1. 0 \in P
    <2>1. PICK a \in Nat : a = Digits(f, n)
      BY DigitsDef
    <2>2. PICK u \in Nat : u = PowerOf10(n)
      BY PowerType
    <2>3. n + 0 = n /\ PowerOf10(0) = 1
      BY PowerType
    <2>4. u = u * 1 /\ a >= a * 1 /\ a < (a + 1) * 1 /\ a = a * 1
      OBVIOUS
    <2> QED BY <2>1, <2>2, <2>3, <2>4 DEF Splits
  <1>2. ASSUME NEW j \in Nat, j \in P PROVE j + 1 \in P
    BY <1>2, SplitOne
  <1> HIDE DEF P
  <1>3. \A j \in Nat : j \in P
    BY <1>1, <1>2, SetInduction
  <1> QED BY <1>3 DEF P

-----------------------------------------------------------------------------
(* Quotients.                                                              *)
LEMMA DivBounds ==
  ASSUME NEW a \in Nat, NEW b \in Nat \ {0}
  PROVE  a \div b \in Nat /\ b * (a \div b) <= a /\ a < b * (a \div b) + b
  OBVIOUS

LEMMA DivUnique ==
  ASSUME NEW a \in Nat, NEW b \in Nat \ {0}, NEW q \in Nat, b * q <= a, a < b * q + b
  PROVE  a \div b = q
  OBVIOUS

LEMMA Times ==
  ASSUME NEW a \in Nat, NEW b \in Nat, NEW c \in Nat
  PROVE  /\ a * b \in Nat /\ a * b = b * a /\ (a * b) * c = a * (b * c) /\ (a + b) * c = a * c + b * c
         /\ a <= b => a * c <= b * c
         /\ a * c < b * c => a < b
         /\ c # 0 /\ a < b => a * c < b * c
  OBVIOUS

LEMMA TimesPositive ==
  ASSUME NEW a \in Nat \ {0}, NEW b \in Nat \ {0}
  PROVE  a * b \in Nat \ {0}
  OBVIOUS

(* Padding with zeros changes nothing.                                     *)
LEMMA PaddedQuotient ==
  ASSUME NEW x \in Nat, NEW T \in Nat \ {0}, NEW J \in Nat \ {0}
  PROVE  (x * J) \div (T * J) = x \div T
  <1>1. PICK q \in Nat : q = x \div T
    BY DivBounds
  <1>2. T * q <= x /\ x < T * q + T
    BY <1>1, DivBounds
  <1>3. PICK y \in Nat : y = T * q
    BY Times
  <1>4. x * J \in Nat /\ T * J \in Nat \ {0} /\ y * J <= x * J /\ x * J < (y + T) * J
    <2>1. y <= x /\ x < y + T /\ y + T \in Nat
      BY <1>2, <1>3
    <2> QED BY <2>1, Times, TimesPositive
  <1>5. y * J = (T * J) * q /\ (y + T) * J = (T * J) * q + T * J
    <2>1. (T * q) * J = (T * J) * q
      OBVIOUS
    <2> QED BY <1>3, <2>1, Times
  <1>6. (T * J) * q <= x * J /\ x * J < (T * J) * q + T * J
    BY <1>4, <1>5
  <1> QED BY <1>1, <1>4, <1>6, DivUnique

(* Digits cut off make the quotient smaller by less than the last digit    *)
(* kept is worth.                                                          *)
LEMMA CutQuotient ==
  ASSUME NEW x \in Nat, NEW m \in Nat, NEW S \in Nat \ {0}, NEW J \in Nat \ {0}, NEW M \in Nat,
         x * J <= m, m < (x + 1) * J
  PROVE  /\ (x * M) \div S <= (m * M) \div (S * J)
         /\ ((m * M) \div (S * J) - (x * M) \div S) * S <= M + S
  <1>0. PICK xm \in Nat : xm = x * M
    BY Times
  <1>1. PICK mm \in Nat : mm = m * M
    BY Times
  <1>2. PICK T \in Nat \ {0} : T = S * J
    BY TimesPositive
  <1>3. PICK c \in Nat : c = xm \div S
    BY DivBounds
  <1>4. PICK e \in Nat : e = mm \div T
    BY DivBounds
  <1>5. S * c <= xm /\ xm < S * c + S /\ T * e <= mm /\ mm < T * e + T
    BY <1>3, <1>4, DivBounds
  <1>6. xm * J <= mm /\ mm <= (xm + M) * J
    <2>1. (x * J) * M <= m * M /\ m * M <= ((x + 1) * J) * M
      BY Times
    <2>2. (x * J) * M = (x * M) * J /\ ((x + 1) * J) * M = (x * M + M) * J
      OBVIOUS
    <2> QED BY <1>0, <1>1, <2>1, <2>2
  <1>7. c <= e
    <2>1. PICK sc \in Nat : sc = S * c
      BY Times
    <2>2. sc * J <= xm * J
      BY <1>5, <2>1, Times
    <2>3. sc * J = T * c /\ T * (e + 1) = T * e + T
      <3>1. (S * c) * J = (S * J) * c
        OBVIOUS
      <3>2. T * (e + 1) = T * e + T
        OBVIOUS
      <3> QED BY <1>2, <2>1, <3>1, <3>2
    <2>4. sc * J \in Nat /\ xm * J \in Nat /\ T * e \in Nat
      BY <2>1, Times
    <2>5. T * c < T * (e + 1)
      BY <1>5, <1>6, <2>2, <2>3, <2>4
    <2>6. c < e + 1
      BY <2>5, Times
    <2> QED BY <2>6
  <1>8. (e - c) * S <= M + S
    <2>1. PICK se \in Nat : se = S * e
      BY Times
    <2>2. PICK sc \in Nat : sc = S * c
      BY Times
    <2>3. se * J = T * e
      <3>1. (S * e) * J = (S * J) * e
        OBVIOUS
      <3> QED BY <1>2, <2>1, <3>1
    <2>4. se * J <= (xm + M) * J
      <3>1. T * e \in Nat /\ (xm + M) * J \in Nat
        BY Times
      <3> QED BY <1>5, <1>6, <2>3, <3>1
    <2>5. se <= xm + M
      <3>1. ~ (xm + M < se)
        <4> SUFFICES ASSUME xm + M < se PROVE FALSE
          OBVIOUS
        <4>1. (xm + M) * J < se * J
          BY Times
        <4>2. (xm + M) * J \in Nat /\ se * J \in Nat
          BY Times
        <4> QED BY <2>4, <4>1, <4>2
      <3> QED BY <3>1
    <2>6. se <= sc + S + M
      BY <1>5, <2>2, <2>5
    <2>7. (e - c) * S = se - sc
      BY <2>1, <2>2
    <2> QED BY <2>6, <2>7
  <1> QED BY <1>0, <1>1, <1>2, <1>3, <1>4, <1>7, <1>8

-----------------------------------------------------------------------------
(* parse_duration.                                                         *)
Numeric(t) ==
  IsNumber(t) => t.int \in Nat \cup {Nothing} /\ t.frac \in Seq(0 .. 9)

(* c is what the text t says, as far as FracDigits digits go.              *)
Faithful(t, c) ==
  IsNumber(t) =>
  /\ c \in 0 .. U64Max
  /\ ExactValue(t) - c >= 0
  /\ Len(t.frac) <= FracDigits => ExactValue(t) - c = 0
  /\ (ExactValue(t) - c) * Scale <= Multiplier[t.suffix] + Scale

LEMMA ParseFaithful ==
  ASSUME NEW t, Numeric(t), parse_duration(t) # Bad
  PROVE  Faithful(t, parse_duration(t))
  <1> SUFFICES ASSUME IsNumber(t) PROVE Faithful(t, parse_duration(t))
    BY DEF Faithful
  <1> DEFINE w == IF t.int = Nothing THEN 0 ELSE t.int
             f == t.frac
             n == Len(t.frac)
             m == w * PowerOf10(n) + Digits(f, n)
             x == w * Scale + Digits(f, FracDigits)
             M == Multiplier[t.suffix]
             c == parse_duration(t)
  <1>1. w \in Nat /\ f \in Seq(0 .. 9) /\ n \in Nat /\ FracDigits \in Nat
    <2>1. t.int \in Nat \cup {Nothing} /\ f \in Seq(0 .. 9)
      BY DEF Numeric
    <2>2. w \in Nat
      BY <2>1
    <2>3. n \in Nat
      BY <2>1
    <2>4. FracDigits \in Nat
      BY ValuesAssumption
    <2> QED BY <2>1, <2>2, <2>3, <2>4
  <1>2. parse_decimal_to_nanos(t) # Bad /\ t.suffix \in DOMAIN Multiplier
    BY DEF parse_duration
  <1>3. parse_decimal_to_nanos(t) = x
    BY <1>2 DEF parse_decimal_to_nanos, frac_val
  <1>4. M \in Nat \ {0}
    BY <1>2, ValuesAssumption
  <1>5. Scale \in Nat \ {0} /\ PowerOf10(n) \in Nat \ {0} /\ Digits(f, n) \in Nat
        /\ Digits(f, FracDigits) \in Nat
    BY <1>1, PowerType, DigitsDef DEF Scale
  <1>6. c = (x * M) \div Scale /\ ~ (c > U64Max)
    BY <1>2, <1>3 DEF parse_duration
  <1>7. ExactValue(t) = (m * M) \div PowerOf10(n)
    BY DEF ExactValue
  <1> HIDE DEF w, f, n, M, c
  <1>8. x \in Nat /\ m \in Nat
    <2>1. w * Scale \in Nat /\ w * PowerOf10(n) \in Nat
      BY <1>1, <1>5, Times
    <2> QED BY <1>5, <2>1
  <1>9. c \in 0 .. U64Max
    <2>1. x * M \in Nat
      BY <1>4, <1>8, Times
    <2> HIDE DEF x
    <2>2. c \in Nat
      BY <1>5, <1>6, <2>1, DivBounds
    <2>3. U64Max \in Nat
      BY ValuesAssumption
    <2> HIDE DEF c
    <2> QED BY <1>6, <2>2, <2>3
  <1>10. CASE n <= FracDigits
    <2>1. PICK j \in Nat : FracDigits = n + j
      <3>1. FracDigits - n \in Nat /\ FracDigits = n + (FracDigits - n)
        BY <1>1, <1>10
      <3> QED BY <3>1
    <2>2. PICK J \in Nat \ {0} : J = PowerOf10(j)
      BY PowerType
    <2>3. PICK T \in Nat \ {0} : T = PowerOf10(n)
      BY <1>5
    <2>4. PICK D \in Nat : D = Digits(f, n)
      BY <1>5
    <2>5. Scale = T * J /\ Digits(f, FracDigits) = D * J
      <3>1. Splits(f, n, j) /\ Len(f) <= n
        BY <1>1, Split DEF f, n
      <3> QED BY <2>1, <2>2, <2>3, <2>4, <3>1 DEF Splits, Scale
    <2>6. x = m * J
      <3>1. w * (T * J) + D * J = (w * T + D) * J
        BY <1>1
      <3> QED BY <2>3, <2>4, <2>5, <3>1
    <2> HIDE DEF x, m
    <2>7. x * M = (m * M) * J /\ m * M \in Nat
      <3>1. (m * J) * M = (m * M) * J
        BY <1>4, <1>8
      <3> QED BY <1>4, <1>8, <2>6, <3>1, Times
    <2>8. c = (m * M) \div T
      BY <1>6, <2>5, <2>7, PaddedQuotient
    <2>9. ExactValue(t) = c
      BY <1>7, <2>3, <2>8
    <2>10. c \in Nat /\ c - c = 0 /\ 0 * Scale = 0 /\ M + Scale >= 0
      BY <1>4, <1>5, <1>9
    <2> QED BY <1>9, <2>9, <2>10 DEF Faithful, c, M
  <1>11. CASE ~ (n <= FracDigits)
    <2>1. PICK j \in Nat : n = FracDigits + j
      <3>1. n - FracDigits \in Nat /\ n = FracDigits + (n - FracDigits)
        BY <1>1, <1>11
      <3> QED BY <3>1
    <2>2. PICK J \in Nat \ {0} : J = PowerOf10(j)
      BY PowerType
    <2>3. PICK S \in Nat \ {0} : S = Scale
      BY <1>5
    <2>4. PICK D \in Nat : D = Digits(f, FracDigits)
      BY <1>5
    <2>5. PICK E \in Nat : E = Digits(f, n)
      BY <1>5
    <2>6. PowerOf10(n) = S * J /\ D * J <= E /\ E < (D + 1) * J
      <3>1. Splits(f, FracDigits, j)
        BY <1>1, Split
      <3>2. D * J \in Nat
        BY Times
      <3> QED BY <2>1, <2>2, <2>3, <2>4, <2>5, <3>1, <3>2 DEF Splits, Scale
    <2>7. x * J <= m /\ m < (x + 1) * J
      <3>1. PICK y \in Nat : y = w * (S * J)
        BY <1>1, Times
      <3>2. (w * S + D) * J = y + D * J /\ ((w * S + D) + 1) * J = y + (D + 1) * J
        BY <1>1, <3>1
      <3>3. D * J \in Nat /\ (D + 1) * J \in Nat
        BY Times
      <3>4. y + D * J <= y + E /\ y + E < y + (D + 1) * J
        BY <2>6, <3>3
      <3>5. x = w * S + D /\ m = y + E
        BY <2>3, <2>4, <2>5, <2>6, <3>1
      <3> QED BY <3>2, <3>4, <3>5
    <2> HIDE DEF x, m
    <2>8. /\ (x * M) \div S <= (m * M) \div (S * J)
          /\ ((m * M) \div (S * J) - (x * M) \div S) * S <= M + S
      BY <1>4, <1>8, <2>7, CutQuotient
    <2>9. c <= ExactValue(t) /\ (ExactValue(t) - c) * Scale <= M + Scale
      BY <1>6, <1>7, <2>3, <2>6, <2>8
    <2>10. ExactValue(t) \in Nat
      BY <1>4, <1>5, <1>7, <1>8, Times, DivBounds
    <2>11. ExactValue(t) - c >= 0
      BY <1>9, <2>9, <2>10
    <2> QED BY <1>9, <1>11, <2>9, <2>11 DEF Faithful, c, M, n
  <1> QED BY <1>10, <1>11

-----------------------------------------------------------------------------
(* Every duration the program runs with was parsed from a text.            *)
ConfigParsed ==
  Configured =>
    /\ config["timeout"] = parse_duration(target.duration) /\ config["timeout"] # Bad
    /\ \A o \in Durations :
         opts[o] # NoText => config[o] = parse_duration(opts[o]) /\ config[o] # Bad

LimitIsText == Resolved => target.duration \in Texts

DurationInv == WordsInv /\ LimitIsText /\ ConfigParsed

LEMMA NoDigits == << >> \in Seq(0 .. 9)
  OBVIOUS

LEMMA NamesAreNumeric == ASSUME NEW s PROVE Numeric(Name(s))
  <1>1. Name(s).int = Nothing /\ Name(s).frac = << >>
    BY DEF Name
  <1> QED BY <1>1, NoDigits DEF Numeric

LEMMA FiveIsNumeric == Numeric(Number(5, "s"))
  <1>1. Number(5, "s").int = 5 /\ Number(5, "s").frac = << >>
    BY DEF Number, Name
  <1>2. Number(5, "s").int \in Nat \cup {Nothing}
    BY <1>1
  <1>3. Number(5, "s").frac \in Seq(0 .. 9)
    BY <1>1, NoDigits
  <1> QED BY <1>2, <1>3, Zenon DEF Numeric

LEMMA TextsAreNumeric == ASSUME NEW t \in Texts PROVE Numeric(t)
  <1>1. CASE t \in TextType
    <2>1. t.int \in Nat \cup {Nothing} /\ t.frac \in Seq(0 .. NoDigit)
      BY <1>1 DEF TextType
    <2>2. IsNumber(t) => t.frac \in Seq(0 .. 9)
      BY <2>1 DEF IsNumber, NoDigit
    <2> QED BY <2>1, <2>2 DEF Numeric
  <1>2. CASE t = NoText
    <2>1. t.int = Nothing /\ t.frac = << >>
      BY <1>2 DEF NoText, Name
    <2> QED BY <2>1, NoDigits DEF Numeric
  <1> QED BY <1>1, <1>2 DEF Texts

LEMMA SettingNumeric ==
  ASSUME SettingsInv, Settled, NEW o \in Options
  PROVE  Numeric(opts[o])
  <1>1. PICK v \in Offered(o) : Raw(o, v) /\ opts[o] = Confined(o, Fallback(o, v))
    BY DEF SettingsInv, OptsSettled
  <1>2. Numeric(Unset[o])
    <2>1. Unset[o] \in {Empty, Number(5, "s"), NoText}
      BY DEF Unset
    <2> QED BY <2>1, NamesAreNumeric, FiveIsNumeric, TextsAreNumeric, NoTextIsNone DEF Empty
  <1>3. Numeric(v)
    BY <1>1, <1>2, RawIsLast, TextsAreNumeric, NoTextIsNone
  <1>4. o \in EnvOptions => Numeric(env[o])
    <2>1. o \in EnvOptions => env[o] \in Texts
      BY DEF SettingsInv, ParseTypes, EnvType
    <2> QED BY <2>1, TextsAreNumeric
  <1>5. Numeric(Fallback(o, v))
    <2>1. "signal" \in EnvOptions /\ "retry" \in EnvOptions /\ "signal" # "retry"
      BY DEF EnvOptions
    <2>2. Numeric(NoText)
      BY TextsAreNumeric, NoTextIsNone
    <2>3. CASE o = "signal" /\ v = Empty
      BY <1>4, <2>1, <2>3, NamesAreNumeric DEF Fallback
    <2>4. CASE o = "retry" /\ v = NoText
      BY <1>4, <2>1, <2>2, <2>4 DEF Fallback
    <2>5. CASE o \in EnvOptions \ {"signal", "retry"} /\ v = NoText
      BY <1>4, <2>5 DEF Fallback
    <2>6. CASE /\ ~ (o = "signal" /\ v = Empty) /\ ~ (o = "retry" /\ v = NoText)
               /\ ~ (o \in EnvOptions \ {"signal", "retry"} /\ v = NoText)
      BY <1>3, <2>6 DEF Fallback
    <2> QED BY <2>3, <2>4, <2>5, <2>6
  <1> QED BY <1>1, <1>5, NamesAreNumeric DEF Confined

LEMMA ConfigureParses ==
  ASSUME Configure
  PROVE  /\ from_args["timeout"] = parse_duration(target.duration) /\ from_args["timeout"] # Bad
         /\ \A o \in Durations :
              opts[o] # NoText => from_args[o] = parse_duration(opts[o]) /\ from_args[o] # Bad
  <1>0. Consistent(from_args)
    BY DEF Configure
  <1>1. from_args["timeout"] = parse_duration(target.duration) /\ "timeout" \in DOMAIN from_args
    BY DEF from_args
  <1>2. ASSUME NEW o \in Durations, opts[o] # NoText
        PROVE  from_args[o] = parse_duration(opts[o]) /\ from_args[o] # Bad
    <2>1. o \in Parsable /\ o # "timeout" /\ o # "timeout_exit_code" /\ o \in DOMAIN from_args
      BY DEF Durations, Parsable, from_args
    <2>2. from_args[o] = parse_option(o, opts[o])
      BY <1>2, <2>1 DEF from_args
    <2>3. o \notin {"signal", "retry", "retry_backoff", "mem_limit", "cpu_percent"}
      BY DEF Durations
    <2>4. parse_option(o, opts[o]) = parse_duration(opts[o])
      BY <2>3 DEF parse_option
    <2> QED BY <1>0, <2>1, <2>2, <2>4 DEF Consistent
  <1> QED BY <1>0, <1>1, <1>2 DEF Consistent

LEMMA DurationNext == DurationInv /\ [Next]_vars => DurationInv'
  <1> SUFFICES ASSUME DurationInv, [Next]_vars PROVE DurationInv'
    OBVIOUS
  <1>0. WordsInv' /\ WordsInv /\ LimitIsText /\ ConfigParsed
    BY WordsNext DEF DurationInv
  <1>1. CASE Parse
    <2>1. pc' \in {"parse", "info", "refused", "parsed"}
      BY <1>1 DEF Parse, ParseNext, CommandWord, Separator, Info, Option, BadOption, Positional,
                  Parsed, Conflicting, ReadsOptions, AtWord
    <2> QED BY <1>0, <2>1 DEF DurationInv, LimitIsText, ConfigParsed, Resolved, Configured
  <1>2. CASE \/ ParserExits \/ Incomplete \/ BadConfig \/ BadFileWait
             \/ FileMissing \/ RunFails \/ RunReturns
    <2>1. pc' = "exit"
      BY <1>2 DEF ParserExits, Incomplete, BadConfig, BadFileWait, FileMissing, RunFails,
                  RunReturns, Fails, Exit
    <2> QED BY <1>0, <2>1 DEF DurationInv, LimitIsText, ConfigParsed, Resolved, Configured
  <1>3. CASE Resolve
    <2>1. pc' = "config" /\ target' = resolve_args
      BY <1>3 DEF Resolve
    <2>2. env["duration"] \in Texts /\ duration \in Texts
      BY <1>0 DEF WordsInv, WordTypes, SettingsInv, ParseTypes, EnvType
    <2>3. resolve_args.duration \in {env["duration"], duration}
      BY DEF resolve_args
    <2> QED BY <1>0, <2>1, <2>2, <2>3 DEF DurationInv, LimitIsText, ConfigParsed, Configured
  <1>4. CASE Configure
    <2>1. /\ pc = "config" /\ config' = from_args /\ target' = target /\ opts' = opts
      BY <1>4 DEF Configure, parsing
    <2> QED BY <1>0, <1>4, <2>1, ConfigureParses DEF DurationInv, LimitIsText, ConfigParsed, Resolved
  <1>5. CASE FileFound \/ UNCHANGED vars
    <2>1. /\ UNCHANGED <<config, target, opts>> /\ (pc' = pc \/ (pc = "file" /\ pc' = "run"))
      BY <1>5 DEF FileFound, vars, parsing
    <2> QED BY <1>0, <2>1 DEF DurationInv, LimitIsText, ConfigParsed, Resolved, Configured
  <1> QED BY <1>1, <1>2, <1>3, <1>4, <1>5 DEF Next

(* Every duration a run starts with is the one that was written, exact to  *)
(* the nanosecond or too short by less than a unit of the last digit kept, *)
(* and has not wrapped around: for every text, every number of digits and  *)
(* every width of the integers (parse_duration).                           *)
THEOREM DurationsAreExact == Spec => []DurationExact
  <1>1. Init => DurationInv
    <2>1. ASSUME Init PROVE pc = "parse"
      BY <2>1 DEF Init, ParseInit
    <2> QED BY <2>1, WordsInit DEF DurationInv, LimitIsText, ConfigParsed, Resolved, Configured
  <1>2. DurationInv => DurationExact
    <2> SUFFICES ASSUME DurationInv, Configured, NEW p \in DurationTexts
                 PROVE  Faithful(p[2], config[p[1]])
      BY DEF DurationExact, Faithful
    <2>0. Resolved /\ Settled /\ SettingsInv
      BY DEF Resolved, Settled, Configured, DurationInv, WordsInv
    <2>1. CASE p = <<"timeout", target.duration>>
      <3>1. Numeric(target.duration)
        BY <2>0, TextsAreNumeric DEF DurationInv, LimitIsText
      <3>2. config["timeout"] = parse_duration(target.duration) /\ config["timeout"] # Bad
        BY DEF DurationInv, ConfigParsed
      <3>3. Faithful(target.duration, config["timeout"])
        BY <3>1, <3>2, ParseFaithful
      <3> QED BY <2>1, <3>3
    <2>2. CASE \E o \in Durations : opts[o] # NoText /\ p = <<o, opts[o]>>
      <3>1. PICK o \in Durations : opts[o] # NoText /\ p = <<o, opts[o]>>
        BY <2>2
      <3>2. o \in Options
        BY DEF Durations, Options, EnvOptions
      <3>3. config[o] = parse_duration(opts[o]) /\ config[o] # Bad
        BY <3>1 DEF DurationInv, ConfigParsed
      <3>4. Faithful(opts[o], config[o])
        BY <2>0, <3>2, <3>3, SettingNumeric, ParseFaithful
      <3> QED BY <3>1, <3>4
    <2> QED BY <2>1, <2>2 DEF DurationTexts
  <1> QED BY <1>1, <1>2, DurationNext, PTL DEF Spec
=============================================================================
