----------------------------- MODULE AtomicOnce -----------------------------
(***************************************************************************)
(* AtomicOnce<T> of sync.rs, the no_std OnceLock behind the cached clock   *)
(* timebase: threads that call get, set and get_or_init, one atomic access *)
(* per step.  The UnsafeCell is not atomic: a write is two steps with a    *)
(* torn value between them, so that a read that races with it is seen.     *)
(* Acquire, Release and AcqRel are modelled as sequentially consistent:    *)
(* the value is only ever published by the store they order.               *)
(***************************************************************************)
CONSTANTS
  Threads,
  Values,     \* what set is given and what f() computes
  NoValue,    \* Option::None
  Torn        \* the cell in the middle of a write

ASSUME OnceAssumption ==
  /\ NoValue \notin Values /\ Torn \notin Values /\ NoValue # Torn
  /\ {"Ok", "Err"} \cap (Values \cup {NoValue, Torn}) = {}

VARIABLES
  state,   \* AtomicOnce.state
  value,   \* AtomicOnce.value
  pc,      \* for each thread, where it is
  call,    \* for each thread, the method it is in or was in last
  mine,    \* for each thread, the value it would put into the cell
  answer   \* for each thread, what its last call returned

vars == <<state, value, pc, call, mine, answer>>

States  == {"UNINIT", "INITIALIZING", "INITIALIZED"}
Calls   == {"get", "set", "get_or_init"}
Writing == {"write", "writing", "store"}
PCs     == {"idle", "load", "cas", "init", "spin", "read"} \cup Writing

Answers == ({"none"} \cup Calls) \X (Values \cup {NoValue, Torn, "Ok", "Err"})

TypeOK ==
  /\ state \in States
  /\ value \in Values \cup {NoValue, Torn}
  /\ pc \in [Threads -> PCs]
  /\ call \in [Threads -> Calls]
  /\ mine \in [Threads -> Values]
  /\ answer \in [Threads -> Answers]

Init ==
  /\ state = "UNINIT"
  /\ value = NoValue
  /\ pc = [t \in Threads |-> "idle"]
  /\ call = [t \in Threads |-> "get"]
  /\ mine \in [Threads -> Values]
  /\ answer = [t \in Threads |-> <<"none", NoValue>>]

-----------------------------------------------------------------------------
Goto(t, l) == pc' = [pc EXCEPT ![t] = l]

Return(t, a) ==
  /\ Goto(t, "idle")
  /\ answer' = [answer EXCEPT ![t] = <<call[t], a>>]

\* a call begins: set goes straight to its compare_exchange
Call(t, c, v) ==
  /\ pc[t] = "idle"
  /\ call' = [call EXCEPT ![t] = c]
  /\ mine' = [mine EXCEPT ![t] = v]
  /\ Goto(t, IF c = "set" THEN "cas" ELSE "load")
  /\ UNCHANGED <<state, value, answer>>

\* the Acquire load of get and of get_or_init's fast path
Load(t) ==
  /\ pc[t] = "load"
  /\ CASE state = "INITIALIZED" -> Goto(t, "read") /\ UNCHANGED answer
       [] state # "INITIALIZED" /\ call[t] = "get" -> Return(t, NoValue)
       [] OTHER -> Goto(t, "cas") /\ UNCHANGED answer
  /\ UNCHANGED <<state, value, call, mine>>

\* mutation: load and store instead of compare_exchange, with both of the
\* threads that loaded UNINIT going on
Cas_lost(t) ==
  /\ pc[t] = "cas"
  /\ state # "INITIALIZED"
  /\ state' = "INITIALIZING"
  /\ Goto(t, IF call[t] = "set" THEN "write" ELSE "init")
  /\ UNCHANGED <<value, call, mine, answer>>

\* compare_exchange(UNINIT, INITIALIZING) of set and init_slow
Cas(t) ==
  /\ pc[t] = "cas"
  /\ CASE state = "UNINIT" ->
            /\ state' = "INITIALIZING"
            /\ Goto(t, IF call[t] = "set" THEN "write" ELSE "init")
            /\ UNCHANGED answer
       [] state # "UNINIT" /\ call[t] = "set" ->
            Return(t, "Err") /\ UNCHANGED state
       [] OTHER ->
            /\ Goto(t, IF state = "INITIALIZING" THEN "spin" ELSE "read")
            /\ UNCHANGED <<state, answer>>
  /\ UNCHANGED <<value, call, mine>>

\* f() runs between the compare_exchange and the write
RunInit(t) ==
  /\ pc[t] = "init"
  /\ Goto(t, "write")
  /\ UNCHANGED <<state, value, call, mine, answer>>

BeginWrite(t) ==
  /\ pc[t] = "write"
  /\ value' = Torn
  /\ Goto(t, "writing")
  /\ UNCHANGED <<state, call, mine, answer>>

EndWrite(t) ==
  /\ pc[t] = "writing"
  /\ value' = mine[t]
  /\ Goto(t, "store")
  /\ UNCHANGED <<state, call, mine, answer>>

\* mutation: the loser of the race does not wait for the winner
Spin_not(t) ==
  /\ pc[t] = "spin"
  /\ Goto(t, "read")
  /\ UNCHANGED <<state, value, call, mine, answer>>

\* the spin loop ends when the state is not INITIALIZING any more
Spin(t) ==
  /\ pc[t] = "spin"
  /\ state # "INITIALIZING"
  /\ Goto(t, "read")
  /\ UNCHANGED <<state, value, call, mine, answer>>

\* mutation: the slot is given back instead of being published
Store_reset(t) ==
  /\ pc[t] = "store"
  /\ state' = "UNINIT"
  /\ IF call[t] = "set" THEN Return(t, "Ok") ELSE Goto(t, "read") /\ UNCHANGED answer
  /\ UNCHANGED <<value, call, mine>>

\* mutation: the value is in the cell and nobody is told
Store_forgotten(t) ==
  /\ pc[t] = "store"
  /\ IF call[t] = "set" THEN Return(t, "Ok") ELSE Goto(t, "read") /\ UNCHANGED answer
  /\ UNCHANGED <<state, value, call, mine>>

\* the Release store
Store(t) ==
  /\ pc[t] = "store"
  /\ state' = "INITIALIZED"
  /\ IF call[t] = "set" THEN Return(t, "Ok") ELSE Goto(t, "read") /\ UNCHANGED answer
  /\ UNCHANGED <<value, call, mine>>

\* as_ref, and unwrap_unchecked in get_or_init
Read(t) ==
  /\ pc[t] = "read"
  /\ Return(t, value)
  /\ UNCHANGED <<state, value, call, mine>>

Step(t) ==
  \/ Load(t) \/ Cas(t) \/ RunInit(t) \/ BeginWrite(t) \/ EndWrite(t) \/ Spin(t)
  \/ Store(t) \/ Read(t)

Next == \E t \in Threads : Step(t) \/ \E c \in Calls, v \in Values : Call(t, c, v)

Spec == Init /\ [][Next]_vars

(* Every thread that is in a call is scheduled; nobody has to call. *)
FairSpec == Spec /\ \A t \in Threads : WF_vars(Step(t))

-----------------------------------------------------------------------------
\* Nobody reads the cell while it is being written, and get_or_init never
\* unwraps an empty cell: what sync.rs calls its safety invariants (24-35).
ReadsWhole ==
  \A t \in Threads : pc[t] = "read" => value \in Values

\* At most one thread is between winning the compare_exchange and the store.
OneWriter ==
  \A t, u \in Threads :
    pc[t] \in Writing \cup {"init"} /\ pc[u] \in Writing \cup {"init"} => t = u

\* Once published the value never changes again ("immutable, safe to read").
WriteOnce ==
  [][state = "INITIALIZED" => state' = "INITIALIZED" /\ value' = value]_vars

\* Every call returns, the losers that spin included.
CallsReturn == \A t \in Threads : pc[t] # "idle" ~> pc[t] = "idle"

Once == INSTANCE OnceCell WITH
  cell <- IF state = "INITIALIZED" THEN value ELSE NoValue

\* AtomicOnce is a write-once cell: all the answers of all the threads are
\* answers of one cell that is filled in a single step.
OnceHolds == Once!Spec
=============================================================================
