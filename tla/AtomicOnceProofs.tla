-------------------------- MODULE AtomicOnceProofs --------------------------
(***************************************************************************)
(* Proofs about AtomicOnce for any number of threads and any values.       *)
(***************************************************************************)
EXTENDS AtomicOnce, TLAPS

Claimed == Writing \cup {"init"}

(* The state byte is a lock: a thread that claimed the slot sees             *)
(* INITIALIZING until it stores, and only INITIALIZED lets a thread read.    *)
OnceInv ==
  /\ TypeOK
  /\ OneWriter
  /\ \A t \in Threads : pc[t] \in Claimed => state = "INITIALIZING"
  /\ state = "INITIALIZED" => value \in Values
  /\ \A t \in Threads : pc[t] = "store" => value = mine[t]
  /\ \A t \in Threads : pc[t] = "read" => state = "INITIALIZED" /\ call[t] # "set"
  /\ \A t \in Threads : pc[t] = "spin" => state # "UNINIT"
  /\ \A t \in Threads : pc[t] \in {"spin", "init", "load"} => call[t] # "set"
  /\ \A t \in Threads : pc[t] \in {"cas", "spin"} \cup Claimed => call[t] # "get"

\* Each step of each thread keeps the invariant.
LEMMA OnceStep ==
  ASSUME OnceInv, [Next]_vars
  PROVE  OnceInv'
<1> USE OnceAssumption
  DEF OnceInv, TypeOK, OneWriter, Claimed, Writing, States, Calls, PCs, Goto
<1>0. ASSUME NEW t \in Threads, NEW a \in Values \cup {NoValue, Torn, "Ok", "Err"}, Return(t, a)
      PROVE  answer' \in [Threads -> Answers] /\ pc' = [pc EXCEPT ![t] = "idle"]
  <2>1. <<call[t], a>> \in Answers
    BY <1>0 DEF Answers
  <2> QED
    BY <1>0, <2>1 DEF Return
<1>1. ASSUME NEW t \in Threads, NEW c \in Calls, NEW v \in Values, Call(t, c, v)
      PROVE  OnceInv'
  BY <1>1 DEF Call
<1>2. ASSUME NEW t \in Threads, Load(t)
      PROVE  OnceInv'
  BY <1>0, <1>2 DEF Load
<1>3. ASSUME NEW t \in Threads, Cas(t)
      PROVE  OnceInv'
  <2>1. CASE state = "UNINIT"
    BY <1>3, <2>1 DEF Cas
  <2>2. CASE state # "UNINIT" /\ call[t] = "set"
    BY <1>0, <1>3, <2>2 DEF Cas
  <2>3. CASE state # "UNINIT" /\ call[t] # "set"
    BY <1>3, <2>3 DEF Cas
  <2> QED
    BY <2>1, <2>2, <2>3
<1>4. ASSUME NEW t \in Threads, RunInit(t)
      PROVE  OnceInv'
  BY <1>4 DEF RunInit
<1>5. ASSUME NEW t \in Threads, BeginWrite(t)
      PROVE  OnceInv'
  BY <1>5 DEF BeginWrite
<1>6. ASSUME NEW t \in Threads, EndWrite(t)
      PROVE  OnceInv'
  BY <1>6 DEF EndWrite
<1>7. ASSUME NEW t \in Threads, Spin(t)
      PROVE  OnceInv'
  BY <1>7 DEF Spin
<1>8. ASSUME NEW t \in Threads, Store(t)
      PROVE  OnceInv'
  <2>1. state = "INITIALIZING" /\ state' = "INITIALIZED" /\ value' = value /\ value \in Values
    BY <1>8 DEF Store
  <2>2. \A u \in Threads : pc[u] \in Claimed => u = t
    BY <1>8 DEF Store
  <2>3. CASE call[t] = "set"
    BY <1>0, <1>8, <2>1, <2>2, <2>3 DEF Store
  <2>4. CASE call[t] # "set"
    BY <1>8, <2>1, <2>2, <2>4 DEF Store
  <2> QED
    BY <2>3, <2>4
<1>9. ASSUME NEW t \in Threads, Read(t)
      PROVE  OnceInv'
  BY <1>0, <1>9 DEF Read
<1>10. CASE UNCHANGED vars
  BY <1>10 DEF vars
<1> QED
  BY <1>1, <1>2, <1>3, <1>4, <1>5, <1>6, <1>7, <1>8, <1>9, <1>10 DEF Next, Step

\* The lock discipline of the state byte holds in every reachable state.
THEOREM OnceSafe == Spec => []OnceInv
<1>1. Init => OnceInv
  <2> SUFFICES ASSUME Init
               PROVE  OnceInv
    OBVIOUS
  <2>1. <<"none", NoValue>> \in Answers
    BY DEF Answers
  <2>2. TypeOK
    BY <2>1 DEF Init, TypeOK, States, Calls, PCs, Writing
  <2> QED
    BY <2>2 DEF Init, OnceInv, OneWriter, Claimed, Writing
<1>2. OnceInv /\ [Next]_vars => OnceInv'
  BY OnceStep
<1> QED
  BY <1>1, <1>2, PTL DEF Spec

\* Every variable keeps its type.
THEOREM OnceTypes == Spec => []TypeOK
<1>1. OnceInv => TypeOK
  BY DEF OnceInv
<1> QED
  BY <1>1, OnceSafe, PTL

\* No thread ever reads the cell half written or empty: the unwrap_unchecked
\* calls of sync.rs are sound.
THEOREM NoTornRead == Spec => []ReadsWhole
<1>1. OnceInv => ReadsWhole
  BY DEF OnceInv, ReadsWhole
<1> QED
  BY <1>1, OnceSafe, PTL

\* The cell has one writer at a time.
THEOREM MutualExclusion == Spec => []OneWriter
<1>1. OnceInv => OneWriter
  BY DEF OnceInv
<1> QED
  BY <1>1, OnceSafe, PTL

\* A published value is never replaced.
THEOREM NeverReplaced == Spec => WriteOnce
<1>1. ASSUME OnceInv, [Next]_vars, state = "INITIALIZED"
      PROVE  state' = "INITIALIZED" /\ value' = value
  <2>1. \A t \in Threads : pc[t] \notin {"write", "writing", "store"}
    BY <1>1 DEF OnceInv, Claimed, Writing
  <2> QED
    BY <1>1, <2>1 DEF Next, Step, vars, Call, Load, Cas, RunInit, BeginWrite, EndWrite, Spin,
                      Store, Read
<1>2. OnceInv /\ [Next]_vars =>
        [state = "INITIALIZED" => state' = "INITIALIZED" /\ value' = value]_vars
  BY <1>1
<1> QED
  BY <1>2, OnceSafe, PTL DEF Spec, WriteOnce

\* Every step is a step of the abstract cell, or invisible to it.
LEMMA OnceRefines ==
  ASSUME OnceInv, [Next]_vars
  PROVE  [Once!Next]_(Once!vars)
<1> USE DEF Once!vars, Goto
<1>0. /\ answer \in [Threads -> Answers] /\ call \in [Threads -> Calls]
      /\ mine \in [Threads -> Values] /\ state \in States
      /\ \A t \in Threads : pc[t] \in Claimed => state = "INITIALIZING"
  BY DEF OnceInv, TypeOK
<1>1. ASSUME NEW t \in Threads, NEW c \in Calls, NEW v \in Values, Call(t, c, v)
      PROVE  UNCHANGED Once!vars
  BY <1>1 DEF Call
<1>2. ASSUME NEW t \in Threads, Load(t)
      PROVE  Once!Get(t) \/ UNCHANGED Once!vars
  BY <1>2 DEF Load, Return, Once!Get, Once!Answer
<1>3. ASSUME NEW t \in Threads, Cas(t)
      PROVE  Once!Refuse(t) \/ UNCHANGED Once!vars
  BY <1>3 DEF Cas, Return, Once!Refuse, Once!Answer
<1>4. ASSUME NEW t \in Threads, RunInit(t) \/ Spin(t)
      PROVE  UNCHANGED Once!vars
  BY <1>4 DEF RunInit, Spin
<1>5. ASSUME NEW t \in Threads, BeginWrite(t) \/ EndWrite(t)
      PROVE  UNCHANGED Once!vars
  <2>1. state = "INITIALIZING"
    BY <1>0, <1>5 DEF BeginWrite, EndWrite, Claimed, Writing
  <2> QED
    BY <1>5, <2>1 DEF BeginWrite, EndWrite
<1>6. ASSUME NEW t \in Threads, Store(t)
      PROVE  \E v \in Values : Once!Fill(t, v)
  <2>1. state = "INITIALIZING" /\ value = mine[t] /\ mine[t] \in Values
    BY <1>0, <1>6 DEF Store, Claimed, Writing, OnceInv
  <2>2. state' = "INITIALIZED" /\ value' = value
    BY <1>6 DEF Store
  <2>3. Once!Answer(t, "set", "Ok") \/ UNCHANGED answer
    BY <1>6 DEF Store, Return, Once!Answer
  <2> QED
    BY <2>1, <2>2, <2>3 DEF Once!Fill
<1>7. ASSUME NEW t \in Threads, Read(t)
      PROVE  Once!Get(t) \/ Once!GetOrInit(t)
  <2>1. /\ state = "INITIALIZED" /\ value \in Values /\ call[t] \in {"get", "get_or_init"}
        /\ state' = state /\ value' = value
    BY <1>0, <1>7 DEF Read, OnceInv, Calls
  <2>2. answer' = [answer EXCEPT ![t] = <<call[t], value>>]
    BY <1>7 DEF Read, Return
  <2>3. CASE call[t] = "get"
    BY <2>1, <2>2, <2>3 DEF Once!Get, Once!Answer
  <2>4. CASE call[t] = "get_or_init"
    BY <2>1, <2>2, <2>4, OnceAssumption DEF Once!GetOrInit, Once!Answer
  <2> QED
    BY <2>1, <2>3, <2>4
<1>8. CASE UNCHANGED vars
  BY <1>8 DEF vars
<1> QED
  BY <1>1, <1>2, <1>3, <1>4, <1>5, <1>6, <1>7, <1>8 DEF Next, Step, Once!Next

\* AtomicOnce implements the write-once cell: every answer of get, set and
\* get_or_init, in every interleaving, is an answer of a cell that is filled
\* in one step and never again.
THEOREM IsOnceCell == Spec => OnceHolds
<1>1. Init => Once!Init
  BY DEF Init, Once!Init
<1>2. OnceInv /\ [Next]_vars => [Once!Next]_(Once!vars)
  BY OnceRefines
<1> QED
  BY <1>1, <1>2, OnceSafe, PTL DEF Spec, OnceHolds, Once!Spec
=============================================================================
