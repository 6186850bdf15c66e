------------------------------ MODULE OnceCell ------------------------------
(***************************************************************************)
(* What AtomicOnce promises its callers: a cell that is filled at most     *)
(* once, and answers that say what is in it.  A thread's answer is given   *)
(* in one step, so the promise is linearizability.                         *)
(***************************************************************************)
CONSTANTS Threads, Values, NoValue

VARIABLES
  cell,    \* NoValue, or the value the cell was given
  answer   \* for each thread, the call it last returned from and the answer

vars == <<cell, answer>>

Init ==
  /\ cell = NoValue
  /\ answer = [t \in Threads |-> <<"none", NoValue>>]

Answer(t, call, a) == answer' = [answer EXCEPT ![t] = <<call, a>>]

\* the cell is filled: by set, which then returns Ok, or inside get_or_init
Fill(t, v) ==
  /\ cell = NoValue
  /\ cell' = v
  /\ Answer(t, "set", "Ok") \/ UNCHANGED answer

\* set came too late: the cell is filled, or somebody is about to fill it
Refuse(t) == Answer(t, "set", "Err") /\ UNCHANGED cell

Get(t) == Answer(t, "get", cell) /\ UNCHANGED cell

\* get_or_init has a value to return
GetOrInit(t) ==
  /\ cell # NoValue
  /\ Answer(t, "get_or_init", cell)
  /\ UNCHANGED cell

Next == \E t \in Threads :
          (\E v \in Values : Fill(t, v)) \/ Refuse(t) \/ Get(t) \/ GetOrInit(t)

Spec == Init /\ [][Next]_vars
=============================================================================
