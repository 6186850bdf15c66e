---------------------------- MODULE RunContract ----------------------------
(***************************************************************************)
(* What run_command promises about one attempt, without time, kqueue,      *)
(* throttle or hook: which termination signals the command is sent, in     *)
(* which order, and what the result then says.  Supervisor implements it,  *)
(* and Retry is built on it.                                               *)
(***************************************************************************)
VARIABLES
  child,     \* "unborn", "running", "zombie", "reaped", or "gone": reaped elsewhere
  sent,      \* why the command was signalled: "limit", "kill", "forward"
  outcome    \* the kind of the result; "None" while the run goes on

vars == <<child, sent, outcome>>

Init == child = "unborn" /\ sent = {} /\ outcome = "None"

Start ==
  /\ child = "unborn" /\ outcome = "None"
  /\ child' = "running"
  /\ UNCHANGED <<sent, outcome>>

\* the command ends by itself or by a signal
End ==
  /\ child = "running" /\ outcome = "None"
  /\ child' = "zombie"
  /\ UNCHANGED <<sent, outcome>>

\* somebody else in the program reaps the child
Lose ==
  /\ child = "zombie" /\ outcome = "None"
  /\ child' = "gone"
  /\ UNCHANGED <<sent, outcome>>

\* Signals go to a child the supervisor has not reaped: at most one for the
\* limit, SIGKILL only after it, and nothing after a forwarded signal.
Signal(why) ==
  /\ child \in {"running", "zombie", "gone"} /\ outcome = "None"
  /\ \/ why = "limit" /\ sent = {}
     \/ why = "kill" /\ sent = {"limit"}
     \/ why = "forward" /\ sent \in {{}, {"limit"}}
  /\ sent' = sent \cup {why}
  /\ UNCHANGED <<child, outcome>>

\* the result follows from the signals, and comes with the reaping
Outcomes ==
  IF sent = {} THEN {"Completed"}
  ELSE IF "forward" \in sent THEN {"SignalForwarded"}
  ELSE {"TimedOut", "MemoryLimitExceeded"}

Finish ==
  /\ child = "zombie" /\ outcome = "None"
  /\ child' = "reaped"
  /\ outcome' \in Outcomes
  /\ UNCHANGED sent

\* a lost child gives a result only after a forwarded signal
FinishLost ==
  /\ child = "gone" /\ outcome = "None" /\ "forward" \in sent
  /\ outcome' = "SignalForwarded"
  /\ UNCHANGED <<child, sent>>

\* an error leaves the child as it is
Fail ==
  /\ outcome = "None"
  /\ outcome' = "Err"
  /\ UNCHANGED <<child, sent>>

Next == Start \/ End \/ Lose \/ (\E why \in {"limit", "kill", "forward"} : Signal(why))
          \/ Finish \/ FinishLost \/ Fail

Spec == Init /\ [][Next]_vars
=============================================================================
