----------------------------- MODULE SignalPipe -----------------------------
(***************************************************************************)
(* The self-pipe of runner.rs: setup_signal_forwarding,                    *)
(* cleanup_signal_forwarding, signal_handler and read_signal_from_pipe,    *)
(* the two statics they share, and the table of file descriptors they      *)
(* share with the rest of the process.  A thread is interrupted by the     *)
(* handler at any point and does nothing else until the handler returns;   *)
(* the mask is empty, so another signal may interrupt the handler.         *)
(***************************************************************************)
EXTENDS Integers, Sequences, FiniteSetsExt

CONSTANTS
  Threads,
  Scenes,        \* what the threads do: functions from Threads to Roles
  SigOrder,      \* the signals, in the order their sigaction calls are made
  Fds,           \* the descriptors the process may have
  PipeSize,      \* bytes a pipe holds before a write gives EAGAIN
  MaxPipes,      \* bound: calls of pipe()
  MaxSignals     \* bound: signals delivered

\* an owner sets up, reads and cleans up, a caller does not clean up, a
\* bystander only has signals delivered to it, an absent thread not even that
Roles == {"owner", "caller", "bystander", "absent"}

ASSUME PipeAssumption ==
  /\ IsFiniteSet(Threads) /\ Scenes \subseteq [Threads -> Roles]
  /\ Fds \subseteq Nat
  /\ SigOrder \in Seq(STRING) /\ Len(SigOrder) > 0
  /\ PipeSize \in Nat \ {0} /\ MaxPipes \in Nat /\ MaxSignals \in Nat

VARIABLES
  SIGNAL_PIPE, SIGNAL_WRITE_FD,   \* the statics; -1 when unset
  handlers,   \* the signals whose disposition is signal_handler
  fds,        \* the descriptor table: what each descriptor is an end of
  data,       \* the bytes in each pipe
  th,         \* for each thread, where it is in setup or cleanup
  frames,     \* for each thread, its handler invocations, innermost last
  alive,      \* FALSE once a signal took its default action
  hist        \* history: see NoHist

vars == <<SIGNAL_PIPE, SIGNAL_WRITE_FD, handlers, fds, data, th, frames, alive, hist>>

Sigs  == {SigOrder[i] : i \in 1 .. Len(SigOrder)}
Unset == -1

(* id: which pipe *)
Free  == [kind |-> "free", id |-> 0]
Other == [kind |-> "other", id |-> 0]
End   == [kind : {"free", "other", "r", "w"}, id : 0 .. MaxPipes]

(* r, w: the descriptors the call is about; k: sigaction calls made;         *)
(* ready: the last setup returned Some and the thread has not cleaned up     *)
PCs == {"idle", "claim", "existing", "store", "install",
        "reset", "swapw", "closew", "swapr", "closer"}
Thread == [role : Roles, pc : PCs, r : Fds \cup {Unset}, w : Fds \cup {Unset},
           k : 0 .. Len(SigOrder), ready : BOOLEAN]
Frame  == [sig : Sigs, fd : Fds \cup {Unset}, loaded : BOOLEAN]

(* delivered: signals that entered the handler; read, full, deaf, discarded: *)
(* bytes read, dropped at a full pipe, dropped for want of a descriptor,     *)
(* discarded by closing the pipe; foreign: a byte went into a descriptor of  *)
(* somebody else, or into none; pipes: calls of pipe()                       *)
Hist   == [delivered : Nat, read : Nat, full : Nat, deaf : Nat, discarded : Nat,
           foreign : Nat, pipes : Nat]
NoHist == [delivered |-> 0, read |-> 0, full |-> 0, deaf |-> 0, discarded |-> 0,
           foreign |-> 0, pipes |-> 0]

TypeOK ==
  /\ SIGNAL_PIPE \in Fds \cup {Unset} /\ SIGNAL_WRITE_FD \in Fds \cup {Unset}
  /\ handlers \subseteq Sigs
  /\ fds \in [Fds -> End]
  /\ data \in [1 .. MaxPipes -> Seq(Sigs)]
  /\ th \in [Threads -> Thread]
  /\ frames \in [Threads -> Seq(Frame)]
  /\ alive \in BOOLEAN
  /\ hist \in Hist

Init ==
  /\ SIGNAL_PIPE = Unset /\ SIGNAL_WRITE_FD = Unset
  /\ handlers = {}
  /\ fds = [fd \in Fds |-> Free]
  /\ data = [i \in 1 .. MaxPipes |-> << >>]
  /\ \E scene \in Scenes :
       th = [t \in Threads |-> [role |-> scene[t], pc |-> "idle", r |-> Unset,
                                w |-> Unset, k |-> 0, ready |-> FALSE]]
  /\ frames = [t \in Threads |-> << >>]
  /\ alive = TRUE
  /\ hist = NoHist

-----------------------------------------------------------------------------
At(t, l) ==
  alive /\ th[t].role \in {"owner", "caller"} /\ frames[t] = << >> /\ th[t].pc = l

Goto(t, l) == th' = [th EXCEPT ![t].pc = l]

\* setup returns Some if ready, None otherwise
Return(t, ready) ==
  th' = [th EXCEPT ![t] = [role |-> th[t].role, pc |-> "idle", r |-> Unset,
                           w |-> Unset, k |-> 0, ready |-> ready]]

FreeFds == {fd \in Fds : fds[fd] = Free}

\* the kernel gives out the lowest descriptors
LowestTwo == LET a == Min(FreeFds) IN <<a, Min(FreeFds \ {a})>>

Closed(S) == [fd \in Fds |-> IF fd \in S THEN Free ELSE fds[fd]]

-----------------------------------------------------------------------------
(* setup_signal_forwarding                                                   *)

\* pipe() or fcntl fails: nothing is left open
SetupFails(t) ==
  /\ At(t, "idle")
  /\ Return(t, FALSE)
  /\ UNCHANGED <<SIGNAL_PIPE, SIGNAL_WRITE_FD, handlers, fds, data, frames, alive, hist>>

Setup(t) ==
  /\ At(t, "idle")
  /\ hist.pipes < MaxPipes
  /\ Cardinality(FreeFds) >= 2
  /\ LET r == LowestTwo[1]
         w == LowestTwo[2]
         i == hist.pipes + 1
     IN  /\ fds' = [fds EXCEPT ![r] = [kind |-> "r", id |-> i],
                               ![w] = [kind |-> "w", id |-> i]]
         /\ th' = [th EXCEPT ![t].pc = "claim", ![t].r = r, ![t].w = w]
         /\ hist' = [hist EXCEPT !.pipes = i]
  /\ UNCHANGED <<SIGNAL_PIPE, SIGNAL_WRITE_FD, handlers, data, frames, alive>>

\* mutation: the loser keeps its pipe open
Claim_leaks(t) ==
  /\ At(t, "claim")
  /\ IF SIGNAL_PIPE = Unset
     THEN SIGNAL_PIPE' = th[t].r /\ Goto(t, "store")
     ELSE Goto(t, "existing") /\ UNCHANGED SIGNAL_PIPE
  /\ UNCHANGED <<SIGNAL_WRITE_FD, handlers, fds, data, frames, alive, hist>>

\* compare_exchange(-1, read_fd); the loser closes its own pipe
Claim(t) ==
  /\ At(t, "claim")
  /\ IF SIGNAL_PIPE = Unset
     THEN SIGNAL_PIPE' = th[t].r /\ Goto(t, "store") /\ UNCHANGED fds
     ELSE fds' = Closed({th[t].r, th[t].w}) /\ Goto(t, "existing") /\ UNCHANGED SIGNAL_PIPE
  /\ UNCHANGED <<SIGNAL_WRITE_FD, handlers, data, frames, alive, hist>>

Existing(t) ==
  /\ At(t, "existing")
  /\ Return(t, SIGNAL_PIPE # Unset)
  /\ UNCHANGED <<SIGNAL_PIPE, SIGNAL_WRITE_FD, handlers, fds, data, frames, alive, hist>>

\* the write end is known before the first handler is installed
StoreWrite(t) ==
  /\ At(t, "store")
  /\ SIGNAL_WRITE_FD' = th[t].w
  /\ Goto(t, "install")
  /\ UNCHANGED <<SIGNAL_PIPE, handlers, fds, data, frames, alive, hist>>

\* mutation: the last sigaction call is missing
Install_all_but_one(t) ==
  /\ At(t, "install")
  /\ IF th[t].k < Len(SigOrder) - 1
     THEN /\ handlers' = handlers \cup {SigOrder[th[t].k + 1]}
          /\ th' = [th EXCEPT ![t].k = @ + 1]
     ELSE Return(t, TRUE) /\ UNCHANGED handlers
  /\ UNCHANGED <<SIGNAL_PIPE, SIGNAL_WRITE_FD, fds, data, frames, alive, hist>>

\* sigaction, one signal after the other
Install(t) ==
  /\ At(t, "install")
  /\ IF th[t].k < Len(SigOrder)
     THEN /\ handlers' = handlers \cup {SigOrder[th[t].k + 1]}
          /\ th' = [th EXCEPT ![t].k = @ + 1]
     ELSE Return(t, TRUE) /\ UNCHANGED handlers
  /\ UNCHANGED <<SIGNAL_PIPE, SIGNAL_WRITE_FD, fds, data, frames, alive, hist>>

-----------------------------------------------------------------------------
(* cleanup_signal_forwarding                                                 *)

Cleanup(t) ==
  /\ At(t, "idle") /\ th[t].role = "owner"
  /\ th' = [th EXCEPT ![t].pc = "reset", ![t].ready = FALSE]
  /\ UNCHANGED <<SIGNAL_PIPE, SIGNAL_WRITE_FD, handlers, fds, data, frames, alive, hist>>

\* mutation: the handlers stay
Reset_not(t) ==
  /\ At(t, "reset")
  /\ Goto(t, "swapw")
  /\ UNCHANGED <<SIGNAL_PIPE, SIGNAL_WRITE_FD, handlers, fds, data, frames, alive, hist>>

\* SIG_DFL, one signal after the other
Reset(t) ==
  /\ At(t, "reset")
  /\ IF th[t].k < Len(SigOrder)
     THEN /\ handlers' = handlers \ {SigOrder[th[t].k + 1]}
          /\ th' = [th EXCEPT ![t].k = @ + 1]
     ELSE Goto(t, "swapw") /\ UNCHANGED handlers
  /\ UNCHANGED <<SIGNAL_PIPE, SIGNAL_WRITE_FD, fds, data, frames, alive, hist>>

SwapWrite(t) ==
  /\ At(t, "swapw")
  /\ th' = [th EXCEPT ![t].pc = "closew", ![t].w = SIGNAL_WRITE_FD]
  /\ SIGNAL_WRITE_FD' = Unset
  /\ UNCHANGED <<SIGNAL_PIPE, handlers, fds, data, frames, alive, hist>>

CloseWrite(t) ==
  /\ At(t, "closew")
  /\ fds' = Closed({th[t].w})
  /\ Goto(t, "swapr")
  /\ UNCHANGED <<SIGNAL_PIPE, SIGNAL_WRITE_FD, handlers, data, frames, alive, hist>>

SwapRead(t) ==
  /\ At(t, "swapr")
  /\ th' = [th EXCEPT ![t].pc = "closer", ![t].r = SIGNAL_PIPE]
  /\ SIGNAL_PIPE' = Unset
  /\ UNCHANGED <<SIGNAL_WRITE_FD, handlers, fds, data, frames, alive, hist>>

\* what is still in the pipe goes with it
CloseRead(t) ==
  /\ At(t, "closer")
  /\ LET i == IF th[t].r = Unset THEN 0 ELSE fds[th[t].r].id
     IN  IF i = 0 THEN UNCHANGED <<data, hist>>
         ELSE /\ data' = [data EXCEPT ![i] = << >>]
              /\ hist' = [hist EXCEPT !.discarded = @ + Len(data[i])]
  /\ fds' = Closed({th[t].r})
  /\ Return(t, FALSE)
  /\ UNCHANGED <<SIGNAL_PIPE, SIGNAL_WRITE_FD, handlers, frames, alive>>

-----------------------------------------------------------------------------
(* signal_handler, and the read at the other end                             *)

\* a signal is blocked while its own handler runs on the thread
Deliver(t, sig) ==
  /\ alive /\ th[t].role # "absent"
  /\ hist.delivered < MaxSignals
  /\ \A i \in 1 .. Len(frames[t]) : frames[t][i].sig # sig
  /\ IF sig \in handlers
     THEN /\ frames' = [frames EXCEPT ![t] =
                          Append(@, [sig |-> sig, fd |-> Unset, loaded |-> FALSE])]
          /\ hist' = [hist EXCEPT !.delivered = @ + 1]
          /\ UNCHANGED alive
     ELSE /\ alive' = FALSE
          /\ UNCHANGED <<frames, hist>>
  /\ UNCHANGED <<SIGNAL_PIPE, SIGNAL_WRITE_FD, handlers, fds, data, th>>

Top(t) == frames[t][Len(frames[t])]
Pop(t) == frames' = [frames EXCEPT ![t] = SubSeq(@, 1, Len(@) - 1)]

HandlerLoad(t) ==
  /\ alive /\ frames[t] # << >> /\ ~ Top(t).loaded
  /\ IF SIGNAL_WRITE_FD = Unset
     THEN Pop(t) /\ hist' = [hist EXCEPT !.deaf = @ + 1]
     ELSE /\ frames' = [frames EXCEPT ![t][Len(frames[t])] =
                          [@ EXCEPT !.fd = SIGNAL_WRITE_FD, !.loaded = TRUE]]
          /\ UNCHANGED hist
  /\ UNCHANGED <<SIGNAL_PIPE, SIGNAL_WRITE_FD, handlers, fds, data, th, alive>>

HasReader(i) == \E fd \in Fds : fds[fd] = [kind |-> "r", id |-> i]

\* mutation: the handler writes only when nothing is in the pipe
HandlerWrite_when_empty(t) ==
  /\ alive /\ frames[t] # << >> /\ Top(t).loaded
  /\ LET i == fds[Top(t).fd].id
     IN  IF data[i] = << >>
         THEN data' = [data EXCEPT ![i] = Append(@, Top(t).sig)]
         ELSE UNCHANGED data
  /\ Pop(t)
  /\ UNCHANGED <<SIGNAL_PIPE, SIGNAL_WRITE_FD, handlers, fds, th, alive, hist>>

\* write(): EAGAIN when the pipe is full; EBADF, EPIPE or somebody else's file
\* when the descriptor is not the pipe's any more; errors are ignored
HandlerWrite(t) ==
  /\ alive /\ frames[t] # << >> /\ Top(t).loaded
  /\ LET i == fds[Top(t).fd].id
     IN  CASE fds[Top(t).fd].kind = "w" /\ HasReader(i) /\ Len(data[i]) < PipeSize ->
                data' = [data EXCEPT ![i] = Append(@, Top(t).sig)] /\ UNCHANGED hist
           [] fds[Top(t).fd].kind = "w" /\ HasReader(i) /\ Len(data[i]) >= PipeSize ->
                hist' = [hist EXCEPT !.full = @ + 1] /\ UNCHANGED data
           [] OTHER -> hist' = [hist EXCEPT !.foreign = @ + 1] /\ UNCHANGED data
  /\ Pop(t)
  /\ UNCHANGED <<SIGNAL_PIPE, SIGNAL_WRITE_FD, handlers, fds, th, alive>>

\* the run loop of a caller reads one byte
read_signal_from_pipe(t) ==
  /\ At(t, "idle")
  /\ SIGNAL_PIPE # Unset
  /\ LET i == fds[SIGNAL_PIPE].id
     IN  /\ fds[SIGNAL_PIPE].kind = "r" /\ data[i] # << >>
         /\ data' = [data EXCEPT ![i] = Tail(@)]
  /\ hist' = [hist EXCEPT !.read = @ + 1]
  /\ UNCHANGED <<SIGNAL_PIPE, SIGNAL_WRITE_FD, handlers, fds, th, frames, alive>>

\* the rest of the program opens and closes a file of its own
OtherOpens ==
  /\ alive /\ FreeFds # {}
  /\ fds' = [fds EXCEPT ![Min(FreeFds)] = Other]
  /\ UNCHANGED <<SIGNAL_PIPE, SIGNAL_WRITE_FD, handlers, data, th, frames, alive, hist>>

OtherCloses ==
  /\ alive
  /\ \E fd \in Fds : fds[fd] = Other /\ fds' = Closed({fd})
  /\ UNCHANGED <<SIGNAL_PIPE, SIGNAL_WRITE_FD, handlers, data, th, frames, alive, hist>>

Terminated == ~ alive /\ UNCHANGED vars

Next ==
  \/ \E t \in Threads :
       \/ SetupFails(t) \/ Setup(t) \/ Claim(t) \/ Existing(t) \/ StoreWrite(t) \/ Install(t)
       \/ Cleanup(t) \/ Reset(t) \/ SwapWrite(t) \/ CloseWrite(t) \/ SwapRead(t) \/ CloseRead(t)
       \/ read_signal_from_pipe(t) \/ HandlerLoad(t) \/ HandlerWrite(t)
       \/ \E sig \in Sigs : Deliver(t, sig)
  \/ OtherOpens \/ OtherCloses \/ Terminated

Spec == Init /\ [][Next]_vars

-----------------------------------------------------------------------------
\* Every handler that has loaded a descriptor is about to write to the open
\* pipe of SIGNAL_PIPE, and none ever found the descriptor missing ("Store
\* first so handler always has valid fd", runner.rs:126).
HandlerHasPipe ==
  /\ hist.deaf = 0
  /\ \A t \in Threads : \A i \in 1 .. Len(frames[t]) :
       frames[t][i].loaded =>
         /\ fds[frames[t][i].fd].kind = "w"
         /\ SIGNAL_PIPE # Unset
         /\ fds[SIGNAL_PIPE] = [kind |-> "r", id |-> fds[frames[t][i].fd].id]

\* Between calls the process has both ends of the one pipe in SIGNAL_PIPE and
\* SIGNAL_WRITE_FD, or no pipe at all: no call leaks a descriptor.
NoFdLeak ==
  (\A t \in Threads : th[t].pc = "idle") =>
    {fd \in Fds : fds[fd].kind \in {"r", "w"}} = {SIGNAL_PIPE, SIGNAL_WRITE_FD} \ {Unset}

\* the bytes in the pipes, and the handlers that have not written theirs yet
InPipes   == MapThenSumSet(LAMBDA i : Len(data[i]), 1 .. MaxPipes)
InHandler == MapThenSumSet(LAMBDA t : Len(frames[t]), Threads)

\* Every signal that reached the handler has been read, is in the pipe or on
\* its way there, found the pipe full or was thrown away with it by cleanup.
SignalsAccounted ==
  hist.delivered = hist.read + hist.full + hist.discarded + InPipes + InHandler

\* When no thread is inside setup or cleanup, a setup that returned Some has
\* left all the handlers in place ("Returns fd that becomes readable when
\* signal arrives", runner.rs:66); the loser of a race gets there with the
\* winner.
SetupReady ==
  (\A t \in Threads : th[t].pc = "idle") =>
    \A t \in Threads : th[t].ready => handlers = Sigs
=============================================================================
