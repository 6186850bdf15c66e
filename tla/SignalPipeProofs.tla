-------------------------- MODULE SignalPipeProofs --------------------------
(***************************************************************************)
(* Proofs about SignalPipe for any number of threads, signals, descriptors *)
(* and pipes, as long as a thread that cleans up is the only one: several  *)
(* threads may race through setup, and signals may interrupt any of them,  *)
(* the handler included.                                                   *)
(***************************************************************************)
EXTENDS SignalPipe, FiniteSetTheorems, SequenceTheorems, WellFoundedInduction, TLAPS

\* cleanup_signal_forwarding is called when no other thread of the program is
\* in these functions or is sent signals
OwnerIsAlone ==
  \A scene \in Scenes : \A t, u \in Threads :
    scene[t] = "owner" /\ u # t => scene[u] = "absent"

Cleaning == {"reset", "swapw", "closew", "swapr", "closer"}

-----------------------------------------------------------------------------
(* The inductive invariant. *)

\* who does what
Cast ==
  \A t \in Threads :
    /\ th[t].role = "owner" => \A u \in Threads \ {t} : th[u].role = "absent"
    /\ th[t].role \notin {"owner", "caller"} => th[t].pc = "idle" /\ ~ th[t].ready
    /\ th[t].role = "absent" => frames[t] = << >>
    /\ th[t].pc \in Cleaning => th[t].role = "owner" /\ ~ th[t].ready

\* the descriptors a thread has in its hands and in no static
Held(t) ==
  CASE th[t].pc \in {"claim", "store"} -> {th[t].r, th[t].w}
    [] th[t].pc = "closew"             -> {th[t].w}
    [] th[t].pc = "closer"             -> {th[t].r}
    [] OTHER                           -> {}

\* where a thread is tells what the statics and the handlers are
Place(t) ==
  /\ th[t].pc \notin {"install"} \cup Cleaning => th[t].k = 0
  /\ th[t].pc = "store" => SIGNAL_PIPE = th[t].r /\ SIGNAL_WRITE_FD = Unset
  /\ th[t].pc = "install" => /\ SIGNAL_PIPE = th[t].r /\ SIGNAL_WRITE_FD = th[t].w
                             /\ th[t].w # Unset
                             /\ \A i \in 1 .. th[t].k : SigOrder[i] \in handlers
  /\ th[t].pc = "reset" => \A i \in 1 .. th[t].k : SigOrder[i] \notin handlers
  /\ th[t].pc \in Cleaning \ {"reset"} => handlers = {}
  /\ th[t].pc \in {"closew", "swapr", "closer"} => SIGNAL_WRITE_FD = Unset
  /\ th[t].pc = "closer" => SIGNAL_PIPE = Unset

Progress == \A t \in Threads : Place(t)

\* one thread wins the compare_exchange
OneWinner ==
  \A t, u \in Threads :
    th[t].pc \in {"store", "install"} /\ th[u].pc \in {"store", "install"} => t = u

\* what the statics mean
Statics ==
  /\ SIGNAL_PIPE = Unset => /\ SIGNAL_WRITE_FD = Unset
                            /\ \A t \in Threads : th[t].pc \notin {"store", "install"}
  /\ SIGNAL_WRITE_FD = Unset => handlers = {}
  /\ SIGNAL_PIPE # Unset => fds[SIGNAL_PIPE].kind = "r"
  /\ SIGNAL_WRITE_FD # Unset =>
       fds[SIGNAL_WRITE_FD] = [kind |-> "w", id |-> fds[SIGNAL_PIPE].id]

\* the pipe is served by all the handlers, or somebody is working on it
Served ==
  /\ SIGNAL_PIPE # Unset =>
       \/ handlers = Sigs
       \/ \E t \in Threads : th[t].pc \in {"store", "install"} \cup Cleaning
  /\ \A t \in Threads : th[t].ready => SIGNAL_PIPE # Unset

\* the ends in a thread's hands are ends of its pipe
Ends ==
  \A t \in Threads :
    /\ th[t].pc \in {"claim", "store"} =>
         /\ th[t].r \in Fds /\ th[t].w \in Fds
         /\ fds[th[t].r].kind = "r" /\ fds[th[t].w] = [kind |-> "w", id |-> fds[th[t].r].id]
    /\ th[t].pc = "closew" /\ th[t].w # Unset => fds[th[t].w].kind = "w"
    /\ th[t].pc = "claim" => SIGNAL_PIPE \notin Held(t) /\ SIGNAL_WRITE_FD \notin Held(t)
    /\ \A u \in Threads \ {t} : Held(t) \cap Held(u) = {}

\* every open end is in a static or in somebody's hands
NoneLost ==
  \A fd \in Fds :
    fds[fd].kind \in {"r", "w"} <=>
      fd \in {SIGNAL_PIPE, SIGNAL_WRITE_FD} \/ \E t \in Threads : fd \in Held(t)

\* a handler runs only while there is a descriptor for it
Handling ==
  /\ hist.deaf = 0 /\ hist.foreign = 0
  /\ \A t \in Threads :
       /\ frames[t] # << >> => SIGNAL_WRITE_FD # Unset
       /\ \A i \in 1 .. Len(frames[t]) : frames[t][i].loaded => frames[t][i].fd = SIGNAL_WRITE_FD

PipeInv ==
  /\ Cast /\ Progress /\ OneWinner /\ Statics /\ Served /\ Ends /\ NoneLost /\ Handling

-----------------------------------------------------------------------------
(* Descriptors. *)

LEMMA LeastIsMember ==
  ASSUME NEW S, S \subseteq Nat, S # {}
  PROVE  Min(S) \in S
<1> DEFINE R == {ss \in Nat \X Nat : ss[1] < ss[2]}
<1>1. IsWellFoundedOn(R, Nat)
  BY NatLessThanWellFounded, Zenon DEF OpToRel
<1>2. \A x, y \in Nat : y < x => <<y, x>> \in R
  OBVIOUS
<1>. HIDE DEF R
<1>3. PICK x \in S : \A y \in S : ~ (<<y, x>> \in R)
  BY <1>1, WFMin
<1>4. \A y \in S : x =< y
  <2>. TAKE y \in S
  <2>1. x \in Nat /\ y \in Nat /\ ~ (y < x)
    BY <1>2, <1>3
  <2>. QED
    BY <2>1
<1>. QED
  BY <1>4 DEF Min

\* pipe() gives two descriptors that were free.
LEMMA TwoFree ==
  ASSUME Cardinality(FreeFds) >= 2
  PROVE  /\ LowestTwo[1] \in FreeFds /\ LowestTwo[2] \in FreeFds
         /\ LowestTwo[1] # LowestTwo[2]
<1> DEFINE a == Min(FreeFds)
           b == Min(FreeFds \ {a})
<1>1. FreeFds \subseteq Nat
  BY PipeAssumption DEF FreeFds
<1>2. FreeFds # {}
  BY FS_EmptySet
<1>3. a \in FreeFds
  BY <1>1, <1>2, LeastIsMember
<1>4. FreeFds \ {a} # {}
  <2>. SUFFICES ASSUME FreeFds = {a}
                PROVE  FALSE
    BY <1>3
  <2>. HIDE DEF a
  <2>1. Cardinality({a}) = 1
    BY FS_Singleton
  <2>. QED
    BY <2>1
<1>. HIDE DEF a
<1>5. b \in FreeFds \ {a}
  <2>1. FreeFds \ {a} \subseteq Nat
    BY <1>1
  <2>. QED
    BY <1>4, <2>1, LeastIsMember
<1>. HIDE DEF b
<1>6. LowestTwo = <<a, b>>
  BY DEF LowestTwo, a, b
<1>. QED
  BY <1>3, <1>5, <1>6

-----------------------------------------------------------------------------
(* Type correctness. *)

PipeTypes == TypeOK /\ hist.pipes <= MaxPipes

\* Counting one more, or several, of one thing.
LEMMA Counts ==
  ASSUME NEW h \in Hist, NEW n \in Nat
  PROVE  /\ [h EXCEPT !.delivered = h.delivered + n] \in Hist
         /\ [h EXCEPT !.read = h.read + n] \in Hist
         /\ [h EXCEPT !.full = h.full + n] \in Hist
         /\ [h EXCEPT !.deaf = h.deaf + n] \in Hist
         /\ [h EXCEPT !.discarded = h.discarded + n] \in Hist
         /\ [h EXCEPT !.foreign = h.foreign + n] \in Hist
         /\ [h EXCEPT !.pipes = n] \in Hist
<1>1. /\ h.delivered + n \in Nat /\ h.read + n \in Nat /\ h.full + n \in Nat /\ h.deaf + n \in Nat
      /\ h.discarded + n \in Nat /\ h.foreign + n \in Nat
  BY DEF Hist
<1>2. h \in Hist
  OBVIOUS
<1>3. [h EXCEPT !.delivered = h.delivered + n] \in Hist /\ [h EXCEPT !.read = h.read + n] \in Hist
  BY <1>1 DEF Hist
<1>4. [h EXCEPT !.full = h.full + n] \in Hist /\ [h EXCEPT !.deaf = h.deaf + n] \in Hist
  BY <1>1 DEF Hist
<1>5. /\ [h EXCEPT !.discarded = h.discarded + n] \in Hist
      /\ [h EXCEPT !.foreign = h.foreign + n] \in Hist
  BY <1>1 DEF Hist
<1>6. [h EXCEPT !.pipes = n] \in Hist
  BY DEF Hist
<1>. QED
  BY <1>3, <1>4, <1>5, <1>6

\* The counters a step does not count stay.
LEMMA CountsOther ==
  ASSUME NEW h \in Hist, NEW n
  PROVE  /\ [h EXCEPT !.delivered = n].deaf = h.deaf /\ [h EXCEPT !.delivered = n].foreign = h.foreign
         /\ [h EXCEPT !.read = n].deaf = h.deaf /\ [h EXCEPT !.read = n].foreign = h.foreign
         /\ [h EXCEPT !.full = n].deaf = h.deaf /\ [h EXCEPT !.full = n].foreign = h.foreign
         /\ [h EXCEPT !.discarded = n].deaf = h.deaf /\ [h EXCEPT !.discarded = n].foreign = h.foreign
         /\ [h EXCEPT !.pipes = n].deaf = h.deaf /\ [h EXCEPT !.pipes = n].foreign = h.foreign
         /\ [h EXCEPT !.delivered = n].pipes = h.pipes
         /\ [h EXCEPT !.read = n].pipes = h.pipes
         /\ [h EXCEPT !.full = n].pipes = h.pipes
         /\ [h EXCEPT !.discarded = n].pipes = h.pipes
         /\ [h EXCEPT !.deaf = n].pipes = h.pipes
         /\ [h EXCEPT !.foreign = n].pipes = h.pipes
         /\ [h EXCEPT !.pipes = n].pipes = n
BY DEF Hist

\* What a thread record becomes.
LEMMA ThreadTypes ==
  ASSUME NEW x \in Thread
  PROVE  /\ \A l \in PCs : [x EXCEPT !.pc = l] \in Thread
         /\ \A l \in PCs, r \in Fds \cup {Unset} : /\ [x EXCEPT !.pc = l, !.r = r] \in Thread
                                                   /\ [x EXCEPT !.pc = l, !.w = r] \in Thread
         /\ \A l \in PCs, r, w \in Fds : [x EXCEPT !.pc = l, !.r = r, !.w = w] \in Thread
         /\ \A l \in PCs, b \in BOOLEAN : [x EXCEPT !.pc = l, !.ready = b] \in Thread
         /\ x.k < Len(SigOrder) => [x EXCEPT !.k = x.k + 1] \in Thread
         /\ \A b \in BOOLEAN : [role |-> x.role, pc |-> "idle", r |-> Unset, w |-> Unset, k |-> 0,
                                ready |-> b] \in Thread
<1>1. Len(SigOrder) \in Nat
  BY PipeAssumption
<1>2. x.k < Len(SigOrder) => x.k + 1 \in 0 .. Len(SigOrder)
  BY <1>1 DEF Thread
<1>3. \A l \in PCs, r \in Fds \cup {Unset} : /\ [x EXCEPT !.pc = l, !.r = r] \in Thread
                                             /\ [x EXCEPT !.pc = l, !.w = r] \in Thread
  BY DEF Thread
<1>4. \A l \in PCs, r, w \in Fds : [x EXCEPT !.pc = l, !.r = r, !.w = w] \in Thread
  BY DEF Thread
<1>5. \A l \in PCs, b \in BOOLEAN : [x EXCEPT !.pc = l, !.ready = b] \in Thread
  BY DEF Thread
<1>6. x.k < Len(SigOrder) => [x EXCEPT !.k = x.k + 1] \in Thread
  BY <1>2 DEF Thread
<1>7. \A b \in BOOLEAN : [role |-> x.role, pc |-> "idle", r |-> Unset, w |-> Unset, k |-> 0,
                          ready |-> b] \in Thread
  BY <1>1 DEF Thread, PCs
<1>8. \A l \in PCs : [x EXCEPT !.pc = l] \in Thread
  BY DEF Thread
<1>. QED
  BY <1>3, <1>4, <1>5, <1>6, <1>7, <1>8

LEMMA PipeTypeStep ==
  ASSUME PipeTypes, [Next]_vars
  PROVE  PipeTypes'
<1>0. /\ SIGNAL_PIPE \in Fds \cup {Unset} /\ SIGNAL_WRITE_FD \in Fds \cup {Unset}
      /\ handlers \subseteq Sigs /\ fds \in [Fds -> End] /\ data \in [1 .. MaxPipes -> Seq(Sigs)]
      /\ th \in [Threads -> Thread] /\ frames \in [Threads -> Seq(Frame)] /\ alive \in BOOLEAN
      /\ hist \in Hist /\ hist.pipes <= MaxPipes
  BY DEF PipeTypes, TypeOK
<1>k. /\ MaxPipes \in Nat /\ SigOrder \in Seq(STRING) /\ Len(SigOrder) \in Nat
      /\ \A i \in 1 .. Len(SigOrder) : SigOrder[i] \in Sigs
      /\ Free \in End /\ Other \in End
  BY PipeAssumption DEF Sigs, Free, Other, End
<1>h. hist.pipes \in Nat
  BY <1>0 DEF Hist
<1>c. \A S : Closed(S) \in [Fds -> End]
  BY <1>0, <1>k DEF Closed
<1>r. ASSUME NEW t \in Threads, NEW ready \in BOOLEAN, Return(t, ready)
      PROVE  th' \in [Threads -> Thread]
  <2>1. th[t] \in Thread
    BY <1>0
  <2>2. [role |-> th[t].role, pc |-> "idle", r |-> Unset, w |-> Unset, k |-> 0, ready |-> ready]
          \in Thread
    BY <2>1, ThreadTypes
  <2>. QED
    BY <1>0, <1>r, <2>2 DEF Return
<1>g. ASSUME NEW t \in Threads, NEW l \in PCs, Goto(t, l)
      PROVE  th' \in [Threads -> Thread]
  <2>1. th[t] \in Thread
    BY <1>0
  <2>2. [th[t] EXCEPT !.pc = l] \in Thread
    BY <2>1, ThreadTypes
  <2>. QED
    BY <1>0, <1>g, <2>2 DEF Goto
<1>s. ASSUME NEW t \in Threads, th' = [th EXCEPT ![t].k = @ + 1], th[t].k < Len(SigOrder)
      PROVE  th' \in [Threads -> Thread] /\ SigOrder[th[t].k + 1] \in Sigs
  <2>1. th[t] \in Thread /\ th[t].k \in Nat
    BY <1>0 DEF Thread
  <2>2. [th[t] EXCEPT !.k = th[t].k + 1] \in Thread
    BY <1>s, <2>1, ThreadTypes
  <2>3. th' = [th EXCEPT ![t] = [th[t] EXCEPT !.k = th[t].k + 1]]
    BY <1>0, <1>s
  <2>4. th' \in [Threads -> Thread]
    BY <1>0, <2>2, <2>3
  <2>5. th[t].k + 1 \in 1 .. Len(SigOrder)
    BY <1>k, <1>s, <2>1
  <2>. QED
    BY <1>k, <2>4, <2>5
<1>p. ASSUME NEW t \in Threads, frames[t] # << >>, Pop(t)
      PROVE  frames' \in [Threads -> Seq(Frame)]
  <2>1. SubSeq(frames[t], 1, Len(frames[t]) - 1) \in Seq(Frame)
    BY <1>0, <1>p
  <2>. QED
    BY <1>0, <1>p, <2>1 DEF Pop
<1>1. ASSUME NEW t \in Threads, SetupFails(t) \/ Existing(t)
      PROVE  PipeTypes'
  BY <1>0, <1>1, <1>r DEF SetupFails, Existing, PipeTypes, TypeOK
<1>2. ASSUME NEW t \in Threads, Setup(t)
      PROVE  PipeTypes'
  <2> DEFINE r == LowestTwo[1]
             x == LowestTwo[2]
             i == hist.pipes + 1
  <2>1. r \in Fds /\ x \in Fds /\ i \in 1 .. MaxPipes /\ i \in Nat
    BY <1>2, <1>h, <1>k, TwoFree DEF Setup, FreeFds
  <2>2. /\ fds' = [fds EXCEPT ![r] = [kind |-> "r", id |-> i], ![x] = [kind |-> "w", id |-> i]]
        /\ th' = [th EXCEPT ![t].pc = "claim", ![t].r = r, ![t].w = x]
        /\ hist' = [hist EXCEPT !.pipes = i]
        /\ UNCHANGED <<SIGNAL_PIPE, SIGNAL_WRITE_FD, handlers, data, frames, alive>>
    BY <1>2 DEF Setup
  <2>. HIDE DEF r, x, i
  <2>3. [kind |-> "r", id |-> i] \in End /\ [kind |-> "w", id |-> i] \in End
    BY <2>1, <1>k DEF End
  <2>4. fds' \in [Fds -> End]
    BY <1>0, <2>2, <2>3
  <2>5. th' \in [Threads -> Thread]
    <3>1. th[t] \in Thread
      BY <1>0
    <3>2. [th[t] EXCEPT !.pc = "claim", !.r = r, !.w = x] \in Thread
      BY <2>1, <3>1, ThreadTypes DEF PCs
    <3>3. th' = [th EXCEPT ![t] = [th[t] EXCEPT !.pc = "claim", !.r = r, !.w = x]]
      BY <1>0, <2>2
    <3>. QED
      BY <1>0, <3>2, <3>3
  <2>6. hist' \in Hist /\ hist'.pipes <= MaxPipes
    <3>1. [hist EXCEPT !.pipes = i] \in Hist /\ [hist EXCEPT !.pipes = i].pipes = i
      BY <1>0, <2>1, Counts, CountsOther
    <3>. QED
      BY <1>k, <2>1, <2>2, <3>1
  <2>. QED
    BY <1>0, <2>2, <2>4, <2>5, <2>6 DEF PipeTypes, TypeOK
<1>3. ASSUME NEW t \in Threads, Claim(t)
      PROVE  PipeTypes'
  <2>1. th' \in [Threads -> Thread] /\ fds' \in [Fds -> End]
    BY <1>0, <1>3, <1>c, <1>g DEF Claim, PCs
  <2>2. SIGNAL_PIPE' \in Fds \cup {Unset}
    BY <1>0, <1>3 DEF Claim, Thread
  <2>. QED
    BY <1>0, <1>3, <2>1, <2>2 DEF Claim, PipeTypes, TypeOK
<1>4. ASSUME NEW t \in Threads, StoreWrite(t)
      PROVE  PipeTypes'
  <2>1. th' \in [Threads -> Thread]
    BY <1>4, <1>g DEF StoreWrite, PCs
  <2>2. SIGNAL_WRITE_FD' \in Fds \cup {Unset}
    BY <1>0, <1>4 DEF StoreWrite, Thread
  <2>. QED
    BY <1>0, <1>4, <2>1, <2>2 DEF StoreWrite, PipeTypes, TypeOK
<1>5. ASSUME NEW t \in Threads, Install(t) \/ Reset(t)
      PROVE  PipeTypes'
  <2>1. th' \in [Threads -> Thread] /\ handlers' \subseteq Sigs
    <3>1. CASE th[t].k < Len(SigOrder)
      BY <1>0, <1>5, <1>s, <3>1 DEF Install, Reset
    <3>2. CASE ~ (th[t].k < Len(SigOrder))
      BY <1>0, <1>5, <1>r, <1>g, <3>2 DEF Install, Reset, PCs
    <3>. QED
      BY <3>1, <3>2
  <2>. QED
    BY <1>0, <1>5, <2>1 DEF Install, Reset, PipeTypes, TypeOK
<1>6. ASSUME NEW t \in Threads, Cleanup(t) \/ SwapWrite(t) \/ SwapRead(t)
      PROVE  PipeTypes'
  <2>1. th[t] \in Thread
    BY <1>0
  <2>2. th' \in [Threads -> Thread]
    <3>1. CASE Cleanup(t)
      <4>1. th' = [th EXCEPT ![t] = [th[t] EXCEPT !.pc = "reset", !.ready = FALSE]]
        BY <1>0, <3>1 DEF Cleanup
      <4>2. [th[t] EXCEPT !.pc = "reset", !.ready = FALSE] \in Thread
        BY <2>1, ThreadTypes DEF PCs
      <4>. QED
        BY <1>0, <4>1, <4>2
    <3>2. CASE SwapWrite(t)
      <4>1. th' = [th EXCEPT ![t] = [th[t] EXCEPT !.pc = "closew", !.w = SIGNAL_WRITE_FD]]
        BY <1>0, <3>2 DEF SwapWrite
      <4>2. [th[t] EXCEPT !.pc = "closew", !.w = SIGNAL_WRITE_FD] \in Thread
        BY <1>0, <2>1, ThreadTypes DEF PCs
      <4>. QED
        BY <1>0, <4>1, <4>2
    <3>3. CASE SwapRead(t)
      <4>1. th' = [th EXCEPT ![t] = [th[t] EXCEPT !.pc = "closer", !.r = SIGNAL_PIPE]]
        BY <1>0, <3>3 DEF SwapRead
      <4>2. [th[t] EXCEPT !.pc = "closer", !.r = SIGNAL_PIPE] \in Thread
        BY <1>0, <2>1, ThreadTypes DEF PCs
      <4>. QED
        BY <1>0, <4>1, <4>2
    <3>. QED
      BY <1>6, <3>1, <3>2, <3>3
  <2>. QED
    BY <1>0, <1>6, <2>2 DEF Cleanup, SwapWrite, SwapRead, PipeTypes, TypeOK
<1>7. ASSUME NEW t \in Threads, CloseWrite(t)
      PROVE  PipeTypes'
  <2>1. th' \in [Threads -> Thread]
    BY <1>7, <1>g DEF CloseWrite, PCs
  <2>. QED
    BY <1>0, <1>7, <1>c, <2>1 DEF CloseWrite, PipeTypes, TypeOK
<1>8. ASSUME NEW t \in Threads, CloseRead(t)
      PROVE  PipeTypes'
  <2>1. th' \in [Threads -> Thread] /\ fds' \in [Fds -> End]
    BY <1>8, <1>r, <1>c DEF CloseRead
  <2> DEFINE i == IF th[t].r = Unset THEN 0 ELSE fds[th[t].r].id
  <2>2. IF i = 0 THEN UNCHANGED <<data, hist>>
        ELSE /\ data' = [data EXCEPT ![i] = << >>]
             /\ hist' = [hist EXCEPT !.discarded = hist.discarded + Len(data[i])]
    BY <1>8 DEF CloseRead
  <2>3. i # 0 => i \in 1 .. MaxPipes
    BY <1>0, <1>k DEF Thread, End
  <2>. HIDE DEF i
  <2>4. data' \in [1 .. MaxPipes -> Seq(Sigs)]
    <3>1. << >> \in Seq(Sigs)
      OBVIOUS
    <3>. QED
      BY <1>0, <2>2, <3>1
  <2>5. hist' \in Hist /\ hist'.pipes <= MaxPipes
    <3>1. CASE i = 0
      BY <1>0, <2>2, <3>1
    <3>2. CASE i # 0
      <4>1. Len(data[i]) \in Nat
        BY <1>0, <2>3, <3>2
      <4>2. /\ [hist EXCEPT !.discarded = hist.discarded + Len(data[i])] \in Hist
            /\ [hist EXCEPT !.discarded = hist.discarded + Len(data[i])].pipes = hist.pipes
        BY <1>0, <4>1, Counts, CountsOther
      <4>. QED
        BY <1>0, <2>2, <3>2, <4>2
    <3>. QED
      BY <3>1, <3>2
  <2>. QED
    BY <1>0, <1>8, <2>1, <2>4, <2>5 DEF CloseRead, PipeTypes, TypeOK
<1>9. ASSUME NEW t \in Threads, NEW sig \in Sigs, Deliver(t, sig)
      PROVE  PipeTypes'
  <2>1. UNCHANGED <<SIGNAL_PIPE, SIGNAL_WRITE_FD, handlers, fds, data, th>> /\ alive' \in BOOLEAN
    BY <1>0, <1>9 DEF Deliver
  <2>2. CASE sig \in handlers
    <3>1. [sig |-> sig, fd |-> Unset, loaded |-> FALSE] \in Frame
      BY DEF Frame
    <3>2. frames' \in [Threads -> Seq(Frame)]
      <4>1. Append(frames[t], [sig |-> sig, fd |-> Unset, loaded |-> FALSE]) \in Seq(Frame)
        BY <1>0, <3>1
      <4>. QED
        BY <1>0, <1>9, <2>2, <4>1 DEF Deliver
    <3>3. hist' = [hist EXCEPT !.delivered = hist.delivered + 1]
      BY <1>9, <2>2 DEF Deliver
    <3>4. hist' \in Hist /\ hist'.pipes <= MaxPipes
      BY <1>0, <3>3, Counts, CountsOther
    <3>. QED
      BY <1>0, <2>1, <3>2, <3>4 DEF PipeTypes, TypeOK
  <2>3. CASE sig \notin handlers
    BY <1>0, <1>9, <2>1, <2>3 DEF Deliver, PipeTypes, TypeOK
  <2>. QED
    BY <2>2, <2>3
<1>10. ASSUME NEW t \in Threads, HandlerLoad(t)
       PROVE  PipeTypes'
  <2>1. /\ UNCHANGED <<SIGNAL_PIPE, SIGNAL_WRITE_FD, handlers, fds, data, th, alive>>
        /\ frames[t] # << >>
    BY <1>10 DEF HandlerLoad
  <2>2. CASE SIGNAL_WRITE_FD = Unset
    <3>1. frames' \in [Threads -> Seq(Frame)] /\ hist' = [hist EXCEPT !.deaf = hist.deaf + 1]
      BY <1>10, <1>p, <2>1, <2>2 DEF HandlerLoad
    <3>2. hist' \in Hist /\ hist'.pipes <= MaxPipes
      BY <1>0, <3>1, Counts, CountsOther
    <3>. QED
      BY <1>0, <2>1, <3>1, <3>2 DEF PipeTypes, TypeOK
  <2>3. CASE SIGNAL_WRITE_FD # Unset
    <3> DEFINE n == Len(frames[t])
               f == [frames[t][n] EXCEPT !.fd = SIGNAL_WRITE_FD, !.loaded = TRUE]
    <3>1. hist' = hist /\ frames' = [frames EXCEPT ![t] = [frames[t] EXCEPT ![n] = f]]
      BY <1>0, <1>10, <2>3 DEF HandlerLoad
    <3>2. n \in 1 .. Len(frames[t]) /\ frames[t][n] \in Frame
      BY <1>0, <2>1
    <3>3. f \in Frame
      BY <1>0, <3>2 DEF Frame
    <3>4. [frames[t] EXCEPT ![n] = f] \in Seq(Frame)
      <4>. HIDE DEF f, n
      <4>. QED
        BY <1>0, <3>2, <3>3
    <3>. QED
      BY <1>0, <2>1, <3>1, <3>4 DEF PipeTypes, TypeOK
  <2>. QED
    BY <2>2, <2>3
<1>11. ASSUME NEW t \in Threads, HandlerWrite(t)
       PROVE  PipeTypes'
  <2>1. /\ UNCHANGED <<SIGNAL_PIPE, SIGNAL_WRITE_FD, handlers, fds, th, alive>>
        /\ frames[t] # << >> /\ Pop(t)
    BY <1>11 DEF HandlerWrite
  <2> DEFINE i == fds[Top(t).fd].id
  <2>2. \/ data' = [data EXCEPT ![i] = Append(@, Top(t).sig)] /\ hist' = hist
        \/ hist' = [hist EXCEPT !.full = hist.full + 1] /\ data' = data
        \/ hist' = [hist EXCEPT !.foreign = hist.foreign + 1] /\ data' = data
    BY <1>11 DEF HandlerWrite
  <2>3. Top(t).sig \in Sigs
    <3>1. frames[t] \in Seq(Frame)
      BY <1>0
    <3>2. frames[t][Len(frames[t])] \in Frame
      BY <2>1, <3>1
    <3>. QED
      BY <3>2 DEF Top, Frame
  <2>4. data' \in [1 .. MaxPipes -> Seq(Sigs)]
    <3>. HIDE DEF i
    <3>1. i \in 1 .. MaxPipes => Append(data[i], Top(t).sig) \in Seq(Sigs)
      BY <1>0, <2>3
    <3>. QED
      BY <1>0, <2>2, <3>1
  <2>5. hist' \in Hist /\ hist'.pipes <= MaxPipes
    <3>1. /\ [hist EXCEPT !.full = hist.full + 1] \in Hist
          /\ [hist EXCEPT !.full = hist.full + 1].pipes = hist.pipes
          /\ [hist EXCEPT !.foreign = hist.foreign + 1] \in Hist
          /\ [hist EXCEPT !.foreign = hist.foreign + 1].pipes = hist.pipes
      BY <1>0, Counts, CountsOther
    <3>. HIDE DEF i
    <3>. QED
      BY <1>0, <2>2, <3>1
  <2>. QED
    BY <1>0, <1>p, <2>1, <2>4, <2>5 DEF PipeTypes, TypeOK
<1>12. ASSUME NEW t \in Threads, read_signal_from_pipe(t)
       PROVE  PipeTypes'
  <2> DEFINE i == fds[SIGNAL_PIPE].id
  <2>1. /\ UNCHANGED <<SIGNAL_PIPE, SIGNAL_WRITE_FD, handlers, fds, th, frames, alive>>
        /\ data[i] # << >> /\ data' = [data EXCEPT ![i] = Tail(@)]
        /\ hist' = [hist EXCEPT !.read = hist.read + 1]
    BY <1>12 DEF read_signal_from_pipe
  <2>2. data' \in [1 .. MaxPipes -> Seq(Sigs)]
    <3>. HIDE DEF i
    <3>1. i \in 1 .. MaxPipes => Tail(data[i]) \in Seq(Sigs)
      BY <1>0, <2>1
    <3>. QED
      BY <1>0, <2>1, <3>1
  <2>3. hist' \in Hist /\ hist'.pipes <= MaxPipes
    BY <1>0, <2>1, Counts, CountsOther
  <2>. QED
    BY <1>0, <2>1, <2>2, <2>3 DEF PipeTypes, TypeOK
<1>13. CASE OtherOpens \/ OtherCloses
  <2>1. fds' \in [Fds -> End]
    BY <1>0, <1>13, <1>c, <1>k DEF OtherOpens, OtherCloses
  <2>. QED
    BY <1>0, <1>13, <2>1 DEF OtherOpens, OtherCloses, PipeTypes, TypeOK
<1>14. CASE UNCHANGED vars
  BY <1>14 DEF vars, PipeTypes, TypeOK
<1>. QED
  BY <1>1, <1>2, <1>3, <1>4, <1>5, <1>6, <1>7, <1>8, <1>9, <1>10, <1>11, <1>12, <1>13, <1>14
     DEF Next, Terminated

\* the pipes are numbered from 1
Numbered == \A fd \in Fds : fds[fd].kind \in {"r", "w"} => fds[fd].id # 0

LEMMA NumberedStep ==
  ASSUME PipeTypes, Numbered, [Next]_vars
  PROVE  Numbered'
<1>0. fds \in [Fds -> End] /\ hist.pipes \in Nat
  BY DEF PipeTypes, TypeOK, Hist
<1>1. ASSUME NEW t \in Threads, Setup(t)
      PROVE  Numbered'
  <2> DEFINE r == LowestTwo[1]
             x == LowestTwo[2]
             i == hist.pipes + 1
  <2>1. i # 0
    BY <1>0
  <2>2. fds' = [fds EXCEPT ![r] = [kind |-> "r", id |-> i], ![x] = [kind |-> "w", id |-> i]]
    BY <1>1 DEF Setup
  <2>. HIDE DEF r, x, i
  <2>3. \A fd \in Fds : fds'[fd] = fds[fd] \/ fds'[fd].id = i
    BY <1>0, <2>2
  <2>. QED
    BY <2>1, <2>3 DEF Numbered
<1>2. ASSUME \E S : fds' = Closed(S)
      PROVE  Numbered'
  BY <1>2 DEF Closed, Free, Numbered
<1>3. CASE OtherOpens
  <2>1. \A fd \in Fds : fds'[fd] = fds[fd] \/ fds'[fd] = Other
    BY <1>0, <1>3 DEF OtherOpens
  <2>. QED
    BY <2>1 DEF Numbered, Other
<1>4. CASE fds' = fds
  BY <1>4 DEF Numbered
<1>5. \/ fds' = fds \/ (\E S : fds' = Closed(S)) \/ OtherOpens
      \/ \E t \in Threads : Setup(t)
  <2>1. ASSUME NEW t \in Threads, Claim(t) \/ CloseWrite(t) \/ CloseRead(t)
        PROVE  fds' = fds \/ \E S : fds' = Closed(S)
    BY <2>1 DEF Claim, CloseWrite, CloseRead
  <2>2. ASSUME NEW t \in Threads,
               \/ SetupFails(t) \/ Existing(t) \/ StoreWrite(t) \/ Install(t) \/ Cleanup(t)
               \/ Reset(t) \/ SwapWrite(t) \/ SwapRead(t) \/ read_signal_from_pipe(t)
               \/ HandlerLoad(t) \/ HandlerWrite(t) \/ \E sig \in Sigs : Deliver(t, sig)
        PROVE  fds' = fds
    BY <2>2 DEF SetupFails, Existing, StoreWrite, Install, Cleanup, Reset, SwapWrite, SwapRead,
                read_signal_from_pipe, HandlerLoad, HandlerWrite, Deliver
  <2>. QED
    BY <2>1, <2>2 DEF Next, OtherCloses, Terminated, vars
<1>. QED
  BY <1>1, <1>2, <1>3, <1>4, <1>5

-----------------------------------------------------------------------------
(* The parts of the invariant a step of thread t keeps. *)

\* t moves, the other threads and the handlers' frames stay
Steps(t) ==
  /\ th[t].role \in {"owner", "caller"} /\ frames[t] = << >>
  /\ th'[t].role = th[t].role
  /\ \A u \in Threads \ {t} : th'[u] = th[u]
  /\ frames' = frames

\* While t is in setup nobody cleans up, and while it cleans up it is alone.
LEMMA Company ==
  ASSUME PipeTypes, Cast, NEW t \in Threads, th[t].role \in {"owner", "caller"}
  PROVE  /\ \A u \in Threads \ {t} : th[u].pc \notin Cleaning
         /\ th[t].role = "owner" =>
              \A u \in Threads \ {t} : th[u].pc = "idle" /\ ~ th[u].ready /\ frames[u] = << >>
<1>1. ASSUME NEW u \in Threads \ {t}, th[u].pc \in Cleaning
      PROVE  FALSE
  BY <1>1 DEF Cast
<1>2. ASSUME th[t].role = "owner", NEW u \in Threads \ {t}
      PROVE  th[u].pc = "idle" /\ ~ th[u].ready /\ frames[u] = << >>
  <2>1. th[u].role = "absent"
    BY <1>2 DEF Cast
  <2>. QED
    BY <2>1 DEF Cast
<1>. QED
  BY <1>1, <1>2

LEMMA CastKept ==
  ASSUME Cast, NEW t \in Threads, Steps(t),
         th'[t].pc \in Cleaning => th[t].role = "owner" /\ ~ th'[t].ready
  PROVE  Cast'
<1>. SUFFICES ASSUME NEW u \in Threads
              PROVE  /\ th'[u].role = "owner" => \A v \in Threads \ {u} : th'[v].role = "absent"
                     /\ th'[u].role \notin {"owner", "caller"} => th'[u].pc = "idle" /\ ~ th'[u].ready
                     /\ th'[u].role = "absent" => frames'[u] = << >>
                     /\ th'[u].pc \in Cleaning => th'[u].role = "owner" /\ ~ th'[u].ready
  BY DEF Cast
<1>1. \A v \in Threads : th'[v].role = th[v].role
  BY DEF Steps
<1>2. CASE u = t
  BY <1>1, <1>2 DEF Cast, Steps
<1>3. CASE u # t
  BY <1>1, <1>3 DEF Cast, Steps
<1>. QED
  BY <1>2, <1>3

\* Nobody takes or drops a descriptor.
LEMMA DescriptorsKept ==
  ASSUME PipeTypes, Ends, NoneLost, NEW t \in Threads, Steps(t),
         UNCHANGED <<SIGNAL_PIPE, SIGNAL_WRITE_FD, fds>>,
         th[t].pc \notin {"claim", "store", "closew", "closer"},
         th'[t].pc \notin {"claim", "store", "closew", "closer"}
  PROVE  Ends' /\ NoneLost'
<1>1. Held(t) = {} /\ Held(t)' = {}
  BY DEF Held
<1>2. \A u \in Threads \ {t} : Held(u)' = Held(u) /\ th'[u] = th[u]
  BY DEF Held, Steps
<1>3. Ends'
  BY <1>1, <1>2 DEF Ends
<1>4. NoneLost'
  <2>1. \A u \in Threads : Held(u)' = Held(u)
    BY <1>1, <1>2
  <2>. QED
    BY <2>1 DEF NoneLost
<1>. QED
  BY <1>3, <1>4

LEMMA HandlingKept ==
  ASSUME Handling, NEW t \in Threads, Steps(t), SIGNAL_WRITE_FD' = SIGNAL_WRITE_FD,
         hist'.deaf = hist.deaf, hist'.foreign = hist.foreign
  PROVE  Handling'
BY DEF Handling, Steps

LEMMA WinnerKept ==
  ASSUME OneWinner, NEW t \in Threads, Steps(t),
         th'[t].pc \in {"store", "install"} => th[t].pc \in {"store", "install"}
  PROVE  OneWinner'
BY DEF OneWinner, Steps

-----------------------------------------------------------------------------
(* setup_signal_forwarding keeps the invariant. *)

\* The others keep their places when the statics stay and handlers are added.
LEMMA OthersKeepPlace ==
  ASSUME PipeTypes, Cast, Progress, NEW t \in Threads, Steps(t),
         UNCHANGED <<SIGNAL_PIPE, SIGNAL_WRITE_FD>>, handlers \subseteq handlers'
  PROVE  \A u \in Threads \ {t} : Place(u)'
<1>. TAKE u \in Threads \ {t}
<1>1. th'[u] = th[u] /\ th[u].pc \notin Cleaning
  BY Company DEF Steps
<1>2. Place(u)
  BY DEF Progress
<1>. QED
  BY <1>1, <1>2 DEF Place, Cleaning

\* Setup fails, or finds the pipe of another setup.
LEMMA ReturnsStep ==
  ASSUME PipeTypes, PipeInv, NEW t \in Threads, SetupFails(t) \/ Existing(t)
  PROVE  PipeInv'
<1>0. th \in [Threads -> Thread] /\ th[t] \in Thread
  BY DEF PipeTypes, TypeOK
<1>i. Cast /\ Progress /\ OneWinner /\ Statics /\ Served /\ Ends /\ NoneLost /\ Handling
  BY DEF PipeInv
<1>1. /\ th[t].pc \in {"idle", "existing"} /\ th'[t].pc = "idle" /\ th'[t].k = 0
      /\ th'[t].ready => SIGNAL_PIPE # Unset
      /\ UNCHANGED <<SIGNAL_PIPE, SIGNAL_WRITE_FD, handlers, fds, frames, hist>>
  <2>1. /\ th[t].pc \in {"idle", "existing"}
        /\ UNCHANGED <<SIGNAL_PIPE, SIGNAL_WRITE_FD, handlers, fds, frames, hist>>
    BY DEF SetupFails, Existing, At
  <2>2. PICK b \in {FALSE, SIGNAL_PIPE # Unset} : Return(t, b)
    BY DEF SetupFails, Existing
  <2>3. th'[t] = [role |-> th[t].role, pc |-> "idle", r |-> Unset, w |-> Unset, k |-> 0, ready |-> b]
    BY <1>0, <2>2 DEF Return
  <2>4. th'[t].pc = "idle" /\ th'[t].k = 0 /\ th'[t].ready = b
    BY <2>3
  <2>. QED
    BY <2>1, <2>2, <2>4
<1>2. Steps(t)
  BY <1>0 DEF SetupFails, Existing, Return, At, Steps
<1>3. Cast'
  BY <1>i, <1>1, <1>2, CastKept DEF Cleaning
<1>4. Ends' /\ NoneLost'
  BY <1>i, <1>1, <1>2, DescriptorsKept
<1>5. Handling' /\ OneWinner'
  BY <1>i, <1>1, <1>2, HandlingKept, WinnerKept
<1>6. Place(t)'
  BY <1>1 DEF Place, Cleaning
<1>7. Progress'
  BY <1>i, <1>1, <1>2, <1>6, OthersKeepPlace DEF Progress
<1>8. Statics'
  BY <1>i, <1>1, <1>2 DEF Statics, Steps
<1>9. Served'
  BY <1>i, <1>1, <1>2 DEF Served, Steps, Cleaning
<1>. QED
  BY <1>3, <1>4, <1>5, <1>7, <1>8, <1>9 DEF PipeInv

\* pipe(): two free descriptors become the ends of a new pipe, in t's hands.
LEMMA PipeStep ==
  ASSUME PipeTypes, PipeInv, NEW t \in Threads, Setup(t)
  PROVE  PipeInv'
<1>0. /\ th \in [Threads -> Thread] /\ th[t] \in Thread /\ fds \in [Fds -> End] /\ hist \in Hist
      /\ SIGNAL_PIPE \in Fds \cup {Unset} /\ SIGNAL_WRITE_FD \in Fds \cup {Unset} /\ Unset \notin Fds
  BY PipeAssumption DEF PipeTypes, TypeOK, Unset
<1>i. Cast /\ Progress /\ OneWinner /\ Statics /\ Served /\ Ends /\ NoneLost /\ Handling
  BY DEF PipeInv
<1> DEFINE r == LowestTwo[1]
           x == LowestTwo[2]
           i == hist.pipes + 1
<1>1. r \in Fds /\ x \in Fds /\ r # x /\ fds[r].kind = "free" /\ fds[x].kind = "free"
  BY TwoFree DEF Setup, FreeFds, Free
<1>2. /\ fds' = [fds EXCEPT ![r] = [kind |-> "r", id |-> i], ![x] = [kind |-> "w", id |-> i]]
      /\ th' = [th EXCEPT ![t].pc = "claim", ![t].r = r, ![t].w = x]
      /\ hist' = [hist EXCEPT !.pipes = i]
      /\ UNCHANGED <<SIGNAL_PIPE, SIGNAL_WRITE_FD, handlers, frames>>
      /\ th[t].pc = "idle" /\ th[t].role \in {"owner", "caller"} /\ frames[t] = << >>
  BY DEF Setup, At
<1>. HIDE DEF r, x, i
<1>3. /\ th'[t].pc = "claim" /\ th'[t].r = r /\ th'[t].w = x /\ th'[t].k = th[t].k
      /\ th'[t].ready = th[t].ready /\ th'[t].role = th[t].role
  BY <1>0, <1>2 DEF Thread
<1>4. Steps(t)
  BY <1>0, <1>2, <1>3 DEF Steps
<1>5. /\ fds'[r] = [kind |-> "r", id |-> i] /\ fds'[x] = [kind |-> "w", id |-> i]
      /\ \A fd \in Fds \ {r, x} : fds'[fd] = fds[fd]
  BY <1>0, <1>1, <1>2
<1>6. /\ SIGNAL_PIPE \notin {r, x} /\ SIGNAL_WRITE_FD \notin {r, x}
      /\ \A u \in Threads : r \notin Held(u) /\ x \notin Held(u)
  BY <1>1, <1>i DEF NoneLost
<1>7. /\ Held(t) = {} /\ Held(t)' = {r, x}
      /\ \A u \in Threads \ {t} : th'[u] = th[u] /\ Held(u)' = Held(u)
  BY <1>2, <1>3, <1>4 DEF Held, Steps
<1>8. Cast'
  BY <1>i, <1>3, <1>4, CastKept DEF Cleaning
<1>9. OneWinner'
  BY <1>i, <1>3, <1>4, WinnerKept
<1>10. Handling'
  <2>1. hist'.deaf = hist.deaf /\ hist'.foreign = hist.foreign
    BY <1>0, <1>2, CountsOther
  <2>. QED
    BY <1>i, <1>2, <1>4, <2>1, HandlingKept
<1>11. Progress'
  <2>1. Place(t)'
    BY <1>2, <1>3, <1>i DEF Progress, Place, Cleaning
  <2>. QED
    BY <1>i, <1>2, <1>4, <2>1, OthersKeepPlace DEF Progress
<1>12. Statics'
  BY <1>0, <1>i, <1>2, <1>3, <1>5, <1>6, <1>7 DEF Statics
<1>13. Served'
  BY <1>i, <1>2, <1>3, <1>7 DEF Served, Cleaning
<1>14. Ends'
  <2>. SUFFICES ASSUME NEW u \in Threads
                PROVE  /\ th'[u].pc \in {"claim", "store"} =>
                            /\ th'[u].r \in Fds /\ th'[u].w \in Fds
                            /\ fds'[th'[u].r].kind = "r"
                            /\ fds'[th'[u].w] = [kind |-> "w", id |-> fds'[th'[u].r].id]
                       /\ th'[u].pc = "closew" /\ th'[u].w # Unset => fds'[th'[u].w].kind = "w"
                       /\ th'[u].pc = "claim" => SIGNAL_PIPE' \notin Held(u)' /\ SIGNAL_WRITE_FD' \notin Held(u)'
                       /\ \A v \in Threads \ {u} : Held(u)' \cap Held(v)' = {}
    BY DEF Ends
  <2>1. CASE u = t
    <3>1. fds'[r].kind = "r" /\ fds'[x] = [kind |-> "w", id |-> fds'[r].id]
      BY <1>5
    <3>2. \A v \in Threads \ {t} : Held(t)' \cap Held(v)' = {}
      BY <1>6, <1>7
    <3>3. SIGNAL_PIPE' \notin Held(t)' /\ SIGNAL_WRITE_FD' \notin Held(t)'
      BY <1>2, <1>6, <1>7
    <3>4. th'[t].pc = "claim" /\ th'[t].r = r /\ th'[t].w = x
      BY <1>3
    <3>. QED
      BY <1>1, <2>1, <3>1, <3>2, <3>3, <3>4
  <2>2. CASE u # t
    <3>1. Held(u)' = Held(u) /\ th'[u] = th[u] /\ r \notin Held(u) /\ x \notin Held(u)
      BY <1>6, <1>7, <2>2
    <3>2. \A v \in Threads \ {u} : Held(u)' \cap Held(v)' = {}
      BY <1>i, <1>7, <2>2, <3>1 DEF Ends
    <3>3. th[u].pc = "closew" => th[u].w \in Held(u)
      BY DEF Held
    <3>4. th[u].pc \in {"claim", "store"} => th[u].r \in Held(u) /\ th[u].w \in Held(u)
      BY DEF Held
    <3>5. th[u].w \in Fds \cup {Unset}
      BY <1>0 DEF Thread
    <3>6. th[u].pc \in {"claim", "store"} =>
            /\ th[u].r \in Fds /\ th[u].w \in Fds
            /\ fds'[th[u].r] = fds[th[u].r] /\ fds'[th[u].w] = fds[th[u].w]
      BY <1>i, <1>5, <3>1, <3>4 DEF Ends
    <3>7. th[u].pc = "closew" /\ th[u].w # Unset => fds'[th[u].w] = fds[th[u].w]
      BY <1>5, <3>1, <3>3, <3>5
    <3>8. th[u].pc = "claim" => SIGNAL_PIPE' \notin Held(u)' /\ SIGNAL_WRITE_FD' \notin Held(u)'
      BY <1>i, <1>2, <3>1 DEF Ends
    <3>9. th[u].pc = "closew" /\ th[u].w # Unset => fds'[th[u].w].kind = "w"
      BY <1>i, <3>7 DEF Ends
    <3>10. th[u].pc \in {"claim", "store"} =>
             /\ fds'[th[u].r].kind = "r"
             /\ fds'[th[u].w] = [kind |-> "w", id |-> fds'[th[u].r].id]
      BY <1>i, <3>6 DEF Ends
    <3>. QED
      BY <3>1, <3>2, <3>6, <3>8, <3>9, <3>10
  <2>. QED
    BY <2>1, <2>2
<1>15. NoneLost'
  <2>. SUFFICES ASSUME NEW fd \in Fds
                PROVE  fds'[fd].kind \in {"r", "w"} <=>
                          fd \in {SIGNAL_PIPE', SIGNAL_WRITE_FD'} \/ \E u \in Threads : fd \in Held(u)'
    BY DEF NoneLost
  <2>1. CASE fd \in {r, x}
    BY <1>5, <1>7, <2>1
  <2>2. CASE fd \notin {r, x}
    <3>1. \A u \in Threads : fd \in Held(u)' <=> fd \in Held(u)
      BY <1>7, <2>2
    <3>. QED
      BY <1>i, <1>2, <1>5, <2>2, <3>1 DEF NoneLost
  <2>. QED
    BY <2>1, <2>2
<1>. QED
  BY <1>8, <1>9, <1>10, <1>11, <1>12, <1>13, <1>14, <1>15 DEF PipeInv

\* The compare_exchange: the winner publishes its read end, a loser closes its
\* own pipe and nothing else.
LEMMA ClaimStep ==
  ASSUME PipeTypes, PipeInv, NEW t \in Threads, Claim(t)
  PROVE  PipeInv'
<1>0. /\ th \in [Threads -> Thread] /\ th[t] \in Thread /\ fds \in [Fds -> End]
      /\ SIGNAL_PIPE \in Fds \cup {Unset} /\ SIGNAL_WRITE_FD \in Fds \cup {Unset} /\ Unset \notin Fds
  BY PipeAssumption DEF PipeTypes, TypeOK, Unset
<1>i. Cast /\ Progress /\ OneWinner /\ Statics /\ Served /\ Ends /\ NoneLost /\ Handling
  BY DEF PipeInv
<1>1. /\ th[t].pc = "claim" /\ th[t].role \in {"owner", "caller"} /\ frames[t] = << >>
      /\ UNCHANGED <<SIGNAL_WRITE_FD, handlers, frames, hist>>
  BY DEF Claim, At
<1>2. \E l \in {"store", "existing"} : Goto(t, l)
  BY DEF Claim
<1>3. /\ th'[t].pc \in {"store", "existing"} /\ th'[t].r = th[t].r /\ th'[t].w = th[t].w
      /\ th'[t].k = th[t].k /\ th'[t].ready = th[t].ready /\ th'[t].role = th[t].role
  BY <1>0, <1>2 DEF Goto, Thread
<1>4. Steps(t)
  BY <1>0, <1>1, <1>2, <1>3 DEF Goto, Steps
<1>5. \A u \in Threads \ {t} : th'[u] = th[u] /\ Held(u)' = Held(u) /\ th[u].pc \notin Cleaning
  BY <1>i, <1>4, Company DEF Steps, Held
<1>6. /\ Held(t) = {th[t].r, th[t].w} /\ th[t].r \in Fds /\ th[t].w \in Fds
      /\ fds[th[t].r].kind = "r" /\ fds[th[t].w] = [kind |-> "w", id |-> fds[th[t].r].id]
      /\ SIGNAL_PIPE \notin Held(t) /\ SIGNAL_WRITE_FD \notin Held(t)
  BY <1>i, <1>1 DEF Ends, Held
<1>7. \A u \in Threads \ {t} : Held(t) \cap Held(u) = {}
  BY <1>i DEF Ends
<1>8. Cast' /\ Handling'
  BY <1>i, <1>1, <1>3, <1>4, CastKept, HandlingKept DEF Cleaning
<1>9. CASE SIGNAL_PIPE = Unset
  <2>1. SIGNAL_PIPE' = th[t].r /\ Goto(t, "store") /\ fds' = fds
    BY <1>9 DEF Claim
  <2>2. th'[t].pc = "store" /\ Held(t)' = Held(t)
    <3>1. th'[t].pc = "store"
      BY <1>0, <2>1 DEF Goto, Thread
    <3>. QED
      BY <1>3, <1>6, <3>1 DEF Held
  <2>3. SIGNAL_WRITE_FD = Unset /\ handlers = {} /\ \A u \in Threads : th[u].pc \notin {"store", "install"}
    BY <1>i, <1>9 DEF Statics
  <2>4. Progress'
    <3>1. Place(t)'
      BY <1>i, <1>1, <1>3, <2>1, <2>2, <2>3 DEF Place, Progress, Cleaning
    <3>2. ASSUME NEW u \in Threads \ {t}
          PROVE  Place(u)'
      BY <1>i, <1>5, <2>3 DEF Place, Progress, Cleaning
    <3>. QED
      BY <3>1, <3>2 DEF Progress
  <2>5. OneWinner'
    BY <1>5, <2>3 DEF OneWinner
  <2>6. Statics'
    BY <1>0, <1>1, <1>6, <2>1, <2>3 DEF Statics
  <2>7. Served'
    BY <1>0, <1>6, <2>1, <2>2 DEF Served
  <2>8. Ends'
    <3>1. ASSUME NEW u \in Threads \ {t}, th[u].pc = "claim"
          PROVE  SIGNAL_PIPE' \notin Held(u)' /\ SIGNAL_WRITE_FD' \notin Held(u)'
      <4>1. th[t].r \notin Held(u)
        BY <1>6, <1>7
      <4>. QED
        BY <1>i, <1>1, <1>5, <2>1, <3>1, <4>1 DEF Ends
    <3>2. \A u \in Threads : Held(u)' = Held(u)
      BY <1>5, <2>2
    <3>. QED
      BY <1>i, <1>1, <1>3, <1>5, <2>1, <2>2, <3>1, <3>2 DEF Ends
  <2>9. NoneLost'
    <3>1. \A u \in Threads : Held(u)' = Held(u)
      BY <1>5, <2>2
    <3>2. th[t].r \in Held(t)
      BY <1>6
    <3>. QED
      BY <1>0, <1>i, <1>1, <1>9, <2>1, <3>1, <3>2 DEF NoneLost
  <2>. QED
    BY <1>8, <2>4, <2>5, <2>6, <2>7, <2>8, <2>9 DEF PipeInv
<1>10. CASE SIGNAL_PIPE # Unset
  <2>1. SIGNAL_PIPE' = SIGNAL_PIPE /\ Goto(t, "existing") /\ fds' = Closed({th[t].r, th[t].w})
    BY <1>10 DEF Claim
  <2>2. th'[t].pc = "existing" /\ Held(t)' = {}
    <3>1. th'[t].pc = "existing"
      BY <1>0, <2>1 DEF Goto, Thread
    <3>. QED
      BY <3>1 DEF Held
  <2>3. /\ \A fd \in Held(t) : fds'[fd].kind = "free"
        /\ \A fd \in Fds \ Held(t) : fds'[fd] = fds[fd]
    BY <1>6, <2>1 DEF Closed, Free
  <2>4. OneWinner'
    BY <1>i, <1>4, <2>2, WinnerKept
  <2>5. Progress'
    <3>1. Place(t)'
      BY <1>i, <1>1, <1>3, <2>2 DEF Place, Progress, Cleaning
    <3>. QED
      BY <1>i, <1>1, <1>4, <2>1, <3>1, OthersKeepPlace DEF Progress
  <2>6. Statics'
    BY <1>0, <1>i, <1>1, <1>5, <1>6, <1>10, <2>1, <2>2, <2>3 DEF Statics
  <2>7. Served'
    BY <1>i, <1>1, <1>3, <1>5, <1>10, <2>1, <2>2 DEF Served, Cleaning
  <2>8. Ends'
    <3>. SUFFICES ASSUME NEW u \in Threads
                  PROVE  /\ th'[u].pc \in {"claim", "store"} =>
                              /\ th'[u].r \in Fds /\ th'[u].w \in Fds
                              /\ fds'[th'[u].r].kind = "r"
                              /\ fds'[th'[u].w] = [kind |-> "w", id |-> fds'[th'[u].r].id]
                         /\ th'[u].pc = "closew" /\ th'[u].w # Unset => fds'[th'[u].w].kind = "w"
                         /\ th'[u].pc = "claim" => SIGNAL_PIPE' \notin Held(u)' /\ SIGNAL_WRITE_FD' \notin Held(u)'
                         /\ \A v \in Threads \ {u} : Held(u)' \cap Held(v)' = {}
      BY DEF Ends
    <3>1. CASE u = t
      BY <2>2, <3>1
    <3>2. CASE u # t
      <4>1. Held(u)' = Held(u) /\ th'[u] = th[u] /\ Held(t) \cap Held(u) = {} /\ th[u].pc # "closew"
        BY <1>5, <1>7, <3>2 DEF Cleaning
      <4>2. th[u].pc \in {"claim", "store"} => th[u].r \in Held(u) /\ th[u].w \in Held(u)
        BY DEF Held
      <4>3. th[u].pc \in {"claim", "store"} =>
              /\ th[u].r \in Fds /\ th[u].w \in Fds
              /\ fds'[th[u].r] = fds[th[u].r] /\ fds'[th[u].w] = fds[th[u].w]
        BY <1>i, <2>3, <4>1, <4>2 DEF Ends
      <4>4. th[u].pc \in {"claim", "store"} =>
              /\ fds'[th[u].r].kind = "r"
              /\ fds'[th[u].w] = [kind |-> "w", id |-> fds'[th[u].r].id]
        BY <1>i, <4>3 DEF Ends
      <4>5. th[u].pc = "claim" => SIGNAL_PIPE' \notin Held(u)' /\ SIGNAL_WRITE_FD' \notin Held(u)'
        BY <1>i, <1>1, <2>1, <4>1 DEF Ends
      <4>6. \A v \in Threads \ {u} : Held(u)' \cap Held(v)' = {}
        BY <1>i, <1>5, <2>2, <4>1 DEF Ends
      <4>. QED
        BY <4>1, <4>3, <4>4, <4>5, <4>6
    <3>. QED
      BY <3>1, <3>2
  <2>9. NoneLost'
    <3>. SUFFICES ASSUME NEW fd \in Fds
                  PROVE  fds'[fd].kind \in {"r", "w"} <=>
                            fd \in {SIGNAL_PIPE', SIGNAL_WRITE_FD'} \/ \E u \in Threads : fd \in Held(u)'
      BY DEF NoneLost
    <3>1. CASE fd \in Held(t)
      <4>1. fd \notin {SIGNAL_PIPE', SIGNAL_WRITE_FD'}
        BY <1>1, <1>6, <2>1, <3>1
      <4>2. \A u \in Threads : fd \notin Held(u)'
        BY <1>5, <1>7, <2>2, <3>1
      <4>. QED
        BY <2>3, <3>1, <4>1, <4>2
    <3>2. CASE fd \notin Held(t)
      <4>1. \A u \in Threads : fd \in Held(u)' <=> fd \in Held(u)
        BY <1>5, <2>2, <3>2
      <4>. QED
        BY <1>i, <1>1, <2>1, <2>3, <3>2, <4>1 DEF NoneLost
    <3>. QED
      BY <3>1, <3>2
  <2>. QED
    BY <1>8, <2>4, <2>5, <2>6, <2>7, <2>8, <2>9 DEF PipeInv
<1>. QED
  BY <1>9, <1>10

\* The winner publishes the write end before the first handler is there.
LEMMA StoreStep ==
  ASSUME PipeTypes, PipeInv, NEW t \in Threads, StoreWrite(t)
  PROVE  PipeInv'
<1>0. /\ th \in [Threads -> Thread] /\ th[t] \in Thread /\ fds \in [Fds -> End]
      /\ SIGNAL_PIPE \in Fds \cup {Unset} /\ SIGNAL_WRITE_FD \in Fds \cup {Unset} /\ Unset \notin Fds
      /\ th[t].k \in Nat /\ frames \in [Threads -> Seq(Frame)]
  BY PipeAssumption DEF PipeTypes, TypeOK, Unset, Thread
<1>i. Cast /\ Progress /\ OneWinner /\ Statics /\ Served /\ Ends /\ NoneLost /\ Handling
  BY DEF PipeInv
<1>1. /\ th[t].pc = "store" /\ th[t].role \in {"owner", "caller"} /\ frames[t] = << >>
      /\ SIGNAL_WRITE_FD' = th[t].w
      /\ UNCHANGED <<SIGNAL_PIPE, handlers, fds, frames, hist>>
  BY DEF StoreWrite, At
<1>2. /\ th'[t].pc = "install" /\ th'[t].r = th[t].r /\ th'[t].w = th[t].w
      /\ th'[t].k = th[t].k /\ th'[t].ready = th[t].ready /\ th'[t].role = th[t].role
  BY <1>0 DEF StoreWrite, Goto, Thread
<1>3. Steps(t)
  BY <1>0, <1>1, <1>2 DEF StoreWrite, Goto, Steps
<1>4. /\ th[t].k = 0 /\ SIGNAL_PIPE = th[t].r /\ SIGNAL_WRITE_FD = Unset /\ handlers = {}
  BY <1>i, <1>1 DEF Progress, Place, Statics, Cleaning
<1>5. \A u \in Threads \ {t} : /\ th'[u] = th[u] /\ Held(u)' = Held(u)
                               /\ th[u].pc \notin {"store", "install"} \cup Cleaning
  BY <1>i, <1>1, <1>3, Company DEF Steps, Held, OneWinner
<1>6. /\ Held(t) = {th[t].r, th[t].w} /\ th[t].r \in Fds /\ th[t].w \in Fds
      /\ fds[th[t].r].kind = "r" /\ fds[th[t].w] = [kind |-> "w", id |-> fds[th[t].r].id]
  BY <1>i, <1>1 DEF Ends, Held
<1>7. Held(t)' = {}
  BY <1>2 DEF Held
<1>8. Cast' /\ OneWinner'
  BY <1>i, <1>1, <1>2, <1>3, CastKept, WinnerKept DEF Cleaning
<1>9. Handling'
  <2>1. \A u \in Threads : frames[u] = << >>
    BY <1>i, <1>4 DEF Handling
  <2>2. \A u \in Threads : frames'[u] = << >> /\ Len(frames'[u]) = 0
    BY <1>1, <2>1
  <2>. QED
    BY <1>i, <1>1, <2>2 DEF Handling
<1>10. Progress'
  <2>1. Place(t)'
    BY <1>0, <1>1, <1>2, <1>4, <1>6 DEF Place, Cleaning
  <2>2. ASSUME NEW u \in Threads \ {t}
        PROVE  Place(u)'
    BY <1>i, <1>5 DEF Place, Progress, Cleaning
  <2>. QED
    BY <2>1, <2>2 DEF Progress
<1>11. Statics'
  BY <1>0, <1>1, <1>4, <1>6 DEF Statics
<1>12. Served'
  BY <1>i, <1>1, <1>2, <1>5 DEF Served
<1>13. Ends'
  <2>1. ASSUME NEW u \in Threads \ {t}, th[u].pc = "claim"
        PROVE  SIGNAL_PIPE' \notin Held(u)' /\ SIGNAL_WRITE_FD' \notin Held(u)'
    <3>1. th[t].w \notin Held(u)
      BY <1>i, <1>6 DEF Ends
    <3>. QED
      BY <1>i, <1>1, <1>5, <2>1, <3>1 DEF Ends
  <2>2. \A u \in Threads : \A v \in Threads \ {u} : Held(u)' \cap Held(v)' = {}
    BY <1>i, <1>5, <1>7 DEF Ends
  <2>. QED
    BY <1>i, <1>1, <1>2, <1>5, <2>1, <2>2 DEF Ends, Cleaning
<1>14. NoneLost'
  <2>. SUFFICES ASSUME NEW fd \in Fds
                PROVE  fds'[fd].kind \in {"r", "w"} <=>
                          fd \in {SIGNAL_PIPE', SIGNAL_WRITE_FD'} \/ \E u \in Threads : fd \in Held(u)'
    BY DEF NoneLost
  <2>1. CASE fd \in Held(t)
    BY <1>1, <1>4, <1>6, <2>1
  <2>2. CASE fd \notin Held(t)
    <3>1. \A u \in Threads : fd \in Held(u)' <=> fd \in Held(u)
      BY <1>5, <1>7, <2>2
    <3>. QED
      BY <1>0, <1>i, <1>1, <1>4, <1>6, <2>2, <3>1 DEF NoneLost
  <2>. QED
    BY <2>1, <2>2
<1>. QED
  BY <1>8, <1>9, <1>10, <1>11, <1>12, <1>13, <1>14 DEF PipeInv

\* Handlers are installed one by one; setup returns when all of them are.
LEMMA InstallStep ==
  ASSUME PipeTypes, PipeInv, NEW t \in Threads, Install(t)
  PROVE  PipeInv'
<1>0. /\ th \in [Threads -> Thread] /\ th[t] \in Thread /\ handlers \subseteq Sigs
      /\ th[t].k \in Nat /\ th[t].k <= Len(SigOrder) /\ Len(SigOrder) \in Nat
  BY PipeAssumption DEF PipeTypes, TypeOK, Thread
<1>i. Cast /\ Progress /\ OneWinner /\ Statics /\ Served /\ Ends /\ NoneLost /\ Handling
  BY DEF PipeInv
<1>1. /\ th[t].pc = "install" /\ th[t].role \in {"owner", "caller"} /\ frames[t] = << >>
      /\ UNCHANGED <<SIGNAL_PIPE, SIGNAL_WRITE_FD, fds, frames, hist>>
  BY DEF Install, At
<1>2. /\ SIGNAL_PIPE = th[t].r /\ SIGNAL_WRITE_FD = th[t].w /\ th[t].w # Unset
      /\ \A i \in 1 .. th[t].k : SigOrder[i] \in handlers
      /\ SIGNAL_PIPE # Unset
  BY <1>i, <1>1 DEF Progress, Place, Statics
<1>3. CASE th[t].k < Len(SigOrder)
  <2>1. /\ handlers' = handlers \cup {SigOrder[th[t].k + 1]}
        /\ th' = [th EXCEPT ![t] = [th[t] EXCEPT !.k = th[t].k + 1]]
    BY <1>0, <1>3 DEF Install
  <2>2. /\ th'[t].pc = "install" /\ th'[t].r = th[t].r /\ th'[t].w = th[t].w
        /\ th'[t].k = th[t].k + 1 /\ th'[t].ready = th[t].ready /\ th'[t].role = th[t].role
    BY <1>0, <1>1, <2>1 DEF Thread
  <2>3. Steps(t)
    BY <1>0, <1>1, <2>1, <2>2 DEF Steps
  <2>4. Cast' /\ OneWinner' /\ Handling'
    BY <1>i, <1>1, <2>2, <2>3, CastKept, WinnerKept, HandlingKept DEF Cleaning
  <2>5. Ends' /\ NoneLost'
    BY <1>i, <1>1, <2>2, <2>3, DescriptorsKept
  <2>6. Progress'
    <3>1. \A i \in 1 .. th'[t].k : SigOrder[i] \in handlers'
      BY <1>0, <1>2, <2>1, <2>2
    <3>2. Place(t)'
      BY <1>1, <1>2, <2>2, <3>1 DEF Place, Cleaning
    <3>. QED
      BY <1>i, <1>1, <2>1, <2>3, <3>2, OthersKeepPlace DEF Progress
  <2>7. Statics'
    BY <1>i, <1>1, <1>2 DEF Statics
  <2>8. Served'
    BY <1>1, <1>2, <2>2 DEF Served
  <2>. QED
    BY <2>4, <2>5, <2>6, <2>7, <2>8 DEF PipeInv
<1>4. CASE ~ (th[t].k < Len(SigOrder))
  <2>1. Return(t, TRUE) /\ handlers' = handlers
    BY <1>4 DEF Install
  <2>2. th'[t].pc = "idle" /\ th'[t].k = 0 /\ th'[t].role = th[t].role
    BY <1>0, <2>1 DEF Return
  <2>3. Steps(t)
    BY <1>0, <1>1, <2>1, <2>2 DEF Steps, Return
  <2>4. Cast' /\ OneWinner' /\ Handling'
    BY <1>i, <1>1, <2>2, <2>3, CastKept, WinnerKept, HandlingKept DEF Cleaning
  <2>5. Ends' /\ NoneLost'
    BY <1>i, <1>1, <2>2, <2>3, DescriptorsKept
  <2>6. Progress'
    <3>1. Place(t)'
      BY <2>2 DEF Place, Cleaning
    <3>. QED
      BY <1>i, <1>1, <2>1, <2>3, <3>1, OthersKeepPlace DEF Progress
  <2>7. Statics'
    BY <1>i, <1>1, <1>2, <2>1 DEF Statics
  <2>8. handlers = Sigs
    <3>1. th[t].k = Len(SigOrder)
      BY <1>0, <1>4
    <3>. QED
      BY <1>0, <1>2, <3>1 DEF Sigs
  <2>9. Served'
    BY <1>1, <1>2, <2>1, <2>8 DEF Served, Sigs
  <2>. QED
    BY <2>4, <2>5, <2>6, <2>7, <2>9 DEF PipeInv
<1>. QED
  BY <1>3, <1>4

-----------------------------------------------------------------------------
(* cleanup_signal_forwarding keeps the invariant. *)

\* The owner is alone, so that what a step of cleanup has to keep is about the
\* statics, the handlers and the owner's own hands.
LEMMA AloneStep ==
  ASSUME PipeTypes, PipeInv, NEW t \in Threads, Steps(t), th[t].role = "owner",
         th'[t].pc \in {"idle"} \cup Cleaning, ~ th'[t].ready,
         hist'.deaf = hist.deaf, hist'.foreign = hist.foreign,
         Place(t)',
         th'[t].pc = "idle" => SIGNAL_PIPE' = Unset,
         SIGNAL_PIPE' = Unset => SIGNAL_WRITE_FD' = Unset,
         SIGNAL_WRITE_FD' = Unset => handlers' = {},
         SIGNAL_PIPE' # Unset => fds'[SIGNAL_PIPE'].kind = "r",
         SIGNAL_WRITE_FD' # Unset =>
           fds'[SIGNAL_WRITE_FD'] = [kind |-> "w", id |-> fds'[SIGNAL_PIPE'].id],
         th'[t].pc = "closew" /\ th'[t].w # Unset => fds'[th'[t].w].kind = "w",
         \A fd \in Fds : fds'[fd].kind \in {"r", "w"} <=>
                           fd \in {SIGNAL_PIPE', SIGNAL_WRITE_FD'} \/ fd \in Held(t)'
  PROVE  PipeInv'
<1>i. Cast /\ Progress /\ OneWinner /\ Statics /\ Served /\ Ends /\ NoneLost /\ Handling
  BY DEF PipeInv
<1>1. /\ \A u \in Threads \ {t} : /\ th[u].pc = "idle" /\ ~ th[u].ready /\ th[u].k = 0
                                  /\ th'[u] = th[u]
      /\ \A u \in Threads : frames'[u] = << >>
  BY <1>i, Company DEF Steps, Progress, Place, Cleaning
<1>2. \A u \in Threads : th'[u].pc \in {"idle"} \cup Cleaning /\ ~ th'[u].ready
  BY <1>1
<1>3. \A u \in Threads \ {t} : Held(u)' = {}
  BY <1>1 DEF Held
<1>4. Cast'
  BY <1>i, CastKept
<1>5. Progress'
  <2>1. \A u \in Threads \ {t} : Place(u)'
    BY <1>1 DEF Place, Cleaning
  <2>. QED
    BY <2>1 DEF Progress
<1>6. OneWinner'
  BY <1>2 DEF OneWinner, Cleaning
<1>7. Statics'
  BY <1>2 DEF Statics, Cleaning
<1>8. Served'
  BY <1>2 DEF Served
<1>9. Ends'
  <2>1. \A u \in Threads : th'[u].pc \notin {"claim", "store"}
    BY <1>2 DEF Cleaning
  <2>2. \A u \in Threads : th'[u].pc = "closew" /\ th'[u].w # Unset => fds'[th'[u].w].kind = "w"
    BY <1>1
  <2>3. \A u \in Threads : \A v \in Threads \ {u} : Held(u)' \cap Held(v)' = {}
    BY <1>3
  <2>. QED
    BY <2>1, <2>2, <2>3 DEF Ends
<1>10. NoneLost'
  <2>1. \A fd \in Fds : (\E u \in Threads : fd \in Held(u)') <=> fd \in Held(t)'
    BY <1>3
  <2>. QED
    BY <2>1 DEF NoneLost
<1>11. Handling'
  <2>1. \A u \in Threads : Len(frames'[u]) = 0
    BY <1>1
  <2>. QED
    BY <1>i, <1>1, <2>1 DEF Handling
<1>. QED
  BY <1>4, <1>5, <1>6, <1>7, <1>8, <1>9, <1>10, <1>11 DEF PipeInv

\* Between its steps the owner alone holds what is not in a static.
LEMMA AloneHolds ==
  ASSUME PipeTypes, PipeInv, NEW t \in Threads, th[t].role = "owner"
  PROVE  \A fd \in Fds : fds[fd].kind \in {"r", "w"} <=>
                           fd \in {SIGNAL_PIPE, SIGNAL_WRITE_FD} \/ fd \in Held(t)
<1>1. \A u \in Threads \ {t} : Held(u) = {}
  BY Company DEF PipeInv, Held
<1>2. \A fd \in Fds : (\E u \in Threads : fd \in Held(u)) <=> fd \in Held(t)
  BY <1>1
<1>. QED
  BY <1>2 DEF PipeInv, NoneLost

\* Cleanup starts, and takes the handlers away one by one.
LEMMA ResetStep ==
  ASSUME PipeTypes, PipeInv, NEW t \in Threads, Cleanup(t) \/ Reset(t)
  PROVE  PipeInv'
<1>0. /\ th \in [Threads -> Thread] /\ th[t] \in Thread /\ handlers \subseteq Sigs
      /\ th[t].k \in Nat /\ th[t].k <= Len(SigOrder) /\ Len(SigOrder) \in Nat
  BY PipeAssumption DEF PipeTypes, TypeOK, Thread
<1>i. Cast /\ Progress /\ OneWinner /\ Statics /\ Served /\ Ends /\ NoneLost /\ Handling
  BY DEF PipeInv
<1>1. /\ th[t].pc \in {"idle", "reset"} /\ th[t].role = "owner" /\ frames[t] = << >>
      /\ UNCHANGED <<SIGNAL_PIPE, SIGNAL_WRITE_FD, fds, frames, hist>>
      /\ th[t].pc = "reset" => ~ th[t].ready
  BY <1>i DEF Cleanup, Reset, At, Cast, Cleaning
<1>2. Held(t) = {}
  BY <1>1 DEF Held
<1>3. \A fd \in Fds : fds[fd].kind \in {"r", "w"} <=> fd \in {SIGNAL_PIPE, SIGNAL_WRITE_FD}
  BY <1>1, <1>2, AloneHolds
<1>4. /\ th'[t].pc \in {"reset", "swapw"} /\ ~ th'[t].ready /\ th'[t].role = th[t].role
      /\ handlers' \subseteq handlers /\ Steps(t) /\ Place(t)'
  <2>1. CASE Cleanup(t)
    <3>1. th[t].pc = "idle" /\ th' = [th EXCEPT ![t].pc = "reset", ![t].ready = FALSE] /\ handlers' = handlers
      BY <2>1 DEF Cleanup, At
    <3>2. th'[t].pc = "reset" /\ ~ th'[t].ready /\ th'[t].role = th[t].role /\ th'[t].k = th[t].k
      BY <1>0, <3>1 DEF Thread
    <3>3. th[t].k = 0
      BY <1>i, <3>1 DEF Progress, Place, Cleaning
    <3>4. Place(t)'
      BY <3>2, <3>3 DEF Place, Cleaning
    <3>. QED
      BY <1>0, <1>1, <3>1, <3>2, <3>4 DEF Steps
  <2>2. CASE Reset(t) /\ th[t].k < Len(SigOrder)
    <3>1. /\ th[t].pc = "reset" /\ handlers' = handlers \ {SigOrder[th[t].k + 1]}
          /\ th' = [th EXCEPT ![t].k = @ + 1]
      BY <2>2 DEF Reset, At
    <3>2. /\ th'[t].pc = "reset" /\ th'[t].ready = th[t].ready /\ th'[t].role = th[t].role
          /\ th'[t].k = th[t].k + 1
      BY <1>0, <3>1 DEF Thread
    <3>3. \A i \in 1 .. th[t].k : SigOrder[i] \notin handlers
      BY <1>i, <3>1 DEF Progress, Place
    <3>4. \A i \in 1 .. th'[t].k : SigOrder[i] \notin handlers'
      BY <1>0, <3>1, <3>2, <3>3
    <3>5. Place(t)'
      BY <3>2, <3>4 DEF Place, Cleaning
    <3>. QED
      BY <1>0, <1>1, <3>1, <3>2, <3>5 DEF Steps
  <2>3. CASE Reset(t) /\ ~ (th[t].k < Len(SigOrder))
    <3>1. th[t].pc = "reset" /\ handlers' = handlers /\ th' = [th EXCEPT ![t].pc = "swapw"]
      BY <2>3 DEF Reset, At, Goto
    <3>2. /\ th'[t].pc = "swapw" /\ th'[t].ready = th[t].ready /\ th'[t].role = th[t].role
          /\ th'[t].k = th[t].k
      BY <1>0, <3>1 DEF Thread
    <3>3. \A i \in 1 .. Len(SigOrder) : SigOrder[i] \notin handlers
      BY <1>0, <1>i, <2>3, <3>1 DEF Progress, Place
    <3>4. handlers = {}
      BY <1>0, <3>3 DEF Sigs
    <3>5. Place(t)'
      BY <3>1, <3>2, <3>4 DEF Place, Cleaning
    <3>. QED
      BY <1>0, <1>1, <3>1, <3>2, <3>5 DEF Steps
  <2>. QED
    BY <2>1, <2>2, <2>3
<1>5. Held(t)' = {}
  BY <1>4 DEF Held
<1>6. /\ SIGNAL_PIPE = Unset => SIGNAL_WRITE_FD = Unset
      /\ SIGNAL_WRITE_FD = Unset => handlers' = {}
      /\ SIGNAL_PIPE # Unset => fds[SIGNAL_PIPE].kind = "r"
      /\ SIGNAL_WRITE_FD # Unset =>
           fds[SIGNAL_WRITE_FD] = [kind |-> "w", id |-> fds[SIGNAL_PIPE].id]
  BY <1>i, <1>4 DEF Statics
<1>. QED
  BY <1>1, <1>3, <1>4, <1>5, <1>6, AloneStep DEF Cleaning

\* The write end leaves its static and is closed.
LEMMA CloseWriteStep ==
  ASSUME PipeTypes, PipeInv, NEW t \in Threads, SwapWrite(t) \/ CloseWrite(t)
  PROVE  PipeInv'
<1>0. /\ th \in [Threads -> Thread] /\ th[t] \in Thread /\ fds \in [Fds -> End] /\ Unset \notin Fds
      /\ SIGNAL_PIPE \in Fds \cup {Unset} /\ SIGNAL_WRITE_FD \in Fds \cup {Unset}
      /\ th[t].w \in Fds \cup {Unset}
  BY PipeAssumption DEF PipeTypes, TypeOK, Thread, Unset
<1>i. Cast /\ Progress /\ OneWinner /\ Statics /\ Served /\ Ends /\ NoneLost /\ Handling
  BY DEF PipeInv
<1>1. /\ th[t].pc \in {"swapw", "closew"} /\ frames[t] = << >> /\ SIGNAL_WRITE_FD' = Unset
      /\ UNCHANGED <<SIGNAL_PIPE, handlers, frames, hist>>
      /\ th[t].role = "owner" /\ ~ th[t].ready /\ handlers = {}
      /\ th[t].pc = "closew" => SIGNAL_WRITE_FD = Unset
  BY <1>i DEF SwapWrite, CloseWrite, At, Cast, Progress, Place, Cleaning
<1>2. \A fd \in Fds : fds[fd].kind \in {"r", "w"} <=>
                        fd \in {SIGNAL_PIPE, SIGNAL_WRITE_FD} \/ fd \in Held(t)
  BY <1>1, AloneHolds
<1>3. SIGNAL_PIPE # Unset => fds[SIGNAL_PIPE].kind = "r"
  BY <1>i DEF Statics
<1>4. CASE SwapWrite(t)
  <2>1. /\ th[t].pc = "swapw" /\ fds' = fds
        /\ th' = [th EXCEPT ![t].pc = "closew", ![t].w = SIGNAL_WRITE_FD]
    BY <1>4 DEF SwapWrite, At
  <2>2. /\ th'[t].pc = "closew" /\ th'[t].w = SIGNAL_WRITE_FD /\ th'[t].role = th[t].role
        /\ th'[t].ready = th[t].ready
    BY <1>0, <2>1 DEF Thread
  <2>3. Steps(t) /\ Place(t)' /\ Held(t) = {} /\ Held(t)' = {SIGNAL_WRITE_FD}
    BY <1>0, <1>1, <2>1, <2>2 DEF Steps, Place, Held, Cleaning
  <2>4. SIGNAL_WRITE_FD # Unset => fds[SIGNAL_WRITE_FD].kind = "w"
    BY <1>i DEF Statics
  <2>5. \A fd \in Fds : fds'[fd].kind \in {"r", "w"} <=>
                          fd \in {SIGNAL_PIPE', SIGNAL_WRITE_FD'} \/ fd \in Held(t)'
    BY <1>0, <1>1, <1>2, <2>1, <2>3
  <2>. QED
    BY <1>1, <1>3, <2>1, <2>2, <2>3, <2>4, <2>5, AloneStep DEF Cleaning
<1>5. CASE CloseWrite(t)
  <2>1. th[t].pc = "closew" /\ fds' = Closed({th[t].w}) /\ th' = [th EXCEPT ![t].pc = "swapr"]
    BY <1>5 DEF CloseWrite, At, Goto
  <2>2. th'[t].pc = "swapr" /\ th'[t].role = th[t].role /\ th'[t].ready = th[t].ready
    BY <1>0, <2>1 DEF Thread
  <2>3. Steps(t) /\ Place(t)' /\ Held(t) = {th[t].w} /\ Held(t)' = {}
    BY <1>0, <1>1, <2>1, <2>2 DEF Steps, Place, Held, Cleaning
  <2>4. /\ \A fd \in Fds \ {th[t].w} : fds'[fd] = fds[fd]
        /\ \A fd \in Fds : fd = th[t].w => fds'[fd].kind = "free"
    BY <2>1 DEF Closed, Free
  <2>5. th[t].w # Unset => th[t].w # SIGNAL_PIPE
    <3>1. th[t].w # Unset => fds[th[t].w].kind = "w"
      BY <1>i, <2>1 DEF Ends
    <3>. QED
      BY <1>3, <3>1
  <2>6. SIGNAL_PIPE # Unset => fds'[SIGNAL_PIPE].kind = "r"
    BY <1>0, <1>3, <2>4, <2>5
  <2>7. \A fd \in Fds : fds'[fd].kind \in {"r", "w"} <=>
                          fd \in {SIGNAL_PIPE', SIGNAL_WRITE_FD'} \/ fd \in Held(t)'
    <3>. TAKE fd \in Fds
    <3>1. CASE fd = th[t].w
      BY <1>0, <1>1, <2>3, <2>4, <2>5, <3>1
    <3>2. CASE fd # th[t].w
      BY <1>0, <1>1, <1>2, <2>1, <2>3, <2>4, <3>2
    <3>. QED
      BY <3>1, <3>2
  <2>. QED
    BY <1>1, <2>2, <2>3, <2>6, <2>7, AloneStep DEF Cleaning
<1>. QED
  BY <1>4, <1>5

\* The read end leaves its static and is closed, and cleanup returns.
LEMMA CloseReadStep ==
  ASSUME PipeTypes, PipeInv, NEW t \in Threads, SwapRead(t) \/ CloseRead(t)
  PROVE  PipeInv'
<1>0. /\ th \in [Threads -> Thread] /\ th[t] \in Thread /\ fds \in [Fds -> End] /\ Unset \notin Fds
      /\ SIGNAL_PIPE \in Fds \cup {Unset} /\ hist \in Hist
      /\ th[t].r \in Fds \cup {Unset}
  BY PipeAssumption DEF PipeTypes, TypeOK, Thread, Unset
<1>i. Cast /\ Progress /\ OneWinner /\ Statics /\ Served /\ Ends /\ NoneLost /\ Handling
  BY DEF PipeInv
<1>1. /\ th[t].pc \in {"swapr", "closer"} /\ frames[t] = << >> /\ SIGNAL_PIPE' = Unset
      /\ UNCHANGED <<SIGNAL_WRITE_FD, handlers, frames>>
      /\ th[t].role = "owner" /\ ~ th[t].ready /\ handlers = {} /\ SIGNAL_WRITE_FD = Unset
      /\ th[t].pc = "closer" => SIGNAL_PIPE = Unset
  BY <1>i DEF SwapRead, CloseRead, At, Cast, Progress, Place, Cleaning
<1>2. \A fd \in Fds : fds[fd].kind \in {"r", "w"} <=>
                        fd \in {SIGNAL_PIPE, SIGNAL_WRITE_FD} \/ fd \in Held(t)
  BY <1>1, AloneHolds
<1>3. CASE SwapRead(t)
  <2>1. /\ th[t].pc = "swapr" /\ fds' = fds /\ hist' = hist
        /\ th' = [th EXCEPT ![t].pc = "closer", ![t].r = SIGNAL_PIPE]
    BY <1>3 DEF SwapRead, At
  <2>2. /\ th'[t].pc = "closer" /\ th'[t].r = SIGNAL_PIPE /\ th'[t].role = th[t].role
        /\ th'[t].ready = th[t].ready
    BY <1>0, <2>1 DEF Thread
  <2>3. Steps(t) /\ Place(t)' /\ Held(t) = {} /\ Held(t)' = {SIGNAL_PIPE}
    BY <1>0, <1>1, <2>1, <2>2 DEF Steps, Place, Held, Cleaning
  <2>4. \A fd \in Fds : fds'[fd].kind \in {"r", "w"} <=>
                          fd \in {SIGNAL_PIPE', SIGNAL_WRITE_FD'} \/ fd \in Held(t)'
    BY <1>0, <1>1, <1>2, <2>1, <2>3
  <2>. QED
    BY <1>1, <2>1, <2>2, <2>3, <2>4, AloneStep DEF Cleaning
<1>4. CASE CloseRead(t)
  <2>1. th[t].pc = "closer" /\ fds' = Closed({th[t].r}) /\ Return(t, FALSE)
    BY <1>4 DEF CloseRead, At
  <2>2. th'[t].pc = "idle" /\ th'[t].k = 0 /\ th'[t].role = th[t].role /\ th'[t].ready = FALSE
    BY <1>0, <2>1 DEF Return
  <2>3. Steps(t) /\ Place(t)' /\ Held(t) = {th[t].r} /\ Held(t)' = {}
    BY <1>0, <1>1, <2>1, <2>2 DEF Steps, Place, Held, Cleaning, Return
  <2>4. \A fd \in Fds : fds'[fd].kind \in {"r", "w"} <=>
                          fd \in {SIGNAL_PIPE', SIGNAL_WRITE_FD'} \/ fd \in Held(t)'
    BY <1>0, <1>1, <1>2, <2>1, <2>3 DEF Closed, Free
  <2>5. hist'.deaf = hist.deaf /\ hist'.foreign = hist.foreign
    <3> DEFINE n == hist.discarded + Len(data[fds[th[t].r].id])
    <3>1. hist' = hist \/ hist' = [hist EXCEPT !.discarded = n]
      BY <1>4 DEF CloseRead
    <3>2. [hist EXCEPT !.discarded = n].deaf = hist.deaf /\ [hist EXCEPT !.discarded = n].foreign = hist.foreign
      BY <1>0, CountsOther
    <3>. QED
      BY <3>1, <3>2
  <2>. QED
    BY <1>1, <2>2, <2>3, <2>4, <2>5, AloneStep DEF Cleaning
<1>. QED
  BY <1>3, <1>4

-----------------------------------------------------------------------------
(* Signals, the run loop and the rest of the program keep the invariant. *)

\* What is said of the descriptors stays when only free descriptors are taken
\* and only the program's own are given back.
LEMMA FilesStep ==
  ASSUME PipeTypes, PipeInv, OtherOpens \/ OtherCloses
  PROVE  PipeInv'
<1>0. /\ fds \in [Fds -> End] /\ th \in [Threads -> Thread] /\ Unset \notin Fds
      /\ SIGNAL_PIPE \in Fds \cup {Unset} /\ SIGNAL_WRITE_FD \in Fds \cup {Unset}
      /\ \A t \in Threads : th[t].w \in Fds \cup {Unset}
  BY PipeAssumption DEF PipeTypes, TypeOK, Thread, Unset
<1>i. Cast /\ Progress /\ OneWinner /\ Statics /\ Served /\ Ends /\ NoneLost /\ Handling
  BY DEF PipeInv
<1>1. UNCHANGED <<SIGNAL_PIPE, SIGNAL_WRITE_FD, handlers, th, frames, hist>>
  BY DEF OtherOpens, OtherCloses
<1>2. \A fd \in Fds : \/ fds'[fd] = fds[fd]
                      \/ fds'[fd].kind \notin {"r", "w"} /\ fds[fd].kind \notin {"r", "w"}
  <2>1. CASE OtherOpens
    <3>1. Min(FreeFds) \in FreeFds
      <4>1. FreeFds \subseteq Nat
        BY PipeAssumption DEF FreeFds
      <4>2. FreeFds # {}
        BY <2>1 DEF OtherOpens
      <4>. QED
        BY <4>1, <4>2, LeastIsMember
    <3>2. fds' = [fds EXCEPT ![Min(FreeFds)] = Other]
      BY <2>1 DEF OtherOpens
    <3>. QED
      BY <1>0, <3>1, <3>2 DEF FreeFds, Free, Other
  <2>2. CASE OtherCloses
    BY <2>2 DEF OtherCloses, Closed, Free, Other
  <2>. QED
    BY <2>1, <2>2
<1>3. \A t \in Threads : Held(t)' = Held(t)
  BY <1>1 DEF Held
<1>4. Cast' /\ Progress' /\ OneWinner' /\ Served' /\ Handling'
  <2>1. Cast' /\ OneWinner'
    BY <1>i, <1>1 DEF Cast, OneWinner
  <2>2. Progress'
    BY <1>i, <1>1 DEF Progress, Place
  <2>3. Served' /\ Handling'
    BY <1>i, <1>1 DEF Served, Handling
  <2>. QED
    BY <2>1, <2>2, <2>3
<1>5. Statics'
  <2>1. SIGNAL_PIPE # Unset => fds'[SIGNAL_PIPE] = fds[SIGNAL_PIPE]
    BY <1>0, <1>i, <1>2 DEF Statics
  <2>2. SIGNAL_WRITE_FD # Unset => fds'[SIGNAL_WRITE_FD] = fds[SIGNAL_WRITE_FD]
    BY <1>0, <1>i, <1>2 DEF Statics
  <2>. QED
    BY <1>i, <1>1, <2>1, <2>2 DEF Statics
<1>6. Ends'
  <2>1. \A t \in Threads : th[t].pc \in {"claim", "store"} =>
          fds'[th[t].r] = fds[th[t].r] /\ fds'[th[t].w] = fds[th[t].w]
    <3>. SUFFICES ASSUME NEW t \in Threads, th[t].pc \in {"claim", "store"}
                  PROVE  fds'[th[t].r] = fds[th[t].r] /\ fds'[th[t].w] = fds[th[t].w]
      OBVIOUS
    <3>1. /\ th[t].r \in Fds /\ th[t].w \in Fds
          /\ fds[th[t].r].kind = "r" /\ fds[th[t].w] = [kind |-> "w", id |-> fds[th[t].r].id]
      BY <1>i DEF Ends
    <3>2. fds[th[t].w].kind = "w"
      BY <3>1
    <3>. QED
      BY <1>2, <3>1, <3>2
  <2>2. \A t \in Threads : th[t].pc = "closew" /\ th[t].w # Unset => fds'[th[t].w] = fds[th[t].w]
    BY <1>0, <1>i, <1>2 DEF Ends
  <2>. QED
    BY <1>i, <1>1, <1>3, <2>1, <2>2 DEF Ends
<1>7. NoneLost'
  BY <1>i, <1>1, <1>2, <1>3 DEF NoneLost
<1>. QED
  BY <1>4, <1>5, <1>6, <1>7 DEF PipeInv

\* A step of a handler, of the kernel or of the reader that leaves the threads,
\* the statics, the handlers and the descriptors alone has only to keep Handling
\* and the frames of absent threads empty.
LEMMA HandlerStep ==
  ASSUME PipeTypes, PipeInv, Handling',
         UNCHANGED <<SIGNAL_PIPE, SIGNAL_WRITE_FD, handlers, fds, th>>,
         \A t \in Threads : th[t].role = "absent" => frames'[t] = frames[t]
  PROVE  PipeInv'
<1>i. Cast /\ Progress /\ OneWinner /\ Statics /\ Served /\ Ends /\ NoneLost
  BY DEF PipeInv
<1>1. \A t \in Threads : Held(t)' = Held(t)
  BY DEF Held
<1>2. Cast'
  BY <1>i DEF Cast
<1>3. Progress'
  BY <1>i DEF Progress, Place
<1>4. OneWinner' /\ Statics' /\ Served'
  BY <1>i DEF OneWinner, Statics, Served
<1>5. Ends' /\ NoneLost'
  BY <1>i, <1>1 DEF Ends, NoneLost
<1>. QED
  BY <1>2, <1>3, <1>4, <1>5 DEF PipeInv

LEMMA DeliverStep ==
  ASSUME PipeTypes, PipeInv, NEW t \in Threads, NEW sig \in Sigs, Deliver(t, sig)
  PROVE  PipeInv'
<1>0. frames \in [Threads -> Seq(Frame)] /\ hist \in Hist
  BY DEF PipeTypes, TypeOK
<1>i. Handling /\ Statics
  BY DEF PipeInv
<1>1. /\ UNCHANGED <<SIGNAL_PIPE, SIGNAL_WRITE_FD, handlers, fds, th>>
      /\ th[t].role # "absent"
  BY DEF Deliver
<1>2. CASE sig \in handlers
  <2> DEFINE f == [sig |-> sig, fd |-> Unset, loaded |-> FALSE]
  <2>1. /\ frames' = [frames EXCEPT ![t] = Append(frames[t], f)]
        /\ hist' = [hist EXCEPT !.delivered = hist.delivered + 1]
    BY <1>2 DEF Deliver
  <2>2. ~ f.loaded
    OBVIOUS
  <2>. HIDE DEF f
  <2>3. hist'.deaf = hist.deaf /\ hist'.foreign = hist.foreign
    BY <1>0, <2>1, CountsOther
  <2>4. SIGNAL_WRITE_FD # Unset
    BY <1>i, <1>2 DEF Statics
  <2>5. \A u \in Threads \ {t} : frames'[u] = frames[u]
    BY <1>0, <2>1
  <2>6. \A i \in 1 .. Len(frames'[t]) : frames'[t][i].loaded => frames'[t][i].fd = SIGNAL_WRITE_FD
    <3>1. frames'[t] = Append(frames[t], f) /\ frames[t] \in Seq(Frame)
      BY <1>0, <2>1
    <3>2. /\ Len(frames'[t]) = Len(frames[t]) + 1 /\ frames'[t][Len(frames[t]) + 1] = f
          /\ \A i \in 1 .. Len(frames[t]) : frames'[t][i] = frames[t][i]
          /\ Len(frames[t]) \in Nat
      BY <3>1
    <3>3. \A i \in 1 .. Len(frames[t]) : frames[t][i].loaded => frames[t][i].fd = SIGNAL_WRITE_FD
      BY <1>i DEF Handling
    <3>4. \A i \in 1 .. Len(frames'[t]) : i \in 1 .. Len(frames[t]) \/ i = Len(frames[t]) + 1
      BY <3>2
    <3>. QED
      BY <2>2, <3>2, <3>3, <3>4
  <2>7. Handling'
    BY <1>i, <1>1, <2>3, <2>4, <2>5, <2>6 DEF Handling
  <2>. QED
    BY <1>1, <2>5, <2>7, HandlerStep
<1>3. CASE sig \notin handlers
  <2>1. UNCHANGED <<frames, hist>>
    BY <1>3 DEF Deliver
  <2>2. Handling'
    BY <1>i, <1>1, <2>1 DEF Handling
  <2>. QED
    BY <1>1, <2>1, <2>2, HandlerStep
<1>. QED
  BY <1>2, <1>3

\* A handler loads the static, which is there.
LEMMA LoadStep ==
  ASSUME PipeTypes, PipeInv, NEW t \in Threads, HandlerLoad(t)
  PROVE  PipeInv'
<1>0. frames \in [Threads -> Seq(Frame)] /\ frames[t] \in Seq(Frame)
  BY DEF PipeTypes, TypeOK
<1>i. Handling /\ Cast
  BY DEF PipeInv
<1>1. /\ UNCHANGED <<SIGNAL_PIPE, SIGNAL_WRITE_FD, handlers, fds, th>> /\ frames[t] # << >>
  BY DEF HandlerLoad
<1>2. SIGNAL_WRITE_FD # Unset
  BY <1>i, <1>1 DEF Handling
<1> DEFINE n == Len(frames[t])
           f == [frames[t][n] EXCEPT !.fd = SIGNAL_WRITE_FD, !.loaded = TRUE]
<1>3. hist' = hist /\ frames' = [frames EXCEPT ![t] = [frames[t] EXCEPT ![n] = f]]
  BY <1>0, <1>2 DEF HandlerLoad
<1>4. n \in 1 .. Len(frames[t]) /\ frames[t][n] \in Frame
  BY <1>0, <1>1
<1>5. f.fd = SIGNAL_WRITE_FD
  BY <1>4 DEF Frame
<1>. HIDE DEF f, n
<1>6. \A u \in Threads \ {t} : frames'[u] = frames[u]
  BY <1>0, <1>3
<1>7. \A i \in 1 .. Len(frames'[t]) : frames'[t][i].loaded => frames'[t][i].fd = SIGNAL_WRITE_FD
  <2>1. frames'[t] = [frames[t] EXCEPT ![n] = f]
    BY <1>0, <1>3
  <2>2. Len(frames'[t]) = Len(frames[t])
    BY <1>0, <2>1
  <2>3. \A i \in 1 .. Len(frames[t]) : frames'[t][i] = IF i = n THEN f ELSE frames[t][i]
    BY <1>0, <2>1
  <2>. QED
    BY <1>i, <1>5, <2>2, <2>3 DEF Handling
<1>8. Handling'
  BY <1>i, <1>1, <1>2, <1>3, <1>6, <1>7 DEF Handling
<1>9. th[t].role # "absent"
  BY <1>i, <1>1 DEF Cast
<1>. QED
  BY <1>1, <1>6, <1>8, <1>9, HandlerStep

\* A handler that has loaded the descriptor writes to the pipe that the program
\* reads: its read end is open.
LEMMA WriteStep ==
  ASSUME PipeTypes, Numbered, PipeInv, NEW t \in Threads, HandlerWrite(t)
  PROVE  PipeInv'
<1>0. /\ frames \in [Threads -> Seq(Frame)] /\ frames[t] \in Seq(Frame) /\ hist \in Hist
      /\ SIGNAL_PIPE \in Fds \cup {Unset} /\ fds \in [Fds -> End]
      /\ data \in [1 .. MaxPipes -> Seq(Sigs)] /\ PipeSize \in Nat /\ MaxPipes \in Nat
  BY PipeAssumption DEF PipeTypes, TypeOK
<1>i. Handling /\ Cast /\ Statics
  BY DEF PipeInv
<1>1. /\ UNCHANGED <<SIGNAL_PIPE, SIGNAL_WRITE_FD, handlers, fds, th>> /\ frames[t] # << >>
      /\ Top(t).loaded /\ Pop(t)
  BY DEF HandlerWrite
<1> DEFINE n == Len(frames[t])
           i == fds[Top(t).fd].id
<1>2. n \in 1 .. Len(frames[t]) /\ n \in Nat
  BY <1>0, <1>1
<1>3. SIGNAL_WRITE_FD # Unset /\ Top(t).fd = SIGNAL_WRITE_FD
  BY <1>i, <1>1, <1>2 DEF Handling, Top
<1>4. fds[Top(t).fd].kind = "w" /\ HasReader(i)
  <2>1. SIGNAL_PIPE \in Fds /\ fds[SIGNAL_PIPE].kind = "r"
    BY <1>0, <1>i, <1>3 DEF Statics
  <2>2. fds[Top(t).fd] = [kind |-> "w", id |-> fds[SIGNAL_PIPE].id]
    BY <1>i, <1>3 DEF Statics
  <2>3. i = fds[SIGNAL_PIPE].id /\ fds[Top(t).fd].kind = "w"
    BY <2>2
  <2>4. fds[SIGNAL_PIPE] = [kind |-> "r", id |-> i]
    BY <1>0, <2>1, <2>3 DEF End
  <2>. QED
    BY <2>1, <2>3, <2>4 DEF HasReader
<1>5. hist'.deaf = hist.deaf /\ hist'.foreign = hist.foreign
  <2>1. hist' = hist \/ hist' = [hist EXCEPT !.full = hist.full + 1]
    <3>1. CASE Len(data[i]) < PipeSize
      BY <1>4, <3>1 DEF HandlerWrite
    <3>2. CASE Len(data[i]) >= PipeSize
      BY <1>4, <3>2 DEF HandlerWrite
    <3>3. Len(data[i]) \in Nat
      <4>1. Top(t).fd \in Fds
        BY <1>3 DEF PipeTypes, TypeOK
      <4>2. i \in 0 .. MaxPipes /\ i # 0
        BY <1>0, <1>4, <4>1 DEF End, Numbered
      <4>3. i \in 1 .. MaxPipes
        BY <1>0, <4>2
      <4>. QED
        BY <1>0, <4>3
    <3>. QED
      BY <1>0, <3>1, <3>2, <3>3
  <2>2. /\ [hist EXCEPT !.full = hist.full + 1].deaf = hist.deaf
        /\ [hist EXCEPT !.full = hist.full + 1].foreign = hist.foreign
    BY <1>0, CountsOther
  <2>. QED
    BY <2>1, <2>2
<1>6. \A u \in Threads \ {t} : frames'[u] = frames[u]
  BY <1>0, <1>1 DEF Pop
<1>7. \A j \in 1 .. Len(frames'[t]) : frames'[t][j].loaded => frames'[t][j].fd = SIGNAL_WRITE_FD
  <2>1. frames'[t] = SubSeq(frames[t], 1, n - 1)
    BY <1>0, <1>1 DEF Pop
  <2>2. Len(frames'[t]) = n - 1 /\ \A j \in 1 .. n - 1 : frames'[t][j] = frames[t][j]
    <3>1. /\ Len(SubSeq(frames[t], 1, n - 1)) = n - 1
          /\ \A j \in 1 .. n - 1 : SubSeq(frames[t], 1, n - 1)[j] = frames[t][j]
      <4> DEFINE m == n - 1
      <4>1. m \in Nat /\ \A j \in 1 .. m : frames[t][j] \in Frame
        BY <1>0, <1>2
      <4>. HIDE DEF m, n, i
      <4>2. /\ Len(SubSeq(frames[t], 1, m)) = IF 1 <= m THEN m - 1 + 1 ELSE 0
            /\ \A j \in 1 .. m - 1 + 1 : SubSeq(frames[t], 1, m)[j] = frames[t][1 + j - 1]
        <5>1. m \in Int /\ 1 \in Int
          BY <4>1
        <5>. QED
          BY <4>1, <5>1, SubSeqProperties
      <4>3. (IF 1 <= m THEN m - 1 + 1 ELSE 0) = m /\ m - 1 + 1 = m /\ \A j \in 1 .. m : 1 + j - 1 = j
        BY <4>1
      <4>. QED
        BY <4>2, <4>3 DEF m
    <3>. QED
      BY <2>1, <3>1
  <2>3. \A j \in 1 .. n - 1 : j \in 1 .. Len(frames[t])
    BY <1>2
  <2>. QED
    BY <1>i, <2>2, <2>3 DEF Handling
<1>8. Handling'
  BY <1>i, <1>1, <1>3, <1>5, <1>6, <1>7 DEF Handling
<1>9. th[t].role # "absent"
  BY <1>i, <1>1 DEF Cast
<1>. QED
  BY <1>1, <1>6, <1>8, <1>9, HandlerStep

LEMMA ReadStep ==
  ASSUME PipeTypes, PipeInv, NEW t \in Threads, read_signal_from_pipe(t)
  PROVE  PipeInv'
<1>1. /\ UNCHANGED <<SIGNAL_PIPE, SIGNAL_WRITE_FD, handlers, fds, th, frames>>
      /\ hist' = [hist EXCEPT !.read = hist.read + 1] /\ hist \in Hist
  BY DEF read_signal_from_pipe, PipeTypes, TypeOK
<1>2. hist'.deaf = hist.deaf /\ hist'.foreign = hist.foreign
  BY <1>1, CountsOther
<1>3. Handling'
  BY <1>1, <1>2 DEF PipeInv, Handling
<1>. QED
  BY <1>1, <1>3, HandlerStep

-----------------------------------------------------------------------------
(* Sums over finite sets, taken one element after the other as MapThenSumSet *)
(* takes them.  The induction over the number of elements comes from the     *)
(* well-foundedness of the natural numbers.                                  *)

\* Induction over the natural numbers, for the set P of those that satisfy it.
LEMMA SetInduction ==
  ASSUME NEW P, 0 \in P, \A n \in Nat : n \in P => n + 1 \in P
  PROVE  \A n \in Nat : n \in P
<1> DEFINE R == {ss \in Nat \X Nat : ss[1] < ss[2]}
           T == {n \in Nat : n \notin P}
<1>. SUFFICES ASSUME T # {} PROVE FALSE
  OBVIOUS
<1>1. IsWellFoundedOn(R, Nat)
  BY NatLessThanWellFounded, Zenon DEF OpToRel
<1>2. PICK x \in T : \A y \in T : ~ (<<y, x>> \in R)
  <2>. T \subseteq Nat
    OBVIOUS
  <2>. HIDE DEF T, R
  <2>. QED
    BY <1>1, WFMin
<1>3. x \in Nat /\ x # 0 /\ x - 1 \in Nat /\ <<x - 1, x>> \in R
  OBVIOUS
<1>4. x - 1 \in P
  BY <1>2, <1>3
<1>. QED
  BY <1>3, <1>4

\* the element a sum takes first, the sums over the subsets of S, and the sum
First(s) == CHOOSE x \in s : TRUE

Sums(f, S) ==
  LET iter[s \in SUBSET S] == IF s = {} THEN 0 ELSE f[First(s)] + iter[s \ {First(s)}]
  IN  iter

Total(f, S) == Sums(f, S)[S]

\* Taking the first element away leaves a smaller set.
LEMMA Smaller ==
  ASSUME NEW S, IsFiniteSet(S), NEW s \in SUBSET S, s # {}
  PROVE  /\ First(s) \in s /\ s \ {First(s)} \in SUBSET S
         /\ Cardinality(s) \in Nat /\ Cardinality(s) # 0
         /\ Cardinality(s \ {First(s)}) = Cardinality(s) - 1
         /\ Cardinality(s) <= Cardinality(S)
<1>1. First(s) \in s
  BY DEF First
<1>2. IsFiniteSet(s) /\ Cardinality(s) <= Cardinality(S)
  BY FS_Subset
<1>3. Cardinality(s) \in Nat /\ Cardinality(s) # 0
  BY <1>2, FS_CardinalityType, FS_EmptySet
<1>4. Cardinality(s \ {First(s)}) = Cardinality(s) - 1
  BY <1>1, <1>2, FS_RemoveElement
<1>. QED
  BY <1>1, <1>2, <1>3, <1>4

\* The recursion has a solution, so that it holds of the sums.
LEMMA SumsDef ==
  ASSUME NEW S, IsFiniteSet(S), NEW f \in [S -> Nat]
  PROVE  \A s \in SUBSET S : Sums(f, S)[s] = IF s = {} THEN 0 ELSE f[First(s)] + Sums(f, S)[s \ {First(s)}]
<1> DEFINE D(p) == [s \in SUBSET S |-> IF s = {} THEN 0 ELSE f[First(s)] + p[s \ {First(s)}]]
           Good(n, p) == /\ p \in [SUBSET S -> Nat]
                         /\ \A s \in SUBSET S : Cardinality(s) <= n => p[s] = D(p)[s]
           P == {n \in Nat : \E p : Good(n, p)}
<1>0. \A p \in [SUBSET S -> Nat] : D(p) \in [SUBSET S -> Nat]
  <2>. TAKE p \in [SUBSET S -> Nat]
  <2>1. ASSUME NEW s \in SUBSET S, s # {}
        PROVE  f[First(s)] + p[s \ {First(s)}] \in Nat
    <3>1. First(s) \in S /\ s \ {First(s)} \in SUBSET S
      BY <2>1, Smaller
    <3>. QED
      BY <3>1
  <2>. QED
    BY <2>1
<1>1. 0 \in P
  <2> DEFINE p == [s \in SUBSET S |-> 0]
  <2>1. p \in [SUBSET S -> Nat]
    OBVIOUS
  <2>2. ASSUME NEW s \in SUBSET S, Cardinality(s) <= 0
        PROVE  p[s] = D(p)[s]
    <3>1. IsFiniteSet(s)
      BY FS_Subset
    <3>2. Cardinality(s) = 0
      BY <2>2, <3>1, FS_CardinalityType
    <3>3. s = {}
      BY <3>1, <3>2, FS_EmptySet
    <3>. QED
      BY <3>3
  <2>3. Good(0, p)
    BY <2>1, <2>2
  <2>. HIDE DEF p, Good
  <2>. QED
    BY <2>3
<1>2. ASSUME NEW n \in Nat, n \in P
      PROVE  n + 1 \in P
  <2>1. PICK p : Good(n, p)
    BY <1>2
  <2> DEFINE q == D(p)
  <2>2. q \in [SUBSET S -> Nat]
    BY <1>0, <2>1
  <2>3. ASSUME NEW s \in SUBSET S, Cardinality(s) <= n + 1
        PROVE  q[s] = D(q)[s]
    <3>1. CASE s = {}
      BY <3>1
    <3>2. CASE s # {}
      <4> DEFINE r == s \ {First(s)}
      <4>1. r \in SUBSET S /\ Cardinality(r) <= n
        BY <2>3, <3>2, Smaller
      <4>2. p[r] = q[r]
        BY <2>1, <4>1
      <4>3. q[s] = f[First(s)] + p[r] /\ D(q)[s] = f[First(s)] + q[r]
        BY <3>2
      <4>. QED
        BY <4>2, <4>3
    <3>. QED
      BY <3>1, <3>2
  <2>4. Good(n + 1, q)
    BY <2>2, <2>3
  <2>. HIDE DEF q, Good
  <2>. QED
    BY <2>4
<1>3. \A n \in Nat : n \in P
  <2>. HIDE DEF P
  <2>. QED
    BY <1>1, <1>2, SetInduction
<1>4. PICK p : Good(Cardinality(S), p)
  BY <1>3, FS_CardinalityType
<1>5. p = D(p)
  <2>1. \A s \in SUBSET S : p[s] = D(p)[s]
    BY <1>4, FS_Subset
  <2>2. p \in [SUBSET S -> Nat] /\ D(p) \in [SUBSET S -> Nat]
    BY <1>0, <1>4
  <2>. HIDE DEF D
  <2>. QED
    BY <2>1, <2>2
<1>6. Sums(f, S) = D(Sums(f, S))
  <2>1. Sums(f, S) = CHOOSE q : q = D(q)
    BY DEF Sums
  <2>. HIDE DEF D
  <2>. QED
    BY <1>5, <2>1
<1> DEFINE q == Sums(f, S)
<1>7. q = D(q)
  BY <1>6
<1>. HIDE DEF q
<1>8. \A s \in SUBSET S : q[s] = IF s = {} THEN 0 ELSE f[First(s)] + q[s \ {First(s)}]
  BY <1>7
<1>. QED
  BY <1>8 DEF q

\* A sum of natural numbers is one.
LEMMA SumsType ==
  ASSUME NEW S, IsFiniteSet(S), NEW f \in [S -> Nat]
  PROVE  \A s \in SUBSET S : Sums(f, S)[s] \in Nat
<1> DEFINE F == Sums(f, S)
           P == {n \in Nat : \A s \in SUBSET S : Cardinality(s) = n => F[s] \in Nat}
<1>0. \A s \in SUBSET S : F[s] = IF s = {} THEN 0 ELSE f[First(s)] + F[s \ {First(s)}]
  BY SumsDef
<1>. HIDE DEF F
<1>1. 0 \in P
  <2>1. ASSUME NEW s \in SUBSET S, Cardinality(s) = 0
        PROVE  F[s] \in Nat
    <3>0. IsFiniteSet(s)
      BY FS_Subset
    <3>1. s = {}
      BY <2>1, <3>0, FS_EmptySet
    <3>2. F[s] = 0
      BY <1>0, <3>1
    <3>. QED
      BY <3>2
  <2>. QED
    BY <2>1
<1>2. ASSUME NEW n \in Nat, n \in P
      PROVE  n + 1 \in P
  <2>1. ASSUME NEW s \in SUBSET S, Cardinality(s) = n + 1
        PROVE  F[s] \in Nat
    <3>1. s # {}
      BY <2>1, FS_EmptySet
    <3>2. /\ First(s) \in S /\ s \ {First(s)} \in SUBSET S /\ Cardinality(s \ {First(s)}) = n
      BY <2>1, <3>1, Smaller
    <3>3. F[s \ {First(s)}] \in Nat /\ f[First(s)] \in Nat
      BY <1>2, <3>2
    <3>. QED
      BY <1>0, <3>1, <3>3
  <2>. QED
    BY <2>1
<1>3. \A n \in Nat : n \in P
  <2>. HIDE DEF P
  <2>. QED
    BY <1>1, <1>2, SetInduction
<1>4. ASSUME NEW s \in SUBSET S
      PROVE  F[s] \in Nat
  <2>1. Cardinality(s) \in Nat
    BY FS_Subset, FS_CardinalityType
  <2>. QED
    BY <1>3, <2>1
<1>. QED
  BY <1>4 DEF F

\* When one addend changes, the sum changes with it.
LEMMA SumsChange ==
  ASSUME NEW S, IsFiniteSet(S), NEW f \in [S -> Nat], NEW g \in [S -> Nat], NEW i \in S,
         \A x \in S \ {i} : g[x] = f[x]
  PROVE  Total(f, S) \in Nat /\ Total(g, S) \in Nat /\ Total(g, S) + f[i] = Total(f, S) + g[i]
<1> DEFINE F == Sums(f, S)
           G == Sums(g, S)
           Same(s) == IF i \in s THEN G[s] + f[i] = F[s] + g[i] ELSE G[s] = F[s]
           P == {n \in Nat : \A s \in SUBSET S : Cardinality(s) = n => Same(s)}
<1>0. /\ \A s \in SUBSET S : F[s] = IF s = {} THEN 0 ELSE f[First(s)] + F[s \ {First(s)}]
      /\ \A s \in SUBSET S : G[s] = IF s = {} THEN 0 ELSE g[First(s)] + G[s \ {First(s)}]
      /\ \A s \in SUBSET S : F[s] \in Nat /\ G[s] \in Nat
  BY SumsDef, SumsType
<1>. HIDE DEF F, G
<1>1. 0 \in P
  <2>1. ASSUME NEW s \in SUBSET S, Cardinality(s) = 0
        PROVE  Same(s)
    <3>0. IsFiniteSet(s)
      BY FS_Subset
    <3>1. s = {}
      BY <2>1, <3>0, FS_EmptySet
    <3>. QED
      BY <1>0, <3>1
  <2>. QED
    BY <2>1
<1>2. ASSUME NEW n \in Nat, n \in P
      PROVE  n + 1 \in P
  <2>1. ASSUME NEW s \in SUBSET S, Cardinality(s) = n + 1
        PROVE  Same(s)
    <3> DEFINE x == First(s)
               r == s \ {x}
    <3>1. s # {}
      BY <2>1, FS_EmptySet
    <3>2. x \in S /\ x \in s /\ r \in SUBSET S /\ Cardinality(r) = n
      BY <2>1, <3>1, Smaller
    <3>3. Same(r)
      BY <1>2, <3>2
    <3>4. F[s] = f[x] + F[r] /\ G[s] = g[x] + G[r]
      BY <1>0, <3>1
    <3>5. F[r] \in Nat /\ G[r] \in Nat /\ f[x] \in Nat /\ g[x] \in Nat /\ f[i] \in Nat /\ g[i] \in Nat
      BY <1>0, <3>2
    <3>. HIDE DEF x
    <3>6. CASE x = i
      <4>1. i \notin r /\ i \in s
        BY <3>2, <3>6
      <4>. HIDE DEF r
      <4>. QED
        BY <3>3, <3>4, <3>5, <3>6, <4>1
    <3>7. CASE x # i
      <4>1. (i \in r <=> i \in s) /\ g[x] = f[x]
        BY <3>2, <3>7
      <4>. HIDE DEF r
      <4>. QED
        BY <3>3, <3>4, <3>5, <4>1
    <3>. QED
      BY <3>6, <3>7
  <2>. QED
    BY <2>1
<1>3. \A n \in Nat : n \in P
  <2>. HIDE DEF P
  <2>. QED
    BY <1>1, <1>2, SetInduction
<1>4. Same(S)
  BY <1>3, FS_CardinalityType
<1>. QED
  BY <1>0, <1>4 DEF Total, F, G

-----------------------------------------------------------------------------
(* Every signal is accounted for. *)

\* the lengths of the sequences g[x]
Lengths(g, S) == [x \in S |-> Len(g[x])]

PipesTotal  == Total(Lengths(data, 1 .. MaxPipes), 1 .. MaxPipes)
FramesTotal == Total(Lengths(frames, Threads), Threads)

Balance == hist.delivered = hist.read + hist.full + hist.discarded + PipesTotal + FramesTotal

LEMMA LengthsType ==
  ASSUME NEW S, NEW T, NEW g \in [S -> Seq(T)]
  PROVE  Lengths(g, S) \in [S -> Nat] /\ \A x \in S : Lengths(g, S)[x] = Len(g[x])
BY DEF Lengths

\* A sum of zeros is zero.
LEMMA ZeroTotal ==
  ASSUME NEW S, IsFiniteSet(S)
  PROVE  Total([x \in S |-> 0], S) = 0
<1> DEFINE f == [x \in S |-> 0]
           F == Sums(f, S)
           P == {n \in Nat : \A s \in SUBSET S : Cardinality(s) = n => F[s] = 0}
<1>0. \A s \in SUBSET S : F[s] = IF s = {} THEN 0 ELSE f[First(s)] + F[s \ {First(s)}]
  <2>1. f \in [S -> Nat]
    OBVIOUS
  <2>. HIDE DEF f
  <2>. QED
    BY <2>1, SumsDef
<1>. HIDE DEF F
<1>1. 0 \in P
  <2>1. ASSUME NEW s \in SUBSET S, Cardinality(s) = 0
        PROVE  F[s] = 0
    <3>0. IsFiniteSet(s)
      BY FS_Subset
    <3>1. s = {}
      BY <2>1, <3>0, FS_EmptySet
    <3>. QED
      BY <1>0, <3>1
  <2>. QED
    BY <2>1
<1>2. ASSUME NEW n \in Nat, n \in P
      PROVE  n + 1 \in P
  <2>1. ASSUME NEW s \in SUBSET S, Cardinality(s) = n + 1
        PROVE  F[s] = 0
    <3>1. s # {}
      BY <2>1, FS_EmptySet
    <3>2. First(s) \in S /\ s \ {First(s)} \in SUBSET S /\ Cardinality(s \ {First(s)}) = n
      BY <2>1, <3>1, Smaller
    <3>3. F[s \ {First(s)}] = 0 /\ f[First(s)] = 0
      BY <1>2, <3>2
    <3>4. F[s] = f[First(s)] + F[s \ {First(s)}]
      BY <1>0, <3>1
    <3>. HIDE DEF f
    <3>. QED
      BY <3>3, <3>4
  <2>. QED
    BY <2>1
<1>3. \A n \in Nat : n \in P
  <2>. HIDE DEF P
  <2>. QED
    BY <1>1, <1>2, SetInduction
<1>4. F[S] = 0
  BY <1>3, FS_CardinalityType
<1>. QED
  BY <1>4 DEF Total, F

\* when one sequence changes, the total length changes with it
Additive(S, T) ==
  \A g, h \in [S -> Seq(T)], i \in S :
    (\A x \in S \ {i} : h[x] = g[x]) =>
      /\ Total(Lengths(g, S), S) \in Nat /\ Total(Lengths(h, S), S) \in Nat
      /\ Total(Lengths(h, S), S) + Len(g[i]) = Total(Lengths(g, S), S) + Len(h[i])

LEMMA LengthsChange ==
  ASSUME NEW S, NEW T, IsFiniteSet(S)
  PROVE  Additive(S, T)
<1>. SUFFICES \A g, h \in [S -> Seq(T)], i \in S :
                (\A x \in S \ {i} : h[x] = g[x]) =>
                  /\ Total(Lengths(g, S), S) \in Nat /\ Total(Lengths(h, S), S) \in Nat
                  /\ Total(Lengths(h, S), S) + Len(g[i]) = Total(Lengths(g, S), S) + Len(h[i])
  BY DEF Additive
<1>1. \A a, b \in [S -> Nat], i \in S :
        (\A x \in S \ {i} : b[x] = a[x]) =>
          Total(a, S) \in Nat /\ Total(b, S) \in Nat /\ Total(b, S) + a[i] = Total(a, S) + b[i]
  BY SumsChange
<1>. TAKE g, h \in [S -> Seq(T)], i \in S
<1>. HAVE \A x \in S \ {i} : h[x] = g[x]
<1>2. /\ Lengths(g, S) \in [S -> Nat] /\ \A x \in S : Lengths(g, S)[x] = Len(g[x])
      /\ Lengths(h, S) \in [S -> Nat] /\ \A x \in S : Lengths(h, S)[x] = Len(h[x])
  BY LengthsType
<1>3. \A x \in S \ {i} : Lengths(h, S)[x] = Lengths(g, S)[x]
  BY <1>2
<1>4. /\ Total(Lengths(g, S), S) \in Nat /\ Total(Lengths(h, S), S) \in Nat
      /\ Total(Lengths(h, S), S) + Lengths(g, S)[i] = Total(Lengths(g, S), S) + Lengths(h, S)[i]
  BY <1>1, <1>2, <1>3, Zenon
<1>. QED
  BY <1>2, <1>4

LEMMA TotalIsNat ==
  ASSUME NEW S, IsFiniteSet(S), NEW T, NEW g \in [S -> Seq(T)]
  PROVE  Total(Lengths(g, S), S) \in Nat
<1>1. Lengths(g, S) \in [S -> Nat]
  BY LengthsType
<1>. QED
  BY <1>1, SumsType DEF Total

\* What one step counts.
LEMMA Tally ==
  ASSUME NEW h \in Hist, NEW n
  PROVE  /\ LET k == [h EXCEPT !.delivered = n]
            IN  k.delivered = n /\ k.read = h.read /\ k.full = h.full /\ k.discarded = h.discarded
         /\ LET k == [h EXCEPT !.read = n]
            IN  k.delivered = h.delivered /\ k.read = n /\ k.full = h.full /\ k.discarded = h.discarded
         /\ LET k == [h EXCEPT !.full = n]
            IN  k.delivered = h.delivered /\ k.read = h.read /\ k.full = n /\ k.discarded = h.discarded
         /\ LET k == [h EXCEPT !.discarded = n]
            IN  k.delivered = h.delivered /\ k.read = h.read /\ k.full = h.full /\ k.discarded = n
         /\ LET k == [h EXCEPT !.pipes = n]
            IN  /\ k.delivered = h.delivered /\ k.read = h.read /\ k.full = h.full
                /\ k.discarded = h.discarded
BY DEF Hist

\* A handler that has loaded its descriptor finds room in the pipe or counts
\* the byte as dropped: its descriptor is the pipe's.
LEMMA WriteOutcome ==
  ASSUME PipeTypes, Numbered, PipeInv, NEW t \in Threads, HandlerWrite(t)
  PROVE  LET i == fds[Top(t).fd].id
         IN  /\ i \in 1 .. MaxPipes
             /\ \/ data' = [data EXCEPT ![i] = Append(data[i], Top(t).sig)] /\ hist' = hist
                \/ data' = data /\ hist' = [hist EXCEPT !.full = hist.full + 1]
<1>0. /\ frames[t] \in Seq(Frame) /\ SIGNAL_PIPE \in Fds \cup {Unset} /\ fds \in [Fds -> End]
      /\ SIGNAL_WRITE_FD \in Fds \cup {Unset}
      /\ data \in [1 .. MaxPipes -> Seq(Sigs)] /\ PipeSize \in Nat /\ MaxPipes \in Nat
  BY PipeAssumption DEF PipeTypes, TypeOK
<1>i. Handling /\ Statics
  BY DEF PipeInv
<1>1. frames[t] # << >> /\ Top(t).loaded
  BY DEF HandlerWrite
<1> DEFINE i == fds[Top(t).fd].id
<1>2. Len(frames[t]) \in 1 .. Len(frames[t])
  BY <1>0, <1>1
<1>3. SIGNAL_WRITE_FD # Unset /\ Top(t).fd = SIGNAL_WRITE_FD
  BY <1>i, <1>1, <1>2 DEF Handling, Top
<1>4. SIGNAL_PIPE \in Fds /\ fds[SIGNAL_PIPE].kind = "r" /\ Top(t).fd \in Fds
  BY <1>0, <1>i, <1>3 DEF Statics
<1>5. fds[Top(t).fd] = [kind |-> "w", id |-> fds[SIGNAL_PIPE].id]
  BY <1>i, <1>3 DEF Statics
<1>6. i = fds[SIGNAL_PIPE].id /\ fds[Top(t).fd].kind = "w"
  BY <1>5
<1>7. HasReader(i)
  <2>1. fds[SIGNAL_PIPE] = [kind |-> "r", id |-> i]
    BY <1>0, <1>4, <1>6 DEF End
  <2>. QED
    BY <1>4, <2>1 DEF HasReader
<1>8. i \in 1 .. MaxPipes
  <2>1. i \in 0 .. MaxPipes /\ i # 0
    BY <1>0, <1>4, <1>6 DEF End, Numbered
  <2>. QED
    BY <1>0, <2>1
<1>9. Len(data[i]) \in Nat
  BY <1>0, <1>8
<1>10. CASE Len(data[i]) < PipeSize
  BY <1>6, <1>7, <1>8, <1>10 DEF HandlerWrite
<1>11. CASE Len(data[i]) >= PipeSize
  BY <1>6, <1>7, <1>8, <1>11 DEF HandlerWrite
<1>. QED
  BY <1>0, <1>9, <1>10, <1>11

LEMMA BalanceStep ==
  ASSUME PipeTypes, Numbered, PipeInv, Balance, [Next]_vars, PipeTypes'
  PROVE  Balance'
<1>0. /\ data \in [1 .. MaxPipes -> Seq(Sigs)] /\ data' \in [1 .. MaxPipes -> Seq(Sigs)]
      /\ frames \in [Threads -> Seq(Frame)] /\ frames' \in [Threads -> Seq(Frame)] /\ hist \in Hist
      /\ IsFiniteSet(Threads) /\ IsFiniteSet(1 .. MaxPipes)
  <2>1. IsFiniteSet(Threads) /\ IsFiniteSet(1 .. MaxPipes)
    BY PipeAssumption, FS_Interval
  <2>. QED
    BY <2>1 DEF PipeTypes, TypeOK
<1>n. /\ PipesTotal \in Nat /\ FramesTotal \in Nat
      /\ hist.delivered \in Nat /\ hist.read \in Nat /\ hist.full \in Nat /\ hist.discarded \in Nat
  <2>1. PipesTotal \in Nat /\ FramesTotal \in Nat
    BY <1>0, TotalIsNat DEF PipesTotal, FramesTotal
  <2>. QED
    BY <1>0, <2>1 DEF Hist
<1>b. hist.delivered = hist.read + hist.full + hist.discarded + PipesTotal + FramesTotal
  BY DEF Balance
<1>d. ASSUME NEW i \in 1 .. MaxPipes, \A j \in (1 .. MaxPipes) \ {i} : data'[j] = data[j]
      PROVE  /\ PipesTotal' \in Nat /\ PipesTotal' + Len(data[i]) = PipesTotal + Len(data'[i])
             /\ Len(data[i]) \in Nat /\ Len(data'[i]) \in Nat
  <2>1. PipesTotal' + Len(data[i]) = PipesTotal + Len(data'[i]) /\ PipesTotal' \in Nat
    <3>1. PipesTotal' = Total(Lengths(data', 1 .. MaxPipes), 1 .. MaxPipes)
      BY DEF PipesTotal, Lengths
    <3>2. Additive(1 .. MaxPipes, Sigs)
      BY <1>0, LengthsChange
    <3>. QED
      BY <1>0, <1>d, <3>1, <3>2, Zenon DEF PipesTotal, Additive
  <2>. QED
    BY <1>0, <2>1
<1>f. ASSUME NEW t \in Threads, \A u \in Threads \ {t} : frames'[u] = frames[u]
      PROVE  /\ FramesTotal' \in Nat /\ FramesTotal' + Len(frames[t]) = FramesTotal + Len(frames'[t])
             /\ Len(frames[t]) \in Nat /\ Len(frames'[t]) \in Nat
  <2>1. FramesTotal' + Len(frames[t]) = FramesTotal + Len(frames'[t]) /\ FramesTotal' \in Nat
    <3>1. FramesTotal' = Total(Lengths(frames', Threads), Threads)
      BY DEF FramesTotal, Lengths
    <3>2. Additive(Threads, Frame)
      BY <1>0, LengthsChange
    <3>. QED
      BY <1>0, <1>f, <3>1, <3>2, Zenon DEF FramesTotal, Additive
  <2>. QED
    BY <1>0, <2>1
<1>s. /\ data' = data => PipesTotal' = PipesTotal
      /\ frames' = frames => FramesTotal' = FramesTotal
  BY DEF PipesTotal, FramesTotal
<1>p. ASSUME NEW t \in Threads, frames[t] # << >>, Pop(t)
      PROVE  FramesTotal' = FramesTotal - 1 /\ FramesTotal' \in Nat
  <2>1. \A u \in Threads \ {t} : frames'[u] = frames[u]
    BY <1>0, <1>p DEF Pop
  <2>2. Len(frames'[t]) = Len(frames[t]) - 1
    <3>1. frames'[t] = SubSeq(frames[t], 1, Len(frames[t]) - 1) /\ frames[t] \in Seq(Frame)
      BY <1>0, <1>p DEF Pop
    <3>2. Len(frames[t]) \in Nat /\ Len(frames[t]) # 0
      BY <1>p, <3>1
    <3>. QED
      BY <3>1, <3>2
  <2>. QED
    BY <1>f, <1>n, <2>1, <2>2
<1>1. CASE UNCHANGED <<data, frames, hist>>
  BY <1>1, <1>b, <1>s DEF Balance
<1>2. ASSUME NEW t \in Threads, Setup(t)
      PROVE  Balance'
  <2>1. hist' = [hist EXCEPT !.pipes = hist.pipes + 1] /\ UNCHANGED <<data, frames>>
    BY <1>2 DEF Setup
  <2>2. /\ hist'.delivered = hist.delivered /\ hist'.read = hist.read /\ hist'.full = hist.full
        /\ hist'.discarded = hist.discarded
    BY <1>0, <2>1, Tally
  <2>. QED
    BY <1>b, <1>s, <2>1, <2>2 DEF Balance
<1>3. ASSUME NEW t \in Threads, CloseRead(t)
      PROVE  Balance'
  <2> DEFINE i == IF th[t].r = Unset THEN 0 ELSE fds[th[t].r].id
  <2>1. /\ frames' = frames
        /\ IF i = 0 THEN UNCHANGED <<data, hist>>
           ELSE /\ data' = [data EXCEPT ![i] = << >>]
                /\ hist' = [hist EXCEPT !.discarded = hist.discarded + Len(data[i])]
    BY <1>3 DEF CloseRead
  <2>2. i # 0 => i \in 1 .. MaxPipes
    <3>1. th[t].r \in Fds \cup {Unset} /\ fds \in [Fds -> End] /\ MaxPipes \in Nat
      BY PipeAssumption DEF PipeTypes, TypeOK, Thread
    <3>. QED
      BY <3>1 DEF End
  <2>. HIDE DEF i
  <2>3. CASE i = 0
    BY <1>1, <2>1, <2>3
  <2>4. CASE i # 0
    <3>1. data'[i] = << >> /\ \A j \in (1 .. MaxPipes) \ {i} : data'[j] = data[j]
      BY <1>0, <2>1, <2>2, <2>4
    <3>2. PipesTotal' + Len(data[i]) = PipesTotal /\ Len(data[i]) \in Nat /\ PipesTotal' \in Nat
      <4>1. PipesTotal' + Len(data[i]) = PipesTotal + 0 /\ Len(data[i]) \in Nat /\ PipesTotal' \in Nat
        BY <1>d, <2>2, <2>4, <3>1
      <4>. QED
        BY <1>n, <4>1
    <3>3. /\ hist'.delivered = hist.delivered /\ hist'.read = hist.read /\ hist'.full = hist.full
          /\ hist'.discarded = hist.discarded + Len(data[i])
      <4> DEFINE n == hist.discarded + Len(data[i])
      <4>1. hist' = [hist EXCEPT !.discarded = n]
        BY <2>1, <2>4
      <4>. HIDE DEF n
      <4>2. /\ hist'.delivered = hist.delivered /\ hist'.read = hist.read /\ hist'.full = hist.full
            /\ hist'.discarded = n
        BY <1>0, <4>1, Tally
      <4>. QED
        BY <4>2 DEF n
    <3>4. FramesTotal' = FramesTotal
      BY <1>s, <2>1
    <3>. QED
      BY <1>n, <1>b, <3>2, <3>3, <3>4 DEF Balance
  <2>. QED
    BY <2>3, <2>4
<1>4. ASSUME NEW t \in Threads, NEW sig \in Sigs, Deliver(t, sig)
      PROVE  Balance'
  <2>1. CASE sig \notin handlers
    BY <1>1, <1>4, <2>1 DEF Deliver
  <2>2. CASE sig \in handlers
    <3> DEFINE f == [sig |-> sig, fd |-> Unset, loaded |-> FALSE]
    <3>1. /\ frames' = [frames EXCEPT ![t] = Append(frames[t], f)] /\ data' = data
          /\ hist' = [hist EXCEPT !.delivered = hist.delivered + 1]
      BY <1>4, <2>2 DEF Deliver
    <3>. HIDE DEF f
    <3>2. (\A u \in Threads \ {t} : frames'[u] = frames[u]) /\ Len(frames'[t]) = Len(frames[t]) + 1
      <4>1. frames'[t] = Append(frames[t], f) /\ frames[t] \in Seq(Frame)
        BY <1>0, <3>1
      <4>2. Len(frames'[t]) = Len(frames[t]) + 1
        BY <4>1
      <4>. QED
        BY <1>0, <3>1, <4>2
    <3>3. FramesTotal' = FramesTotal + 1
      BY <1>f, <1>n, <3>2
    <3>4. /\ hist'.delivered = hist.delivered + 1 /\ hist'.read = hist.read /\ hist'.full = hist.full
          /\ hist'.discarded = hist.discarded
      BY <1>0, <3>1, Tally
    <3>5. PipesTotal' = PipesTotal
      BY <1>s, <3>1
    <3>. QED
      BY <1>n, <1>b, <3>3, <3>4, <3>5 DEF Balance
  <2>. QED
    BY <2>1, <2>2
<1>5. ASSUME NEW t \in Threads, HandlerLoad(t)
      PROVE  Balance'
  <2>1. frames[t] # << >> /\ data' = data
    BY <1>5 DEF HandlerLoad
  <2>2. SIGNAL_WRITE_FD # Unset
    BY <2>1 DEF PipeInv, Handling
  <2> DEFINE n == Len(frames[t])
             f == [frames[t][n] EXCEPT !.fd = SIGNAL_WRITE_FD, !.loaded = TRUE]
  <2>3. hist' = hist /\ frames' = [frames EXCEPT ![t] = [frames[t] EXCEPT ![n] = f]]
    BY <1>0, <1>5, <2>2 DEF HandlerLoad
  <2>. HIDE DEF f, n
  <2>4. (\A u \in Threads \ {t} : frames'[u] = frames[u]) /\ Len(frames'[t]) = Len(frames[t])
    BY <1>0, <2>3
  <2>5. FramesTotal' = FramesTotal
    BY <1>f, <1>n, <2>4
  <2>. QED
    BY <1>b, <1>s, <2>1, <2>3, <2>5 DEF Balance
<1>6. ASSUME NEW t \in Threads, HandlerWrite(t)
      PROVE  Balance'
  <2> DEFINE i == fds[Top(t).fd].id
  <2>1. frames[t] # << >> /\ Pop(t)
    BY <1>6 DEF HandlerWrite
  <2>2. FramesTotal' = FramesTotal - 1 /\ FramesTotal' \in Nat
    BY <1>p, <2>1
  <2>3. /\ i \in 1 .. MaxPipes
        /\ \/ data' = [data EXCEPT ![i] = Append(data[i], Top(t).sig)] /\ hist' = hist
           \/ data' = data /\ hist' = [hist EXCEPT !.full = hist.full + 1]
    BY <1>6, WriteOutcome
  <2>. HIDE DEF i
  <2>4. CASE data' = [data EXCEPT ![i] = Append(data[i], Top(t).sig)] /\ hist' = hist
    <3>1. data'[i] = Append(data[i], Top(t).sig) /\ \A j \in (1 .. MaxPipes) \ {i} : data'[j] = data[j]
      BY <1>0, <2>3, <2>4
    <3>2. Len(data'[i]) = Len(data[i]) + 1
      BY <1>0, <2>3, <3>1
    <3>3. PipesTotal' = PipesTotal + 1
      BY <1>d, <1>n, <2>3, <3>1, <3>2
    <3>4. hist' = hist
      BY <2>4
    <3>. QED
      BY <1>n, <1>b, <2>2, <3>3, <3>4 DEF Balance
  <2>5. CASE data' = data /\ hist' = [hist EXCEPT !.full = hist.full + 1]
    <3>1. /\ hist'.delivered = hist.delivered /\ hist'.read = hist.read /\ hist'.full = hist.full + 1
          /\ hist'.discarded = hist.discarded
      BY <1>0, <2>5, Tally
    <3>2. PipesTotal' = PipesTotal
      BY <1>s, <2>5
    <3>. QED
      BY <1>n, <1>b, <2>2, <3>1, <3>2 DEF Balance
  <2>. QED
    BY <2>3, <2>4, <2>5
<1>7. ASSUME NEW t \in Threads, read_signal_from_pipe(t)
      PROVE  Balance'
  <2> DEFINE i == fds[SIGNAL_PIPE].id
  <2>1. /\ data[i] # << >> /\ data' = [data EXCEPT ![i] = Tail(data[i])] /\ frames' = frames
        /\ hist' = [hist EXCEPT !.read = hist.read + 1] /\ SIGNAL_PIPE # Unset
        /\ fds[SIGNAL_PIPE].kind = "r"
    BY <1>7 DEF read_signal_from_pipe
  <2>2. i \in 1 .. MaxPipes
    <3>1. SIGNAL_PIPE \in Fds /\ fds \in [Fds -> End] /\ MaxPipes \in Nat
      BY <2>1, PipeAssumption DEF PipeTypes, TypeOK
    <3>2. i \in 0 .. MaxPipes /\ i # 0
      BY <2>1, <3>1 DEF End, Numbered
    <3>. QED
      BY <3>1, <3>2
  <2>. HIDE DEF i
  <2>3. data'[i] = Tail(data[i]) /\ \A j \in (1 .. MaxPipes) \ {i} : data'[j] = data[j]
    BY <1>0, <2>1, <2>2
  <2>4. Len(data'[i]) + 1 = Len(data[i])
    BY <1>0, <2>1, <2>2, <2>3
  <2>5. PipesTotal' = PipesTotal - 1 /\ PipesTotal' \in Nat
    <3>1. /\ PipesTotal' \in Nat /\ PipesTotal' + Len(data[i]) = PipesTotal + Len(data'[i])
          /\ Len(data[i]) \in Nat /\ Len(data'[i]) \in Nat
      BY <1>d, <2>2, <2>3
    <3>. QED
      BY <1>n, <2>4, <3>1
  <2>6. /\ hist'.delivered = hist.delivered /\ hist'.read = hist.read + 1 /\ hist'.full = hist.full
        /\ hist'.discarded = hist.discarded
    BY <1>0, <2>1, Tally
  <2>7. FramesTotal' = FramesTotal
    BY <1>s, <2>1
  <2>. QED
    BY <1>n, <1>b, <2>5, <2>6, <2>7 DEF Balance
<1>8. \/ UNCHANGED <<data, frames, hist>>
      \/ \E t \in Threads : \/ Setup(t) \/ CloseRead(t) \/ (\E sig \in Sigs : Deliver(t, sig))
                            \/ HandlerLoad(t) \/ HandlerWrite(t) \/ read_signal_from_pipe(t)
  <2>1. ASSUME NEW t \in Threads,
               \/ SetupFails(t) \/ Claim(t) \/ Existing(t) \/ StoreWrite(t) \/ Install(t)
               \/ Cleanup(t) \/ Reset(t) \/ SwapWrite(t) \/ CloseWrite(t) \/ SwapRead(t)
        PROVE  UNCHANGED <<data, frames, hist>>
    BY <2>1 DEF SetupFails, Claim, Existing, StoreWrite, Install, Cleanup, Reset, SwapWrite,
                CloseWrite, SwapRead
  <2>. QED
    BY <2>1 DEF Next, OtherOpens, OtherCloses, Terminated, vars
<1>. QED
  BY <1>1, <1>2, <1>3, <1>4, <1>5, <1>6, <1>7, <1>8

-----------------------------------------------------------------------------
(* The theorems. *)

LEMMA PipeInvStep ==
  ASSUME PipeTypes, Numbered, PipeInv, [Next]_vars
  PROVE  PipeInv'
<1>1. CASE UNCHANGED vars
  <2>1. Handling'
    BY <1>1 DEF vars, PipeInv, Handling
  <2>. QED
    BY <1>1, <2>1, HandlerStep DEF vars
<1>2. CASE OtherOpens \/ OtherCloses
  BY <1>2, FilesStep
<1>3. CASE Next /\ ~ (OtherOpens \/ OtherCloses \/ Terminated)
  BY <1>3, ReturnsStep, PipeStep, ClaimStep, StoreStep, InstallStep, ResetStep, CloseWriteStep,
     CloseReadStep, DeliverStep, LoadStep, WriteStep, ReadStep DEF Next
<1>. QED
  BY <1>1, <1>2, <1>3 DEF Terminated

LEMMA PipeInvInit ==
  ASSUME OwnerIsAlone, Init
  PROVE  PipeInv
<1>1. PICK scene \in Scenes :
        th = [t \in Threads |-> [role |-> scene[t], pc |-> "idle", r |-> Unset,
                                 w |-> Unset, k |-> 0, ready |-> FALSE]]
  BY DEF Init
<1>2. /\ SIGNAL_PIPE = Unset /\ SIGNAL_WRITE_FD = Unset /\ handlers = {}
      /\ fds = [fd \in Fds |-> Free] /\ frames = [t \in Threads |-> << >>]
      /\ hist = NoHist /\ Unset \notin Fds
  BY PipeAssumption DEF Init, Unset
<1>3. \A t \in Threads : /\ th[t].role = scene[t] /\ th[t].pc = "idle" /\ th[t].k = 0
                         /\ th[t].ready = FALSE /\ Held(t) = {}
  BY <1>1 DEF Held
<1>4. Cast
  BY <1>2, <1>3 DEF Cast, OwnerIsAlone, Cleaning
<1>5. Progress /\ OneWinner
  BY <1>3 DEF Progress, Place, OneWinner, Cleaning
<1>6. Statics /\ Served
  BY <1>2, <1>3 DEF Statics, Served
<1>7. Ends
  BY <1>3 DEF Ends
<1>8. NoneLost
  BY <1>2, <1>3 DEF NoneLost, Free
<1>9. Handling
  <2>1. \A t \in Threads : frames[t] = << >> /\ Len(frames[t]) = 0
    BY <1>2
  <2>. QED
    BY <1>2, <2>1 DEF Handling, NoHist
<1>. QED
  BY <1>4, <1>5, <1>6, <1>7, <1>8, <1>9 DEF PipeInv

LEMMA PipeTypesInit ==
  ASSUME Init
  PROVE  PipeTypes
<1>1. PICK scene \in Scenes :
        th = [t \in Threads |-> [role |-> scene[t], pc |-> "idle", r |-> Unset,
                                 w |-> Unset, k |-> 0, ready |-> FALSE]]
  BY DEF Init
<1>2. th \in [Threads -> Thread]
  <2>1. scene \in [Threads -> Roles] /\ 0 \in 0 .. Len(SigOrder)
    BY PipeAssumption
  <2>. QED
    BY <1>1, <2>1 DEF Thread, PCs
<1>3. hist \in Hist /\ hist.pipes <= MaxPipes
  BY PipeAssumption DEF Init, NoHist, Hist
<1>4. fds \in [Fds -> End] /\ data \in [1 .. MaxPipes -> Seq(Sigs)] /\ frames \in [Threads -> Seq(Frame)]
  BY PipeAssumption DEF Init, Free, End
<1>. QED
  BY <1>2, <1>3, <1>4 DEF Init, PipeTypes, TypeOK

\* The variables keep their types: a descriptor is always one of the process's
\* or -1, and pipe() is called at most MaxPipes times.
THEOREM PipeTypeCorrect == Spec => []PipeTypes
<1>. QED
  BY PipeTypesInit, PipeTypeStep, PTL DEF Spec

LEMMA PipeInvariant ==
  ASSUME OwnerIsAlone
  PROVE  Spec => [](PipeTypes /\ Numbered /\ PipeInv)
<1>1. Init => PipeTypes /\ Numbered /\ PipeInv
  <2>1. Init => \A fd \in Fds : fds[fd].kind = "free"
    BY DEF Init, Free
  <2>2. Init => Numbered
    BY <2>1 DEF Numbered
  <2>. QED
    BY <2>2, PipeTypesInit, PipeInvInit
<1>2. (PipeTypes /\ Numbered /\ PipeInv) /\ [Next]_vars => (PipeTypes /\ Numbered /\ PipeInv)'
  BY PipeTypeStep, NumberedStep, PipeInvStep
<1>. QED
  BY <1>1, <1>2, PTL DEF Spec

\* No signal handler ever finds its descriptor missing or writes anywhere but
\* into the pipe whose read end is in SIGNAL_PIPE: the order of the stores in
\* setup_signal_forwarding and of the resets and closes in
\* cleanup_signal_forwarding guarantees it for any number of racing setups and
\* of signals.
THEOREM HandlerAlwaysHasPipe ==
  ASSUME OwnerIsAlone
  PROVE  Spec => []HandlerHasPipe
<1>1. ASSUME PipeTypes, PipeInv
      PROVE  HandlerHasPipe
  <2>. SUFFICES ASSUME NEW t \in Threads, NEW i \in 1 .. Len(frames[t]), frames[t][i].loaded
                PROVE  /\ fds[frames[t][i].fd].kind = "w"
                       /\ SIGNAL_PIPE # Unset
                       /\ fds[SIGNAL_PIPE] = [kind |-> "r", id |-> fds[frames[t][i].fd].id]
    BY <1>1 DEF HandlerHasPipe, PipeInv, Handling
  <2>0. /\ SIGNAL_PIPE \in Fds \cup {Unset} /\ fds \in [Fds -> End] /\ frames[t] \in Seq(Frame)
    BY <1>1 DEF PipeTypes, TypeOK
  <2>1. frames[t] # << >>
    BY <2>0
  <2>2. frames[t][i].fd = SIGNAL_WRITE_FD /\ SIGNAL_WRITE_FD # Unset
    BY <1>1, <2>1 DEF PipeInv, Handling
  <2>3. /\ SIGNAL_PIPE # Unset /\ fds[SIGNAL_PIPE].kind = "r"
        /\ fds[SIGNAL_WRITE_FD] = [kind |-> "w", id |-> fds[SIGNAL_PIPE].id]
    BY <1>1, <2>2 DEF PipeInv, Statics
  <2>4. fds[SIGNAL_PIPE] \in End
    BY <2>0, <2>3
  <2>5. fds[SIGNAL_WRITE_FD].kind = "w" /\ fds[SIGNAL_WRITE_FD].id = fds[SIGNAL_PIPE].id
    BY <2>3
  <2>. QED
    BY <2>2, <2>3, <2>4, <2>5 DEF End
<1>. QED
  BY <1>1, PipeInvariant, PTL

\* Between calls the only open ends are the two in the statics: neither the
\* loser of the compare_exchange nor cleanup leaks a descriptor or closes one
\* that somebody else has opened in the meantime.
THEOREM NoCallLeaks ==
  ASSUME OwnerIsAlone
  PROVE  Spec => []NoFdLeak
<1>1. ASSUME PipeTypes, PipeInv
      PROVE  NoFdLeak
  <2>. SUFFICES ASSUME \A t \in Threads : th[t].pc = "idle"
                PROVE  {fd \in Fds : fds[fd].kind \in {"r", "w"}}
                         = {SIGNAL_PIPE, SIGNAL_WRITE_FD} \ {Unset}
    BY DEF NoFdLeak
  <2>0. /\ SIGNAL_PIPE \in Fds \cup {Unset} /\ SIGNAL_WRITE_FD \in Fds \cup {Unset} /\ Unset \notin Fds
    BY <1>1, PipeAssumption DEF PipeTypes, TypeOK, Unset
  <2>1. \A t \in Threads : Held(t) = {}
    BY DEF Held
  <2>2. \A fd \in Fds : fds[fd].kind \in {"r", "w"} <=> fd \in {SIGNAL_PIPE, SIGNAL_WRITE_FD}
    BY <1>1, <2>1 DEF PipeInv, NoneLost
  <2>. QED
    BY <2>0, <2>2
<1>. QED
  BY <1>1, PipeInvariant, PTL

\* A setup that returned Some is served by every handler once no other call is
\* under way, whichever of the racing threads won.
THEOREM SetupIsReady ==
  ASSUME OwnerIsAlone
  PROVE  Spec => []SetupReady
<1>1. ASSUME PipeInv
      PROVE  SetupReady
  BY <1>1 DEF SetupReady, PipeInv, Served, Cleaning
<1>. QED
  BY <1>1, PipeInvariant, PTL

\* At any moment every signal that entered the handler has been read, is in the
\* pipe or on its way there, found the pipe full or went with the pipe in cleanup:
\* for any number of threads, pipes and signals none is lost otherwise.
THEOREM AllSignalsAccounted ==
  ASSUME OwnerIsAlone
  PROVE  Spec => []SignalsAccounted
<1>1. Init => Balance
  <2>. SUFFICES ASSUME Init
                PROVE  Balance
    OBVIOUS
  <2>1. /\ IsFiniteSet(Threads) /\ IsFiniteSet(1 .. MaxPipes)
        /\ data = [i \in 1 .. MaxPipes |-> << >>] /\ frames = [t \in Threads |-> << >>]
    BY PipeAssumption, FS_Interval DEF Init
  <2>2. Lengths(data, 1 .. MaxPipes) = [i \in 1 .. MaxPipes |-> 0] /\ Lengths(frames, Threads) = [t \in Threads |-> 0]
    BY <2>1 DEF Lengths
  <2>3. PipesTotal = 0 /\ FramesTotal = 0
    BY <2>1, <2>2, ZeroTotal DEF PipesTotal, FramesTotal
  <2>. QED
    BY <2>3 DEF Init, NoHist, Balance
<1>2. Balance => SignalsAccounted
  <2>1. InPipes = PipesTotal
    BY DEF InPipes, PipesTotal, Lengths, Total, Sums, First, MapThenSumSet, MapThenFoldSet
  <2>2. InHandler = FramesTotal
    BY DEF InHandler, FramesTotal, Lengths, Total, Sums, First, MapThenSumSet, MapThenFoldSet
  <2>. QED
    BY <2>1, <2>2 DEF Balance, SignalsAccounted
<1>3. PipeTypes /\ Numbered /\ PipeInv /\ Balance /\ (PipeTypes /\ Numbered /\ PipeInv)' /\ [Next]_vars => Balance'
  BY BalanceStep
<1>. QED
  BY <1>1, <1>2, <1>3, PipeInvariant, PTL DEF Spec

=============================================================================
