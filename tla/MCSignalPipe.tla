---------------------------- MODULE MCSignalPipe ----------------------------
(* Instances of SignalPipe for TLC. *)
EXTENDS SignalPipe

TwoSignals == <<"TERM", "INT">>

\* one thread does everything, or two set up at the same time, or signals reach
\* a thread that knows nothing of them
SafeScenes == { <<"owner", "absent">>, <<"caller", "caller">>, <<"caller", "bystander">> }
=============================================================================
