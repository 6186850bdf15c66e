--------------------------- MODULE MCWaitForFile ---------------------------
(* Instances of WaitForFile for TLC. *)
EXTENDS WaitForFile

\* for ever, at once, less than a millisecond, and with and without a remainder
AnyTimeout == {None, 0, 1, 7, 13}
=============================================================================
