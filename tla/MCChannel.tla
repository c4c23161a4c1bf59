----------------------------- MODULE MCChannel ------------------------------
(* An instance of Channel for TLC: three threads are two sleepers and one   *)
(* that wakes them, or a sleeper, a waker and a thief of its wakeup.        *)
EXTENDS Channel, TLC
=============================================================================
