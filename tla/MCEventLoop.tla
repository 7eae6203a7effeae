---------------------------- MODULE MCEventLoop -----------------------------
(* EventLoop for TLC: the Clients are interchangeable. *)
EXTENDS EventLoop

ClientSymmetry == Permutations(Clients)
=============================================================================
