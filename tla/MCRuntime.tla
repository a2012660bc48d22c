----------------------------- MODULE MCRuntime -----------------------------
(* A small instance of Runtime for TLC; the .cfg file chooses the threads. *)
EXTENDS Runtime
=============================================================================
