-------------------------- MODULE MCBlockingQueue --------------------------
(* A small instance of BlockingQueue for TLC; the .cfg file chooses the    *)
(* threads, items and capacity.                                            *)
EXTENDS BlockingQueue
=============================================================================
