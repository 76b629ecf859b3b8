---------------------------- MODULE MCHandlePool ----------------------------
(* Two threads of serviceStop beside main. *)
EXTENDS HandlePool
=============================================================================
