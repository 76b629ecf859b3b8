--------------------------- MODULE MCServiceAdmin ---------------------------
(* Two runs of prunsrv at a time, on a service that reports progress once. *)
EXTENDS ServiceAdmin
=============================================================================
