----------------------------- MODULE MCJsvcAdmin -----------------------------
(* Small instances of JsvcAdmin for TLC. *)
EXTENDS JsvcAdmin, TLC
=============================================================================
