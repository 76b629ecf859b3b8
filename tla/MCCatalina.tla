----------------------------- MODULE MCCatalina -----------------------------
(* Two runs of the script at a time; process numbers that can be swapped. *)
EXTENDS Catalina
=============================================================================
