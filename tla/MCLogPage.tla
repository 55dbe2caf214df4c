------------------------------ MODULE MCLogPage ------------------------------
(***************************************************************************)
(* A ring of two messages of which at most one is long, and a page that    *)
(* gets one entry with an answer.                                          *)
(***************************************************************************)
EXTENDS LogPage

Messages == {"short", "long"}
SizeOf(message) == IF message = "long" THEN 2 ELSE 1

Filters == {"all", "long"}
Lets(wanted, message) == wanted = "all" \/ message = wanted
=============================================================================
