---------------------------- MODULE MCCollector ----------------------------
(***************************************************************************)
(* A small instance of the collector with its store for TLC.               *)
(***************************************************************************)
EXTENDS Collector

CONSTANTS c1, c2, destination, a, b, other

TwoConnections == {c1, c2}
OneDimension   == {destination}
Values         == {a, b, other}
OwnValues      == [c \in TwoConnections |-> [d \in OneDimension |-> IF c = c1 THEN a ELSE b]]
=============================================================================
