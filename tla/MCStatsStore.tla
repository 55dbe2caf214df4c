---------------------------- MODULE MCStatsStore ----------------------------
(***************************************************************************)
(* A small instance of the store for TLC: a day of two minutes, limits of  *)
(* one or two keys, and connections some of which share a value.           *)
(***************************************************************************)
EXTENDS StatsStore

CONSTANTS c1, c2, c3, destination, a, b, other

ThreeConnections == {c1, c2, c3}
OneDimension     == {destination}
Values           == {a, b, other}

ThreeValues ==
    [c \in ThreeConnections |->
        [d \in OneDimension |-> IF c = c1 THEN a ELSE IF c = c2 THEN b ELSE other]]
=============================================================================
