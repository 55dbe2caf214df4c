----------------------------- MODULE StatsLedger -----------------------------
(***************************************************************************)
(* What the statistics store promises about the connections that are       *)
(* recorded: each is in one place in each dimension.  A flush is one step, *)
(* that has all of its effect or none; the death of the process loses what *)
(* was not flushed and nothing else.                                       *)
(***************************************************************************)
EXTENDS Integers

CONSTANTS Connection, Dimension, Day, Never, Retention, MinutesPerDay

VARIABLES
    now,       \* the clock, in minutes
    phase,     \* "open", "closed" after Close, "down"
    closedOn,  \* the day each connection was recorded for, or Never
    place      \* where the ledger has it: "none", "memory", "stored" or "gone"

ledgerVars == <<now, phase, closedOn, place>>

Pair == Connection \X Dimension

In(where)       == {pair \in Pair : place[pair] = where}
Move(pairs, to) == [pair \in Pair |-> IF pair \in pairs THEN to ELSE place[pair]]

Expired(c) == closedOn[c] < (now - Retention) \div MinutesPerDay

Init ==
    /\ now = 0 /\ phase = "open"
    /\ closedOn = [c \in Connection |-> Never]
    /\ place = [pair \in Pair |-> "none"]

Tick == now' = now + 1 /\ UNCHANGED <<phase, closedOn, place>>

\* A connection is recorded once; a store that is not open refuses it.
Record(c, day) ==
    /\ closedOn[c] = Never /\ closedOn' = [closedOn EXCEPT ![c] = day]
    /\ place' = IF phase = "open" THEN place ELSE Move({c} \X Dimension, "gone")
    /\ UNCHANGED <<now, phase>>

Count(c, dimension) ==
    /\ phase = "open" /\ closedOn[c] # Never /\ place[<<c, dimension>>] = "none"
    /\ place' = Move({<<c, dimension>>}, "memory")
    /\ UNCHANGED <<now, phase, closedOn>>

\* Only what is older than the retention may be pruned.
Flush ==
    /\ phase = "open" /\ phase' \in {"open", "closed"}
    /\ \E pruned \in SUBSET {pair \in In("memory") \cup In("stored") : Expired(pair[1])} :
          place' = [pair \in Pair |->
              IF pair \in pruned THEN "gone"
              ELSE IF place[pair] = "memory" THEN "stored" ELSE place[pair]]
    /\ UNCHANGED <<now, closedOn>>

\* Close whose flush fails.
Stop == phase = "open" /\ phase' = "closed" /\ UNCHANGED <<now, closedOn, place>>

\* Clear drops what is in memory also when it fails.
Clear ==
    /\ phase = "open"
    /\ \/ place' = Move(In("memory") \cup In("stored"), "gone")
       \/ place' = Move(In("memory"), "gone")
    /\ UNCHANGED <<now, phase, closedOn>>

Die ==
    /\ phase # "down" /\ phase' = "down"
    /\ place' = Move(In("memory") \cup {pair \in In("none") : closedOn[pair[1]] # Never}, "gone")
    /\ UNCHANGED <<now, closedOn>>

Start == phase = "down" /\ phase' = "open" /\ UNCHANGED <<now, closedOn, place>>

Next ==
    \/ Tick \/ Flush \/ Stop \/ Clear \/ Die \/ Start
    \/ \E c \in Connection :
          \/ \E day \in Day : Record(c, day)
          \/ \E dimension \in Dimension : Count(c, dimension)

Spec == Init /\ [][Next]_ledgerVars
=============================================================================
