----------------------------- MODULE StatsStore -----------------------------
(***************************************************************************)
(* internal/panel/stats.go: statistics are accumulated in two maps in      *)
(* memory and now and then flushed to two buckets of a bbolt database.     *)
(*                                                                         *)
(* A closed connection is counted once for each dimension, in the slot of  *)
(* the day, the dimension and the connection's value of it, or in the slot *)
(* of "Other" when there are too many.  An aggregate is modelled as a bag  *)
(* of connections, from which its count and its two totals follow; a       *)
(* minute's point as the number of samples it is the average of.           *)
(*                                                                         *)
(* store.mu makes each operation one critical section.  Those with a loop  *)
(* over a Go map, whose order is arbitrary, take a step for each element;  *)
(* holder says whose critical section it is.  A bbolt transaction has all  *)
(* of its effect or, if it fails or the process dies, none.                *)
(***************************************************************************)
EXTENDS Integers, FiniteSets

CONSTANTS
    Connection,    \* the connections Mihomo ever has; ids are not used again
    Dimension,     \* source_ip, destination, process, ...
    Key,           \* the values of dimensions, Other among them
    Other,         \* the value "Other"
    KeyOf,         \* KeyOf[c][d]: the value of connection c in dimension d
    PendingLimit,  \* 4096
    KeyLimit,      \* 512
    Retention,     \* in minutes: 30 days
    MinutesPerDay,
    LastMinute,    \* bound on the clock
    MaxSamples,    \* bound on the number of samples
    MaxFaults,     \* bound on failing transactions, polls and crashes
    Never          \* a day that is none

ASSUME StatsAssumption ==
    /\ Other \in Key /\ KeyOf \in [Connection -> [Dimension -> Key]]
    /\ {PendingLimit, KeyLimit, Retention, LastMinute, MaxSamples, MaxFaults} \subseteq Nat
    /\ MinutesPerDay \in Nat \ {0}

Minute == 0 .. LastMinute
DayOf(minute) == minute \div MinutesPerDay
Day  == {DayOf(minute) : minute \in Minute}
Slot == [day : Day, dimension : Dimension, key : Key]

ASSUME NeverAssumption == Never \notin Day

VARIABLES
    now,            \* the clock, in minutes
    phase,          \* "open"; "flushed" or "unflushed" when Close is done; "down"
    holder,         \* whose critical section: "none", "record", "flush" or "close"
    pendingMinutes, \* samples accumulated for each minute
    pendingDaily,   \* connections accumulated in each slot
    storedMinutes,  \* the bucket minutes-v1
    storedDaily,    \* the bucket daily-v1
    subject, left,  \* RecordClosed: the connection, and the dimensions to do
    takenMinutes,   \* flushLocked: the maps that are being flushed
    takenDaily,
    tx,             \* flushLocked: the bucket daily-v1 as this transaction sees it
    done,           \* flushLocked: the slots the loop has written
    counts,         \* flushLocked: counts, Unknown where it has no entry
    closedOn,       \* history: the day each connection was recorded for
    samples,        \* number of samples so far
    faults          \* number of faults so far

memory   == <<pendingMinutes, pendingDaily>>
database == <<storedMinutes, storedDaily>>
flush    == <<takenMinutes, takenDaily, tx, done, counts>>
statsVars == <<now, phase, holder, memory, database, subject, left, flush,
               closedOn, samples, faults>>

-----------------------------------------------------------------------------
(* Bags of connections, and maps from slots to them.  A Go map has an      *)
(* entry exactly where the bag is not empty.                               *)

Bag     == [Connection -> Nat]
Nothing == [c \in Connection |-> 0]
One(c)  == [Nothing EXCEPT ![c] = 1]

Plus(bag, more)      == [c \in Connection |-> bag[c] + more[c]]
AddTo(map, slot, bag) == [map EXCEPT ![slot] = Plus(@, bag)]

Entries(map) == {slot \in Slot : map[slot] # Nothing}
NoSlots      == [slot \in Slot |-> Nothing]
NoMinutes    == [minute \in Minute |-> 0]

KeysOf(map, day, dimension) ==
    {slot \in Entries(map) : slot.day = day /\ slot.dimension = dimension}

Prefix  == Day \X Dimension
Unknown == -1
NoCounts == [prefix \in Prefix |-> Unknown]

NoFlush ==
    /\ takenMinutes' = NoMinutes /\ takenDaily' = NoSlots /\ tx' = NoSlots
    /\ done' = {} /\ counts' = NoCounts

Init ==
    /\ now = 0 /\ phase = "open" /\ holder = "none"
    /\ pendingMinutes = NoMinutes /\ pendingDaily = NoSlots
    /\ storedMinutes = NoMinutes /\ storedDaily = NoSlots
    /\ subject = [day |-> Never] /\ left = {}
    /\ takenMinutes = NoMinutes /\ takenDaily = NoSlots /\ tx = NoSlots
    /\ done = {} /\ counts = NoCounts
    /\ closedOn = [c \in Connection |-> Never]
    /\ samples = 0 /\ faults = 0

Fault == faults < MaxFaults /\ faults' = faults + 1

Tick ==
    /\ now < LastMinute /\ now' = now + 1
    /\ UNCHANGED <<phase, holder, memory, database, subject, left, flush, closedOn,
                   samples, faults>>

-----------------------------------------------------------------------------
(* RecordSample and RecordClosed                                           *)

RecordSample(at) ==
    /\ holder = "none" /\ samples < MaxSamples /\ samples' = samples + 1
    /\ pendingMinutes' = IF phase = "open" THEN [pendingMinutes EXCEPT ![at] = @ + 1]
                         ELSE pendingMinutes
    /\ UNCHANGED <<now, phase, holder, pendingDaily, database, subject, left, flush,
                   closedOn, faults>>

RecordClosed(c, day) ==
    /\ holder = "none"
    /\ IF phase = "open"
       THEN /\ holder' = "record" /\ left' = Dimension
            /\ subject' = [connection |-> c, day |-> day]
       ELSE UNCHANGED <<holder, left, subject>>
    /\ closedOn' = [closedOn EXCEPT ![c] = day]
    /\ UNCHANGED <<now, phase, memory, database, flush, samples, faults>>

\* Faulty variant: the day is that of the recording, not that of the poll.
TodaysSlot(dimension) ==
    [day |-> DayOf(now), dimension |-> dimension, key |-> KeyOf[subject.connection][dimension]]

PendingSlot(dimension) ==
    [day |-> subject.day, dimension |-> dimension,
     key |-> IF Cardinality(Entries(pendingDaily)) > PendingLimit THEN Other
             ELSE KeyOf[subject.connection][dimension]]

RecordDimension(dimension) ==
    /\ holder = "record" /\ dimension \in left
    /\ pendingDaily' = AddTo(pendingDaily, PendingSlot(dimension), One(subject.connection))
    /\ left' = left \ {dimension}
    /\ holder' = IF left' = {} THEN "none" ELSE "record"
    /\ subject' = IF left' = {} THEN [day |-> Never] ELSE subject
    /\ UNCHANGED <<now, phase, pendingMinutes, database, flush, closedOn, samples, faults>>

-----------------------------------------------------------------------------
(* Flush, and Close, which flushes                                         *)

\* Faulty variant: the pending maps are not replaced before the transaction.
TakeKeeping(purpose) ==
    /\ holder = "none" /\ phase = "open" /\ holder' = purpose
    /\ takenMinutes' = pendingMinutes /\ takenDaily' = pendingDaily
    /\ tx' = storedDaily /\ done' = {} /\ counts' = NoCounts
    /\ UNCHANGED <<now, phase, memory, database, subject, left, closedOn, samples, faults>>

\* Faulty variant: a flush without samples returns at once.
TakeIfSampled(purpose) ==
    /\ holder = "none" /\ phase = "open" /\ pendingMinutes # NoMinutes /\ holder' = purpose
    /\ takenMinutes' = pendingMinutes /\ takenDaily' = pendingDaily
    /\ pendingMinutes' = NoMinutes /\ pendingDaily' = NoSlots
    /\ tx' = storedDaily /\ done' = {} /\ counts' = NoCounts
    /\ UNCHANGED <<now, phase, database, subject, left, closedOn, samples, faults>>

Take(purpose) ==
    /\ holder = "none" /\ phase = "open" /\ holder' = purpose
    /\ takenMinutes' = pendingMinutes /\ takenDaily' = pendingDaily
    /\ pendingMinutes' = NoMinutes /\ pendingDaily' = NoSlots
    /\ tx' = storedDaily /\ done' = {} /\ counts' = NoCounts
    /\ UNCHANGED <<now, phase, database, subject, left, closedOn, samples, faults>>

Flush == Take("flush")
Close == Take("close")

CountOf(slot) ==
    LET known == counts[<<slot.day, slot.dimension>>]
    IN  IF known # Unknown THEN known
        ELSE Cardinality(KeysOf(tx, slot.day, slot.dimension))

IsNew(slot) == slot.key # Other /\ tx[slot] = Nothing

\* Faulty variant: the count of keys does not follow the new ones.
StaleCounts(slot) ==
    IF IsNew(slot) /\ CountOf(slot) < KeyLimit
    THEN [counts EXCEPT ![<<slot.day, slot.dimension>>] = CountOf(slot)]
    ELSE counts

CountsAfter(slot) ==
    IF IsNew(slot) /\ CountOf(slot) < KeyLimit
    THEN [counts EXCEPT ![<<slot.day, slot.dimension>>] = CountOf(slot) + 1]
    ELSE counts

StorageSlot(slot) ==
    IF IsNew(slot) /\ CountOf(slot) >= KeyLimit THEN [slot EXCEPT !.key = Other] ELSE slot

Put(slot) == AddTo(tx, StorageSlot(slot), takenDaily[slot])

FlushSlot(slot) ==
    /\ holder \in {"flush", "close"} /\ slot \in Entries(takenDaily) \ done
    /\ tx' = Put(slot) /\ counts' = CountsAfter(slot)
    /\ done' = done \cup {slot}
    /\ UNCHANGED <<now, phase, holder, memory, database, subject, left, takenMinutes,
                   takenDaily, closedOn, samples, faults>>

\* pruneStats deletes with a cursor that it moves on after each deletion.  If
\* the leaf is one this transaction has written to, the deletion has moved the
\* next key to the cursor's place already, and it is passed over; never two in
\* a row, and never the first.
Cutoff == now - Retention

ExpiredMinutes == {minute \in Minute : minute < Cutoff}
ExpiredSlots   == {slot \in Slot : slot.day < DayOf(Cutoff)}

AfterMinutes ==
    [minute \in Minute |->
        IF takenMinutes[minute] > 0 THEN takenMinutes[minute] ELSE storedMinutes[minute]]

PrunedMinutes(after, kept) ==
    /\ kept \subseteq {minute \in ExpiredMinutes : after[minute] > 0}
    /\ takenMinutes = NoMinutes => kept = {}
    /\ \A minute \in kept :
          \E other \in ExpiredMinutes \ kept :
              /\ other < minute /\ after[other] > 0
              /\ \A between \in other + 1 .. minute - 1 : after[between] = 0

\* Faulty variant: the cursor of the days stops at the first.
NoSlotPruned(kept) == kept = Entries(tx) \cap ExpiredSlots

PrunedSlots(kept) ==
    LET expired == Entries(tx) \cap ExpiredSlots
    IN  /\ kept \subseteq expired /\ Cardinality(kept) <= Cardinality(expired \ kept)
        /\ done = {} => kept = {}

EndFlush(outcome) ==
    /\ holder' = "none" /\ NoFlush
    /\ phase' = IF holder = "close" THEN outcome ELSE phase

Commit ==
    /\ holder \in {"flush", "close"} /\ Entries(takenDaily) \subseteq done
    /\ EndFlush("flushed")
    /\ \E kept \in SUBSET ExpiredMinutes :
          /\ PrunedMinutes(AfterMinutes, kept)
          /\ storedMinutes' = [minute \in Minute |->
                 IF minute \in ExpiredMinutes \ kept THEN 0 ELSE AfterMinutes[minute]]
    /\ \E kept \in SUBSET (Entries(tx) \cap ExpiredSlots) :
          /\ PrunedSlots(kept)
          /\ storedDaily' = [slot \in Slot |->
                 IF slot \in ExpiredSlots \ kept THEN Nothing ELSE tx[slot]]
    /\ UNCHANGED <<now, memory, subject, left, closedOn, samples, faults>>

\* Faulty variant: a flush that failed does not put the samples back.
MergeBackDaily ==
    /\ pendingMinutes' = pendingMinutes
    /\ pendingDaily' = [slot \in Slot |-> Plus(pendingDaily[slot], takenDaily[slot])]

MergeBack ==
    /\ pendingMinutes' = [minute \in Minute |-> pendingMinutes[minute] + takenMinutes[minute]]
    /\ pendingDaily' = [slot \in Slot |-> Plus(pendingDaily[slot], takenDaily[slot])]

Fail ==
    /\ holder \in {"flush", "close"} /\ Fault
    /\ MergeBack /\ EndFlush("unflushed")
    /\ UNCHANGED <<now, database, subject, left, closedOn, samples>>

-----------------------------------------------------------------------------
(* Clear; the death of the process and the next openStats.                 *)

Clear ==
    /\ holder = "none" /\ phase = "open"
    /\ pendingMinutes' = NoMinutes /\ pendingDaily' = NoSlots
    /\ \/ storedMinutes' = NoMinutes /\ storedDaily' = NoSlots /\ UNCHANGED faults
       \/ Fault /\ UNCHANGED database
    /\ UNCHANGED <<now, phase, holder, subject, left, flush, closedOn, samples>>

\* Faulty variant: the database is opened with NoSync as well.
GoneUnsynced ==
    /\ phase' = "down" /\ holder' = "none" /\ NoFlush
    /\ subject' = [day |-> Never] /\ left' = {}
    /\ pendingMinutes' = NoMinutes /\ pendingDaily' = NoSlots /\ storedDaily' = NoSlots
    /\ UNCHANGED <<now, storedMinutes, closedOn, samples>>

Gone ==
    /\ phase' = "down" /\ holder' = "none" /\ NoFlush
    /\ subject' = [day |-> Never] /\ left' = {}
    /\ pendingMinutes' = NoMinutes /\ pendingDaily' = NoSlots
    /\ UNCHANGED <<now, database, closedOn, samples>>

Crash == phase # "down" /\ Fault /\ Gone

Exit == phase \in {"flushed", "unflushed"} /\ Gone /\ UNCHANGED faults

Open ==
    /\ phase = "down" /\ phase' = "open"
    /\ UNCHANGED <<now, holder, memory, database, subject, left, flush, closedOn, samples, faults>>

-----------------------------------------------------------------------------
(* The store alone: any connection may be recorded at any time, once.      *)

Critical ==
    \/ \E dimension \in left : RecordDimension(dimension)
    \/ \E slot \in Entries(takenDaily) : FlushSlot(slot)
    \/ Commit

Call ==
    \/ RecordSample(now)
    \/ \E c \in Connection : closedOn[c] = Never /\ RecordClosed(c, DayOf(now))
    \/ Close \/ Clear

Next == Tick \/ Critical \/ Call \/ Flush \/ Fail \/ Crash \/ Exit \/ Open

\* The panel is scheduled, its flushLoop flushes again and again, and procd
\* starts it again.
Fairness == WF_statsVars(Critical) /\ WF_statsVars(Flush) /\ WF_statsVars(Exit \/ Open)

Spec == Init /\ [][Next]_statsVars /\ Fairness

-----------------------------------------------------------------------------
(* What History and Aggregates report, a flush in progress counted as not  *)
(* begun: both take store.mu and cannot see it.                            *)

History(minute) ==
    LET pending == pendingMinutes[minute] + takenMinutes[minute]
    IN  IF pending > 0 THEN pending ELSE storedMinutes[minute]

Aggregates(slot) == Plus(storedDaily[slot], Plus(pendingDaily[slot], takenDaily[slot]))

Reported(c, dimension) ==
    {slot \in Slot : slot.dimension = dimension /\ Aggregates(slot)[c] > 0}

\* The type invariant of the store (StatsStore's fields, the two buckets and
\* the local variables of its methods).
TypeOK ==
    /\ now \in Minute /\ phase \in {"open", "flushed", "unflushed", "down"}
    /\ holder \in {"none", "record", "flush", "close"}
    /\ {pendingMinutes, takenMinutes, storedMinutes} \subseteq [Minute -> 0 .. MaxSamples]
    /\ {pendingDaily, takenDaily, storedDaily, tx} \subseteq [Slot -> Bag]
    /\ holder = "record" => subject \in [connection : Connection, day : Day]
    /\ left \subseteq Dimension /\ done \subseteq Slot
    /\ counts \in [Prefix -> Nat \cup {Unknown}]
    /\ closedOn \in [Connection -> Day \cup {Never}]
    /\ samples \in 0 .. MaxSamples /\ faults \in 0 .. MaxFaults

\* A closed connection is never reported twice in a dimension, whatever was
\* flushed, put back after a failure, redirected to "Other" or lost
\* (flushLocked, RecordClosed).
ReportedOnce ==
    \A c \in Connection, dimension \in Dimension :
        /\ Cardinality(Reported(c, dimension)) <= 1
        /\ \A slot \in Reported(c, dimension) : Aggregates(slot)[c] = 1

\* It is reported for the day on which it was recorded, under its own value
\* or "Other".
ReportedRight ==
    \A c \in Connection, dimension \in Dimension :
        \A slot \in Reported(c, dimension) :
            slot.day = closedOn[c] /\ slot.key \in {KeyOf[c][dimension], Other}

\* A connection or the samples of a minute leave the reports only when the
\* user clears them, the process dies before a successful flush, or they are
\* older than the retention: a failing flush, the limits and an orderly stop
\* lose nothing.  A sample that comes after a flush in its own minute starts
\* the minute again.
MayLose ==
    \/ holder = "none" /\ holder' = "none" /\ phase = "open" /\ phase' = "open" /\ Clear
    \/ phase' = "down" /\ phase # "flushed"

NothingLost ==
    [][\/ MayLose
       \/ /\ \A c \in Connection, dimension \in Dimension :
                Reported(c, dimension) # {} =>
                    \/ Reported(c, dimension)' # {}
                    \/ closedOn[c] < DayOf(Cutoff)
          /\ \A minute \in Minute :
                History(minute)' < History(minute) =>
                    \/ minute < Cutoff
                    \/ History(minute)' = 1 /\ storedMinutes[minute] > 0]_statsVars

\* The database keeps at most KeyLimit values and "Other" for a day and a
\* dimension, and the pending map at most one entry more than its limit
\* beside the entries of "Other".
Bounded ==
    /\ \A day \in Day, dimension \in Dimension :
          Cardinality(KeysOf(storedDaily, day, dimension)) <= KeyLimit + 1
    /\ Cardinality({slot \in Entries(pendingDaily) : slot.key # Other}) <= PendingLimit + 1

\* Where the ledger has a connection in a dimension.
InBucket(c, dimension) ==
    \E slot \in Slot : slot.dimension = dimension /\ storedDaily[slot][c] > 0

InMemory(c, dimension) ==
    \E slot \in Slot :
        slot.dimension = dimension /\ (pendingDaily[slot][c] > 0 \/ takenDaily[slot][c] > 0)

Awaited(c, dimension) ==
    \/ closedOn[c] = Never
    \/ holder = "record" /\ subject.connection = c /\ dimension \in left

Place(c, dimension) ==
    IF InBucket(c, dimension) THEN "stored"
    ELSE IF InMemory(c, dimension) THEN "memory"
    ELSE IF Awaited(c, dimension) THEN "none" ELSE "gone"

Places == [pair \in Connection \X Dimension |-> Place(pair[1], pair[2])]

LedgerPhase == IF phase \in {"flushed", "unflushed"} THEN "closed" ELSE phase

\* The store implements the ledger: whatever is redirected to "Other", put back
\* after a failing flush or interrupted, a flush is one step, pruning takes only
\* what is older than the retention, and the death of the process loses only
\* what no flush has stored (flushLocked, Clear, Close, openStats).
Ledger == INSTANCE StatsLedger WITH place <- Places, phase <- LedgerPhase

ImplementsLedger == Ledger!Spec

\* What is recorded reaches the database, unless the user clears it, the
\* process dies or it expires.
Stored ==
    \A c \in Connection, dimension \in Dimension :
        Reported(c, dimension) # {} ~>
            \/ Reported(c, dimension) = {}
            \/ \E slot \in Slot : slot.dimension = dimension /\ storedDaily[slot][c] > 0

\* Expired statistics are gone in the end, although one flush may leave some.
ExpiredGone ==
    \A c \in Connection, dimension \in Dimension :
        (Reported(c, dimension) # {} /\ closedOn[c] < DayOf(Cutoff))
            ~> Reported(c, dimension) = {}

\* A flush that succeeds leaves nothing in the database that is older than the
\* retention (README.md: statistics are "flushed periodically, and pruned
\* after 30 days").
PrunedByFlush ==
    [][holder = "flush" /\ holder' = "none" /\ phase' = "open" /\ faults' = faults =>
          /\ \A slot \in ExpiredSlots : storedDaily'[slot] = Nothing
          /\ \A minute \in ExpiredMinutes : storedMinutes'[minute] = 0]_statsVars

-----------------------------------------------------------------------------
(* The inductive invariant behind ReportedOnce, ReportedRight and Bounded. *)

\* At most one slot of a dimension has the connection, once.
Once(map) ==
    \A c \in Connection, slot, other \in Slot :
        map[slot][c] > 0 /\ slot.dimension = other.dimension =>
            map[slot][c] = 1 /\ (map[other][c] > 0 => slot = other)

\* A connection one map has in a dimension the other has not.
Apart(map, another) ==
    \A c \in Connection, slot, other \in Slot :
        map[slot][c] > 0 /\ slot.dimension = other.dimension => another[other][c] = 0

\* What the flush in progress has still to write.
Remaining == [slot \in Slot |-> IF slot \in done THEN Nothing ELSE takenDaily[slot]]

\* Neither the maps outside a transaction nor those it sees repeat a connection.
OnceInv ==
    /\ Once(storedDaily) /\ Once(pendingDaily) /\ Once(takenDaily) /\ Once(tx)
    /\ Apart(storedDaily, pendingDaily) /\ Apart(storedDaily, takenDaily)
    /\ Apart(pendingDaily, takenDaily) /\ Apart(pendingDaily, tx)
    /\ Apart(tx, Remaining)
    /\ holder = "record" =>
          \A slot \in Slot : slot.dimension \in left =>
              /\ storedDaily[slot][subject.connection] = 0
              /\ pendingDaily[slot][subject.connection] = 0

Right(map) ==
    \A c \in Connection, slot \in Slot :
        map[slot][c] > 0 =>
            slot.day = closedOn[c] /\ slot.key \in {KeyOf[c][slot.dimension], Other}

RightInv ==
    /\ Right(storedDaily) /\ Right(pendingDaily) /\ Right(takenDaily) /\ Right(tx)
    /\ holder = "record" => subject.day = closedOn[subject.connection]

\* Between two flushes nothing is taken, during one nothing is pending.
HolderInv ==
    /\ holder \notin {"flush", "close"} =>
          takenMinutes = NoMinutes /\ takenDaily = NoSlots /\ tx = NoSlots /\ done = {}
    /\ holder \in {"flush", "close"} => pendingMinutes = NoMinutes /\ pendingDaily = NoSlots
    /\ holder # "none" => phase = "open"

\* A minute has no more samples than there were.
SampleInv ==
    \A minute \in Minute :
        /\ pendingMinutes[minute] <= samples /\ takenMinutes[minute] <= samples
        /\ storedMinutes[minute] <= samples

Own(slots) == {slot \in slots : slot.key # Other}

AtMost(set, n) == IsFiniteSet(set) /\ Cardinality(set) <= n

\* The keys a day and a dimension have, and what counts knows of them.
LimitInv ==
    /\ IsFiniteSet(Entries(pendingDaily)) /\ IsFiniteSet(Entries(takenDaily))
    /\ Cardinality(Own(Entries(pendingDaily))) <= PendingLimit + 1
    /\ Cardinality(Own(Entries(takenDaily))) <= PendingLimit + 1
    /\ \A day \in Day, dimension \in Dimension :
          /\ AtMost(Own(KeysOf(storedDaily, day, dimension)), KeyLimit)
          /\ AtMost(Own(KeysOf(tx, day, dimension)), KeyLimit)
          /\ counts[<<day, dimension>>] # Unknown =>
                AtMost(Own(KeysOf(tx, day, dimension)), counts[<<day, dimension>>])

StoreInv ==
    TypeOK /\ OnceInv /\ RightInv /\ HolderInv /\ SampleInv /\ LimitInv

\* For NothingLost: what a flush has taken or the bucket holds is in the bucket
\* as the transaction sees it, and an orderly stop leaves nothing pending.
KeepInv ==
    /\ phase = "flushed" => pendingDaily = NoSlots /\ pendingMinutes = NoMinutes
    /\ holder \in {"flush", "close"} =>
          \A c \in Connection, slot \in Slot :
              /\ storedDaily[slot][c] > 0 => tx[slot][c] > 0
              /\ slot \in done /\ takenDaily[slot][c] > 0 =>
                    \E other \in Slot :
                        /\ other.day = slot.day /\ other.dimension = slot.dimension
                        /\ tx[other][c] > 0

\* For ImplementsLedger: what a transaction sees was in the bucket or is flushed.
SourceInv ==
    holder \in {"flush", "close"} =>
        \A c \in Connection, slot \in Slot :
            tx[slot][c] > 0 =>
                \E other \in Slot :
                    /\ other.dimension = slot.dimension
                    /\ storedDaily[other][c] > 0 \/ takenDaily[other][c] > 0
=============================================================================
