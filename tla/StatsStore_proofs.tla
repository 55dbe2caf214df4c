-------------------------- MODULE StatsStore_proofs --------------------------
(***************************************************************************)
(* What the statistics store keeps and reports, for every number of        *)
(* connections, dimensions, values and faults, and for every limit.        *)
(*                                                                         *)
(* There is a lemma for each operation, about StoreInv, and the theorems   *)
(* follow from them.  The lemmas do not say when an operation is called:   *)
(* Collector_proofs uses them for the calls the collector makes.           *)
(***************************************************************************)
EXTENDS StatsStore, FiniteSetTheorems, TLAPS

-----------------------------------------------------------------------------
(* Bags and maps from slots to bags.                                       *)

Map == [Slot -> Bag]

LEMMA EmptyMap ==
    /\ Nothing \in Bag /\ NoSlots \in Map
    /\ \A slot \in Slot, c \in Connection : NoSlots[slot][c] = 0 /\ Nothing[c] = 0
    /\ Once(NoSlots) /\ Right(NoSlots)
    /\ \A map \in Map : Apart(NoSlots, map) /\ Apart(map, NoSlots)
BY DEF Nothing, Bag, NoSlots, Map, Once, Right, Apart

LEMMA OneValue ==
    ASSUME NEW c \in Connection
    PROVE  One(c) \in Bag /\ \A d \in Connection : One(c)[d] = IF d = c THEN 1 ELSE 0
BY DEF One, Nothing, Bag

LEMMA PlusValue ==
    ASSUME NEW bag \in Bag, NEW more \in Bag
    PROVE  Plus(bag, more) \in Bag /\ \A c \in Connection : Plus(bag, more)[c] = bag[c] + more[c]
BY DEF Plus, Bag

LEMMA AddToValue ==
    ASSUME NEW map \in Map, NEW slot \in Slot, NEW bag \in Bag
    PROVE  /\ AddTo(map, slot, bag) \in Map
           /\ \A s \in Slot, c \in Connection :
                 AddTo(map, slot, bag)[s][c] = IF s = slot THEN map[s][c] + bag[c] ELSE map[s][c]
<1>1. map[slot] \in Bag
  BY DEF Map
<1>2. Plus(map[slot], bag) \in Bag /\ \A c \in Connection : Plus(map[slot], bag)[c] = map[slot][c] + bag[c]
  BY <1>1, PlusValue
<1>3. AddTo(map, slot, bag) = [map EXCEPT ![slot] = Plus(map[slot], bag)]
  BY DEF AddTo
<1>4. QED
  BY <1>2, <1>3 DEF Map

LEMMA ApartSymmetric ==
    ASSUME NEW map \in Map, NEW another \in Map, Apart(map, another)
    PROVE  Apart(another, map)
BY DEF Apart, Map, Bag

\* Connections that no slot of the dimension has may be added to one slot.
LEMMA OnceAdd ==
    ASSUME NEW map \in Map, NEW slot \in Slot, NEW bag \in Bag, Once(map),
           \A c \in Connection : bag[c] <= 1,
           \A c \in Connection, s \in Slot :
              bag[c] > 0 /\ s.dimension = slot.dimension => map[s][c] = 0
    PROVE  Once(AddTo(map, slot, bag))
<1> DEFINE new == AddTo(map, slot, bag)
<1>1. \A s \in Slot, c \in Connection : new[s][c] = IF s = slot THEN map[s][c] + bag[c] ELSE map[s][c]
  BY AddToValue
<1>2. \A s \in Slot, c \in Connection : map[s][c] \in Nat /\ bag[c] \in Nat
  BY DEF Map, Bag
<1> HIDE DEF new
<1>3. Once(new)
  BY <1>1, <1>2 DEF Once
<1>4. QED
  BY <1>3 DEF new

LEMMA ApartAdd ==
    ASSUME NEW map \in Map, NEW another \in Map, NEW slot \in Slot, NEW bag \in Bag,
           Apart(map, another),
           \A c \in Connection, s \in Slot :
              bag[c] > 0 /\ s.dimension = slot.dimension => another[s][c] = 0
    PROVE  Apart(AddTo(map, slot, bag), another)
<1> DEFINE new == AddTo(map, slot, bag)
<1>1. \A s \in Slot, c \in Connection : new[s][c] = IF s = slot THEN map[s][c] + bag[c] ELSE map[s][c]
  BY AddToValue
<1>2. \A s \in Slot, c \in Connection : map[s][c] \in Nat /\ bag[c] \in Nat
  BY DEF Map, Bag
<1> HIDE DEF new
<1>3. Apart(new, another)
  BY <1>1, <1>2 DEF Apart
<1>4. QED
  BY <1>3 DEF new

LEMMA RightAdd ==
    ASSUME NEW map \in Map, NEW slot \in Slot, NEW bag \in Bag, Right(map),
           \A c \in Connection :
              bag[c] > 0 => slot.day = closedOn[c] /\ slot.key \in {KeyOf[c][slot.dimension], Other}
    PROVE  Right(AddTo(map, slot, bag))
<1> DEFINE new == AddTo(map, slot, bag)
<1>1. \A s \in Slot, c \in Connection : new[s][c] = IF s = slot THEN map[s][c] + bag[c] ELSE map[s][c]
  BY AddToValue
<1>2. \A s \in Slot, c \in Connection : map[s][c] \in Nat /\ bag[c] \in Nat
  BY DEF Map, Bag
<1> HIDE DEF new
<1>3. Right(new)
  BY <1>1, <1>2 DEF Right
<1>4. QED
  BY <1>3 DEF new

\* A map of which slots have been emptied.
Within(map, old) == \A slot \in Slot : map[slot] \in {Nothing, old[slot]}

LEMMA WithinKeeps ==
    ASSUME NEW old \in Map, NEW map \in Map, Within(map, old)
    PROVE  /\ Once(old) => Once(map)
           /\ Right(old) => Right(map)
           /\ \A another \in Map : Apart(old, another) => Apart(map, another)
           /\ \A another \in Map : Apart(another, old) => Apart(another, map)
<1>1. \A slot \in Slot, c \in Connection : map[slot][c] = 0 \/ map[slot][c] = old[slot][c]
  BY EmptyMap DEF Within
<1>2. \A slot \in Slot, c \in Connection : map[slot][c] \in Nat /\ old[slot][c] \in Nat
  BY DEF Map, Bag
<1>3. Once(old) => Once(map)
  BY <1>1, <1>2 DEF Once
<1>4. Right(old) => Right(map)
  BY <1>1, <1>2 DEF Right
<1>5. \A another \in Map : Apart(old, another) => Apart(map, another)
  BY <1>1, <1>2 DEF Apart
<1>6. \A another \in Map : Apart(another, old) => Apart(another, map)
  BY <1>1, <1>2 DEF Apart
<1>7. QED
  BY <1>3, <1>4, <1>5, <1>6

-----------------------------------------------------------------------------
(* The parts of the invariant that an operation does not touch.            *)

dailyVars == <<storedDaily, pendingDaily, takenDaily, tx, done, holder, left, subject, closedOn>>

LEMMA SameDaily ==
    ASSUME UNCHANGED dailyVars
    PROVE  (OnceInv => OnceInv') /\ (RightInv => RightInv')
<1>1. OnceInv => OnceInv'
  BY DEF dailyVars, OnceInv, Once, Apart, Remaining
<1>2. RightInv => RightInv'
  BY DEF dailyVars, RightInv, Right
<1>3. QED
  BY <1>1, <1>2

LEMMA SameLimits ==
    ASSUME UNCHANGED <<storedDaily, pendingDaily, takenDaily, tx, counts>>
    PROVE  LimitInv => LimitInv'
BY DEF LimitInv, AtMost, Own, Entries, KeysOf

LEMMA MapTypes ==
    ASSUME TypeOK
    PROVE  storedDaily \in Map /\ pendingDaily \in Map /\ takenDaily \in Map /\ tx \in Map
BY DEF TypeOK, Map

LEMMA EmptyLimits ==
    /\ Entries(NoSlots) = {}
    /\ \A day, dimension : KeysOf(NoSlots, day, dimension) = {}
    /\ Own({}) = {} /\ IsFiniteSet({}) /\ Cardinality({}) = 0
    /\ AtMost({}, KeyLimit)
BY FS_EmptySet, StatsAssumption DEF Entries, NoSlots, KeysOf, Own, AtMost

LEMMA AtMostSubset ==
    ASSUME NEW set, NEW n \in Int, AtMost(set, n), NEW sub \in SUBSET set
    PROVE  AtMost(sub, n) /\ Cardinality(sub) \in Nat
BY FS_Subset, FS_CardinalityType DEF AtMost

LEMMA AtMostAdd ==
    ASSUME NEW set, NEW n \in Int, AtMost(set, n), NEW x
    PROVE  AtMost(set \cup {x}, n + 1) /\ Cardinality(set \cup {x}) \in Nat
<1>1. IsFiniteSet(set) /\ Cardinality(set) \in Nat /\ Cardinality(set) <= n
  BY FS_CardinalityType DEF AtMost
<1>2. /\ IsFiniteSet(set \cup {x})
      /\ Cardinality(set \cup {x}) = IF x \in set THEN Cardinality(set) ELSE Cardinality(set) + 1
  BY <1>1, FS_AddElement
<1>3. QED
  BY <1>1, <1>2 DEF AtMost

LEMMA DayIsDay == \A minute \in Minute : DayOf(minute) \in Day
BY DEF Day

LEMMA InitialStore == Init => StoreInv
<1> SUFFICES ASSUME Init PROVE StoreInv
  OBVIOUS
<1>1. TypeOK
  BY EmptyMap, StatsAssumption, FS_EmptySet
     DEF Init, TypeOK, Minute, NoMinutes, Map, Unknown, NoCounts
<1>2. OnceInv
  <2>1. Remaining = NoSlots
    BY DEF Init, Remaining, NoSlots
  <2>2. QED
    BY <2>1, EmptyMap DEF Init, OnceInv
<1>3. RightInv
  BY EmptyMap DEF Init, RightInv
<1>4. HolderInv
  BY DEF Init, HolderInv
<1>5. SampleInv
  BY DEF Init, SampleInv, NoMinutes
<1>6. LimitInv
  <2>1. \A day \in Day, dimension \in Dimension : counts[<<day, dimension>>] = Unknown
    BY DEF Init, NoCounts, Prefix
  <2>2. Cardinality(Own(Entries(NoSlots))) <= PendingLimit + 1 /\ IsFiniteSet(Entries(NoSlots))
    <3>1. PendingLimit \in Nat
      BY StatsAssumption
    <3>2. Cardinality(Own(Entries(NoSlots))) = 0 /\ IsFiniteSet(Entries(NoSlots))
      BY EmptyLimits
    <3>3. QED
      BY <3>1, <3>2
  <2>3. QED
    BY <2>1, <2>2, EmptyLimits DEF Init, LimitInv
<1>7. QED
  BY <1>1, <1>2, <1>3, <1>4, <1>5, <1>6 DEF StoreInv

-----------------------------------------------------------------------------
(* The operations                                                          *)

\* A fault that changes nothing else, as a poll without an answer.
LEMMA FaultKeeps ==
    ASSUME StoreInv, faults' \in 0 .. MaxFaults,
           UNCHANGED <<now, phase, holder, memory, database, subject, left, flush,
                       closedOn, samples>>
    PROVE  StoreInv'
<1> USE DEF memory, database, flush
<1>1. TypeOK'
  BY DEF StoreInv, TypeOK
<1>2. OnceInv' /\ RightInv'
  BY SameDaily DEF StoreInv, dailyVars
<1>3. HolderInv' /\ SampleInv'
  BY DEF StoreInv, HolderInv, SampleInv
<1>4. LimitInv'
  BY SameLimits DEF StoreInv
<1>5. QED
  BY <1>1, <1>2, <1>3, <1>4 DEF StoreInv

LEMMA TickKeeps == StoreInv /\ Tick => StoreInv'
<1> SUFFICES ASSUME StoreInv, Tick PROVE StoreInv'
  OBVIOUS
<1> USE DEF memory, database, flush
<1>1. TypeOK'
  BY StatsAssumption DEF StoreInv, TypeOK, Tick, Minute
<1>2. OnceInv' /\ RightInv'
  BY SameDaily DEF StoreInv, dailyVars, Tick
<1>3. HolderInv' /\ SampleInv'
  BY DEF StoreInv, HolderInv, SampleInv, Tick
<1>4. LimitInv'
  BY SameLimits DEF StoreInv, Tick
<1>5. QED
  BY <1>1, <1>2, <1>3, <1>4 DEF StoreInv

LEMMA RecordSampleKeeps ==
    ASSUME StoreInv, NEW minute \in Minute, RecordSample(minute)
    PROVE  StoreInv'
<1> USE DEF memory, database, flush
<1>1. \A m \in Minute :
         pendingMinutes[m] \in Nat /\ takenMinutes[m] \in Nat /\ storedMinutes[m] \in Nat
  BY DEF StoreInv, TypeOK
<1>2. samples \in Nat /\ samples' = samples + 1 /\ samples' <= MaxSamples /\ MaxSamples \in Nat
  BY StatsAssumption DEF StoreInv, TypeOK, RecordSample
<1>3. SampleInv'
  BY <1>1, <1>2 DEF StoreInv, TypeOK, SampleInv, RecordSample
<1>4. pendingMinutes' \in [Minute -> 0 .. MaxSamples]
  BY <1>1, <1>2 DEF StoreInv, TypeOK, SampleInv, RecordSample
<1>5. TypeOK'
  BY <1>2, <1>4 DEF StoreInv, TypeOK, RecordSample
<1>6. OnceInv' /\ RightInv'
  BY SameDaily DEF StoreInv, dailyVars, RecordSample
<1>7. HolderInv'
  BY DEF StoreInv, HolderInv, RecordSample
<1>8. LimitInv'
  BY SameLimits DEF StoreInv, RecordSample
<1>9. QED
  BY <1>3, <1>5, <1>6, <1>7, <1>8 DEF StoreInv

LEMMA OnceIntro ==
    ASSUME Once(storedDaily'), Once(pendingDaily'), Once(takenDaily'), Once(tx'),
           Apart(storedDaily', pendingDaily'), Apart(storedDaily', takenDaily'),
           Apart(pendingDaily', takenDaily'), Apart(pendingDaily', tx'),
           Apart(tx', Remaining'),
           holder' = "record" =>
              \A slot \in Slot : slot.dimension \in left' =>
                 /\ storedDaily'[slot][subject'.connection] = 0
                 /\ pendingDaily'[slot][subject'.connection] = 0
    PROVE  OnceInv'
BY DEF OnceInv, Once, Apart

LEMMA RightIntro ==
    ASSUME closedOn' = closedOn,
           Right(storedDaily'), Right(pendingDaily'), Right(takenDaily'), Right(tx'),
           holder' = "record" => subject'.day = closedOn[subject'.connection]
    PROVE  RightInv'
BY DEF RightInv, Right

\* A connection that is recorded now is nowhere yet.
LEMMA RecordClosedKeeps ==
    ASSUME StoreInv, NEW c \in Connection, NEW day \in Day, closedOn[c] = Never,
           RecordClosed(c, day)
    PROVE  StoreInv'
<1> USE DEF memory, database, flush
<1>1. /\ holder = "none" /\ closedOn' = [closedOn EXCEPT ![c] = day]
      /\ UNCHANGED <<now, phase, pendingMinutes, pendingDaily, storedMinutes, storedDaily,
                     takenMinutes, takenDaily, tx, done, counts, samples, faults>>
  BY DEF RecordClosed
<1>2. \/ phase = "open" /\ holder' = "record" /\ left' = Dimension
         /\ subject' = [connection |-> c, day |-> day]
      \/ holder' = "none" /\ UNCHANGED <<left, subject>>
  BY DEF RecordClosed
<1>3. closedOn \in [Connection -> Day \cup {Never}] /\ closedOn'[c] = day
      /\ \A d \in Connection : d # c => closedOn'[d] = closedOn[d]
  BY <1>1 DEF StoreInv, TypeOK
<1>4. \A slot \in Slot : slot.day # Never
  BY NeverAssumption DEF Slot
<1>5. \A slot \in Slot :
         /\ storedDaily[slot][c] = 0 /\ pendingDaily[slot][c] = 0
         /\ takenDaily[slot][c] = 0 /\ tx[slot][c] = 0
  <2>1. \A slot \in Slot :
           /\ storedDaily[slot][c] \in Nat /\ pendingDaily[slot][c] \in Nat
           /\ takenDaily[slot][c] \in Nat /\ tx[slot][c] \in Nat
    BY MapTypes DEF StoreInv, Map, Bag
  <2>2. QED
    BY <1>4, <2>1 DEF StoreInv, RightInv, Right
<1>6. TypeOK'
  BY <1>1, <1>2, <1>3 DEF StoreInv, TypeOK
<1>7. OnceInv'
  <2>1. Remaining' = Remaining
    BY <1>1 DEF Remaining
  <2>2. QED
    BY <1>1, <1>2, <1>5, <2>1, OnceIntro DEF StoreInv, OnceInv
<1>8. RightInv'
  BY <1>1, <1>2, <1>3, <1>5 DEF StoreInv, RightInv, Right
<1>9. HolderInv' /\ SampleInv'
  BY <1>1, <1>2 DEF StoreInv, HolderInv, SampleInv
<1>10. LimitInv'
  BY <1>1, SameLimits DEF StoreInv
<1>11. QED
  BY <1>6, <1>7, <1>8, <1>9, <1>10 DEF StoreInv

LEMMA RecordDimensionKeeps ==
    ASSUME StoreInv, NEW dimension \in Dimension, RecordDimension(dimension)
    PROVE  StoreInv'
<1> USE DEF memory, database, flush
<1> DEFINE c == subject.connection
           slot == PendingSlot(dimension)
<1>1. /\ holder = "record" /\ dimension \in left /\ left' = left \ {dimension}
      /\ pendingDaily' = AddTo(pendingDaily, slot, One(c))
      /\ UNCHANGED <<now, phase, pendingMinutes, storedMinutes, storedDaily,
                     takenMinutes, takenDaily, tx, done, counts, closedOn, samples, faults>>
  BY DEF RecordDimension
<1>2. \/ holder' = "record" /\ subject' = subject
      \/ holder' = "none"
  BY DEF RecordDimension
<1>3. c \in Connection /\ subject.day \in Day /\ KeyOf[c][dimension] \in Key /\ Other \in Key
  BY <1>1, StatsAssumption DEF StoreInv, TypeOK
<1>4. /\ slot \in Slot /\ slot.dimension = dimension /\ slot.day = subject.day
      /\ slot.key \in {KeyOf[c][dimension], Other}
      /\ slot.key # Other => ~ (Cardinality(Entries(pendingDaily)) > PendingLimit)
  BY <1>3 DEF PendingSlot, Slot
<1>5. storedDaily \in Map /\ pendingDaily \in Map /\ takenDaily \in Map /\ tx \in Map
  BY MapTypes DEF StoreInv
<1>6. takenDaily = NoSlots /\ tx = NoSlots /\ done = {}
  BY <1>1 DEF StoreInv, HolderInv
<1>7. One(c) \in Bag /\ \A d \in Connection : One(c)[d] = IF d = c THEN 1 ELSE 0
  BY <1>3, OneValue
<1>8. \A s \in Slot : s.dimension = dimension => storedDaily[s][c] = 0 /\ pendingDaily[s][c] = 0
  BY <1>1 DEF StoreInv, OnceInv
<1> HIDE DEF c, slot
<1>9. /\ pendingDaily' \in Map
      /\ \A s \in Slot, d \in Connection :
            pendingDaily'[s][d] =
               IF s = slot THEN pendingDaily[s][d] + One(c)[d] ELSE pendingDaily[s][d]
  BY <1>1, <1>4, <1>5, <1>7, AddToValue
<1>10. TypeOK'
  <2>1. pendingDaily' \in [Slot -> Bag]
    BY <1>9 DEF Map
  <2>2. QED
    BY <1>1, <1>2, <2>1 DEF StoreInv, TypeOK
<1>11. OnceInv'
  <2>1. \A d \in Connection : One(c)[d] <= 1
    BY <1>7
  <2>2. \A d \in Connection, s \in Slot :
           One(c)[d] > 0 /\ s.dimension = slot.dimension =>
              pendingDaily[s][d] = 0 /\ storedDaily[s][d] = 0
    BY <1>4, <1>7, <1>8
  <2>3. Once(pendingDaily')
    BY <1>1, <1>4, <1>5, <1>7, <2>1, <2>2, OnceAdd DEF StoreInv, OnceInv
  <2>4. Apart(pendingDaily', storedDaily)
    BY <1>1, <1>4, <1>5, <1>7, <2>2, ApartAdd, ApartSymmetric DEF StoreInv, OnceInv
  <2>5. Apart(storedDaily, pendingDaily')
    BY <1>5, <1>9, <2>4, ApartSymmetric
  <2>6. Apart(pendingDaily', NoSlots)
    BY <1>9, EmptyMap
  <2>7. Remaining' = Remaining
    BY <1>1 DEF Remaining
  <2>8. holder' = "record" =>
           \A s \in Slot : s.dimension \in left' =>
              storedDaily[s][subject'.connection] = 0 /\ pendingDaily'[s][subject'.connection] = 0
    <3>1. SUFFICES ASSUME holder' = "record", NEW s \in Slot, s.dimension \in left'
                   PROVE  storedDaily[s][c] = 0 /\ pendingDaily'[s][c] = 0
      BY <1>2 DEF c
    <3>2. s # slot /\ s.dimension \in left
      BY <1>1, <1>4, <3>1
    <3>3. storedDaily[s][c] = 0 /\ pendingDaily[s][c] = 0
      BY <1>1, <3>2 DEF StoreInv, OnceInv, c
    <3>4. QED
      BY <1>3, <1>9, <3>2, <3>3 DEF c
  <2>9. QED
    BY <1>1, <1>6, <2>3, <2>5, <2>6, <2>7, <2>8, OnceIntro DEF StoreInv, OnceInv
<1>12. RightInv'
  <2>1. subject.day = closedOn[c]
    BY <1>1 DEF StoreInv, RightInv, c
  <2>2. \A d \in Connection :
           One(c)[d] > 0 => slot.day = closedOn[d] /\ slot.key \in {KeyOf[d][slot.dimension], Other}
    BY <1>4, <1>7, <2>1 DEF c
  <2>3. Right(pendingDaily')
    BY <1>1, <1>4, <1>5, <1>7, <2>2, RightAdd DEF StoreInv, RightInv
  <2>4. QED
    BY <1>1, <1>2, <2>1, <2>3, RightIntro DEF StoreInv, RightInv, c
<1>13. HolderInv' /\ SampleInv'
  BY <1>1, <1>2 DEF StoreInv, HolderInv, SampleInv
<1>14. LimitInv'
  <2>1. PendingLimit \in Nat
    BY StatsAssumption
  <2>2. Entries(pendingDaily') \subseteq Entries(pendingDaily) \cup {slot}
    <3>1. SUFFICES ASSUME NEW s \in Slot, s # slot PROVE pendingDaily'[s] = pendingDaily[s]
      BY DEF Entries
    <3>2. \A d \in Connection : pendingDaily'[s][d] = pendingDaily[s][d]
      BY <1>9, <3>1
    <3>3. QED
      BY <1>5, <1>9, <3>1, <3>2 DEF Map, Bag
  <2>3. IsFiniteSet(Entries(pendingDaily)) /\ Cardinality(Entries(pendingDaily)) \in Nat
    BY FS_CardinalityType DEF StoreInv, LimitInv
  <2>4. IsFiniteSet(Entries(pendingDaily'))
    <3>1. IsFiniteSet(Entries(pendingDaily) \cup {slot})
      BY <2>3, FS_AddElement
    <3>2. QED
      BY <2>2, <3>1, FS_Subset
  <2>5. Cardinality(Own(Entries(pendingDaily'))) <= PendingLimit + 1
    <3>1. Own(Entries(pendingDaily)) \subseteq Entries(pendingDaily)
      BY DEF Own
    <3>2. IsFiniteSet(Own(Entries(pendingDaily)))
      BY <2>3, <3>1, FS_Subset
    <3>3. CASE slot.key = Other
      <4>1. Own(Entries(pendingDaily')) \subseteq Own(Entries(pendingDaily))
        BY <2>2, <3>3 DEF Own
      <4>2. AtMost(Own(Entries(pendingDaily)), PendingLimit + 1)
        BY <3>2 DEF StoreInv, LimitInv, AtMost
      <4>3. QED
        BY <2>1, <4>1, <4>2, AtMostSubset DEF AtMost
    <3>4. CASE slot.key # Other
      <4>1. AtMost(Entries(pendingDaily), PendingLimit)
        BY <1>4, <2>1, <2>3, <3>4 DEF AtMost
      <4>2. AtMost(Entries(pendingDaily) \cup {slot}, PendingLimit + 1)
        <5>1. PendingLimit \in Int
          BY <2>1
        <5>2. QED
          BY <4>1, <5>1, AtMostAdd
      <4>3. Own(Entries(pendingDaily')) \subseteq Entries(pendingDaily) \cup {slot}
        BY <2>2 DEF Own
      <4>4. QED
        BY <2>1, <4>2, <4>3, AtMostSubset DEF AtMost
    <3>5. QED
      BY <3>3, <3>4
  <2>6. QED
    BY <1>1, <2>4, <2>5 DEF StoreInv, LimitInv, AtMost, Own, Entries, KeysOf
<1>15. QED
  BY <1>10, <1>11, <1>12, <1>13, <1>14 DEF StoreInv

LEMMA TakeKeeps ==
    ASSUME StoreInv, NEW purpose \in {"flush", "close"}, Take(purpose)
    PROVE  StoreInv'
<1> USE DEF memory, database, flush
<1>1. /\ holder = "none" /\ phase = "open" /\ holder' = purpose
      /\ takenMinutes' = pendingMinutes /\ takenDaily' = pendingDaily
      /\ pendingMinutes' = NoMinutes /\ pendingDaily' = NoSlots
      /\ tx' = storedDaily /\ done' = {} /\ counts' = NoCounts
      /\ UNCHANGED <<now, phase, storedMinutes, storedDaily, subject, left, closedOn, samples, faults>>
  BY DEF Take
<1>2. storedDaily \in Map /\ pendingDaily \in Map
  BY MapTypes DEF StoreInv
<1>3. NoMinutes \in [Minute -> 0 .. MaxSamples] /\ NoCounts \in [Prefix -> Nat \cup {Unknown}]
  BY StatsAssumption DEF NoMinutes, NoCounts
<1>4. TypeOK'
  BY <1>1, <1>3, EmptyMap DEF StoreInv, TypeOK, Map
<1>5. OnceInv'
  <2>1. Remaining' = pendingDaily
    BY <1>1, <1>2 DEF Remaining, Map
  <2>2. Once(pendingDaily') /\ Apart(storedDaily, pendingDaily')
    BY <1>1, <1>2, EmptyMap
  <2>3. Apart(pendingDaily', takenDaily') /\ Apart(pendingDaily', tx')
    BY <1>1, <1>2, EmptyMap
  <2>4. QED
    BY <1>1, <2>1, <2>2, <2>3, OnceIntro DEF StoreInv, OnceInv
<1>6. RightInv'
  BY <1>1, EmptyMap, RightIntro DEF StoreInv, RightInv
<1>7. HolderInv'
  BY <1>1 DEF HolderInv
<1>8. SampleInv'
  BY <1>1, <1>3, StatsAssumption DEF StoreInv, TypeOK, SampleInv, NoMinutes
<1>9. LimitInv'
  <2>1. \A day \in Day, dimension \in Dimension : counts'[<<day, dimension>>] = Unknown
    BY <1>1 DEF NoCounts, Prefix
  <2>2. PendingLimit \in Nat
    BY StatsAssumption
  <2>3. /\ IsFiniteSet(Entries(NoSlots))
        /\ Cardinality(Own(Entries(NoSlots))) <= PendingLimit + 1
    <3>1. IsFiniteSet(Entries(NoSlots)) /\ Cardinality(Own(Entries(NoSlots))) = 0
      BY EmptyLimits
    <3>2. QED
      BY <2>2, <3>1
  <2>4. \A day, dimension : KeysOf(tx', day, dimension) = KeysOf(storedDaily, day, dimension)
    BY <1>1 DEF KeysOf, Entries
  <2>5. QED
    BY <1>1, <2>1, <2>3 DEF StoreInv, LimitInv, AtMost, Own, Entries, KeysOf
<1>10. QED
  BY <1>4, <1>5, <1>6, <1>7, <1>8, <1>9 DEF StoreInv

\* What the loop of flushLocked puts under a key was nowhere in the bucket.
LEMMA FlushSlotKeeps ==
    ASSUME StoreInv, NEW slot \in Slot, FlushSlot(slot)
    PROVE  StoreInv'
<1> USE DEF memory, database, flush
<1> DEFINE target == StorageSlot(slot)
<1>1. /\ holder \in {"flush", "close"} /\ slot \notin done
      /\ tx' = AddTo(tx, target, takenDaily[slot]) /\ counts' = CountsAfter(slot)
      /\ done' = done \cup {slot}
      /\ UNCHANGED <<now, phase, holder, pendingMinutes, pendingDaily, storedMinutes,
                     storedDaily, subject, left, takenMinutes, takenDaily, closedOn,
                     samples, faults>>
  BY DEF FlushSlot, Put
<1>2. storedDaily \in Map /\ pendingDaily \in Map /\ takenDaily \in Map /\ tx \in Map
  BY MapTypes DEF StoreInv
<1>3. /\ target \in Slot /\ target.day = slot.day /\ target.dimension = slot.dimension
      /\ target.key \in {slot.key, Other}
  BY StatsAssumption DEF StorageSlot, Slot
<1>4. slot.day \in Day /\ slot.dimension \in Dimension /\ takenDaily[slot] \in Bag
  BY <1>2 DEF Slot, Map
<1>5. pendingDaily = NoSlots
  BY <1>1 DEF StoreInv, HolderInv
<1>6. /\ tx' \in Map
      /\ \A s \in Slot, c \in Connection :
            tx'[s][c] = IF s = target THEN tx[s][c] + takenDaily[slot][c] ELSE tx[s][c]
  BY <1>1, <1>2, <1>3, <1>4, AddToValue
<1>7. OnceInv'
  <2>1. \A s \in Slot, c \in Connection :
           takenDaily[s][c] \in Nat /\ tx[s][c] \in Nat
    BY <1>2 DEF Map, Bag
  <2>2. \A c \in Connection : takenDaily[slot][c] <= 1
    BY <2>1 DEF StoreInv, OnceInv, Once
  <2>3. Remaining[slot] = takenDaily[slot]
    BY <1>1 DEF Remaining
  <2>4. \A c \in Connection, s \in Slot :
           takenDaily[slot][c] > 0 /\ s.dimension = target.dimension => tx[s][c] = 0
    BY <1>3, <2>1, <2>3 DEF StoreInv, OnceInv, Apart
  <2>5. Once(tx')
    BY <1>1, <1>2, <1>3, <1>4, <2>2, <2>4, OnceAdd DEF StoreInv, OnceInv
  <2>6. Remaining \in Map /\ Remaining' \in Map /\ Within(Remaining', Remaining)
        /\ Remaining'[slot] = Nothing
    BY <1>1, <1>2, EmptyMap DEF Remaining, Map, Within
  <2>7. Apart(tx, Remaining')
    BY <1>2, <2>6, WithinKeeps DEF StoreInv, OnceInv
  <2>8. \A c \in Connection, s \in Slot :
           takenDaily[slot][c] > 0 /\ s.dimension = target.dimension => Remaining'[s][c] = 0
    <3>1. SUFFICES ASSUME NEW c \in Connection, NEW s \in Slot, takenDaily[slot][c] > 0,
                          s.dimension = slot.dimension
                   PROVE  Remaining'[s][c] = 0
      BY <1>3
    <3>2. CASE s = slot
      BY <2>6, <3>2, EmptyMap
    <3>3. CASE s # slot
      <4>1. takenDaily[s][c] = 0
        BY <2>1, <3>1, <3>3 DEF StoreInv, OnceInv, Once
      <4>2. QED
        BY <1>1, <4>1, EmptyMap DEF Remaining
    <3>4. QED
      BY <3>2, <3>3
  <2>9. Apart(tx', Remaining')
    BY <1>1, <1>2, <1>3, <1>4, <2>6, <2>7, <2>8, ApartAdd
  <2>10. Apart(pendingDaily, tx')
    BY <1>5, <1>6, EmptyMap
  <2>11. QED
    BY <1>1, <2>5, <2>9, <2>10, OnceIntro DEF StoreInv, OnceInv
<1>8. RightInv'
  <2>1. \A c \in Connection :
           takenDaily[slot][c] > 0 =>
              target.day = closedOn[c] /\ target.key \in {KeyOf[c][target.dimension], Other}
    BY <1>3 DEF StoreInv, RightInv, Right
  <2>2. Right(tx')
    BY <1>1, <1>2, <1>3, <1>4, <2>1, RightAdd DEF StoreInv, RightInv
  <2>3. QED
    BY <1>1, <2>2, RightIntro DEF StoreInv, RightInv
<1>9. HolderInv' /\ SampleInv'
  BY <1>1 DEF StoreInv, HolderInv, SampleInv
<1> DEFINE p == <<slot.day, slot.dimension>>
           keys == KeysOf(tx, slot.day, slot.dimension)
<1>10. KeyLimit \in Nat
  BY StatsAssumption
<1>11. AtMost(Own(keys), KeyLimit) /\ IsFiniteSet(keys)
  <2>1. AtMost(Own(keys), KeyLimit)
    BY <1>4 DEF StoreInv, LimitInv
  <2>2. keys \subseteq Own(keys) \cup {[day |-> slot.day, dimension |-> slot.dimension, key |-> Other]}
    BY DEF KeysOf, Entries, Own, Slot
  <2>3. IsFiniteSet(Own(keys) \cup {[day |-> slot.day, dimension |-> slot.dimension, key |-> Other]})
    BY <2>1, FS_AddElement DEF AtMost
  <2>4. QED
    BY <2>1, <2>2, <2>3, FS_Subset
<1>12. CountOf(slot) \in Nat /\ AtMost(Own(keys), CountOf(slot)) /\ p \in Prefix
  <2>1. p \in Prefix /\ counts[p] \in Nat \cup {Unknown}
    BY <1>4 DEF StoreInv, TypeOK, Prefix
  <2>2. CASE counts[p] # Unknown
    BY <1>4, <2>1, <2>2 DEF StoreInv, LimitInv, CountOf
  <2>3. CASE counts[p] = Unknown
    <3>1. CountOf(slot) = Cardinality(keys) /\ Cardinality(keys) \in Nat
      BY <1>11, <2>3, FS_CardinalityType DEF CountOf
    <3>2. AtMost(keys, Cardinality(keys)) /\ Own(keys) \subseteq keys
      BY <1>11, <3>1 DEF AtMost, Own
    <3>3. QED
      BY <2>1, <3>1, <3>2, AtMostSubset
  <2>4. QED
    BY <2>2, <2>3
<1>13. counts' \in [Prefix -> Nat \cup {Unknown}]
       /\ \A q \in Prefix : q # p => counts'[q] = counts[q]
  BY <1>1, <1>12 DEF StoreInv, TypeOK, CountsAfter
<1>14. TypeOK'
  <2>1. tx' \in [Slot -> Bag]
    BY <1>6 DEF Map
  <2>2. QED
    BY <1>1, <1>13, <2>1 DEF StoreInv, TypeOK
<1>15. \A s \in Slot : s # target => tx'[s] = tx[s]
  <2>1. SUFFICES ASSUME NEW s \in Slot, s # target PROVE tx'[s] = tx[s]
    OBVIOUS
  <2>2. \A c \in Connection : tx'[s][c] = tx[s][c]
    BY <1>6, <2>1
  <2>3. QED
    BY <1>2, <1>6, <2>2 DEF Map, Bag
<1>16. \A day \in Day, dimension \in Dimension :
          day # slot.day \/ dimension # slot.dimension =>
             KeysOf(tx', day, dimension) = KeysOf(tx, day, dimension)
  BY <1>3, <1>15 DEF KeysOf, Entries
<1> DEFINE newKeys == KeysOf(tx', slot.day, slot.dimension)
<1>17. newKeys \subseteq keys \cup {target}
  BY <1>15 DEF KeysOf, Entries
<1>18. AtMost(Own(newKeys), KeyLimit)
       /\ (counts'[p] # Unknown => AtMost(Own(newKeys), counts'[p]))
  <2>1. CASE IsNew(slot) /\ CountOf(slot) < KeyLimit
    <3>1. counts'[p] = CountOf(slot) + 1
      BY <1>1, <1>12, <2>1 DEF CountsAfter, StoreInv, TypeOK
    <3>2. Own(newKeys) \subseteq Own(keys) \cup {target}
      BY <1>17 DEF Own
    <3>3. CountOf(slot) \in Int /\ CountOf(slot) + 1 \in Int
      BY <1>12
    <3>4. AtMost(Own(keys) \cup {target}, CountOf(slot) + 1)
      BY <1>12, <3>3, AtMostAdd
    <3>5. AtMost(Own(newKeys), CountOf(slot) + 1) /\ Cardinality(Own(newKeys)) \in Nat
      BY <3>2, <3>3, <3>4, AtMostSubset
    <3>6. QED
      BY <1>10, <1>12, <2>1, <3>1, <3>5 DEF AtMost
  <2>2. CASE ~ (IsNew(slot) /\ CountOf(slot) < KeyLimit)
    <3>1. counts' = counts
      BY <1>1, <2>2 DEF CountsAfter
    <3>2. target.key = Other \/ target \in keys
      BY <1>3, <1>10, <1>12, <2>2 DEF StorageSlot, IsNew, KeysOf, Entries
    <3>3. Own(newKeys) \subseteq Own(keys)
      BY <1>17, <3>2 DEF Own
    <3>4. AtMost(Own(newKeys), KeyLimit)
      BY <1>10, <1>11, <3>3, AtMostSubset
    <3>5. ASSUME counts[p] # Unknown PROVE AtMost(Own(newKeys), counts[p])
      <4>1. counts[p] \in Int /\ AtMost(Own(keys), counts[p])
        BY <1>4, <1>12, <3>5 DEF StoreInv, TypeOK, LimitInv
      <4>2. QED
        BY <3>3, <4>1, AtMostSubset
    <3>6. QED
      BY <3>1, <3>4, <3>5
  <2>3. QED
    BY <2>1, <2>2
<1>19. LimitInv'
  <2>1. SUFFICES ASSUME NEW day \in Day, NEW dimension \in Dimension
                 PROVE  /\ AtMost(Own(KeysOf(tx', day, dimension)), KeyLimit)
                        /\ counts'[<<day, dimension>>] # Unknown =>
                              AtMost(Own(KeysOf(tx', day, dimension)), counts'[<<day, dimension>>])
    BY <1>1 DEF StoreInv, LimitInv, AtMost, Own, Entries, KeysOf
  <2>2. CASE day = slot.day /\ dimension = slot.dimension
    BY <1>18, <2>2
  <2>3. CASE day # slot.day \/ dimension # slot.dimension
    <3>1. counts'[<<day, dimension>>] = counts[<<day, dimension>>]
      BY <1>13, <2>3 DEF Prefix
    <3>2. KeysOf(tx', day, dimension) = KeysOf(tx, day, dimension)
      BY <1>16, <2>3
    <3>3. QED
      BY <3>1, <3>2 DEF StoreInv, LimitInv
  <2>4. QED
    BY <2>2, <2>3
<1>20. QED
  BY <1>7, <1>8, <1>9, <1>14, <1>19 DEF StoreInv

-----------------------------------------------------------------------------
(* The end of a flush, and the operations that drop what there is.         *)

\* Maps that are empty after a step satisfy their part of the limits.
LEMMA EmptyCounts ==
    ASSUME counts' = NoCounts, tx' = NoSlots, takenDaily' = NoSlots,
           IsFiniteSet(Entries(pendingDaily')),
           Cardinality(Own(Entries(pendingDaily'))) <= PendingLimit + 1,
           \A day \in Day, dimension \in Dimension :
              AtMost(Own(KeysOf(storedDaily', day, dimension)), KeyLimit)
    PROVE  LimitInv'
<1>1. \A day \in Day, dimension \in Dimension : counts'[<<day, dimension>>] = Unknown
  BY DEF NoCounts, Prefix
<1>2. IsFiniteSet(Entries(NoSlots)) /\ Cardinality(Own(Entries(NoSlots))) <= PendingLimit + 1
  <2>1. PendingLimit \in Nat
    BY StatsAssumption
  <2>2. IsFiniteSet(Entries(NoSlots)) /\ Cardinality(Own(Entries(NoSlots))) = 0
    BY EmptyLimits
  <2>3. QED
    BY <2>1, <2>2
<1>3. \A day \in Day, dimension \in Dimension : AtMost(Own(KeysOf(NoSlots, day, dimension)), KeyLimit)
  BY EmptyLimits
<1>4. QED
  BY <1>1, <1>2, <1>3 DEF LimitInv, AtMost, Own, Entries, KeysOf

LEMMA CommitKeeps == StoreInv /\ Commit => StoreInv'
<1> SUFFICES ASSUME StoreInv, Commit PROVE StoreInv'
  OBVIOUS
<1> USE DEF memory, database, flush
<1>1. /\ holder \in {"flush", "close"} /\ holder' = "none"
      /\ takenMinutes' = NoMinutes /\ takenDaily' = NoSlots /\ tx' = NoSlots
      /\ done' = {} /\ counts' = NoCounts
      /\ phase' \in {phase, "flushed"}
      /\ UNCHANGED <<now, pendingMinutes, pendingDaily, subject, left, closedOn, samples, faults>>
  BY DEF Commit, EndFlush, NoFlush
<1>2. PICK keptMinutes \in SUBSET ExpiredMinutes :
         storedMinutes' = [minute \in Minute |->
            IF minute \in ExpiredMinutes \ keptMinutes THEN 0 ELSE AfterMinutes[minute]]
  BY DEF Commit
<1>3. PICK kept \in SUBSET (Entries(tx) \cap ExpiredSlots) :
         storedDaily' = [slot \in Slot |->
            IF slot \in ExpiredSlots \ kept THEN Nothing ELSE tx[slot]]
  BY DEF Commit
<1>4. tx \in Map /\ pendingDaily = NoSlots
  BY <1>1, MapTypes DEF StoreInv, HolderInv
<1>5. storedDaily' \in Map /\ Within(storedDaily', tx)
  BY <1>3, <1>4, EmptyMap DEF Map, Within
<1>6. \A minute \in Minute :
         AfterMinutes[minute] \in {takenMinutes[minute], storedMinutes[minute]}
  BY DEF AfterMinutes
<1>7. storedMinutes' \in [Minute -> 0 .. MaxSamples] /\ NoMinutes \in [Minute -> 0 .. MaxSamples]
  BY <1>2, <1>6, StatsAssumption DEF StoreInv, TypeOK, NoMinutes
<1>8. TypeOK'
  <2>1. storedDaily' \in [Slot -> Bag] /\ NoSlots \in [Slot -> Bag]
    BY <1>5, EmptyMap DEF Map, NoSlots
  <2>2. NoCounts \in [Prefix -> Nat \cup {Unknown}]
    BY DEF NoCounts
  <2>3. QED
    BY <1>1, <1>7, <2>1, <2>2 DEF StoreInv, TypeOK
<1>9. OnceInv'
  <2>1. Once(storedDaily')
    BY <1>4, <1>5, WithinKeeps DEF StoreInv, OnceInv
  <2>2. Remaining' \in Map
    BY <1>1, EmptyMap DEF Remaining, Map
  <2>3. QED
    BY <1>1, <1>4, <1>5, <2>1, <2>2, EmptyMap, OnceIntro
<1>10. RightInv'
  <2>1. Right(storedDaily')
    BY <1>4, <1>5, WithinKeeps DEF StoreInv, RightInv
  <2>2. QED
    BY <1>1, <1>4, <2>1, EmptyMap, RightIntro
<1>11. HolderInv'
  BY <1>1 DEF HolderInv
<1>12. SampleInv'
  BY <1>1, <1>2, <1>6, <1>7 DEF StoreInv, TypeOK, SampleInv, NoMinutes
<1>13. LimitInv'
  <2>1. \A day, dimension :
           Own(KeysOf(storedDaily', day, dimension)) \subseteq Own(KeysOf(tx, day, dimension))
    BY <1>5 DEF Within, Own, KeysOf, Entries
  <2>2. KeyLimit \in Int
    BY StatsAssumption
  <2>3. \A day \in Day, dimension \in Dimension :
           AtMost(Own(KeysOf(storedDaily', day, dimension)), KeyLimit)
    BY <2>1, <2>2, AtMostSubset DEF StoreInv, LimitInv
  <2>4. IsFiniteSet(Entries(pendingDaily'))
        /\ Cardinality(Own(Entries(pendingDaily'))) <= PendingLimit + 1
    BY <1>1 DEF StoreInv, LimitInv
  <2>5. QED
    BY <1>1, <2>3, <2>4, EmptyCounts
<1>14. QED
  BY <1>8, <1>9, <1>10, <1>11, <1>12, <1>13 DEF StoreInv

\* Nothing was pending beside what is put back.
LEMMA FailKeeps == StoreInv /\ Fail => StoreInv'
<1> SUFFICES ASSUME StoreInv, Fail PROVE StoreInv'
  OBVIOUS
<1> USE DEF memory, database, flush
<1>1. /\ holder \in {"flush", "close"} /\ holder' = "none"
      /\ takenMinutes' = NoMinutes /\ takenDaily' = NoSlots /\ tx' = NoSlots
      /\ done' = {} /\ counts' = NoCounts
      /\ phase' \in {phase, "unflushed"} /\ faults < MaxFaults /\ faults' = faults + 1
      /\ UNCHANGED <<now, storedMinutes, storedDaily, subject, left, closedOn, samples>>
  BY DEF Fail, Fault, EndFlush, NoFlush
<1>2. /\ storedDaily \in Map /\ takenDaily \in Map /\ takenMinutes \in [Minute -> Nat]
      /\ pendingDaily = NoSlots /\ pendingMinutes = NoMinutes
  BY <1>1, MapTypes DEF StoreInv, HolderInv, TypeOK
<1>3. pendingMinutes' = takenMinutes
  BY <1>2 DEF Fail, MergeBack, NoMinutes
<1>4. pendingDaily' = takenDaily
  <2>1. \A slot \in Slot : Plus(pendingDaily[slot], takenDaily[slot]) = takenDaily[slot]
    <3>1. SUFFICES ASSUME NEW slot \in Slot
                   PROVE  Plus(NoSlots[slot], takenDaily[slot]) = takenDaily[slot]
      BY <1>2
    <3>2. NoSlots[slot] \in Bag /\ takenDaily[slot] \in Bag
          /\ \A c \in Connection : NoSlots[slot][c] = 0
      BY <1>2, EmptyMap DEF Map
    <3>3. QED
      BY <3>2 DEF Plus, Bag
  <2>2. QED
    BY <1>2, <2>1 DEF Fail, MergeBack, Map
<1>5. TypeOK'
  <2>1. NoSlots \in [Slot -> Bag] /\ NoCounts \in [Prefix -> Nat \cup {Unknown}]
    BY EmptyMap DEF NoSlots, NoCounts
  <2>2. NoMinutes \in [Minute -> 0 .. MaxSamples] /\ faults' \in 0 .. MaxFaults
    BY <1>1, StatsAssumption DEF NoMinutes, StoreInv, TypeOK
  <2>3. QED
    BY <1>1, <1>3, <1>4, <2>1, <2>2 DEF StoreInv, TypeOK
<1>6. OnceInv'
  <2>1. Remaining' \in Map
    BY <1>1, EmptyMap DEF Remaining, Map
  <2>2. Once(pendingDaily') /\ Apart(storedDaily', pendingDaily')
    BY <1>1, <1>4 DEF StoreInv, OnceInv
  <2>3. QED
    BY <1>1, <1>2, <1>4, <2>1, <2>2, EmptyMap, OnceIntro DEF StoreInv, OnceInv
<1>7. RightInv'
  BY <1>1, <1>4, EmptyMap, RightIntro DEF StoreInv, RightInv
<1>8. HolderInv'
  BY <1>1 DEF HolderInv
<1>9. SampleInv'
  BY <1>1, <1>2, <1>3, StatsAssumption DEF StoreInv, TypeOK, SampleInv, NoMinutes
<1>10. LimitInv'
  BY <1>1, <1>4, EmptyCounts DEF StoreInv, LimitInv
<1>11. QED
  BY <1>5, <1>6, <1>7, <1>8, <1>9, <1>10 DEF StoreInv

\* An empty memory and an empty or unchanged database.
LEMMA DroppedKeeps ==
    ASSUME StoreInv, holder' = "none", phase' \in {phase, "down"},
           pendingMinutes' = NoMinutes, pendingDaily' = NoSlots,
           takenMinutes' = NoMinutes, takenDaily' = NoSlots, tx' = NoSlots, done' = {},
           counts' = NoCounts \/ (counts' = counts /\ tx = NoSlots),
           \/ UNCHANGED <<storedMinutes, storedDaily>>
           \/ storedMinutes' = NoMinutes /\ storedDaily' = NoSlots,
           left' \subseteq left, faults' \in 0 .. MaxFaults,
           UNCHANGED <<now, closedOn, samples>>
    PROVE  StoreInv'
<1>1. storedDaily \in Map /\ storedDaily' \in {storedDaily, NoSlots} /\ storedDaily' \in Map
  BY MapTypes, EmptyMap DEF StoreInv
<1>2. NoMinutes \in [Minute -> 0 .. MaxSamples] /\ NoCounts \in [Prefix -> Nat \cup {Unknown}]
  BY StatsAssumption DEF NoMinutes, NoCounts
<1>3. TypeOK'
  <2>1. NoSlots \in [Slot -> Bag]
    BY EmptyMap DEF NoSlots
  <2>2. QED
    BY <1>2, <2>1 DEF StoreInv, TypeOK
<1>4. OnceInv'
  <2>1. Remaining' \in Map
    BY EmptyMap DEF Remaining, Map
  <2>2. QED
    BY <1>1, <2>1, EmptyMap, OnceIntro DEF StoreInv, OnceInv
<1>5. RightInv'
  BY <1>1, EmptyMap, RightIntro DEF StoreInv, RightInv
<1>6. HolderInv'
  BY DEF HolderInv
<1>7. SampleInv'
  BY <1>2, StatsAssumption DEF StoreInv, TypeOK, SampleInv, NoMinutes
<1>8. LimitInv'
  <2>1. PendingLimit \in Nat
    BY StatsAssumption
  <2>2. IsFiniteSet(Entries(NoSlots)) /\ Cardinality(Own(Entries(NoSlots))) <= PendingLimit + 1
    <3>1. IsFiniteSet(Entries(NoSlots)) /\ Cardinality(Own(Entries(NoSlots))) = 0
      BY EmptyLimits
    <3>2. QED
      BY <2>1, <3>1
  <2>3. IsFiniteSet(Entries(pendingDaily'))
        /\ Cardinality(Own(Entries(pendingDaily'))) <= PendingLimit + 1
    BY <2>2
  <2>4. \A day \in Day, dimension \in Dimension :
           AtMost(Own(KeysOf(storedDaily', day, dimension)), KeyLimit)
    BY <1>1, EmptyLimits DEF StoreInv, LimitInv
  <2>5. CASE counts' = NoCounts
    BY <2>3, <2>4, <2>5, EmptyCounts
  <2>6. CASE counts' = counts /\ tx = NoSlots
    <3>1. \A day \in Day, dimension \in Dimension :
             /\ AtMost(Own(KeysOf(tx', day, dimension)), KeyLimit)
             /\ counts'[<<day, dimension>>] # Unknown =>
                   AtMost(Own(KeysOf(tx', day, dimension)), counts'[<<day, dimension>>])
      BY <2>6 DEF StoreInv, LimitInv
    <3>2. QED
      BY <2>2, <2>3, <2>4, <3>1 DEF LimitInv, AtMost, Own, Entries, KeysOf
  <2>7. QED
    BY <2>5, <2>6
<1>9. QED
  BY <1>3, <1>4, <1>5, <1>6, <1>7, <1>8 DEF StoreInv

LEMMA ClearKeeps == StoreInv /\ Clear => StoreInv'
<1> SUFFICES ASSUME StoreInv, Clear PROVE StoreInv'
  OBVIOUS
<1>1. /\ holder' = "none" /\ phase' = phase /\ counts' = counts /\ left' = left
      /\ takenMinutes' = NoMinutes /\ takenDaily' = NoSlots /\ tx' = NoSlots /\ tx = NoSlots
      /\ done' = {}
  BY DEF StoreInv, HolderInv, Clear, flush
<1>2. faults' \in 0 .. MaxFaults
  BY StatsAssumption DEF StoreInv, TypeOK, Clear, Fault
<1>3. QED
  BY <1>1, <1>2, DroppedKeeps DEF Clear, database

LEMMA GoneKeeps ==
    ASSUME StoreInv, Gone, faults' \in 0 .. MaxFaults
    PROVE  StoreInv'
<1>1. left' \subseteq left
  BY DEF Gone
<1>2. QED
  BY <1>1, DroppedKeeps DEF Gone, NoFlush, database

LEMMA CrashKeeps == StoreInv /\ (Crash \/ Exit) => StoreInv'
<1> SUFFICES ASSUME StoreInv, Crash \/ Exit PROVE StoreInv'
  OBVIOUS
<1>1. Gone /\ faults' \in 0 .. MaxFaults
  BY StatsAssumption DEF StoreInv, TypeOK, Crash, Exit, Fault
<1>2. QED
  BY <1>1, GoneKeeps

LEMMA OpenKeeps == StoreInv /\ Open => StoreInv'
<1> SUFFICES ASSUME StoreInv, Open PROVE StoreInv'
  OBVIOUS
<1> USE DEF memory, database, flush
<1>1. TypeOK'
  BY DEF StoreInv, TypeOK, Open
<1>2. OnceInv' /\ RightInv'
  BY SameDaily DEF StoreInv, dailyVars, Open
<1>3. HolderInv' /\ SampleInv'
  BY DEF StoreInv, HolderInv, SampleInv, Open
<1>4. LimitInv'
  BY SameLimits DEF StoreInv, Open
<1>5. QED
  BY <1>1, <1>2, <1>3, <1>4 DEF StoreInv

LEMMA CriticalKeeps == StoreInv /\ Critical => StoreInv'
<1> SUFFICES ASSUME StoreInv, Critical PROVE StoreInv'
  OBVIOUS
<1>1. CASE \E dimension \in left : RecordDimension(dimension)
  BY <1>1, RecordDimensionKeeps DEF StoreInv, TypeOK
<1>2. CASE \E slot \in Entries(takenDaily) : FlushSlot(slot)
  BY <1>2, FlushSlotKeeps DEF Entries
<1>3. CASE Commit
  BY <1>3, CommitKeeps
<1>4. QED
  BY <1>1, <1>2, <1>3 DEF Critical

LEMMA FlushKeeps == StoreInv /\ (Flush \/ Close) => StoreInv'
BY TakeKeeps DEF Flush, Close

LEMMA CallKeeps == StoreInv /\ Call => StoreInv'
<1> SUFFICES ASSUME StoreInv, Call PROVE StoreInv'
  OBVIOUS
<1>1. now \in Minute /\ DayOf(now) \in Day
  BY DayIsDay DEF StoreInv, TypeOK
<1>2. CASE RecordSample(now)
  BY <1>1, <1>2, RecordSampleKeeps
<1>3. CASE \E c \in Connection : closedOn[c] = Never /\ RecordClosed(c, DayOf(now))
  BY <1>1, <1>3, RecordClosedKeeps
<1>4. CASE Close \/ Clear
  BY <1>4, FlushKeeps, ClearKeeps
<1>5. QED
  BY <1>2, <1>3, <1>4 DEF Call

LEMMA StoreSteps == StoreInv /\ [Next]_statsVars => StoreInv'
<1> SUFFICES ASSUME StoreInv, [Next]_statsVars PROVE StoreInv'
  OBVIOUS
<1>1. CASE UNCHANGED statsVars
  <2>1. faults' \in 0 .. MaxFaults
    BY <1>1 DEF StoreInv, TypeOK, statsVars
  <2>2. QED
    BY <1>1, <2>1, FaultKeeps DEF statsVars
<1>2. CASE Tick \/ Critical \/ Call
  BY <1>2, TickKeeps, CriticalKeeps, CallKeeps
<1>3. CASE Flush \/ Fail \/ Crash \/ Exit \/ Open
  BY <1>3, FlushKeeps, FailKeeps, CrashKeeps, OpenKeeps
<1>4. QED
  BY <1>1, <1>2, <1>3 DEF Next

-----------------------------------------------------------------------------
(* What the invariant means for the reports                                *)

LEMMA ReportIsOnePlace ==
    ASSUME StoreInv, NEW c \in Connection, NEW slot \in Slot
    PROVE  /\ Aggregates(slot)[c] =
                 storedDaily[slot][c] + pendingDaily[slot][c] + takenDaily[slot][c]
           /\ storedDaily[slot][c] \in Nat /\ pendingDaily[slot][c] \in Nat
           /\ takenDaily[slot][c] \in Nat
<1>1. storedDaily[slot] \in Bag /\ pendingDaily[slot] \in Bag /\ takenDaily[slot] \in Bag
  BY MapTypes DEF StoreInv, Map
<1>2. Plus(pendingDaily[slot], takenDaily[slot]) \in Bag
      /\ Plus(pendingDaily[slot], takenDaily[slot])[c] = pendingDaily[slot][c] + takenDaily[slot][c]
  BY <1>1, PlusValue
<1>3. Aggregates(slot)[c] = storedDaily[slot][c] + (pendingDaily[slot][c] + takenDaily[slot][c])
  BY <1>1, <1>2, PlusValue DEF Aggregates
<1>4. QED
  BY <1>1, <1>3 DEF Bag

LEMMA StoreReportsOnce == StoreInv => ReportedOnce
<1> SUFFICES ASSUME StoreInv, NEW c \in Connection, NEW dimension \in Dimension
             PROVE  /\ Cardinality(Reported(c, dimension)) <= 1
                    /\ \A slot \in Reported(c, dimension) : Aggregates(slot)[c] = 1
  BY DEF ReportedOnce
<1>1. \A slot \in Reported(c, dimension), another \in Reported(c, dimension) :
         Aggregates(slot)[c] = 1 /\ slot = another
  <2>1. SUFFICES ASSUME NEW slot \in Slot, NEW another \in Slot,
                        slot.dimension = another.dimension,
                        Aggregates(slot)[c] > 0, Aggregates(another)[c] > 0
                 PROVE  Aggregates(slot)[c] = 1 /\ slot = another
    BY DEF Reported
  <2>2. OnceInv
    BY DEF StoreInv
  <2>3. /\ Aggregates(slot)[c] =
              storedDaily[slot][c] + pendingDaily[slot][c] + takenDaily[slot][c]
        /\ storedDaily[slot][c] \in Nat /\ pendingDaily[slot][c] \in Nat
        /\ takenDaily[slot][c] \in Nat
    BY ReportIsOnePlace
  <2>4. /\ Aggregates(another)[c] =
              storedDaily[another][c] + pendingDaily[another][c] + takenDaily[another][c]
        /\ storedDaily[another][c] \in Nat /\ pendingDaily[another][c] \in Nat
        /\ takenDaily[another][c] \in Nat
    BY ReportIsOnePlace
  <2>5. CASE storedDaily[slot][c] > 0
    BY <2>1, <2>2, <2>3, <2>4, <2>5 DEF OnceInv, Once, Apart
  <2>6. CASE pendingDaily[slot][c] > 0
    BY <2>1, <2>2, <2>3, <2>4, <2>6 DEF OnceInv, Once, Apart
  <2>7. CASE takenDaily[slot][c] > 0
    <3>1. Apart(takenDaily, storedDaily) /\ Apart(takenDaily, pendingDaily)
      BY <2>2, MapTypes, ApartSymmetric DEF StoreInv, OnceInv
    <3>2. /\ storedDaily[slot][c] = 0 /\ pendingDaily[slot][c] = 0
          /\ storedDaily[another][c] = 0 /\ pendingDaily[another][c] = 0
      BY <2>1, <2>7, <3>1 DEF Apart
    <3>3. QED
      BY <2>1, <2>2, <2>3, <2>4, <2>7, <3>2 DEF OnceInv, Once
  <2>8. QED
    BY <2>1, <2>3, <2>5, <2>6, <2>7
<1>2. CASE Reported(c, dimension) = {}
  BY <1>2, FS_EmptySet
<1>3. CASE Reported(c, dimension) # {}
  <2>1. PICK slot \in Reported(c, dimension) : TRUE
    BY <1>3
  <2>2. Reported(c, dimension) = {slot}
    BY <1>1, <2>1
  <2>3. Cardinality(Reported(c, dimension)) = 1
    BY <2>2, FS_Singleton
  <2>4. QED
    BY <1>1, <2>3
<1>4. QED
  BY <1>2, <1>3

LEMMA StoreReportsRight == StoreInv => ReportedRight
<1> SUFFICES ASSUME StoreInv, NEW c \in Connection, NEW dimension \in Dimension,
                    NEW slot \in Reported(c, dimension)
             PROVE  slot.day = closedOn[c] /\ slot.key \in {KeyOf[c][dimension], Other}
  BY DEF ReportedRight
<1>1. slot \in Slot /\ slot.dimension = dimension /\ Aggregates(slot)[c] > 0
  BY DEF Reported
<1>2. storedDaily[slot][c] > 0 \/ pendingDaily[slot][c] > 0 \/ takenDaily[slot][c] > 0
  BY <1>1, ReportIsOnePlace
<1>3. QED
  BY <1>1, <1>2 DEF StoreInv, RightInv, Right

LEMMA StoreIsBounded == StoreInv => Bounded
<1> SUFFICES ASSUME StoreInv PROVE Bounded
  OBVIOUS
<1>1. ASSUME NEW day \in Day, NEW dimension \in Dimension
      PROVE  Cardinality(KeysOf(storedDaily, day, dimension)) <= KeyLimit + 1
  <2> DEFINE keys == KeysOf(storedDaily, day, dimension)
             rest == [day |-> day, dimension |-> dimension, key |-> Other]
  <2>1. AtMost(Own(keys), KeyLimit) /\ KeyLimit \in Int
    <3>1. AtMost(Own(keys), KeyLimit)
      BY <1>1 DEF StoreInv, LimitInv
    <3>2. KeyLimit \in Int
      BY StatsAssumption
    <3>3. QED
      BY <3>1, <3>2
  <2>2. keys \subseteq Own(keys) \cup {rest}
    BY DEF KeysOf, Entries, Own, Slot
  <2>3. AtMost(Own(keys) \cup {rest}, KeyLimit + 1)
    BY <2>1, AtMostAdd
  <2>4. QED
    BY <2>1, <2>2, <2>3, AtMostSubset DEF AtMost
<1>2. {slot \in Entries(pendingDaily) : slot.key # Other} = Own(Entries(pendingDaily))
  BY DEF Own
<1>3. QED
  BY <1>1, <1>2 DEF StoreInv, LimitInv, Bounded

-----------------------------------------------------------------------------
(* Nothing is lost                                                         *)

\* Everything a caller can make the store do, a failing poll of the collector,
\* which counts a fault, included.
storeVars == <<now, phase, holder, memory, database, subject, left, flush, closedOn, samples>>

Operation ==
    \/ Tick \/ Critical \/ Flush \/ Close \/ Clear \/ Fail \/ Crash \/ Exit \/ Open
    \/ \E minute \in Minute : RecordSample(minute)
    \/ \E c \in Connection, day \in Day : closedOn[c] = Never /\ RecordClosed(c, day)
    \/ UNCHANGED storeVars

LEMMA NextIsOperation == StoreInv /\ [Next]_statsVars => Operation
<1> SUFFICES ASSUME StoreInv, [Next]_statsVars PROVE Operation
  OBVIOUS
<1>1. now \in Minute /\ DayOf(now) \in Day
  BY DayIsDay DEF StoreInv, TypeOK
<1>2. UNCHANGED statsVars => UNCHANGED storeVars
  BY DEF statsVars, storeVars
<1>3. QED
  BY <1>1, <1>2 DEF Operation, Next, Call

LEMMA KeepSteps == StoreInv /\ KeepInv /\ Operation => KeepInv'
<1> SUFFICES ASSUME StoreInv, KeepInv, Operation PROVE KeepInv'
  OBVIOUS
<1> USE DEF memory, database, flush
<1>1. CASE UNCHANGED storeVars
  BY <1>1 DEF storeVars, KeepInv
<1>2. CASE Tick \/ Open
  BY <1>2 DEF Tick, Open, KeepInv
<1>3. CASE \/ \E minute \in Minute : RecordSample(minute)
           \/ \E c \in Connection, day \in Day : RecordClosed(c, day)
           \/ \E dimension \in left : RecordDimension(dimension)
  <2>1. holder \notin {"flush", "close"} /\ holder' \notin {"flush", "close"}
    BY <1>3 DEF RecordSample, RecordClosed, RecordDimension
  <2>2. phase' = phase /\ (phase = "flushed" => UNCHANGED <<pendingDaily, pendingMinutes>>)
    BY <1>3 DEF RecordSample, RecordClosed, RecordDimension, StoreInv, HolderInv
  <2>3. QED
    BY <2>1, <2>2 DEF KeepInv
<1>4. CASE Flush \/ Close
  BY <1>4 DEF Flush, Close, Take, KeepInv
<1>5. CASE \E slot \in Entries(takenDaily) : FlushSlot(slot)
  <2>1. PICK slot \in Slot : FlushSlot(slot)
    BY <1>5 DEF Entries
  <2>2. /\ holder \in {"flush", "close"} /\ done' = done \cup {slot}
        /\ tx' = AddTo(tx, StorageSlot(slot), takenDaily[slot])
        /\ UNCHANGED <<phase, holder, pendingDaily, pendingMinutes, storedDaily, takenDaily>>
    BY <2>1 DEF FlushSlot, Put
  <2>3. tx \in Map /\ takenDaily \in Map /\ takenDaily[slot] \in Bag
    BY MapTypes DEF StoreInv, Map
  <2>4. /\ StorageSlot(slot) \in Slot /\ StorageSlot(slot).day = slot.day
        /\ StorageSlot(slot).dimension = slot.dimension
    BY StatsAssumption DEF StorageSlot, Slot
  <2>5. \A s \in Slot, c \in Connection :
           tx'[s][c] = IF s = StorageSlot(slot) THEN tx[s][c] + takenDaily[slot][c] ELSE tx[s][c]
    BY <2>2, <2>3, <2>4, AddToValue
  <2>6. \A s \in Slot, c \in Connection : tx[s][c] \in Nat /\ takenDaily[s][c] \in Nat
    BY <2>3 DEF Map, Bag
  <2>7. \A s \in Slot, c \in Connection : tx[s][c] > 0 => tx'[s][c] > 0
    BY <2>5, <2>6
  <2>8. \A c \in Connection : takenDaily[slot][c] > 0 => tx'[StorageSlot(slot)][c] > 0
    BY <2>4, <2>5, <2>6
  <2>9. ASSUME NEW c \in Connection, NEW s \in Slot, s \in done', takenDaily[s][c] > 0
        PROVE  \E other \in Slot :
                  /\ other.day = s.day /\ other.dimension = s.dimension
                  /\ tx'[other][c] > 0
    <3>1. CASE s = slot
      BY <2>4, <2>8, <2>9, <3>1
    <3>2. CASE s \in done
      BY <2>2, <2>7, <2>9, <3>2 DEF KeepInv
    <3>3. QED
      BY <2>2, <2>9, <3>1, <3>2
  <2>10. QED
    BY <2>2, <2>7, <2>9 DEF KeepInv
<1>6. CASE Commit \/ Fail
  <2>1. holder \in {"flush", "close"} /\ holder' = "none" /\ phase = "open"
    BY <1>6 DEF Commit, Fail, EndFlush, StoreInv, HolderInv
  <2>2. phase' = "flushed" => UNCHANGED <<pendingDaily, pendingMinutes>>
    BY <1>6, <2>1 DEF Commit, Fail, EndFlush
  <2>3. QED
    BY <2>1, <2>2 DEF KeepInv, StoreInv, HolderInv
<1>7. CASE Clear \/ Crash \/ Exit
  BY <1>7 DEF Clear, Crash, Exit, Gone, KeepInv
<1>8. QED
  BY <1>1, <1>2, <1>3, <1>4, <1>5, <1>6, <1>7 DEF Operation, Critical

\* A step that keeps, for each slot, what is reported there.
LEMMA SameReports ==
    ASSUME \A slot \in Slot, c \in Connection : Aggregates(slot)[c] > 0 => Aggregates(slot)'[c] > 0
    PROVE  \A c \in Connection, dimension \in Dimension :
              Reported(c, dimension) # {} => Reported(c, dimension)' # {}
BY DEF Reported

Expires(c) == closedOn[c] < DayOf(Cutoff)

Outlives(minute) ==
    History(minute)' < History(minute) =>
        minute < Cutoff \/ (History(minute)' = 1 /\ storedMinutes[minute] > 0)

LEMMA MinuteTypes ==
    ASSUME TypeOK, NEW minute \in Minute
    PROVE  /\ pendingMinutes[minute] \in Nat /\ takenMinutes[minute] \in Nat
           /\ storedMinutes[minute] \in Nat /\ NoMinutes[minute] = 0
BY DEF TypeOK, NoMinutes

\* A commit writes everything it has taken; what is not stored then was pruned.
LEMMA CommitLosesNothing ==
    ASSUME StoreInv, KeepInv, Commit
    PROVE  /\ \A c \in Connection, dimension \in Dimension :
                 Reported(c, dimension) # {} => Reported(c, dimension)' # {} \/ Expires(c)
           /\ \A minute \in Minute : Outlives(minute)
<1> USE DEF memory, database, flush
<1>1. /\ holder \in {"flush", "close"} /\ Entries(takenDaily) \subseteq done
      /\ takenMinutes' = NoMinutes /\ takenDaily' = NoSlots
      /\ UNCHANGED <<pendingMinutes, pendingDaily>>
  BY DEF Commit, EndFlush, NoFlush
<1>2. pendingDaily = NoSlots /\ pendingMinutes = NoMinutes
  BY <1>1 DEF StoreInv, HolderInv
<1>3. StoreInv'
  BY CommitKeeps
<1>4. PICK kept \in SUBSET (Entries(tx) \cap ExpiredSlots) :
         storedDaily' = [slot \in Slot |->
            IF slot \in ExpiredSlots \ kept THEN Nothing ELSE tx[slot]]
  BY DEF Commit
<1>5. PICK keptMinutes \in SUBSET ExpiredMinutes :
         storedMinutes' = [minute \in Minute |->
            IF minute \in ExpiredMinutes \ keptMinutes THEN 0 ELSE AfterMinutes[minute]]
  BY DEF Commit
<1>6. ASSUME NEW c \in Connection, NEW dimension \in Dimension, NEW slot \in Reported(c, dimension)
      PROVE  Reported(c, dimension)' # {} \/ Expires(c)
  <2>1. slot \in Slot /\ slot.dimension = dimension /\ Aggregates(slot)[c] > 0
    BY <1>6 DEF Reported
  <2>2. storedDaily[slot][c] > 0 \/ takenDaily[slot][c] > 0
    BY <1>2, <2>1, ReportIsOnePlace, EmptyMap
  <2>3. takenDaily[slot][c] > 0 => slot \in done
    <3>1. takenDaily[slot][c] > 0 => takenDaily[slot] # Nothing
      BY <2>1, EmptyMap
    <3>2. QED
      BY <1>1, <2>1, <3>1 DEF Entries
  <2>4. PICK target \in Slot :
           target.day = slot.day /\ target.dimension = dimension /\ tx[target][c] > 0
    BY <1>1, <2>1, <2>2, <2>3 DEF KeepInv
  <2>5. slot.day = closedOn[c]
    BY <1>6, StoreReportsRight DEF ReportedRight
  <2>6. CASE target \in ExpiredSlots
    BY <2>4, <2>5, <2>6 DEF ExpiredSlots, Expires
  <2>7. CASE target \notin ExpiredSlots
    <3>1. storedDaily'[target][c] > 0
      BY <1>4, <2>4, <2>7
    <3>2. Aggregates(target)'[c] =
             storedDaily'[target][c] + pendingDaily'[target][c] + takenDaily'[target][c]
          /\ pendingDaily'[target][c] = 0 /\ takenDaily'[target][c] = 0
          /\ storedDaily'[target][c] \in Nat
      <4>1. storedDaily'[target] \in Bag /\ pendingDaily'[target] \in Bag /\ takenDaily'[target] \in Bag
        BY <1>3 DEF StoreInv, TypeOK
      <4>2. Plus(pendingDaily'[target], takenDaily'[target]) \in Bag
            /\ Plus(pendingDaily'[target], takenDaily'[target])[c] =
                  pendingDaily'[target][c] + takenDaily'[target][c]
        BY <4>1, PlusValue
      <4>3. Plus(storedDaily'[target], Plus(pendingDaily'[target], takenDaily'[target]))[c] =
               storedDaily'[target][c] + (pendingDaily'[target][c] + takenDaily'[target][c])
        BY <4>1, <4>2, PlusValue
      <4>4. Aggregates(target)' =
               Plus(storedDaily'[target], Plus(pendingDaily'[target], takenDaily'[target]))
        BY DEF Aggregates, Plus
      <4>5. pendingDaily'[target][c] = 0 /\ takenDaily'[target][c] = 0
        BY <1>1, <1>2, EmptyMap
      <4>6. QED
        BY <4>1, <4>3, <4>4, <4>5 DEF Bag
    <3>3. target \in Reported(c, dimension)'
      BY <2>4, <3>1, <3>2 DEF Reported
    <3>4. QED
      BY <3>3
  <2>8. QED
    BY <2>6, <2>7
<1>7. ASSUME NEW minute \in Minute
      PROVE  Outlives(minute)
  <2>1. /\ takenMinutes[minute] \in Nat /\ storedMinutes[minute] \in Nat
        /\ pendingMinutes[minute] = 0 /\ pendingMinutes'[minute] = 0 /\ takenMinutes'[minute] = 0
    BY <1>1, <1>2, MinuteTypes DEF StoreInv
  <2>2. minute \in ExpiredMinutes \/ storedMinutes'[minute] = AfterMinutes[minute]
    BY <1>5
  <2>3. History(minute) = AfterMinutes[minute] /\ History(minute)' = storedMinutes'[minute]
    BY <2>1 DEF History, AfterMinutes
  <2>4. minute \in ExpiredMinutes => minute < Cutoff
    BY DEF ExpiredMinutes
  <2>5. History(minute) \in Nat
    BY <2>1, <2>3 DEF AfterMinutes
  <2>6. QED
    BY <2>2, <2>3, <2>4, <2>5 DEF Outlives
<1>8. QED
  BY <1>6, <1>7

\* The other operations keep every slot's connections and every minute's
\* samples, up to a sample that begins its minute again.
LEMMA KeepsReports ==
    ASSUME StoreInv,
           \A slot \in Slot, c \in Connection :
              /\ Aggregates(slot)'[c] =
                    storedDaily'[slot][c] + pendingDaily'[slot][c] + takenDaily'[slot][c]
              /\ storedDaily[slot][c] + pendingDaily[slot][c] + takenDaily[slot][c] > 0 =>
                    storedDaily'[slot][c] + pendingDaily'[slot][c] + takenDaily'[slot][c] > 0
    PROVE  \A c \in Connection, dimension \in Dimension :
              Reported(c, dimension) # {} => Reported(c, dimension)' # {}
<1>1. \A slot \in Slot, c \in Connection : Aggregates(slot)[c] > 0 => Aggregates(slot)'[c] > 0
  BY ReportIsOnePlace
<1>2. QED
  BY <1>1, SameReports

LEMMA ReportedAfter ==
    ASSUME StoreInv'
    PROVE  \A slot \in Slot, c \in Connection :
              /\ Aggregates(slot)'[c] =
                    storedDaily'[slot][c] + pendingDaily'[slot][c] + takenDaily'[slot][c]
              /\ storedDaily'[slot][c] \in Nat /\ pendingDaily'[slot][c] \in Nat
              /\ takenDaily'[slot][c] \in Nat
<1> SUFFICES ASSUME NEW slot \in Slot, NEW c \in Connection
             PROVE  /\ Aggregates(slot)'[c] =
                          storedDaily'[slot][c] + pendingDaily'[slot][c] + takenDaily'[slot][c]
                    /\ storedDaily'[slot][c] \in Nat /\ pendingDaily'[slot][c] \in Nat
                    /\ takenDaily'[slot][c] \in Nat
  OBVIOUS
<1>1. storedDaily'[slot] \in Bag /\ pendingDaily'[slot] \in Bag /\ takenDaily'[slot] \in Bag
  BY DEF StoreInv, TypeOK
<1>2. Plus(pendingDaily'[slot], takenDaily'[slot]) \in Bag
      /\ Plus(pendingDaily'[slot], takenDaily'[slot])[c] = pendingDaily'[slot][c] + takenDaily'[slot][c]
  BY <1>1, PlusValue
<1>3. Plus(storedDaily'[slot], Plus(pendingDaily'[slot], takenDaily'[slot]))[c] =
         storedDaily'[slot][c] + (pendingDaily'[slot][c] + takenDaily'[slot][c])
  BY <1>1, <1>2, PlusValue
<1>4. Aggregates(slot)' = Plus(storedDaily'[slot], Plus(pendingDaily'[slot], takenDaily'[slot]))
  BY DEF Aggregates, Plus
<1>5. QED
  BY <1>1, <1>3, <1>4 DEF Bag

LEMMA OthersLoseNothing ==
    ASSUME StoreInv, StoreInv', KeepInv, Next, ~ Commit, ~ MayLose
    PROVE  /\ \A c \in Connection, dimension \in Dimension :
                 Reported(c, dimension) # {} => Reported(c, dimension)' # {}
           /\ \A minute \in Minute : Outlives(minute)
<1> USE DEF memory, database, flush
<1>1. \A slot \in Slot, c \in Connection :
         /\ storedDaily[slot][c] \in Nat /\ pendingDaily[slot][c] \in Nat
         /\ takenDaily[slot][c] \in Nat
  BY ReportIsOnePlace
<1>2. \A minute \in Minute :
         /\ pendingMinutes[minute] \in Nat /\ takenMinutes[minute] \in Nat
         /\ storedMinutes[minute] \in Nat
  BY MinuteTypes DEF StoreInv
<1>3. ASSUME UNCHANGED <<pendingDaily, storedDaily, takenDaily>>
      PROVE  \A c \in Connection, dimension \in Dimension :
                Reported(c, dimension) # {} => Reported(c, dimension)' # {}
  BY <1>3, ReportedAfter, KeepsReports
<1>4. ASSUME UNCHANGED <<pendingMinutes, storedMinutes, takenMinutes>>
      PROVE  \A minute \in Minute : Outlives(minute)
  BY <1>2, <1>4 DEF Outlives, History
<1>5. CASE Tick \/ Open \/ \E c \in Connection : RecordClosed(c, DayOf(now))
  BY <1>3, <1>4, <1>5 DEF Tick, Open, RecordClosed
<1>6. CASE \E slot \in Entries(takenDaily) : FlushSlot(slot)
  BY <1>3, <1>4, <1>6 DEF FlushSlot
<1>7. CASE RecordSample(now)
  <2>1. UNCHANGED <<pendingDaily, storedDaily, takenDaily, storedMinutes, takenMinutes>>
    BY <1>7 DEF RecordSample
  <2>2. pendingMinutes \in [Minute -> 0 .. MaxSamples] /\ now \in Minute
    BY DEF StoreInv, TypeOK
  <2>3. \A minute \in Minute :
           \/ pendingMinutes'[minute] = pendingMinutes[minute]
           \/ pendingMinutes'[minute] = pendingMinutes[minute] + 1
    BY <1>7, <2>2 DEF RecordSample
  <2>4. \A minute \in Minute : Outlives(minute)
    <3> SUFFICES ASSUME NEW minute \in Minute PROVE Outlives(minute)
      OBVIOUS
    <3>1. History(minute)' = IF pendingMinutes'[minute] + takenMinutes[minute] > 0
                             THEN pendingMinutes'[minute] + takenMinutes[minute]
                             ELSE storedMinutes[minute]
      BY <2>1 DEF History
    <3>2. History(minute) = IF pendingMinutes[minute] + takenMinutes[minute] > 0
                            THEN pendingMinutes[minute] + takenMinutes[minute]
                            ELSE storedMinutes[minute]
      BY DEF History
    <3>3. QED
      BY <1>2, <2>3, <3>1, <3>2 DEF Outlives
  <2>5. QED
    BY <1>3, <2>1, <2>4
<1>8. CASE \E dimension \in left : RecordDimension(dimension)
  <2>1. PICK dimension \in Dimension : RecordDimension(dimension)
    BY <1>8 DEF StoreInv, TypeOK
  <2>2. /\ holder = "record"
        /\ pendingDaily' = AddTo(pendingDaily, PendingSlot(dimension), One(subject.connection))
        /\ UNCHANGED <<storedDaily, takenDaily, pendingMinutes, storedMinutes, takenMinutes>>
    BY <2>1 DEF RecordDimension
  <2>3. subject.connection \in Connection /\ PendingSlot(dimension) \in Slot
    BY <2>2, StatsAssumption DEF StoreInv, TypeOK, PendingSlot, Slot
  <2>4. \A slot \in Slot, c \in Connection : pendingDaily'[slot][c] >= pendingDaily[slot][c]
    <3>1. pendingDaily \in Map
      BY MapTypes DEF StoreInv
    <3>2. /\ One(subject.connection) \in Bag
          /\ \A c \in Connection : One(subject.connection)[c] \in Nat
      BY <2>3, OneValue DEF Bag
    <3>3. QED
      BY <1>1, <2>2, <2>3, <3>1, <3>2, AddToValue
  <2>5. \A slot \in Slot, c \in Connection :
           storedDaily[slot][c] + pendingDaily[slot][c] + takenDaily[slot][c] > 0 =>
              storedDaily'[slot][c] + pendingDaily'[slot][c] + takenDaily'[slot][c] > 0
    BY <1>1, <2>2, <2>4, ReportedAfter
  <2>6. QED
    BY <1>4, <2>2, <2>5, ReportedAfter, KeepsReports
<1>9. CASE Flush \/ Close
  <2>1. /\ takenDaily = NoSlots /\ takenMinutes = NoMinutes /\ takenDaily' = pendingDaily
        /\ takenMinutes' = pendingMinutes /\ pendingDaily' = NoSlots /\ pendingMinutes' = NoMinutes
        /\ UNCHANGED <<storedDaily, storedMinutes>>
    BY <1>9 DEF Flush, Close, Take, StoreInv, HolderInv
  <2>2. \A slot \in Slot, c \in Connection :
           storedDaily[slot][c] + pendingDaily[slot][c] + takenDaily[slot][c] > 0 =>
              storedDaily'[slot][c] + pendingDaily'[slot][c] + takenDaily'[slot][c] > 0
    BY <1>1, <2>1, EmptyMap
  <2>3. \A minute \in Minute : History(minute)' = History(minute) /\ History(minute) \in Nat
    BY <1>2, <2>1 DEF History, NoMinutes
  <2>4. QED
    BY <2>2, <2>3, ReportedAfter, KeepsReports DEF Outlives
<1>10. CASE Fail
  <2>1. /\ pendingDaily = NoSlots /\ pendingMinutes = NoMinutes
        /\ takenDaily' = NoSlots /\ takenMinutes' = NoMinutes
        /\ UNCHANGED <<storedDaily, storedMinutes>>
    BY <1>10 DEF Fail, EndFlush, NoFlush, StoreInv, HolderInv
  <2>2. \A slot \in Slot, c \in Connection : pendingDaily'[slot][c] = takenDaily[slot][c]
    <3>1. pendingDaily \in Map /\ takenDaily \in Map
      BY MapTypes DEF StoreInv
    <3>2. \A slot \in Slot : pendingDaily'[slot] = Plus(pendingDaily[slot], takenDaily[slot])
      BY <1>10 DEF Fail, MergeBack
    <3>3. \A slot \in Slot, c \in Connection :
             pendingDaily'[slot][c] = pendingDaily[slot][c] + takenDaily[slot][c]
      BY <3>1, <3>2, PlusValue DEF Map
    <3>4. QED
      BY <1>1, <2>1, <3>3, EmptyMap
  <2>3. \A slot \in Slot, c \in Connection :
           storedDaily[slot][c] + pendingDaily[slot][c] + takenDaily[slot][c] > 0 =>
              storedDaily'[slot][c] + pendingDaily'[slot][c] + takenDaily'[slot][c] > 0
    BY <1>1, <2>1, <2>2, EmptyMap
  <2>4. \A minute \in Minute : pendingMinutes'[minute] = takenMinutes[minute]
    BY <1>2, <1>10, <2>1 DEF Fail, MergeBack, NoMinutes
  <2>5. \A minute \in Minute : History(minute)' = History(minute) /\ History(minute) \in Nat
    BY <1>2, <2>1, <2>4 DEF History, NoMinutes
  <2>6. QED
    BY <2>3, <2>5, ReportedAfter, KeepsReports DEF Outlives
<1>11. CASE Clear
  BY <1>11 DEF Clear, MayLose
<1>12. CASE Crash \/ Exit
  <2>1. Gone /\ phase = "flushed"
    BY <1>12 DEF Crash, Exit, Gone, MayLose
  <2>2. /\ pendingDaily = NoSlots /\ pendingMinutes = NoMinutes /\ holder = "none"
    BY <2>1 DEF KeepInv, StoreInv, HolderInv
  <2>3. takenDaily = NoSlots /\ takenMinutes = NoMinutes
    BY <2>2 DEF StoreInv, HolderInv
  <2>4. UNCHANGED <<pendingDaily, storedDaily, takenDaily, pendingMinutes, storedMinutes, takenMinutes>>
    BY <2>1, <2>2, <2>3 DEF Gone, NoFlush
  <2>5. QED
    BY <1>3, <1>4, <2>4
<1>13. QED
  BY <1>5, <1>6, <1>7, <1>8, <1>9, <1>10, <1>11, <1>12 DEF Next, Critical, Call

-----------------------------------------------------------------------------
(* The refinement of the ledger                                            *)

Pairs == Connection \X Dimension

LEMMA SourceSteps == StoreInv /\ SourceInv /\ Operation => SourceInv'
<1> SUFFICES ASSUME StoreInv, SourceInv, Operation PROVE SourceInv'
  OBVIOUS
<1> USE DEF memory, database, flush
<1>1. CASE UNCHANGED storeVars \/ Tick \/ Open
  BY <1>1 DEF storeVars, Tick, Open, SourceInv
<1>2. CASE \/ \E minute \in Minute : RecordSample(minute)
           \/ \E c \in Connection, day \in Day : RecordClosed(c, day)
           \/ \E dimension \in left : RecordDimension(dimension)
  BY <1>2 DEF RecordSample, RecordClosed, RecordDimension, SourceInv
<1>3. CASE Flush \/ Close
  BY <1>3 DEF Flush, Close, Take, SourceInv
<1>4. CASE \E slot \in Entries(takenDaily) : FlushSlot(slot)
  <2>1. PICK slot \in Slot : FlushSlot(slot)
    BY <1>4 DEF Entries
  <2>2. /\ holder \in {"flush", "close"}
        /\ tx' = AddTo(tx, StorageSlot(slot), takenDaily[slot])
        /\ UNCHANGED <<holder, storedDaily, takenDaily>>
    BY <2>1 DEF FlushSlot, Put
  <2>3. tx \in Map /\ takenDaily \in Map /\ takenDaily[slot] \in Bag
    BY MapTypes DEF StoreInv, Map
  <2>4. StorageSlot(slot) \in Slot /\ StorageSlot(slot).dimension = slot.dimension
    BY StatsAssumption DEF StorageSlot, Slot
  <2>5. \A s \in Slot, c \in Connection :
           tx'[s][c] = IF s = StorageSlot(slot) THEN tx[s][c] + takenDaily[slot][c] ELSE tx[s][c]
    BY <2>2, <2>3, <2>4, AddToValue
  <2>6. \A s \in Slot, c \in Connection : tx[s][c] \in Nat /\ takenDaily[s][c] \in Nat
    BY <2>3 DEF Map, Bag
  <2>7. ASSUME NEW c \in Connection, NEW s \in Slot, tx'[s][c] > 0
        PROVE  tx[s][c] > 0 \/ (s.dimension = slot.dimension /\ takenDaily[slot][c] > 0)
    BY <2>4, <2>5, <2>6, <2>7
  <2>8. QED
    BY <2>2, <2>7 DEF SourceInv
<1>5. CASE Commit \/ Fail \/ Clear \/ Crash \/ Exit
  BY <1>5 DEF Commit, Fail, EndFlush, Clear, Crash, Exit, Gone, SourceInv
<1>6. QED
  BY <1>1, <1>2, <1>3, <1>4, <1>5 DEF Operation, Critical

LEMMA PlaceOfPair ==
    ASSUME NEW c \in Connection, NEW dimension \in Dimension
    PROVE  Places[<<c, dimension>>] = Place(c, dimension)
BY DEF Places

\* A step moves the pairs it moves.
LEMMA MovedPlaces ==
    ASSUME NEW pairs, NEW to,
           \A c \in Connection, dimension \in Dimension :
              Place(c, dimension)' = IF <<c, dimension>> \in pairs THEN to ELSE Place(c, dimension)
    PROVE  Places' = Ledger!Move(pairs, to)
<1>1. \A pair \in Pairs :
         Place(pair[1], pair[2])' = IF pair \in pairs THEN to ELSE Place(pair[1], pair[2])
  BY DEF Pairs
<1>2. QED
  BY <1>1 DEF Places, Pairs, Ledger!Move, Ledger!Pair

\* Most steps move none.
LEMMA SamePlaces ==
    ASSUME \A c \in Connection, dimension \in Dimension :
              /\ InBucket(c, dimension)' <=> InBucket(c, dimension)
              /\ InMemory(c, dimension)' <=> InMemory(c, dimension)
              /\ Awaited(c, dimension)' <=> Awaited(c, dimension)
    PROVE  Places' = Places
<1>1. \A c \in Connection, dimension \in Dimension : Place(c, dimension)' = Place(c, dimension)
  BY DEF Place
<1>2. QED
  BY <1>1 DEF Places

\* What is stored or in memory has been recorded; what is not, and is not
\* awaited, is gone.
LEMMA KnownPlace ==
    ASSUME StoreInv, NEW c \in Connection, NEW dimension \in Dimension,
           InBucket(c, dimension) \/ InMemory(c, dimension)
    PROVE  closedOn[c] \in Day /\ closedOn[c] # Never
<1>1. PICK slot \in Slot :
         storedDaily[slot][c] > 0 \/ pendingDaily[slot][c] > 0 \/ takenDaily[slot][c] > 0
  BY DEF InBucket, InMemory
<1>2. slot.day = closedOn[c] /\ slot.day \in Day
  BY <1>1 DEF StoreInv, RightInv, Right, Slot
<1>3. QED
  BY <1>2, NeverAssumption

LEMMA RecordClosedImplements ==
    ASSUME StoreInv, NEW c \in Connection, NEW day \in Day, closedOn[c] = Never,
           RecordClosed(c, day)
    PROVE  Ledger!Record(c, day)
<1> USE DEF memory, database, flush
<1>1. /\ holder = "none" /\ closedOn' = [closedOn EXCEPT ![c] = day]
      /\ UNCHANGED <<now, phase, pendingDaily, storedDaily, takenDaily>>
  BY DEF RecordClosed
<1>2. closedOn'[c] = day /\ day # Never /\ \A d \in Connection : d # c => closedOn'[d] = closedOn[d]
  BY <1>1, NeverAssumption DEF StoreInv, TypeOK
<1>3. \A d \in Connection, dimension \in Dimension :
         /\ InBucket(d, dimension)' <=> InBucket(d, dimension)
         /\ InMemory(d, dimension)' <=> InMemory(d, dimension)
  BY <1>1 DEF InBucket, InMemory
<1>4. \A dimension \in Dimension : ~ InBucket(c, dimension) /\ ~ InMemory(c, dimension)
  BY KnownPlace
<1>5. CASE phase = "open"
  <2>1. holder' = "record" /\ left' = Dimension /\ subject' = [connection |-> c, day |-> day]
    BY <1>5 DEF RecordClosed
  <2>2. \A d \in Connection, dimension \in Dimension :
           Awaited(d, dimension)' <=> Awaited(d, dimension)
    BY <1>1, <1>2, <2>1 DEF Awaited
  <2>3. Places' = Places
    BY <1>3, <2>2, SamePlaces
  <2>4. LedgerPhase = "open" /\ LedgerPhase' = LedgerPhase
    BY <1>1, <1>5 DEF LedgerPhase
  <2>5. QED
    BY <1>1, <2>3, <2>4 DEF Ledger!Record
<1>6. CASE phase # "open"
  <2>1. holder' = "none"
    BY <1>1, <1>6 DEF RecordClosed
  <2>2. \A d \in Connection, dimension \in Dimension :
           Place(d, dimension)' =
              IF <<d, dimension>> \in {c} \X Dimension THEN "gone" ELSE Place(d, dimension)
    BY <1>1, <1>2, <1>3, <1>4, <2>1 DEF Place, Awaited
  <2>3. Places' = Ledger!Move({c} \X Dimension, "gone")
    BY <2>2, MovedPlaces
  <2>4. LedgerPhase # "open" /\ LedgerPhase' = LedgerPhase
    BY <1>1, <1>6 DEF LedgerPhase, StoreInv, TypeOK
  <2>5. QED
    BY <1>1, <2>3, <2>4 DEF Ledger!Record
<1>7. QED
  BY <1>5, <1>6

LEMMA RecordDimensionImplements ==
    ASSUME StoreInv, NEW dimension \in Dimension, RecordDimension(dimension),
           NEW c \in Connection, c = subject.connection
    PROVE  Ledger!Count(c, dimension)
<1> USE DEF memory, database, flush
<1> DEFINE slot == PendingSlot(dimension)
<1>1. /\ holder = "record" /\ dimension \in left /\ left' = left \ {dimension}
      /\ pendingDaily' = AddTo(pendingDaily, slot, One(c))
      /\ UNCHANGED <<now, phase, storedDaily, takenDaily, closedOn>>
      /\ holder' = IF left' = {} THEN "none" ELSE "record"
      /\ left' # {} => subject' = subject
  BY DEF RecordDimension
<1>2. subject.day \in Day /\ subject.day = closedOn[c] /\ phase = "open"
  BY <1>1 DEF StoreInv, TypeOK, RightInv, HolderInv
<1>3. slot \in Slot /\ slot.dimension = dimension
  BY <1>2, StatsAssumption DEF PendingSlot, Slot
<1>4. \A s \in Slot, d \in Connection :
         pendingDaily'[s][d] =
            IF s = slot THEN pendingDaily[s][d] + One(c)[d] ELSE pendingDaily[s][d]
  BY <1>1, <1>2, <1>3, MapTypes, OneValue, AddToValue DEF StoreInv
<1>5. \A d \in Connection : One(c)[d] = IF d = c THEN 1 ELSE 0
  BY <1>2, OneValue
<1>6. \A s \in Slot, d \in Connection :
         pendingDaily[s][d] \in Nat /\ storedDaily[s][d] \in Nat
  BY MapTypes DEF StoreInv, Map, Bag
<1>7. \A s \in Slot : s.dimension = dimension => storedDaily[s][c] = 0 /\ pendingDaily[s][c] = 0
  BY <1>1 DEF StoreInv, OnceInv
<1>8. takenDaily = NoSlots /\ \A s \in Slot : takenDaily[s][c] = 0
  BY <1>1, <1>2, EmptyMap DEF StoreInv, HolderInv
<1>9. closedOn[c] # Never
  BY <1>2, NeverAssumption
<1> HIDE DEF slot
<1>10. ~ InBucket(c, dimension) /\ ~ InMemory(c, dimension) /\ Awaited(c, dimension)
  BY <1>1, <1>7, <1>8 DEF InBucket, InMemory, Awaited
<1>11. \A d \in Connection, dim \in Dimension : InBucket(d, dim)' <=> InBucket(d, dim)
  BY <1>1 DEF InBucket
<1>12. InMemory(c, dimension)'
  <2>1. pendingDaily'[slot][c] = pendingDaily[slot][c] + 1 /\ pendingDaily[slot][c] \in Nat
    BY <1>2, <1>3, <1>4, <1>5, <1>6
  <2>2. pendingDaily'[slot][c] > 0
    BY <2>1
  <2>3. QED
    BY <1>3, <2>2 DEF InMemory
<1>13. ASSUME NEW d \in Connection, NEW dim \in Dimension, d # c \/ dim # dimension
       PROVE  /\ InMemory(d, dim)' <=> InMemory(d, dim)
              /\ Awaited(d, dim)' <=> Awaited(d, dim)
  <2>1. \A s \in Slot : s.dimension = dim => pendingDaily'[s][d] = pendingDaily[s][d]
    BY <1>3, <1>4, <1>5, <1>6, <1>13
  <2>2. InMemory(d, dim)' <=> InMemory(d, dim)
    BY <1>1, <2>1 DEF InMemory
  <2>3. Awaited(d, dim)' <=> Awaited(d, dim)
    BY <1>1, <1>13 DEF Awaited
  <2>4. QED
    BY <2>2, <2>3
<1>14. \A d \in Connection, dim \in Dimension :
          Place(d, dim)' = IF <<d, dim>> \in {<<c, dimension>>} THEN "memory" ELSE Place(d, dim)
  <2> SUFFICES ASSUME NEW d \in Connection, NEW dim \in Dimension
               PROVE  Place(d, dim)' = IF <<d, dim>> \in {<<c, dimension>>} THEN "memory"
                                       ELSE Place(d, dim)
    OBVIOUS
  <2>1. CASE d = c /\ dim = dimension
    <3>1. Place(c, dimension)' = "memory"
      BY <1>2, <1>10, <1>11, <1>12 DEF Place
    <3>2. QED
      BY <2>1, <3>1
  <2>2. CASE d # c \/ dim # dimension
    BY <1>11, <1>13, <2>2 DEF Place
  <2>3. QED
    BY <2>1, <2>2
<1>15. Places' = Ledger!Move({<<c, dimension>>}, "memory")
  BY <1>14, MovedPlaces
<1>16. Places[<<c, dimension>>] = "none"
  BY <1>2, <1>10, PlaceOfPair DEF Place
<1>17. LedgerPhase = "open" /\ LedgerPhase' = LedgerPhase
  BY <1>1, <1>2 DEF LedgerPhase
<1>18. QED
  BY <1>1, <1>2, <1>9, <1>15, <1>16, <1>17 DEF Ledger!Count

\* The steps of a flush before its last are none of the ledger's.
LEMMA FlushingImplements ==
    ASSUME StoreInv, Flush \/ Close \/ \E slot \in Entries(takenDaily) : FlushSlot(slot)
    PROVE  UNCHANGED <<now, LedgerPhase, closedOn, Places>>
<1> USE DEF memory, database, flush
<1>1. UNCHANGED <<now, phase, closedOn, storedDaily>>
  BY DEF Flush, Close, Take, FlushSlot
<1>2. holder # "record" /\ holder' # "record"
  BY DEF Flush, Close, Take, FlushSlot
<1>3. \/ UNCHANGED <<pendingDaily, takenDaily>>
      \/ takenDaily = NoSlots /\ takenDaily' = pendingDaily /\ pendingDaily' = NoSlots
  BY DEF Flush, Close, Take, FlushSlot, StoreInv, HolderInv
<1>4. \A c \in Connection, dimension \in Dimension :
         /\ InBucket(c, dimension)' <=> InBucket(c, dimension)
         /\ Awaited(c, dimension)' <=> Awaited(c, dimension)
  BY <1>1, <1>2 DEF InBucket, Awaited
<1>5. \A c \in Connection, dimension \in Dimension :
         InMemory(c, dimension)' <=> InMemory(c, dimension)
  BY <1>3, EmptyMap DEF InMemory
<1>6. QED
  BY <1>1, <1>4, <1>5, SamePlaces DEF LedgerPhase

LEMMA CommitImplements ==
    ASSUME StoreInv, KeepInv, SourceInv, Commit
    PROVE  Ledger!Flush
<1> USE DEF memory, database, flush
<1>1. /\ holder \in {"flush", "close"} /\ holder' = "none" /\ Entries(takenDaily) \subseteq done
      /\ takenDaily' = NoSlots /\ pendingDaily = NoSlots /\ pendingDaily' = NoSlots
      /\ phase = "open" /\ phase' \in {"open", "flushed"}
      /\ UNCHANGED <<now, closedOn>>
  BY DEF Commit, EndFlush, NoFlush, StoreInv, HolderInv
<1>2. PICK kept \in SUBSET (Entries(tx) \cap ExpiredSlots) :
         storedDaily' = [slot \in Slot |->
            IF slot \in ExpiredSlots \ kept THEN Nothing ELSE tx[slot]]
  BY DEF Commit
<1>3. \A slot \in Slot, c \in Connection :
         /\ storedDaily'[slot][c] > 0 => tx[slot][c] > 0
         /\ tx[slot][c] > 0 => storedDaily'[slot][c] > 0 \/ slot \in ExpiredSlots
  BY <1>2, EmptyMap
<1>4. ASSUME NEW c \in Connection, NEW dimension \in Dimension
      PROVE  /\ ~ InMemory(c, dimension)'
             /\ Awaited(c, dimension) <=> closedOn[c] = Never
             /\ Awaited(c, dimension)' <=> closedOn[c] = Never
  BY <1>1, EmptyMap DEF InMemory, Awaited
<1>5. ASSUME NEW c \in Connection, NEW dimension \in Dimension,
             ~ InBucket(c, dimension), ~ InMemory(c, dimension)
      PROVE  ~ InBucket(c, dimension)'
  BY <1>1, <1>3, <1>5 DEF InBucket, InMemory, SourceInv
<1>6. ASSUME NEW c \in Connection, NEW dimension \in Dimension,
             InBucket(c, dimension) \/ InMemory(c, dimension), ~ InBucket(c, dimension)'
      PROVE  Ledger!Expired(c)
  <2>1. PICK slot \in Slot :
           /\ slot.dimension = dimension
           /\ storedDaily[slot][c] > 0 \/ takenDaily[slot][c] > 0
    BY <1>1, <1>6, EmptyMap DEF InBucket, InMemory
  <2>2. takenDaily[slot][c] > 0 => slot \in done
    BY <1>1, <2>1, EmptyMap DEF Entries
  <2>3. PICK target \in Slot : target.dimension = dimension /\ tx[target][c] > 0
    BY <1>1, <2>1, <2>2 DEF KeepInv
  <2>4. target \in ExpiredSlots /\ target.day = closedOn[c]
    BY <1>3, <1>6, <2>3 DEF InBucket, StoreInv, RightInv, Right
  <2>5. QED
    BY <2>4 DEF ExpiredSlots, DayOf, Cutoff, Ledger!Expired
<1> DEFINE held(c, dimension) == InBucket(c, dimension) \/ InMemory(c, dimension)
           pruned == {pair \in Pairs : held(pair[1], pair[2]) /\ ~ InBucket(pair[1], pair[2])'}
<1>7. \A c \in Connection, dimension \in Dimension :
         Place(c, dimension)' = IF <<c, dimension>> \in pruned THEN "gone"
                                ELSE IF Place(c, dimension) = "memory" THEN "stored"
                                ELSE Place(c, dimension)
  <2> SUFFICES ASSUME NEW c \in Connection, NEW dimension \in Dimension
               PROVE  Place(c, dimension)' = IF <<c, dimension>> \in pruned THEN "gone"
                                             ELSE IF Place(c, dimension) = "memory" THEN "stored"
                                             ELSE Place(c, dimension)
    OBVIOUS
  <2>1. <<c, dimension>> \in pruned <=> held(c, dimension) /\ ~ InBucket(c, dimension)'
    BY DEF Pairs
  <2>2. held(c, dimension) => closedOn[c] # Never
    BY KnownPlace
  <2> HIDE DEF pruned
  <2>3. CASE held(c, dimension)
    BY <1>4, <2>1, <2>2, <2>3 DEF Place
  <2>4. CASE ~ held(c, dimension)
    BY <1>4, <1>5, <2>1, <2>4 DEF Place
  <2>5. QED
    BY <2>3, <2>4
<1>8. \A pair \in Pairs : pair[1] \in Connection /\ pair[2] \in Dimension
                          /\ pair = <<pair[1], pair[2]>>
  BY DEF Pairs
<1>9. pruned \in SUBSET {pair \in Ledger!In("memory") \cup Ledger!In("stored") :
                           Ledger!Expired(pair[1])}
  <2>1. ASSUME NEW pair \in pruned
        PROVE  Places[pair] \in {"memory", "stored"} /\ Ledger!Expired(pair[1]) /\ pair \in Pairs
    BY <1>6, <1>8, <2>1 DEF Places, Pairs, Place
  <2>2. QED
    BY <2>1 DEF Ledger!In, Ledger!Pair, Pairs
<1>10. Places' = [pair \in Pairs |->
           IF pair \in pruned THEN "gone"
           ELSE IF Places[pair] = "memory" THEN "stored" ELSE Places[pair]]
  <2> HIDE DEF pruned
  <2>1. \A pair \in Pairs :
           Place(pair[1], pair[2])' =
              IF pair \in pruned THEN "gone"
              ELSE IF Place(pair[1], pair[2]) = "memory" THEN "stored" ELSE Place(pair[1], pair[2])
    BY <1>7, <1>8
  <2>2. \A pair \in Pairs : Places[pair] = Place(pair[1], pair[2])
    BY DEF Places, Pairs
  <2>3. Places' = [pair \in Pairs |-> Place(pair[1], pair[2])']
    BY DEF Places, Pairs
  <2>4. QED
    BY <2>1, <2>2, <2>3
<1>11. LedgerPhase = "open" /\ LedgerPhase' \in {"open", "closed"}
  BY <1>1 DEF LedgerPhase
<1>12. QED
  BY <1>1, <1>9, <1>10, <1>11 DEF Ledger!Flush, Ledger!Pair, Pairs

\* A flush that fails is none of the ledger's steps, or closes the store.
LEMMA FailImplements ==
    ASSUME StoreInv, Fail
    PROVE  Ledger!Stop \/ UNCHANGED <<now, LedgerPhase, closedOn, Places>>
<1> USE DEF memory, database, flush
<1>1. /\ holder \in {"flush", "close"} /\ holder' = "none" /\ phase = "open"
      /\ phase' \in {"open", "unflushed"} /\ takenDaily' = NoSlots /\ pendingDaily = NoSlots
      /\ UNCHANGED <<now, closedOn, storedDaily>>
  BY DEF Fail, EndFlush, NoFlush, StoreInv, HolderInv
<1>2. \A slot \in Slot, c \in Connection : pendingDaily'[slot][c] = takenDaily[slot][c]
  <2>1. pendingDaily \in Map /\ takenDaily \in Map
    BY MapTypes DEF StoreInv
  <2>2. \A slot \in Slot : pendingDaily'[slot] = Plus(pendingDaily[slot], takenDaily[slot])
    BY DEF Fail, MergeBack
  <2>3. \A slot \in Slot : pendingDaily[slot] \in Bag /\ takenDaily[slot] \in Bag
    BY <2>1 DEF Map
  <2>4. \A slot \in Slot, c \in Connection :
           pendingDaily'[slot][c] = pendingDaily[slot][c] + takenDaily[slot][c]
    BY <2>2, <2>3, PlusValue
  <2>5. \A slot \in Slot, c \in Connection :
           pendingDaily[slot][c] = 0 /\ takenDaily[slot][c] \in Nat
    BY <1>1, <2>3, EmptyMap DEF Bag
  <2>6. QED
    BY <2>4, <2>5
<1>3. \A c \in Connection, dimension \in Dimension :
         /\ InBucket(c, dimension)' <=> InBucket(c, dimension)
         /\ InMemory(c, dimension)' <=> InMemory(c, dimension)
         /\ Awaited(c, dimension)' <=> Awaited(c, dimension)
  BY <1>1, <1>2, EmptyMap DEF InBucket, InMemory, Awaited
<1>4. Places' = Places
  BY <1>3, SamePlaces
<1>5. LedgerPhase = "open" /\ LedgerPhase' \in {"open", "closed"}
  BY <1>1 DEF LedgerPhase
<1>6. QED
  BY <1>1, <1>4, <1>5 DEF Ledger!Stop

\* Where the ledger has a pair, in terms of its own sets.
LEMMA LedgerSets ==
    ASSUME NEW c \in Connection, NEW dimension \in Dimension
    PROVE  /\ <<c, dimension>> \in Ledger!In("memory") <=> Place(c, dimension) = "memory"
           /\ <<c, dimension>> \in Ledger!In("stored") <=> Place(c, dimension) = "stored"
           /\ <<c, dimension>> \in Ledger!In("none") <=> Place(c, dimension) = "none"
BY PlaceOfPair DEF Ledger!In, Ledger!Pair

LEMMA ClearImplements ==
    ASSUME StoreInv, Clear
    PROVE  Ledger!Clear
<1> USE DEF memory, database, flush
<1>1. /\ holder = "none" /\ holder' = "none" /\ phase = "open" /\ phase' = "open"
      /\ pendingDaily' = NoSlots /\ takenDaily' = NoSlots
      /\ UNCHANGED <<now, closedOn>>
  BY DEF Clear, StoreInv, HolderInv
<1>2. ASSUME NEW c \in Connection, NEW dimension \in Dimension
      PROVE  /\ ~ InMemory(c, dimension)'
             /\ Awaited(c, dimension) <=> closedOn[c] = Never
             /\ Awaited(c, dimension)' <=> closedOn[c] = Never
             /\ InBucket(c, dimension) \/ InMemory(c, dimension) => closedOn[c] # Never
  BY <1>1, EmptyMap, KnownPlace DEF InMemory, Awaited
<1>3. LedgerPhase = "open" /\ LedgerPhase' = LedgerPhase
  BY <1>1 DEF LedgerPhase
<1>4. CASE storedDaily' = NoSlots
  <2>1. \A c \in Connection, dimension \in Dimension : ~ InBucket(c, dimension)'
    BY <1>4, EmptyMap DEF InBucket
  <2>2. \A c \in Connection, dimension \in Dimension :
           Place(c, dimension)' =
              IF Place(c, dimension) \in {"memory", "stored"} THEN "gone" ELSE Place(c, dimension)
    BY <1>2, <2>1 DEF Place
  <2>3. \A c \in Connection, dimension \in Dimension :
           Place(c, dimension)' =
              IF <<c, dimension>> \in Ledger!In("memory") \cup Ledger!In("stored") THEN "gone"
              ELSE Place(c, dimension)
    BY <2>2, LedgerSets
  <2>4. Places' = Ledger!Move(Ledger!In("memory") \cup Ledger!In("stored"), "gone")
    BY <2>3, MovedPlaces
  <2>5. QED
    BY <1>1, <1>3, <2>4 DEF Ledger!Clear
<1>5. CASE storedDaily' = storedDaily
  <2>1. \A c \in Connection, dimension \in Dimension :
           InBucket(c, dimension)' <=> InBucket(c, dimension)
    BY <1>5 DEF InBucket
  <2>2. \A c \in Connection, dimension \in Dimension :
           Place(c, dimension)' =
              IF Place(c, dimension) = "memory" THEN "gone" ELSE Place(c, dimension)
    BY <1>2, <2>1 DEF Place
  <2>3. \A c \in Connection, dimension \in Dimension :
           Place(c, dimension)' =
              IF <<c, dimension>> \in Ledger!In("memory") THEN "gone" ELSE Place(c, dimension)
    BY <2>2, LedgerSets
  <2>4. Places' = Ledger!Move(Ledger!In("memory"), "gone")
    BY <2>3, MovedPlaces
  <2>5. QED
    BY <1>1, <1>3, <2>4 DEF Ledger!Clear
<1>6. QED
  BY <1>4, <1>5 DEF Clear

LEMMA DeathImplements ==
    ASSUME StoreInv, Crash \/ Exit
    PROVE  Ledger!Die
<1> USE DEF memory, database, flush
<1> DEFINE unrecorded == {pair \in Ledger!In("none") : closedOn[pair[1]] # Never}
<1>1. /\ holder' = "none" /\ phase # "down" /\ phase' = "down"
      /\ pendingDaily' = NoSlots /\ takenDaily' = NoSlots
      /\ UNCHANGED <<now, closedOn, storedDaily>>
  BY DEF Crash, Exit, Gone, NoFlush
<1>2. ASSUME NEW c \in Connection, NEW dimension \in Dimension
      PROVE  /\ ~ InMemory(c, dimension)'
             /\ InBucket(c, dimension)' <=> InBucket(c, dimension)
             /\ Awaited(c, dimension)' <=> closedOn[c] = Never
             /\ closedOn[c] = Never => Awaited(c, dimension)
             /\ InBucket(c, dimension) \/ InMemory(c, dimension) => closedOn[c] # Never
  BY <1>1, EmptyMap, KnownPlace DEF InBucket, InMemory, Awaited
<1>3. \A c \in Connection, dimension \in Dimension :
         Place(c, dimension)' =
            IF Place(c, dimension) = "memory"
               \/ (Place(c, dimension) = "none" /\ closedOn[c] # Never)
            THEN "gone" ELSE Place(c, dimension)
  BY <1>2 DEF Place
<1>4. \A c \in Connection, dimension \in Dimension :
         <<c, dimension>> \in unrecorded <=> Place(c, dimension) = "none" /\ closedOn[c] # Never
  BY LedgerSets
<1> HIDE DEF unrecorded
<1>5. \A c \in Connection, dimension \in Dimension :
         Place(c, dimension)' =
            IF <<c, dimension>> \in Ledger!In("memory") \cup unrecorded THEN "gone"
            ELSE Place(c, dimension)
  BY <1>3, <1>4, LedgerSets
<1>6. Places' = Ledger!Move(Ledger!In("memory") \cup unrecorded, "gone")
  BY <1>5, MovedPlaces
<1>7. LedgerPhase # "down" /\ LedgerPhase' = "down"
  BY <1>1 DEF LedgerPhase, StoreInv, TypeOK
<1>8. QED
  BY <1>1, <1>6, <1>7 DEF Ledger!Die, unrecorded

\* The steps that touch none of what the ledger has places for.
LEMMA OthersImplement ==
    ASSUME StoreInv,
           \/ Tick \/ Open \/ UNCHANGED storeVars
           \/ \E minute \in Minute : RecordSample(minute)
    PROVE  Ledger!Tick \/ Ledger!Start \/ UNCHANGED <<now, LedgerPhase, closedOn, Places>>
<1> USE DEF memory, database, flush
<1>1. UNCHANGED <<holder, pendingDaily, storedDaily, takenDaily, subject, left, closedOn>>
  BY DEF Tick, Open, RecordSample, storeVars
<1>2. \A c \in Connection, dimension \in Dimension :
         /\ InBucket(c, dimension)' <=> InBucket(c, dimension)
         /\ InMemory(c, dimension)' <=> InMemory(c, dimension)
         /\ Awaited(c, dimension)' <=> Awaited(c, dimension)
  BY <1>1 DEF InBucket, InMemory, Awaited
<1>3. Places' = Places
  BY <1>2, SamePlaces
<1>4. CASE Tick
  BY <1>1, <1>3, <1>4 DEF Tick, LedgerPhase, Ledger!Tick
<1>5. CASE Open
  BY <1>1, <1>3, <1>5 DEF Open, LedgerPhase, Ledger!Start
<1>6. CASE UNCHANGED <<now, phase>>
  BY <1>1, <1>3, <1>6 DEF LedgerPhase
<1>7. QED
  BY <1>4, <1>5, <1>6 DEF RecordSample, storeVars

LEMMA OperationImplements ==
    ASSUME StoreInv, KeepInv, SourceInv, Operation
    PROVE  [Ledger!Next]_(Ledger!ledgerVars)
<1>1. ASSUME UNCHANGED <<now, LedgerPhase, closedOn, Places>>
      PROVE  UNCHANGED Ledger!ledgerVars
  BY <1>1 DEF Ledger!ledgerVars
<1>2. CASE \E c \in Connection, day \in Day : closedOn[c] = Never /\ RecordClosed(c, day)
  BY <1>2, RecordClosedImplements DEF Ledger!Next
<1>3. CASE \E dimension \in left : RecordDimension(dimension)
  <2>1. PICK dimension \in Dimension : RecordDimension(dimension)
    BY <1>3 DEF StoreInv, TypeOK
  <2>2. subject.connection \in Connection
    BY <2>1 DEF RecordDimension, StoreInv, TypeOK
  <2>3. QED
    BY <2>1, <2>2, RecordDimensionImplements DEF Ledger!Next
<1>4. CASE Flush \/ Close \/ \E slot \in Entries(takenDaily) : FlushSlot(slot)
  BY <1>1, <1>4, FlushingImplements
<1>5. CASE Commit
  BY <1>5, CommitImplements DEF Ledger!Next
<1>6. CASE Fail
  BY <1>1, <1>6, FailImplements DEF Ledger!Next
<1>7. CASE Clear \/ Crash \/ Exit
  BY <1>7, ClearImplements, DeathImplements DEF Ledger!Next
<1>8. CASE \/ Tick \/ Open \/ UNCHANGED storeVars
           \/ \E minute \in Minute : RecordSample(minute)
  BY <1>1, <1>8, OthersImplement DEF Ledger!Next
<1>9. QED
  BY <1>2, <1>3, <1>4, <1>5, <1>6, <1>7, <1>8 DEF Operation, Critical

LEMMA InitialLedger == Init => KeepInv /\ SourceInv /\ Ledger!Init
<1> SUFFICES ASSUME Init PROVE KeepInv /\ SourceInv /\ Ledger!Init
  OBVIOUS
<1>1. KeepInv /\ SourceInv
  BY DEF Init, KeepInv, SourceInv
<1>2. \A c \in Connection, dimension \in Dimension : Place(c, dimension) = "none"
  BY EmptyMap DEF Init, Place, InBucket, InMemory, Awaited
<1>3. Places = [pair \in Pairs |-> "none"]
  BY <1>2 DEF Places, Pairs
<1>4. LedgerPhase = "open"
  BY DEF Init, LedgerPhase
<1>5. QED
  BY <1>1, <1>3, <1>4 DEF Init, Ledger!Init, Ledger!Pair, Pairs

-----------------------------------------------------------------------------
(* The theorems                                                            *)

\* The invariant behind the others: what is stored, pending and being flushed
\* never overlap, also in the bucket as an open transaction sees it.
THEOREM StoreSafety == Spec => []StoreInv
BY InitialStore, StoreSteps, PTL DEF Spec

\* The variables of the store are of their types.
THEOREM StoreTypes == Spec => []TypeOK
<1>1. StoreInv => TypeOK
  BY DEF StoreInv
<1>2. QED
  BY <1>1, StoreSafety, PTL

\* No connection is counted twice, whatever fails, is redirected or is put back
\* (flushLocked, RecordClosed).
THEOREM NoneCountedTwice == Spec => []ReportedOnce
BY StoreReportsOnce, StoreSafety, PTL

\* Every connection is counted on its day, under its value or "Other".
THEOREM CountedUnderItsKey == Spec => []ReportedRight
BY StoreReportsRight, StoreSafety, PTL

\* The limits of flushLocked and RecordClosed hold up to "Other" and one entry.
THEOREM StoreStaysBounded == Spec => []Bounded
BY StoreIsBounded, StoreSafety, PTL

\* Nothing leaves the reports but by clearing, by the death of the process before
\* a successful flush, or by age: failing flushes, the limits and an orderly stop
\* lose nothing (flushLocked, Close).
THEOREM NothingIsLost == Spec => NothingLost
<1>1. Init => KeepInv
  BY DEF Init, KeepInv
<1>2. ASSUME StoreInv, StoreInv', KeepInv, [Next]_statsVars
      PROVE  [\/ MayLose
              \/ /\ \A c \in Connection, dimension \in Dimension :
                       Reported(c, dimension) # {} =>
                           \/ Reported(c, dimension)' # {}
                           \/ closedOn[c] < DayOf(Cutoff)
                 /\ \A minute \in Minute :
                       History(minute)' < History(minute) =>
                           \/ minute < Cutoff
                           \/ History(minute)' = 1 /\ storedMinutes[minute] > 0]_statsVars
  <2>1. CASE UNCHANGED statsVars
    BY <2>1
  <2>2. CASE MayLose
    BY <2>2
  <2>3. CASE Commit
    BY <1>2, <2>3, CommitLosesNothing DEF Expires, Outlives
  <2>4. CASE Next /\ ~ Commit /\ ~ MayLose
    BY <1>2, <2>4, OthersLoseNothing DEF Outlives
  <2>5. QED
    BY <1>2, <2>1, <2>2, <2>3, <2>4
<1>3. QED
  BY <1>1, <1>2, NextIsOperation, KeepSteps, StoreSafety, PTL DEF Spec, NothingLost

\* The store implements the ledger, for all limits, dimensions and values: a flush
\* is one step in spite of its loops, its redirections and what it puts back;
\* pruning passes over expired keys only, and what was flushed survives the death
\* of the process (flushLocked, RecordClosed, Clear, Close, openStats).
THEOREM StoreIsLedger == Spec => ImplementsLedger
<1>1. StoreInv /\ KeepInv /\ SourceInv /\ [Next]_statsVars => KeepInv' /\ SourceInv'
  BY NextIsOperation, KeepSteps, SourceSteps
<1>2. StoreInv /\ KeepInv /\ SourceInv /\ [Next]_statsVars => [Ledger!Next]_(Ledger!ledgerVars)
  BY NextIsOperation, OperationImplements
<1>3. QED
  BY <1>1, <1>2, InitialLedger, StoreSafety, PTL DEF Spec, ImplementsLedger, Ledger!Spec
=============================================================================
