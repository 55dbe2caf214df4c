---------------------------- MODULE LogPage_proofs ----------------------------
(***************************************************************************)
(* The ring and the page that follows it, for any limits, filters and      *)
(* messages: FollowInv is inductive, so no entry is skipped and none shown *)
(* twice while nothing disturbs the page.                                  *)
(***************************************************************************)
EXTENDS LogPage, FiniteSetTheorems, TLAPS

\* The parts of TypeOK that the ring and the page change, for one step.
LEMMA RingNumbers ==
  ASSUME TypeOK
  PROVE  /\ next \in Nat \ {0} /\ oldest \in 1 .. next
         /\ Ring \subseteq 1 .. next - 1 /\ Ring \subseteq Nat
         /\ \A sequence \in Ring : log[sequence] \in Message
  BY DEF TypeOK, Ring

\* An answer that is empty had nothing to return: the limit is not 0.
LEMMA EmptyAnswer ==
  ASSUME NEW poll, Answer(poll, {})
  PROVE  Matching(poll) = {}
<1>1. Cardinality({}) = 0
  BY FS_EmptySet
<1>2. QED
  BY <1>1, LogAssumption DEF Answer

-----------------------------------------------------------------------------
(* The limits of the ring.                                                 *)

LEMMA InitWithin == Init => WithinLimits
<1> SUFFICES ASSUME Init PROVE WithinLimits
  OBVIOUS
<1>1. next - oldest = 0 /\ MaxItems \in Nat
  BY LogAssumption DEF Init
<1>2. QED
  BY <1>1 DEF WithinLimits

\* Add ends its loop with an entry from which on the rest fits.
LEMMA AddWithin ==
  ASSUME TypeOK, NEW message \in Message, Add(message)
  PROVE  WithinLimits'
<1>1. PICK first \in oldest .. next : Fits(first) /\ oldest' = first
  BY DEF Add
<1>2. next \in Nat /\ first \in Int /\ next' = next + 1 /\ next' - 1 = next
  BY <1>1, RingNumbers DEF Add
<1>3. next' - oldest' <= MaxItems
  BY <1>1, <1>2 DEF Fits
<1>4. Bytes(log', oldest', next' - 1) <= MaxBytes \/ next' - oldest' <= 1
  <2>1. CASE Bytes(log', first, next) <= MaxBytes
    BY <1>1, <1>2, <2>1
  <2>2. CASE first = next
    BY <1>1, <1>2, <2>2
  <2>3. QED
    BY <1>1, <2>1, <2>2 DEF Fits
<1>5. QED
  BY <1>3, <1>4 DEF WithinLimits

LEMMA RestartWithin ==
  ASSUME Restart
  PROVE  WithinLimits'
<1>1. next' - oldest' = 0 /\ MaxItems \in Nat
  BY LogAssumption DEF Restart
<1>2. QED
  BY <1>1 DEF WithinLimits

-----------------------------------------------------------------------------
(* Type correctness, action by action.                                     *)

LEMMA InitTypes == Init => TypeOK
<1> SUFFICES ASSUME Init PROVE TypeOK
  OBVIOUS
<1>1. log \in [1 .. next - 1 -> Message]
  BY DEF Init
<1>2. oldest \in 1 .. next
  BY DEF Init
<1>3. polls \subseteq Poll /\ shown \subseteq Nat
  BY DEF Init
<1>4. paused \in BOOLEAN /\ disturbed \in BOOLEAN
  BY DEF Init
<1>5. next \in Nat \ {0} /\ filter \in Filter /\ cursor \in Nat /\ restarts \in Nat /\ orders \in Nat
  BY DEF Init
<1>6. QED
  BY <1>1, <1>2, <1>3, <1>4, <1>5, InitWithin DEF TypeOK

LEMMA AddTypes ==
  ASSUME TypeOK, NEW message \in Message, Add(message)
  PROVE  TypeOK'
<1>1. next' = next + 1 /\ next' \in Nat \ {0} /\ 1 .. next' - 1 = 1 .. next
  BY RingNumbers DEF Add
<1>2. log' \in [1 .. next' - 1 -> Message]
  <2>1. \A sequence \in 1 .. next : sequence # next => log[sequence] \in Message
    BY RingNumbers DEF TypeOK
  <2>2. QED
    BY <1>1, <2>1 DEF Add
<1>3. oldest' \in 1 .. next'
  <2>1. oldest' \in oldest .. next
    BY DEF Add
  <2>2. QED
    BY <1>1, <2>1, RingNumbers
<1>4. QED
  BY <1>1, <1>2, <1>3, AddWithin DEF TypeOK, Add, page, Poll

LEMMA RestartTypes ==
  ASSUME TypeOK, Restart
  PROVE  TypeOK'
<1>1. log' \in [1 .. next' - 1 -> Message]
  BY DEF Restart
<1>2. oldest' \in 1 .. next'
  BY DEF Restart
<1>3. polls' \subseteq Poll /\ restarts' \in Nat
  <2>1. ASSUME NEW sent \in Poll PROVE [sent EXCEPT !.entries = {}] \in Poll
    BY DEF Poll
  <2>2. polls' \subseteq {[sent EXCEPT !.entries = {}] : sent \in Poll}
    BY DEF TypeOK, Restart
  <2>3. QED
    BY <2>1, <2>2 DEF TypeOK, Restart
<1>4. QED
  BY <1>1, <1>2, <1>3, RestartWithin DEF TypeOK, Restart

\* A request has the type of a poll.
LEMMA RequestType ==
  ASSUME NEW origin \in {"timer", "user"}, NEW from \in Nat, NEW wanted \in Filter
  PROVE  Request(origin, from, wanted) \in Poll
  BY DEF Request, Poll

LEMMA ServeTypes ==
  ASSUME TypeOK, NEW poll \in polls, Serve(poll)
  PROVE  TypeOK'
<1>1. poll \in Poll
  BY DEF TypeOK
<1>2. PICK entries \in SUBSET Matching(poll), latest \in {poll.cursor} \cup (0 .. next) :
         polls' = (polls \ {poll}) \cup
            {[origin |-> poll.origin, filter |-> poll.filter, cursor |-> poll.cursor,
              served |-> TRUE, entries |-> entries, latest |-> latest]}
  BY DEF Serve
<1>3. entries \in SUBSET Nat
  BY RingNumbers DEF Matching
<1>4. latest \in Nat
  BY <1>1, RingNumbers DEF Poll
<1>5. polls' \subseteq Poll
  <2> DEFINE answered == [origin |-> poll.origin, filter |-> poll.filter, cursor |-> poll.cursor,
                          served |-> TRUE, entries |-> entries, latest |-> latest]
  <2>1. poll.origin \in {"timer", "user"} /\ poll.filter \in Filter /\ poll.cursor \in Nat
    BY <1>1 DEF Poll
  <2>2. answered \in Poll
    BY <2>1, <1>3, <1>4 DEF Poll
  <2>3. QED
    BY <1>2, <2>2 DEF TypeOK
<1>6. QED
  BY <1>5 DEF TypeOK, WithinLimits, Serve, ring, page

LEMMA PageTypes ==
  ASSUME TypeOK,
         \/ TimedPoll
         \/ \E poll \in polls : Receive(poll) \/ Lose(poll)
         \/ \E wanted \in Filter : ResetQuery(wanted)
         \/ TogglePause
  PROVE  TypeOK'
<1>1. CASE TimedPoll
  <2>1. Request("timer", cursor, filter) \in Poll
    BY RequestType DEF TypeOK
  <2>2. QED
    BY <1>1, <2>1 DEF TypeOK, WithinLimits, TimedPoll, ring
<1>2. ASSUME NEW poll \in polls, Receive(poll) PROVE TypeOK'
  <2>1. poll.entries \subseteq Nat /\ poll.latest \in Nat
    BY DEF TypeOK, Poll
  <2>2. polls' \subseteq Poll /\ cursor' \in Nat /\ shown' \subseteq Nat
    BY <1>2, <2>1 DEF TypeOK, Receive
  <2>3. QED
    BY <1>2, <2>2 DEF TypeOK, WithinLimits, Receive, ring
<1>3. ASSUME NEW poll \in polls, Lose(poll) PROVE TypeOK'
  BY <1>3 DEF TypeOK, WithinLimits, Lose, ring, page
<1>4. ASSUME NEW wanted \in Filter, ResetQuery(wanted) PROVE TypeOK'
  <2>1. Request("user", 0, wanted) \in Poll
    BY RequestType
  <2>2. polls' \subseteq Poll
    BY <1>4, <2>1 DEF TypeOK, ResetQuery
  <2>3. QED
    BY <1>4, <2>2 DEF TypeOK, WithinLimits, ResetQuery, ring
<1>5. CASE TogglePause
  <2>1. Request("user", cursor, filter) \in Poll
    BY RequestType DEF TypeOK
  <2>2. polls' \subseteq Poll /\ disturbed' \in BOOLEAN /\ paused' \in BOOLEAN
    BY <1>5, <2>1 DEF TypeOK, TogglePause
  <2>3. QED
    BY <1>5, <2>2 DEF TypeOK, WithinLimits, TogglePause, ring
<1>6. QED
  BY <1>1, <1>2, <1>3, <1>4, <1>5

\* Every step keeps the types.
LEMMA StepTypes ==
  ASSUME TypeOK, [Next]_vars
  PROVE  TypeOK'
<1>1. CASE UNCHANGED vars
  BY <1>1 DEF TypeOK, WithinLimits, vars, ring, page
<1>2. CASE Next
  BY <1>2, AddTypes, RestartTypes, ServeTypes, PageTypes DEF Next
<1>3. QED
  BY <1>1, <1>2

\* However long the messages and whatever the limits: the ring is the end of what
\* was logged and holds no more entries than its limit, and no more bytes, unless a
\* single entry is longer than that; requests and answers are well formed
\* (logring.go Add and Query, logs.js).
THEOREM LogTypes == Spec => []TypeOK
<1>1. QED
  BY InitTypes, StepTypes, PTL DEF Spec

-----------------------------------------------------------------------------
(* The page follows the ring.                                              *)

LEMMA InitFollows == Init => FollowInv
<1> SUFFICES ASSUME Init PROVE FollowInv
  OBVIOUS
<1>1. Ring = {}
  BY DEF Init, Ring
<1>2. QED
  BY <1>1, InitTypes DEF Init, FollowInv, NothingSkipped

\* A new entry lies past the cursor, and past those of the answers under way.
LEMMA AddFollows ==
  ASSUME FollowInv, NEW message \in Message, Add(message)
  PROVE  FollowInv'
<1>1. TypeOK' /\ TypeOK
  BY AddTypes DEF FollowInv
<1>2. /\ next' = next + 1 /\ log' = [sequence \in 1 .. next |-> IF sequence = next THEN message ELSE log[sequence]]
      /\ UNCHANGED <<page, polls>>
  BY DEF Add
<1>3. oldest' \in oldest .. next
  BY DEF Add
<1>4. \A sequence \in Ring' :
         \/ sequence = next
         \/ sequence \in Ring /\ log'[sequence] = log[sequence]
  BY <1>1, <1>2, <1>3 DEF Ring, TypeOK
<1>5. ASSUME ~ disturbed' PROVE cursor' < next' /\ cursor < next
  <2>1. cursor < next
    BY <1>2, <1>5 DEF FollowInv, page
  <2>2. QED
    BY <1>1, <1>2, <2>1 DEF TypeOK, page
<1>6. NothingSkipped'
  <2> SUFFICES ASSUME ~ disturbed', NEW sequence \in Ring', sequence <= cursor',
                      Matches(filter', log'[sequence])
               PROVE  sequence \in shown'
    BY DEF NothingSkipped
  <2>1. sequence # next
    BY <1>1, <1>2, <1>5 DEF TypeOK, page
  <2>2. sequence \in Ring /\ log'[sequence] = log[sequence]
    BY <1>4, <2>1
  <2>3. QED
    BY <1>2, <2>2 DEF FollowInv, NothingSkipped, page
<1>7. ASSUME ~ disturbed', NEW poll \in polls' PROVE Continues(poll)'
  <2>1. poll \in polls /\ Continues(poll) /\ poll \in Poll
    BY <1>1, <1>2, <1>7 DEF FollowInv, TypeOK, page
  <2>2. poll.served => poll.latest >= cursor /\ poll.latest < next /\ poll.latest < next'
    BY <1>1, <1>2, <2>1 DEF Continues, Poll, TypeOK
  <2>3. ASSUME poll.served, NEW sequence \in Ring', sequence > cursor, sequence <= poll.latest,
               Matches(filter, log'[sequence])
        PROVE  sequence \in poll.entries
    <3>1. sequence # next
      BY <1>1, <2>1, <2>2, <2>3 DEF TypeOK, Poll
    <3>2. QED
      BY <1>4, <2>1, <2>3, <3>1 DEF Continues
  <2>4. QED
    BY <1>2, <2>1, <2>2, <2>3 DEF Continues, page
<1>8. QED
  BY <1>1, <1>2, <1>5, <1>6, <1>7 DEF FollowInv, page

\* The answer holds what matches between the cursor and its last entry, or, when
\* nothing matches, up to the newest entry.
LEMMA ServeFollows ==
  ASSUME FollowInv, NEW poll \in polls, Serve(poll)
  PROVE  FollowInv'
<1>1. TypeOK /\ TypeOK' /\ UNCHANGED <<ring, page>> /\ poll \in Poll
  BY ServeTypes DEF FollowInv, Serve, TypeOK
<1>2. PICK entries \in SUBSET Matching(poll), latest \in {poll.cursor} \cup (0 .. next) :
         /\ Answer(poll, entries) /\ LatestCursor(poll, entries, latest)
         /\ polls' = (polls \ {poll}) \cup
               {[origin |-> poll.origin, filter |-> poll.filter, cursor |-> poll.cursor,
                 served |-> TRUE, entries |-> entries, latest |-> latest]}
  BY DEF Serve
<1> DEFINE answered == [origin |-> poll.origin, filter |-> poll.filter, cursor |-> poll.cursor,
                        served |-> TRUE, entries |-> entries, latest |-> latest]
<1>3. Ring' = Ring /\ NothingSkipped'
  BY <1>1 DEF FollowInv, NothingSkipped, Ring, ring, page
<1>4. ASSUME ~ disturbed
      PROVE  polls' = {answered} /\ Continues(answered) /\ cursor < next
             /\ \A sequence \in shown : sequence <= cursor
  <2>1. polls = {poll} /\ poll.filter = filter /\ poll.cursor = cursor /\ cursor < next
    BY <1>4 DEF FollowInv, Continues
  <2>2. \A sequence \in Matching(poll) : sequence \in Nat /\ sequence > cursor /\ sequence < next
    BY <2>1, RingNumbers, <1>1 DEF Matching
  <2>3. cursor \in Nat /\ next \in Nat \ {0}
    BY <1>1 DEF TypeOK
  <2>4. latest >= cursor /\ latest < next /\ \A sequence \in entries : sequence <= latest
    BY <1>2, <2>1, <2>2, <2>3 DEF LatestCursor
  <2>5. ASSUME NEW sequence \in Ring, sequence > cursor, sequence <= latest,
               Matches(filter, log[sequence])
        PROVE  sequence \in entries
    <3>1. sequence \in Matching(poll)
      BY <2>1, <2>5 DEF Matching
    <3>2. CASE entries = {}
      <4>1. Matching(poll) = {}
        BY <1>2, <3>2, EmptyAnswer
      <4>2. QED
        BY <3>1, <4>1
    <3>3. CASE entries # {}
      <4>1. latest \in entries
        BY <1>2, <3>3 DEF LatestCursor
      <4>2. sequence < latest \/ sequence = latest
        BY <2>2, <2>5, <3>1, <4>1
      <4>3. QED
        BY <1>2, <3>1, <4>1, <4>2 DEF Answer
    <3>4. QED
      BY <3>2, <3>3
  <2>6. Continues(answered)
    BY <2>1, <2>2, <2>4, <2>5 DEF Continues
  <2>7. QED
    BY <1>2, <1>4, <2>1, <2>6 DEF FollowInv
<1>5. ASSUME ~ disturbed PROVE Continues(answered)'
  <2>1. Continues(answered)
    BY <1>4, <1>5
  <2>2. cursor' = cursor /\ next' = next /\ filter' = filter /\ log' = log
    BY <1>1 DEF ring, page
  <2>3. QED
    BY <1>3, <2>1, <2>2 DEF Continues
<1>6. QED
  BY <1>1, <1>3, <1>4, <1>5 DEF FollowInv, ring, page

\* What the page takes from the only poll ends where the new cursor is.
LEMMA ReceiveFollows ==
  ASSUME FollowInv, NEW poll \in polls, Receive(poll)
  PROVE  FollowInv'
<1>1. TypeOK /\ TypeOK' /\ UNCHANGED <<ring, filter, disturbed>> /\ poll \in Poll /\ poll.served
  BY PageTypes DEF FollowInv, Receive, TypeOK
<1>2. ASSUME ~ disturbed'
      PROVE  /\ polls' = {} /\ cursor' = poll.latest /\ shown' = shown \cup poll.entries
             /\ cursor' < next' /\ \A sequence \in shown' : sequence <= cursor'
             /\ NothingSkipped'
  <2>1. ~ disturbed /\ polls = {poll} /\ Continues(poll)
    BY <1>1, <1>2 DEF FollowInv
  <2>2. poll.latest >= cursor /\ poll.latest < next /\ poll.latest \in Nat /\ cursor \in Nat
    BY <1>1, <2>1 DEF Continues, Poll, TypeOK
  <2>3. polls' = {} /\ cursor' = poll.latest /\ shown' = shown \cup poll.entries /\ next' = next
    BY <1>1, <2>1, <2>2 DEF Receive, ring
  <2>4. \A sequence \in shown : sequence <= cursor /\ sequence \in Nat
    BY <1>1, <2>1 DEF FollowInv, TypeOK
  <2>5. \A sequence \in poll.entries : sequence <= poll.latest
    BY <1>1, <2>1 DEF Continues
  <2>6. \A sequence \in shown' : sequence <= cursor'
    BY <2>2, <2>3, <2>4, <2>5
  <2>7. ASSUME NEW sequence \in Ring, sequence <= poll.latest, Matches(filter, log[sequence])
        PROVE  sequence \in shown \cup poll.entries
    <3>1. sequence \in Nat
      BY <1>1, RingNumbers
    <3>2. sequence <= cursor \/ sequence > cursor
      BY <2>2, <3>1
    <3>3. QED
      BY <1>1, <2>1, <2>7, <3>2 DEF FollowInv, NothingSkipped, Continues
  <2>8. NothingSkipped'
    BY <1>1, <2>3, <2>7 DEF NothingSkipped, Ring, ring
  <2>9. QED
    BY <2>2, <2>3, <2>6, <2>8
<1>3. NothingSkipped'
  <2>1. CASE disturbed'
    BY <2>1 DEF NothingSkipped
  <2>2. CASE ~ disturbed'
    BY <1>2, <2>2
  <2>3. QED
    BY <2>1, <2>2
<1>4. QED
  BY <1>1, <1>2, <1>3 DEF FollowInv

\* The other steps of the page leave at most one poll, which asks for what the
\* page wants, or they count as a disturbance.
LEMMA PageFollows ==
  ASSUME FollowInv,
         \/ TimedPoll
         \/ \E poll \in polls : Lose(poll)
         \/ \E wanted \in Filter : ResetQuery(wanted)
         \/ TogglePause
  PROVE  FollowInv'
<1>1. TypeOK /\ TypeOK'
  BY PageTypes DEF FollowInv
<1>2. CASE TimedPoll
  <2>1. UNCHANGED <<ring, filter, cursor, shown>>
    BY <1>2 DEF TimedPoll
  <2>2. NothingSkipped'
    BY <1>2, <2>1 DEF TimedPoll, FollowInv, NothingSkipped, Ring, ring
  <2>3. ASSUME ~ disturbed'
        PROVE  ~ disturbed /\ polls' = {Request("timer", cursor, filter)}
    BY <1>2, <2>3 DEF TimedPoll
  <2>4. ASSUME ~ disturbed' PROVE Continues(Request("timer", cursor, filter))'
    BY <2>1 DEF Continues, Request
  <2>5. QED
    BY <1>1, <2>1, <2>2, <2>3, <2>4 DEF FollowInv, ring
<1>3. ASSUME NEW poll \in polls, Lose(poll) PROVE FollowInv'
  <2>1. polls' \subseteq polls /\ UNCHANGED <<log, next, oldest, filter, cursor, shown, disturbed>>
    BY <1>3 DEF Lose, ring, page
  <2>2. NothingSkipped' /\ \A other : Continues(other) => Continues(other)'
    BY <2>1 DEF FollowInv, NothingSkipped, Continues, Ring
  <2>3. QED
    BY <1>1, <2>1, <2>2 DEF FollowInv
<1>4. ASSUME NEW wanted \in Filter, ResetQuery(wanted) PROVE FollowInv'
  <2>1. /\ filter' = wanted /\ cursor' = 0 /\ shown' = {} /\ UNCHANGED ring
        /\ disturbed' = (polls # {})
        /\ polls' = IF paused THEN polls ELSE polls \cup {Request("user", 0, wanted)}
    BY <1>4 DEF ResetQuery
  <2>2. \A sequence \in Ring' : ~ sequence <= cursor'
    BY <1>1, <2>1, RingNumbers DEF Ring, ring
  <2>3. NothingSkipped'
    BY <2>2 DEF NothingSkipped
  <2>4. cursor' < next'
    BY <1>1, <2>1 DEF TypeOK
  <2>5. Continues(Request("user", 0, wanted))'
    BY <2>1 DEF Continues, Request
  <2>6. ASSUME ~ disturbed' PROVE polls' \subseteq {Request("user", 0, wanted)}
    BY <2>1, <2>6
  <2>7. QED
    BY <1>1, <2>1, <2>3, <2>4, <2>5, <2>6 DEF FollowInv
<1>5. CASE TogglePause
  <2>1. UNCHANGED <<ring, filter, cursor, shown>>
    BY <1>5 DEF TogglePause
  <2>2. disturbed => disturbed'
    BY <1>1, <1>5 DEF TogglePause, TypeOK
  <2>3. NothingSkipped'
    BY <2>1, <2>2 DEF FollowInv, NothingSkipped, Ring, ring
  <2>4. Continues(Request("user", cursor, filter))'
    BY <2>1 DEF Continues, Request
  <2>5. \A other : Continues(other) => Continues(other)'
    BY <2>1 DEF Continues, Ring, ring
  <2>6. ASSUME ~ disturbed'
        PROVE  polls' = polls \/ polls' = {Request("user", cursor, filter)}
    BY <1>5, <2>6 DEF TogglePause
  <2>7. QED
    BY <1>1, <2>1, <2>2, <2>3, <2>4, <2>5, <2>6 DEF FollowInv, ring
<1>6. QED
  BY <1>2, <1>3, <1>4, <1>5

\* The inductive invariant: every step keeps the page at most one poll behind.
THEOREM PageFollowsRing == Spec => []FollowInv
<1>1. ASSUME FollowInv, [Next]_vars PROVE FollowInv'
  <2>1. CASE UNCHANGED vars
    <3>1. TypeOK'
      BY <1>1, StepTypes DEF FollowInv
    <3>2. QED
      BY <1>1, <2>1, <3>1 DEF FollowInv, NothingSkipped, Continues, Ring, vars, ring, page
  <2>2. ASSUME NEW message \in Message, Add(message) PROVE FollowInv'
    BY <1>1, <2>2, AddFollows
  <2>3. CASE Restart
    <3>1. TypeOK' /\ disturbed'
      BY <1>1, <2>3, RestartTypes DEF FollowInv, Restart
    <3>2. QED
      BY <3>1 DEF FollowInv, NothingSkipped
  <2>4. ASSUME NEW poll \in polls, Serve(poll) PROVE FollowInv'
    BY <1>1, <2>4, ServeFollows
  <2>5. ASSUME NEW poll \in polls, Receive(poll) PROVE FollowInv'
    BY <1>1, <2>5, ReceiveFollows
  <2>6. ASSUME NEW poll \in polls, Lose(poll) PROVE FollowInv'
    BY <1>1, <2>6, PageFollows
  <2>7. CASE TimedPoll \/ TogglePause \/ \E wanted \in Filter : ResetQuery(wanted)
    BY <1>1, <2>7, PageFollows
  <2>8. QED
    BY <1>1, <2>1, <2>2, <2>3, <2>4, <2>5, <2>6, <2>7 DEF Next
<1>2. QED
  BY <1>1, InitFollows, PTL DEF Spec

\* Nothing the ring still has is passed over: not by an answer cut off at its
\* limit, not by a poll that matches nothing, not by a filter chosen meanwhile
\* (logring.go Query, logs.js resetQuery).
THEOREM NoEntryIsSkipped == Spec => []NothingSkipped
<1>1. FollowInv => NothingSkipped
  BY DEF FollowInv
<1>2. QED
  BY <1>1, PageFollowsRing, PTL

\* What an answer adds is newer than all that is shown (logs.js pollLogs).
THEOREM NoEntryIsShownTwice == Spec => []NothingTwice
<1>1. FollowInv => NothingTwice
  <2> SUFFICES ASSUME FollowInv, ~ disturbed, NEW poll \in polls, poll.served,
                      NEW new \in poll.entries, NEW old \in shown
               PROVE  old < new
    BY DEF NothingTwice
  <2>1. new > cursor /\ old <= cursor
    BY DEF FollowInv, Continues
  <2>2. new \in Nat /\ old \in Nat /\ cursor \in Nat
    BY DEF FollowInv, TypeOK, Poll
  <2>3. QED
    BY <2>1, <2>2
<1>2. QED
  BY <1>1, PageFollowsRing, PTL
=============================================================================
