------------------------------- MODULE LogPage -------------------------------
(***************************************************************************)
(* The ring in which the panel keeps Mihomo's last log lines               *)
(* (internal/panel/logring.go), and a page view/mihomo/logs.js that        *)
(* follows it: every poll asks for the entries after a cursor and takes    *)
(* the new cursor from the answer.  Polls may overlap, the filter may      *)
(* change while one is under way, and the panel may restart.               *)
(*                                                                         *)
(* The ring's entries are those with the sequence numbers oldest .. next-1 *)
(* of everything logged; the messages stand for level and text.            *)
(***************************************************************************)
EXTENDS Integers, FiniteSets, FiniteSetsExt

CONSTANTS
    Message,        \* log entries by what a filter and the limits see of them
    Size(_),        \* bytes of a message, at most 64 KiB: Add cuts the rest off
    Filter,         \* combinations of level and search
    Matches(_, _),  \* whether a filter lets a message through
    MaxItems,       \* maxItems of the ring
    MaxBytes,       \* maxBytes of the ring
    Limit,          \* entries in one answer: limit=500
    MaxEntries,     \* bound on the lines logged between two starts of the panel
    MaxRestarts,    \* bound on the restarts of the panel
    MaxOrders       \* bound on what the user does

ASSUME LogAssumption ==
    /\ MaxItems \in Nat \ {0} /\ MaxBytes \in Nat /\ Limit \in Nat \ {0}
    /\ MaxEntries \in Nat /\ MaxRestarts \in Nat /\ MaxOrders \in Nat
    /\ \A message \in Message : Size(message) \in Nat
    /\ \A wanted \in Filter, message \in Message : Matches(wanted, message) \in BOOLEAN

VARIABLES
    log,       \* what was logged since the panel started, by sequence number
    next,      \* ring.next
    oldest,    \* the first entry the ring still has
    filter,    \* the page: level and search
    cursor,    \* the page: cursor
    paused,    \* the page: paused
    polls,     \* requests of the page under way, and their answers
    shown,     \* history: the entries the page got since its last reset
    disturbed, \* history: polls overlapped or the panel restarted since then
    restarts,  \* restarts of the panel
    orders     \* what the user did so far

ring == <<log, next, oldest, restarts>>
page == <<filter, cursor, paused, shown, disturbed, orders>>
vars == <<ring, page, polls>>

Ring == oldest .. next - 1

\* "timer" for the poll LuCI repeats, which never overlaps itself; "user" for
\* the poll a reset or a resume starts.
Poll ==
    [origin : {"timer", "user"}, filter : Filter, cursor : Nat, served : BOOLEAN,
     entries : SUBSET Nat, latest : Nat]

Init ==
    /\ log = [sequence \in {} |-> 0] /\ next = 1 /\ oldest = 1 /\ restarts = 0
    /\ filter \in Filter /\ cursor = 0 /\ paused = FALSE /\ polls = {}
    /\ shown = {} /\ disturbed = FALSE /\ orders = 0

-----------------------------------------------------------------------------
(* The ring.                                                               *)

\* The bytes of the entries from first to last.
Bytes(entries, first, last) ==
    MapThenSumSet(LAMBDA sequence : Size(entries[sequence]), first .. last)

\* Faulty variant: only the entries are counted.
FitsItems(first) == next + 1 - first <= MaxItems

\* Faulty variant: the loop goes on until there is room for one more entry.
FitsBelow(first) ==
    \/ next + 1 - first < MaxItems /\ Bytes(log', first, next) <= MaxBytes
    \/ first = next

\* With the entry that Add appends, those from first on fit, or first is that entry.
Fits(first) ==
    /\ next + 1 - first <= MaxItems
    /\ Bytes(log', first, next) <= MaxBytes \/ first = next

\* Add: the loop at its end drops from the oldest on until the rest fits.
Add(message) ==
    /\ next <= MaxEntries /\ Size(message) > 0
    /\ log' = [sequence \in 1 .. next |-> IF sequence = next THEN message ELSE log[sequence]]
    /\ next' = next + 1
    /\ \E first \in oldest .. next :
          /\ Fits(first) /\ \A other \in oldest .. first - 1 : ~ Fits(other)
          /\ oldest' = first
    /\ UNCHANGED <<page, polls, restarts>>

\* The panel dies and starts with an empty ring.  Requests it has not answered
\* fail, answers it has sent may still arrive; the numbers of entries in them and
\* in shown name nothing any more.
Restart ==
    /\ restarts < MaxRestarts /\ restarts' = restarts + 1
    /\ log' = [sequence \in {} |-> 0] /\ next' = 1 /\ oldest' = 1
    /\ polls' = {[sent EXCEPT !.entries = {}] : sent \in {poll \in polls : poll.served}}
    /\ shown' = {} /\ disturbed' = TRUE
    /\ UNCHANGED <<filter, cursor, paused, orders>>

\* Query: the entries after the cursor that match,
Matching(poll) ==
    {sequence \in Ring : sequence > poll.cursor /\ Matches(poll.filter, log[sequence])}

\* of which it takes the first ones, all of them or as many as the limit.
Answer(poll, entries) ==
    /\ \A late \in entries, early \in Matching(poll) : early < late => early \in entries
    /\ IF entries = Matching(poll) THEN Cardinality(entries) <= Limit
                                  ELSE Cardinality(entries) = Limit

\* Faulty variant: the cursor is always that of the newest entry.
NewestCursor(poll, entries, latest) ==
    IF next > 1 THEN latest = next - 1 ELSE latest = poll.cursor

\* Faulty variant: without a match it is the number the next entry gets.
PastCursor(poll, entries, latest) ==
    IF entries # {} THEN latest \in entries /\ \A sequence \in entries : sequence <= latest
    ELSE latest = next

\* Faulty variant: without a match the cursor stays where it is.
KeptCursor(poll, entries, latest) ==
    IF entries # {} THEN latest \in entries /\ \A sequence \in entries : sequence <= latest
    ELSE latest = poll.cursor

\* The cursor of an answer: its last entry, or the newest of all.
LatestCursor(poll, entries, latest) ==
    IF entries # {} THEN latest \in entries /\ \A sequence \in entries : sequence <= latest
    ELSE IF next > 1 THEN latest = next - 1
    ELSE latest = poll.cursor

Serve(poll) ==
    /\ ~ poll.served
    /\ \E entries \in SUBSET Matching(poll), latest \in {poll.cursor} \cup (0 .. next) :
          /\ Answer(poll, entries) /\ LatestCursor(poll, entries, latest)
          /\ polls' = (polls \ {poll}) \cup
                {[origin |-> poll.origin, filter |-> poll.filter, cursor |-> poll.cursor,
                  served |-> TRUE, entries |-> entries, latest |-> latest]}
    /\ UNCHANGED <<ring, page>>

-----------------------------------------------------------------------------
(* The page.                                                               *)

Request(origin, from, wanted) ==
    [origin |-> origin, filter |-> wanted, cursor |-> from, served |-> FALSE,
     entries |-> {}, latest |-> 0]

\* LuCI calls pollLogs every two seconds unless its last call is under way.
TimedPoll ==
    /\ ~ paused /\ \A poll \in polls : poll.origin # "timer"
    /\ polls' = polls \cup {Request("timer", cursor, filter)}
    /\ disturbed' = (disturbed \/ polls # {})
    /\ UNCHANGED <<ring, filter, cursor, paused, shown, orders>>

\* Faulty variant: the answer's entries are taken, its cursor is not.
ReceiveEntries(poll) ==
    /\ poll.served /\ polls' = polls \ {poll}
    /\ shown' = shown \cup poll.entries
    /\ UNCHANGED <<ring, filter, cursor, paused, disturbed, orders>>

\* The answer is added to what is shown, whatever the page asks for by now.
Receive(poll) ==
    /\ poll.served /\ polls' = polls \ {poll}
    /\ cursor' = IF poll.latest # 0 THEN poll.latest ELSE cursor
    /\ shown' = shown \cup poll.entries
    /\ UNCHANGED <<ring, filter, paused, disturbed, orders>>

\* The request or its answer is lost; the page keeps what it has.
Lose(poll) ==
    /\ polls' = polls \ {poll}
    /\ UNCHANGED <<ring, page>>

\* resetQuery, after another level or search was chosen.
ResetQuery(wanted) ==
    /\ orders < MaxOrders /\ orders' = orders + 1
    /\ filter' = wanted /\ cursor' = 0 /\ shown' = {}
    /\ polls' = IF paused THEN polls ELSE polls \cup {Request("user", 0, wanted)}
    /\ disturbed' = (polls # {})
    /\ UNCHANGED <<ring, paused>>

TogglePause ==
    /\ orders < MaxOrders /\ orders' = orders + 1
    /\ paused' = ~ paused
    /\ IF paused THEN /\ polls' = polls \cup {Request("user", cursor, filter)}
                      /\ disturbed' = (disturbed \/ polls # {})
                 ELSE UNCHANGED <<polls, disturbed>>
    /\ UNCHANGED <<ring, filter, cursor, shown>>

-----------------------------------------------------------------------------
Next ==
    \/ \E message \in Message : Add(message)
    \/ Restart
    \/ TimedPoll
    \/ \E poll \in polls : Serve(poll) \/ Receive(poll) \/ Lose(poll)
    \/ \E wanted \in Filter : ResetQuery(wanted)
    \/ TogglePause

Spec == Init /\ [][Next]_vars

\* LuCI keeps polling, and of polls repeated for ever some are answered.
Fairness ==
    /\ WF_vars(TimedPoll)
    /\ SF_vars(\E poll \in polls : Serve(poll))
    /\ SF_vars(\E poll \in polls : Receive(poll))

FairSpec == Spec /\ Fairness

-----------------------------------------------------------------------------
(* Properties.                                                             *)

\* The limits of entries and of bytes; only an entry that is alone in the ring may
\* be longer than the limit.
WithinLimits ==
    /\ next - oldest <= MaxItems
    /\ Bytes(log, oldest, next - 1) <= MaxBytes \/ next - oldest <= 1

\* The type invariant: the ring is the end of what was logged and stays within its
\* limits of entries and of bytes (logring.go Add), and requests, answers and what
\* the page shows name entries by numbers.
TypeOK ==
    /\ next \in Nat \ {0} /\ log \in [1 .. next - 1 -> Message]
    /\ oldest \in 1 .. next /\ WithinLimits
    /\ filter \in Filter /\ cursor \in Nat /\ paused \in BOOLEAN
    /\ polls \subseteq Poll /\ shown \subseteq Nat /\ disturbed \in BOOLEAN
    /\ restarts \in Nat /\ orders \in Nat

\* The ring drops nothing that it has room for: with the last entry it dropped it
\* would exceed a limit (the loop in Add stops as soon as the rest fits).
DropsOnlyExcess ==
    oldest > 1 => \/ next - (oldest - 1) > MaxItems
                  \/ Bytes(log, oldest - 1, next - 1) > MaxBytes

\* The cursor never passes an entry the page should have got: what the ring still
\* has up to the cursor and what matches is shown, although answers end at their
\* limit and a poll without a match moves the cursor to the newest entry
\* (logring.go Query), as long as polls did not overlap and the panel did not
\* restart since the last reset.
NothingSkipped ==
    ~ disturbed =>
       \A sequence \in Ring :
          sequence <= cursor /\ Matches(filter, log[sequence]) => sequence \in shown

\* Under the same condition an answer under way continues what is shown: all its
\* entries are newer, so that no line appears twice or out of order (logs.js
\* pollLogs appends what it gets).
NothingTwice ==
    ~ disturbed =>
       \A poll \in polls : poll.served =>
          \A new \in poll.entries, old \in shown : old < new

\* A page that is not paused gets every entry that matches, unless the ring
\* drops it first, the user chooses another filter or pauses, polls overlap or
\* the panel restarts.
EntriesShown ==
    \A sequence \in 1 .. MaxEntries, wanted \in Filter :
       LET Waiting == /\ sequence \in Ring /\ Matches(wanted, log[sequence])
                      /\ filter = wanted /\ ~ paused /\ ~ disturbed
       IN  Waiting ~> (~ Waiting \/ sequence \in shown)

\* After a restart of the panel, whose sequence numbers start at 1 again, a page
\* with a larger cursor follows the new entries in the end, without a reload.
CursorHeals ==
    (next > 1 /\ cursor >= next /\ ~ paused) ~> (cursor < next \/ paused)

-----------------------------------------------------------------------------
\* While nothing disturbs it, the page has one poll at most, and that poll's
\* answer takes up where the page is.
Continues(poll) ==
    /\ poll.filter = filter /\ poll.cursor = cursor
    /\ poll.served =>
          /\ poll.latest >= cursor /\ poll.latest < next
          /\ \A sequence \in poll.entries : sequence > cursor /\ sequence <= poll.latest
          /\ \A sequence \in Ring :
                /\ sequence > cursor /\ sequence <= poll.latest
                /\ Matches(filter, log[sequence])
                => sequence \in poll.entries

FollowInv ==
    /\ TypeOK /\ NothingSkipped
    /\ ~ disturbed =>
          /\ cursor < next /\ \A sequence \in shown : sequence <= cursor
          /\ \A poll \in polls : Continues(poll)
          /\ \A poll, other \in polls : poll = other
=============================================================================
