------------------------------ MODULE Collector ------------------------------
(***************************************************************************)
(* internal/panel/collector.go: the loops that watch Mihomo and feed the   *)
(* statistics store, with Mihomo, the handler that clears the statistics,  *)
(* and the stop of the panel (App.Close waits for the loops before it      *)
(* closes the store).                                                      *)
(*                                                                         *)
(* Two loops matter for what is stored: connectionLoop asks for all        *)
(* connections and records those that are gone since the last answer, one  *)
(* after the other; trafficLoop takes the time of a sample before it gets  *)
(* store.mu.  Both set state.Connected.                                    *)
(***************************************************************************)
EXTENDS StatsStore

VARIABLES
    up,         \* Mihomo: its controller answers
    live,       \* Mihomo: its connections
    used,       \* Mihomo: the connections it has or has had
    context,    \* the collector's context: "active" or "cancelled"
    poll,       \* pollConnections: "waiting" or "comparing"
    current,    \* pollConnections: the connections of the answer
    previous,   \* Collector.previous
    closing,    \* pollConnections: the connections the loop has still to record
    pollDay,    \* pollConnections: the day of now
    sampleAt,   \* trafficLoop: the minute of a sample not recorded yet, or Never
    connected   \* Collector.state.Connected

mihomo    == <<up, live, used>>
pollVars  == <<poll, current, previous, closing, pollDay>>
vars == <<statsVars, mihomo, context, pollVars, sampleAt, connected>>

CollectorStarts ==
    /\ context' = "active" /\ poll' = "waiting" /\ current' = {} /\ previous' = {}
    /\ closing' = {} /\ pollDay' = Never /\ sampleAt' = Never /\ connected' = FALSE

CollectorInit ==
    /\ Init /\ up = TRUE /\ live = {} /\ used = {}
    /\ context = "active" /\ poll = "waiting" /\ current = {} /\ previous = {}
    /\ closing = {} /\ pollDay = Never /\ sampleAt = Never /\ connected = FALSE

Running == phase = "open" /\ context = "active"

-----------------------------------------------------------------------------
(* Mihomo: connections come and go; all go when it stops.                  *)

OpenConnection(c) ==
    /\ up /\ c \notin used /\ live' = live \cup {c} /\ used' = used \cup {c}
    /\ UNCHANGED <<statsVars, up, context, pollVars, sampleAt, connected>>

CloseConnection(c) ==
    /\ c \in live /\ live' = live \ {c}
    /\ UNCHANGED <<statsVars, up, used, context, pollVars, sampleAt, connected>>

StopMihomo ==
    /\ up /\ up' = FALSE /\ live' = {}
    /\ UNCHANGED <<statsVars, used, context, pollVars, sampleAt, connected>>

StartMihomo ==
    /\ ~ up /\ up' = TRUE
    /\ UNCHANGED <<statsVars, live, used, context, pollVars, sampleAt, connected>>

-----------------------------------------------------------------------------
(* connectionLoop                                                          *)

PollAnswered ==
    /\ Running /\ poll = "waiting" /\ up
    /\ poll' = "comparing" /\ current' = live /\ closing' = previous \ live
    /\ pollDay' = DayOf(now)
    /\ UNCHANGED <<statsVars, mihomo, context, previous, sampleAt, connected>>

\* Faulty variant: no answer is taken for an answer without connections.
PollFailedEmpty ==
    /\ phase = "open" /\ poll = "waiting"
    /\ ~ up \/ context = "cancelled" \/ faults < MaxFaults
    /\ faults' = IF up /\ context = "active" THEN faults + 1 ELSE faults
    /\ poll' = "comparing" /\ current' = {} /\ closing' = previous /\ pollDay' = DayOf(now)
    /\ UNCHANGED <<now, phase, holder, memory, database, subject, left, flush, closedOn,
                   samples, mihomo, context, previous, sampleAt, connected>>

\* Faulty variant: a failed poll is no news.
PollFailedQuietly ==
    /\ phase = "open" /\ poll = "waiting"
    /\ ~ up \/ context = "cancelled" \/ faults < MaxFaults
    /\ faults' = IF up /\ context = "active" THEN faults + 1 ELSE faults
    /\ UNCHANGED <<now, phase, holder, memory, database, subject, left, flush, closedOn,
                   samples, mihomo, context, pollVars, sampleAt, connected>>

\* Faulty variant: a failed poll forgets the connections it knew.
PollFailedForgetting ==
    /\ phase = "open" /\ poll = "waiting"
    /\ ~ up \/ context = "cancelled" \/ faults < MaxFaults
    /\ faults' = IF up /\ context = "active" THEN faults + 1 ELSE faults
    /\ connected' = FALSE /\ previous' = {}
    /\ UNCHANGED <<now, phase, holder, memory, database, subject, left, flush, closedOn,
                   samples, mihomo, context, poll, current, closing, pollDay, sampleAt>>

PollFailed ==
    /\ phase = "open" /\ poll = "waiting"
    /\ ~ up \/ context = "cancelled" \/ faults < MaxFaults
    /\ faults' = IF up /\ context = "active" THEN faults + 1 ELSE faults
    /\ connected' = FALSE
    /\ UNCHANGED <<now, phase, holder, memory, database, subject, left, flush, closedOn,
                   samples, mihomo, context, pollVars, sampleAt>>

RecordNext(c) ==
    /\ poll = "comparing" /\ c \in closing
    /\ RecordClosed(c, pollDay) /\ closing' = closing \ {c}
    /\ UNCHANGED <<mihomo, context, poll, current, previous, pollDay, sampleAt, connected>>

\* Faulty variant: connections that are gone stay in previous.
PollDoneKeeping ==
    /\ poll = "comparing" /\ closing = {} /\ holder # "record"
    /\ poll' = "waiting" /\ previous' = previous \cup current /\ connected' = TRUE
    /\ current' = {} /\ pollDay' = Never
    /\ UNCHANGED <<statsVars, mihomo, context, closing, sampleAt>>

\* Faulty variant: the comparison ends before every connection is recorded.
PollDoneEarly ==
    /\ poll = "comparing" /\ holder # "record"
    /\ poll' = "waiting" /\ previous' = current /\ connected' = TRUE
    /\ current' = {} /\ pollDay' = Never
    /\ UNCHANGED <<statsVars, mihomo, context, closing, sampleAt>>

PollDone ==
    /\ poll = "comparing" /\ closing = {} /\ holder # "record"
    /\ poll' = "waiting" /\ previous' = current /\ connected' = TRUE
    /\ current' = {} /\ pollDay' = Never
    /\ UNCHANGED <<statsVars, mihomo, context, closing, sampleAt>>

-----------------------------------------------------------------------------
(* trafficLoop and flushLoop                                               *)

TrafficReceived ==
    /\ Running /\ up /\ sampleAt = Never /\ samples < MaxSamples
    /\ sampleAt' = now /\ connected' = TRUE
    /\ UNCHANGED <<statsVars, mihomo, context, pollVars>>

TrafficRecorded ==
    /\ sampleAt # Never /\ RecordSample(sampleAt) /\ sampleAt' = Never
    /\ UNCHANGED <<mihomo, context, pollVars, connected>>

FlushTick ==
    /\ context = "active" /\ Flush
    /\ UNCHANGED <<mihomo, context, pollVars, sampleAt, connected>>

-----------------------------------------------------------------------------
(* The handler of /api/history/clear, and the life of the process.         *)

ClearHistory ==
    /\ Clear /\ UNCHANGED <<mihomo, context, pollVars, sampleAt, connected>>

\* SIGTERM cancels the context.
Terminate ==
    /\ Running /\ context' = "cancelled"
    /\ UNCHANGED <<statsVars, mihomo, pollVars, sampleAt, connected>>

\* Faulty variant: App.Close does not wait for the loops.
CloseAtOnce ==
    /\ context = "cancelled" /\ Close
    /\ UNCHANGED <<mihomo, context, pollVars, sampleAt, connected>>

\* App.Close: collector.Wait, then StatsStore.Close.
CloseStore ==
    /\ context = "cancelled" /\ poll = "waiting" /\ sampleAt = Never /\ Close
    /\ UNCHANGED <<mihomo, context, pollVars, sampleAt, connected>>

Dies == (Crash \/ Exit) /\ CollectorStarts /\ UNCHANGED mihomo

Store ==
    /\ Tick \/ Critical \/ Fail \/ Open
    /\ UNCHANGED <<mihomo, context, pollVars, sampleAt, connected>>

-----------------------------------------------------------------------------
Poll ==
    \/ PollAnswered \/ PollFailed \/ PollDone
    \/ \E c \in Connection : RecordNext(c)

Process == FlushTick \/ CloseStore \/ Dies \/ Store

CollectorNext ==
    \/ Poll \/ Process \/ TrafficReceived \/ TrafficRecorded
    \/ ClearHistory \/ Terminate
    \/ \E c \in Connection : OpenConnection(c) \/ CloseConnection(c)
    \/ StopMihomo \/ StartMihomo

\* The ticker of connectionLoop polls again and again, every critical section
\* ends, and sync.RWMutex does not let a waiting writer starve.
CollectorFairness ==
    /\ SF_vars(Poll) /\ SF_vars(TrafficRecorded)
    /\ WF_vars(Critical /\ UNCHANGED <<mihomo, context, pollVars, sampleAt, connected>>)

CollectorSpec == CollectorInit /\ [][CollectorNext]_vars /\ CollectorFairness

-----------------------------------------------------------------------------
\* The type invariant of the collector (its fields, the locals of a poll,
\* which are empty between two polls, and what it knows of Mihomo).
CollectorTypeOK ==
    /\ up \in BOOLEAN /\ live \subseteq used /\ used \subseteq Connection
    /\ context \in {"active", "cancelled"} /\ poll \in {"waiting", "comparing"}
    /\ UNION {current, previous, closing} \subseteq used
    /\ poll = "waiting" => current = {} /\ closing = {} /\ pollDay = Never
    /\ pollDay \in Day \cup {Never} /\ sampleAt \in Minute \cup {Never}
    /\ connected \in BOOLEAN

\* A connection is reported as closed only after Mihomo has closed it: a poll
\* without an answer closes nothing.
ReportedIsClosed ==
    \A c \in Connection, dimension \in Dimension : Reported(c, dimension) # {} => c \notin live

\* No closed connection is dropped because the store is closed already: the
\* stop of the panel waits for the poll that is recording (App.Close).
NothingDropped ==
    [][\A c \in Connection : closedOn'[c] # closedOn[c] => phase = "open"]_vars

\* A connection that a poll has seen is recorded after it is gone, unless the
\* panel or Mihomo's controller stops.
SeenIsRecorded ==
    \A c \in Connection :
        (c \in previous /\ c \notin live) ~> (closedOn[c] # Never \/ ~ Running \/ ~ up)

\* When Mihomo stays away the overview of a running panel says so, although
\* trafficLoop and connectionLoop set the same field.
DisconnectShown == ~ up ~> (up \/ ~ connected \/ ~ Running)

-----------------------------------------------------------------------------
(* The inductive invariant behind ReportedIsClosed and NothingDropped.     *)

\* What a poll will record has not been recorded and is not open: previous
\* and the answer it is compared with never overlap what is done.
PollInv ==
    /\ \A c \in Connection : closedOn[c] # Never => c \in used /\ c \notin live
    /\ poll = "waiting" => \A c \in previous : closedOn[c] = Never
    /\ poll = "comparing" =>
          /\ pollDay \in Day /\ closing \cap (live \cup current) = {}
          /\ \A c \in closing \cup current : closedOn[c] = Never

\* The store is closed only when no poll is comparing.
StopInv ==
    /\ poll = "comparing" => phase = "open" /\ holder # "close"
    /\ holder = "close" => context = "cancelled"

CollectorInv == StoreInv /\ CollectorTypeOK /\ PollInv /\ StopInv
=============================================================================
