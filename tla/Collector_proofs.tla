-------------------------- MODULE Collector_proofs --------------------------
(***************************************************************************)
(* The store with the calls the collector makes, for any connections of    *)
(* Mihomo, any interleaving of its loops with the clearing handler and the *)
(* flushes, and any number of failing polls, restarts and stops.           *)
(***************************************************************************)
EXTENDS Collector, StatsStore_proofs

LEMMA InitialCollector == CollectorInit => CollectorInv
<1> SUFFICES ASSUME CollectorInit PROVE CollectorInv
  OBVIOUS
<1>1. StoreInv
  BY InitialStore DEF CollectorInit
<1>2. CollectorTypeOK
  BY DEF CollectorInit, CollectorTypeOK
<1>3. PollInv /\ StopInv
  BY DEF CollectorInit, Init, PollInv, StopInv
<1>4. QED
  BY <1>1, <1>2, <1>3 DEF CollectorInv

-----------------------------------------------------------------------------
(* The steps that leave the store alone                                    *)

LEMMA StoreUntouched ==
    ASSUME StoreInv, UNCHANGED storeVars, faults' \in 0 .. MaxFaults
    PROVE  StoreInv'
BY FaultKeeps DEF storeVars

LEMMA MihomoKeeps ==
    ASSUME CollectorInv,
           \/ \E c \in Connection : OpenConnection(c) \/ CloseConnection(c)
           \/ StopMihomo \/ StartMihomo
    PROVE  CollectorInv'
<1>1. /\ UNCHANGED <<statsVars, context, pollVars, sampleAt, connected>>
      /\ up' \in BOOLEAN /\ used \subseteq used' /\ used' \subseteq Connection
      /\ live' \subseteq used' /\ \A c \in live' : c \in live \/ c \notin used
  BY DEF CollectorInv, CollectorTypeOK, OpenConnection, CloseConnection, StopMihomo, StartMihomo
<1>2. UNCHANGED <<now, phase, holder, memory, database, subject, left, flush, closedOn, samples,
                  faults, context, poll, current, previous, closing, pollDay, sampleAt, connected>>
  BY <1>1 DEF statsVars, pollVars
<1>3. StoreInv'
  BY <1>2, StoreUntouched DEF CollectorInv, StoreInv, TypeOK, storeVars
<1>4. CollectorTypeOK'
  BY <1>1, <1>2 DEF CollectorInv, CollectorTypeOK
<1>5. PollInv' /\ StopInv'
  BY <1>1, <1>2 DEF CollectorInv, CollectorTypeOK, PollInv, StopInv
<1>6. QED
  BY <1>3, <1>4, <1>5 DEF CollectorInv

LEMMA PollKeeps ==
    ASSUME CollectorInv, PollAnswered \/ PollFailed \/ PollDone
    PROVE  CollectorInv'
<1>1. UNCHANGED <<now, phase, holder, memory, database, subject, left, flush, closedOn, samples,
                  up, live, used, context, sampleAt>>
  BY DEF PollAnswered, PollFailed, PollDone, statsVars, mihomo
<1>2. faults' \in 0 .. MaxFaults
  BY StatsAssumption DEF CollectorInv, StoreInv, TypeOK, PollAnswered, PollFailed, PollDone, statsVars
<1>3. StoreInv'
  BY <1>1, <1>2, StoreUntouched DEF CollectorInv, storeVars
<1>4. CASE PollAnswered
  <2>1. now \in Minute /\ DayOf(now) \in Day
    BY DayIsDay DEF CollectorInv, StoreInv, TypeOK
  <2>2. CollectorTypeOK'
    BY <1>1, <1>4, <2>1 DEF CollectorInv, CollectorTypeOK, PollAnswered
  <2>3. holder # "close"
    BY <1>4 DEF CollectorInv, StopInv, PollAnswered, Running
  <2>4. PollInv' /\ StopInv'
    BY <1>1, <1>4, <2>1, <2>3
       DEF CollectorInv, CollectorTypeOK, PollInv, StopInv, PollAnswered, Running
  <2>5. QED
    BY <1>3, <2>2, <2>4 DEF CollectorInv
<1>5. CASE PollFailed
  <2>1. UNCHANGED <<poll, current, previous, closing, pollDay>> /\ connected' = FALSE
    BY <1>5 DEF PollFailed, pollVars
  <2>2. CollectorTypeOK'
    BY <1>1, <2>1 DEF CollectorInv, CollectorTypeOK
  <2>3. PollInv' /\ StopInv'
    BY <1>1, <2>1 DEF CollectorInv, PollInv, StopInv
  <2>4. QED
    BY <1>3, <2>2, <2>3 DEF CollectorInv
<1>6. CASE PollDone
  <2>1. CollectorTypeOK'
    BY <1>1, <1>6 DEF CollectorInv, CollectorTypeOK, PollDone
  <2>2. PollInv' /\ StopInv'
    BY <1>1, <1>6 DEF CollectorInv, PollInv, StopInv, PollDone
  <2>3. QED
    BY <1>3, <2>1, <2>2 DEF CollectorInv
<1>7. QED
  BY <1>4, <1>5, <1>6

LEMMA LoopKeeps ==
    ASSUME CollectorInv, TrafficReceived \/ Terminate
    PROVE  CollectorInv'
<1>1. UNCHANGED <<now, phase, holder, memory, database, subject, left, flush, closedOn, samples,
                  faults, up, live, used, poll, current, previous, closing, pollDay>>
  BY DEF TrafficReceived, Terminate, statsVars, mihomo, pollVars
<1>2. /\ context' \in {context, "cancelled"} /\ sampleAt' \in {sampleAt, now}
      /\ connected' \in {connected, TRUE}
  BY DEF TrafficReceived, Terminate
<1>3. StoreInv'
  BY <1>1, StoreUntouched DEF CollectorInv, StoreInv, TypeOK, storeVars
<1>4. CollectorTypeOK'
  BY <1>1, <1>2 DEF CollectorInv, CollectorTypeOK, StoreInv, TypeOK
<1>5. PollInv' /\ StopInv'
  BY <1>1, <1>2 DEF CollectorInv, PollInv, StopInv
<1>6. QED
  BY <1>3, <1>4, <1>5 DEF CollectorInv

-----------------------------------------------------------------------------
(* The steps that call the store                                           *)

LEMMA RecordNextKeeps ==
    ASSUME CollectorInv, NEW c \in Connection, RecordNext(c)
    PROVE  CollectorInv'
<1>1. /\ poll = "comparing" /\ c \in closing /\ closing' = closing \ {c}
      /\ RecordClosed(c, pollDay)
      /\ UNCHANGED <<up, live, used, context, poll, current, previous, pollDay, sampleAt, connected>>
  BY DEF RecordNext, mihomo
<1>2. pollDay \in Day /\ closedOn[c] = Never /\ c \notin live /\ c \notin current
  BY <1>1 DEF CollectorInv, PollInv
<1>3. StoreInv'
  BY <1>1, <1>2, RecordClosedKeeps DEF CollectorInv
<1>4. /\ \A d \in Connection : d # c => closedOn'[d] = closedOn[d]
      /\ phase' = phase /\ holder' \in {"record", holder}
  BY <1>1 DEF RecordClosed, CollectorInv, StoreInv, TypeOK
<1>5. CollectorTypeOK'
  BY <1>1 DEF CollectorInv, CollectorTypeOK
<1>6. PollInv'
  <2>1. \A d \in closing' \cup current' : d # c /\ d \in Connection
    BY <1>1, <1>2 DEF CollectorInv, CollectorTypeOK
  <2>2. c \in used /\ c \notin live
    BY <1>1, <1>2 DEF CollectorInv, CollectorTypeOK
  <2>3. QED
    BY <1>1, <1>2, <1>4, <2>1, <2>2 DEF CollectorInv, PollInv
<1>7. StopInv'
  BY <1>1, <1>4 DEF CollectorInv, StopInv
<1>8. QED
  BY <1>3, <1>5, <1>6, <1>7 DEF CollectorInv

\* Operations of the store beside the collector's own variables.
LEMMA StoreCallKeeps ==
    ASSUME CollectorInv, StoreInv', closedOn' = closedOn,
           UNCHANGED <<mihomo, context, pollVars, connected>>,
           sampleAt' \in {sampleAt, Never},
           poll = "comparing" => phase' = "open",
           holder' = "close" =>
              holder = "close" \/ (poll # "comparing" /\ context = "cancelled")
    PROVE  CollectorInv'
<1>1. UNCHANGED <<up, live, used, poll, current, previous, closing, pollDay>>
  BY DEF mihomo, pollVars
<1>2. CollectorTypeOK'
  BY <1>1 DEF CollectorInv, CollectorTypeOK
<1>3. PollInv' /\ StopInv'
  BY <1>1 DEF CollectorInv, PollInv, StopInv
<1>4. QED
  BY <1>2, <1>3 DEF CollectorInv

LEMMA SampleKeeps == CollectorInv /\ TrafficRecorded => CollectorInv'
<1> SUFFICES ASSUME CollectorInv, TrafficRecorded PROVE CollectorInv'
  OBVIOUS
<1>1. sampleAt \in Minute /\ RecordSample(sampleAt)
  BY DEF CollectorInv, CollectorTypeOK, TrafficRecorded
<1>2. StoreInv'
  BY <1>1, RecordSampleKeeps DEF CollectorInv
<1>3. UNCHANGED <<phase, holder, closedOn>>
  BY <1>1 DEF RecordSample
<1>4. QED
  BY <1>2, <1>3, StoreCallKeeps DEF TrafficRecorded, CollectorInv, StopInv

LEMMA FlushTickKeeps == CollectorInv /\ (FlushTick \/ CloseStore) => CollectorInv'
<1> SUFFICES ASSUME CollectorInv, FlushTick \/ CloseStore PROVE CollectorInv'
  OBVIOUS
<1>1. StoreInv'
  BY FlushKeeps DEF CollectorInv, FlushTick, CloseStore
<1>2. /\ UNCHANGED <<phase, closedOn, mihomo, context, pollVars, sampleAt, connected>>
      /\ holder' = "close" => poll = "waiting" /\ context = "cancelled"
  BY DEF FlushTick, CloseStore, Flush, Close, Take
<1>3. QED
  BY <1>1, <1>2, StoreCallKeeps DEF CollectorInv, StopInv

LEMMA ClearHistoryKeeps == CollectorInv /\ ClearHistory => CollectorInv'
<1> SUFFICES ASSUME CollectorInv, ClearHistory PROVE CollectorInv'
  OBVIOUS
<1>1. StoreInv'
  BY ClearKeeps DEF CollectorInv, ClearHistory
<1>2. UNCHANGED <<phase, holder, closedOn, mihomo, context, pollVars, sampleAt, connected>>
  BY DEF ClearHistory, Clear
<1>3. QED
  BY <1>1, <1>2, StoreCallKeeps DEF CollectorInv, StopInv

LEMMA StoreStepKeeps == CollectorInv /\ Store => CollectorInv'
<1> SUFFICES ASSUME CollectorInv, Store PROVE CollectorInv'
  OBVIOUS
<1>1. StoreInv'
  BY TickKeeps, CriticalKeeps, FailKeeps, OpenKeeps DEF CollectorInv, Store
<1>2. UNCHANGED <<closedOn, mihomo, context, pollVars, sampleAt, connected>>
  BY DEF Store, Tick, Critical, RecordDimension, FlushSlot, Commit, Fail, Open
<1>3. holder' = "close" => holder = "close"
  BY DEF Store, Tick, Critical, RecordDimension, FlushSlot, Commit, Fail, EndFlush, Open
<1>4. poll = "comparing" => phase' = "open"
  BY DEF CollectorInv, StopInv, Store, Tick, Critical, RecordDimension, FlushSlot, Commit,
         Fail, EndFlush, Open
<1>5. QED
  BY <1>1, <1>2, <1>3, <1>4, StoreCallKeeps

LEMMA DeathKeeps == CollectorInv /\ Dies => CollectorInv'
<1> SUFFICES ASSUME CollectorInv, Dies PROVE CollectorInv'
  OBVIOUS
<1>1. StoreInv'
  BY CrashKeeps DEF CollectorInv, Dies
<1>2. /\ context' = "active" /\ poll' = "waiting" /\ current' = {} /\ previous' = {}
      /\ closing' = {} /\ pollDay' = Never /\ sampleAt' = Never /\ connected' = FALSE
      /\ UNCHANGED <<up, live, used, closedOn>> /\ holder' = "none"
  BY DEF Dies, CollectorStarts, Crash, Exit, Gone, mihomo
<1>3. CollectorTypeOK'
  BY <1>2 DEF CollectorInv, CollectorTypeOK
<1>4. PollInv' /\ StopInv'
  BY <1>2 DEF CollectorInv, PollInv, StopInv
<1>5. QED
  BY <1>1, <1>3, <1>4 DEF CollectorInv

LEMMA CollectorSteps == CollectorInv /\ [CollectorNext]_vars => CollectorInv'
<1> SUFFICES ASSUME CollectorInv, [CollectorNext]_vars PROVE CollectorInv'
  OBVIOUS
<1>1. CASE UNCHANGED vars
  <2>1. UNCHANGED <<now, phase, holder, memory, database, subject, left, flush, closedOn, samples,
                    faults, mihomo, context, pollVars, sampleAt, connected>>
    BY <1>1 DEF vars, statsVars
  <2>2. StoreInv'
    BY <2>1, StoreUntouched DEF CollectorInv, StoreInv, TypeOK, storeVars
  <2>3. QED
    BY <2>1, <2>2, StoreCallKeeps DEF CollectorInv, StopInv
<1>2. CASE Poll
  BY <1>2, PollKeeps, RecordNextKeeps DEF Poll
<1>3. CASE Process
  BY <1>3, FlushTickKeeps, DeathKeeps, StoreStepKeeps DEF Process
<1>4. CASE TrafficReceived \/ TrafficRecorded \/ ClearHistory \/ Terminate
  BY <1>4, LoopKeeps, SampleKeeps, ClearHistoryKeeps
<1>5. CASE \/ \E c \in Connection : OpenConnection(c) \/ CloseConnection(c)
           \/ StopMihomo \/ StartMihomo
  BY <1>5, MihomoKeeps
<1>6. QED
  BY <1>1, <1>2, <1>3, <1>4, <1>5 DEF CollectorNext

-----------------------------------------------------------------------------
(* What the collector's steps are for the store                            *)

LEMMA StepIsOperation == CollectorInv /\ [CollectorNext]_vars => Operation
<1> SUFFICES ASSUME CollectorInv, [CollectorNext]_vars PROVE Operation
  OBVIOUS
<1>1. CASE \/ UNCHANGED vars \/ PollAnswered \/ PollFailed \/ PollDone
           \/ TrafficReceived \/ Terminate \/ StopMihomo \/ StartMihomo
           \/ \E c \in Connection : OpenConnection(c) \/ CloseConnection(c)
  <2>1. UNCHANGED storeVars
    BY <1>1 DEF storeVars, vars, statsVars, PollAnswered, PollFailed, PollDone, TrafficReceived,
       Terminate, StopMihomo, StartMihomo, OpenConnection, CloseConnection
  <2>2. QED
    BY <2>1 DEF Operation
<1>2. CASE \E c \in Connection : RecordNext(c)
  <2>1. PICK c \in Connection : RecordNext(c)
    BY <1>2
  <2>2. RecordClosed(c, pollDay) /\ pollDay \in Day /\ closedOn[c] = Never
    BY <2>1 DEF RecordNext, CollectorInv, PollInv
  <2>3. QED
    BY <2>2 DEF Operation
<1>3. CASE TrafficRecorded
  BY <1>3 DEF TrafficRecorded, CollectorInv, CollectorTypeOK, Operation
<1>4. CASE Process \/ ClearHistory
  BY <1>4 DEF Process, FlushTick, CloseStore, Dies, Store, ClearHistory, Operation
<1>5. QED
  BY <1>1, <1>2, <1>3, <1>4 DEF CollectorNext, Poll

-----------------------------------------------------------------------------
(* The theorems                                                            *)

\* The invariant behind the others: the store's own, and that a poll records
\* nothing twice and nothing that is open.
THEOREM CollectorSafety == CollectorSpec => []CollectorInv
BY InitialCollector, CollectorSteps, PTL DEF CollectorSpec

\* The variables of the collector are of their types.
THEOREM CollectorTypes == CollectorSpec => []CollectorTypeOK
<1>1. CollectorInv => CollectorTypeOK
  BY DEF CollectorInv
<1>2. QED
  BY <1>1, CollectorSafety, PTL

\* With the records the collector makes, none is counted twice
\* (pollConnections, RecordClosed, flushLocked).
THEOREM CollectedOnce == CollectorSpec => []ReportedOnce
<1>1. CollectorInv => ReportedOnce
  BY StoreReportsOnce DEF CollectorInv
<1>2. QED
  BY <1>1, CollectorSafety, PTL

\* Only connections that Mihomo has closed are reported, whatever polls fail and
\* however often Mihomo and the panel start (pollConnections).
THEOREM OnlyClosedReported == CollectorSpec => []ReportedIsClosed
<1>1. CollectorInv => ReportedIsClosed
  <2>1. SUFFICES ASSUME CollectorInv, NEW c \in Connection, NEW dimension \in Dimension,
                        Reported(c, dimension) # {}
                 PROVE  c \notin live
    BY DEF ReportedIsClosed
  <2>2. PICK slot \in Reported(c, dimension) : TRUE
    BY <2>1
  <2>3. slot \in Slot /\ slot.day = closedOn[c]
    BY <2>1, StoreReportsRight DEF CollectorInv, ReportedRight, Reported
  <2>4. closedOn[c] # Never
    BY <2>3, NeverAssumption DEF Slot
  <2>5. QED
    BY <2>1, <2>4 DEF CollectorInv, PollInv
<1>2. QED
  BY <1>1, CollectorSafety, PTL

\* No record meets a closed store, however the stop of the panel falls between
\* the steps of a poll (App.Close waits for the loops).
THEOREM StopDropsNothing == CollectorSpec => NothingDropped
<1>1. ASSUME CollectorInv, [CollectorNext]_vars
      PROVE  [\A c \in Connection : closedOn'[c] # closedOn[c] => phase = "open"]_vars
  <2>1. CASE UNCHANGED vars
    BY <2>1
  <2>2. CASE \E c \in Connection : RecordNext(c)
    BY <1>1, <2>2 DEF RecordNext, CollectorInv, StopInv
  <2>3. CASE closedOn' = closedOn
    BY <2>3
  <2>4. (\E c \in Connection : RecordNext(c)) \/ closedOn' = closedOn \/ UNCHANGED vars
    BY <1>1 DEF CollectorNext, Poll, PollAnswered, PollFailed, PollDone, Process, FlushTick,
       CloseStore, Flush, Close, Take, Dies, Crash, Exit, Gone, Store, Tick, Critical,
       RecordDimension, FlushSlot, Commit, Fail, Open, TrafficReceived, TrafficRecorded,
       RecordSample, ClearHistory, Clear, Terminate, OpenConnection, CloseConnection,
       StopMihomo, StartMihomo, statsVars
  <2>5. QED
    BY <2>1, <2>2, <2>3, <2>4
<1>2. QED
  BY <1>1, CollectorSafety, PTL DEF CollectorSpec, NothingDropped

\* The store implements the ledger also with the calls the collector makes: a
\* connection is recorded once, in whatever order polls, samples, flushes and the
\* clearing handler get store.mu, and however often the panel starts.
THEOREM CollectorKeepsLedger == CollectorSpec => ImplementsLedger
<1>1. CollectorInit => Init
  BY DEF CollectorInit
<1>2. CollectorInv => StoreInv
  BY DEF CollectorInv
<1>3. CollectorInv /\ KeepInv /\ SourceInv /\ [CollectorNext]_vars => KeepInv' /\ SourceInv'
  BY <1>2, StepIsOperation, KeepSteps, SourceSteps
<1>4. CollectorInv /\ KeepInv /\ SourceInv /\ [CollectorNext]_vars
         => [Ledger!Next]_(Ledger!ledgerVars)
  BY <1>2, StepIsOperation, OperationImplements
<1>5. QED
  BY <1>1, <1>3, <1>4, InitialLedger, CollectorSafety, PTL
     DEF CollectorSpec, ImplementsLedger, Ledger!Spec
=============================================================================
