-------------------------- MODULE ConfigTransaction --------------------------
(***************************************************************************)
(* internal/panel/config.go: the journalled transaction that replaces      *)
(* several files at once, its rollback, its recovery at the next start,    *)
(* and the reload of Mihomo between writing the files and committing them. *)
(*                                                                         *)
(* manager.mu serialises the panel's own operations, so the panel is one   *)
(* sequential process with a program counter.  Concurrent with it are      *)
(* Mihomo (procd service and process), whoever starts and stops it (the    *)
(* handler app.serviceAction does not take manager.mu), and crashes of the *)
(* panel, at any step.  An operation on one file is a step of its own; it  *)
(* may fail without effect, or late: after its effect, when the directory  *)
(* cannot be synced.                                                       *)
(***************************************************************************)
EXTENDS ConfigFiles, Integers, Sequences

CONSTANTS
    MayFail,       \* the steps that may fail without effect
    MayFailLate,   \* the steps that may report an error after their effect
    ServiceEvents, \* what may happen to Mihomo without the panel's manager
    MaxFaults      \* bound on crashes and failing steps in one behaviour

Step == {"crash", "create", "draft", "probe", "backup", "journal", "write", "reload",
         "restart", "commit", "rollback", "recover"}
        \* "crash" stands for the death of the panel between two steps

ServiceEvent == {"start", "stop", "restart", "reload", "respawn", "giveup"}

ASSUME FaultAssumption ==
    /\ MayFail \subseteq Step
    /\ MayFailLate \subseteq Step
    /\ ServiceEvents \subseteq ServiceEvent
    /\ MaxFaults \in Nat

VARIABLES
    file,       \* the four configuration files
    backup,     \* .backup-0 and .backup-1 next to the journal (1 and 2 here)
    journal,    \* the transaction record on disk; empty when there is no journal
    pc,         \* where the panel is
    caller,     \* "init" (initialize) or "api" (a handler)
    changes,    \* commit's argument: a sequence of [path, data]
    record,     \* transactionRecord in memory: a sequence of [path, existed]
    at,         \* loop index over changes or record.Files
    then,       \* what the running finish or restore is part of
    failed,     \* restoreTransaction's failures is not empty
    wasRunning, \* what service.Running returned
    reply,      \* outcome of the last request
    running,    \* the procd service has a Mihomo process
    loaded,     \* the text that process has loaded, NoFile when stopped
    hup,        \* a reload signal Mihomo has not handled yet
    before,     \* history: the files when the transaction or request began
    faults      \* number of faults so far

disk    == <<file, backup, journal>>
memory  == <<caller, changes, record, at, then, failed>>
service == <<running, loaded, hup>>
vars    == <<file, backup, journal, pc, caller, changes, record, at, then, failed,
             wasRunning, reply, running, loaded, hup, before, faults>>

Index == {1, 2}

NoJournal == <<>>

Location == {"down", "starting", "recovered", "ensure", "reconcile", "idle", "probing",
             "backingUp", "discarding", "writing", "reloading", "health", "finishing",
             "cleaning", "restoring", "restarting"}

Reply == {"none", "refused", "saved", "applied", "failed", "rolledBack"}

Entry  == [path : Path, existed : BOOLEAN]
Change == {change \in [path : Path, data : Text \cup Items] :
              change.data \in Content(change.path)}

Init ==
    /\ file \in FreshDirectories
    /\ backup = [i \in Index |-> NoFile]
    /\ journal = NoJournal
    /\ pc = "down" /\ caller = "init" /\ reply = "none"
    /\ changes = <<>> /\ record = <<>> /\ at = 1
    /\ then = "recover" /\ failed = FALSE /\ wasRunning = FALSE
    /\ running \in (IF file["effective"] = NoFile THEN {FALSE} ELSE BOOLEAN)
    /\ loaded = (IF running THEN file["effective"] ELSE NoFile)
    /\ hup = FALSE
    /\ before = file
    /\ faults = 0

-----------------------------------------------------------------------------
(* Steps that may go wrong.                                                *)

Fault == faults < MaxFaults /\ faults' = faults + 1

\* A step with its effect and its absence of effect, what follows when the
\* step succeeds, and what follows when it returns an error.
Try(step, effect, noEffect, continue, error) ==
    \/ effect /\ continue /\ UNCHANGED faults
    \/ step \in MayFailLate /\ Fault /\ effect /\ error
    \/ step \in MayFail /\ Fault /\ noEffect /\ error

\* The operation ends: a handler answers, initialize lets the panel serve or
\* makes main exit.  What it had in memory is gone.
Forget ==
    /\ caller' = "init" /\ changes' = <<>> /\ record' = <<>>
    /\ at' = 1 /\ then' = "recover" /\ failed' = FALSE

Answer(code) ==
    /\ Forget /\ UNCHANGED wasRunning
    /\ pc' = IF caller = "init" /\ code \notin {"none", "applied"} THEN "down" ELSE "idle"
    /\ reply' = IF caller = "init" THEN "none" ELSE code

InitializeFails == Answer("failed")

\* The panel dies: killed, SIGTERM (main returns without waiting for the
\* handler) or a panic.  Nothing is lost on disk.
Crash ==
    /\ pc # "down" /\ "crash" \in MayFail /\ Fault
    /\ pc' = "down" /\ reply' = "none" /\ wasRunning' = FALSE /\ Forget
    /\ UNCHANGED <<disk, service, before>>

\* Faulty variant: the restore continues where the writing stopped.
RestoreFromHere(purpose) ==
    pc' = "restoring" /\ UNCHANGED at /\ failed' = FALSE /\ then' = purpose

\* The loop of restoreTransaction starts, as part of a larger operation.
RestoreFor(purpose) ==
    pc' = "restoring" /\ at' = 1 /\ failed' = FALSE /\ then' = purpose

-----------------------------------------------------------------------------
(* initialize()                                                            *)

Start ==
    /\ pc = "down" /\ pc' = "starting"
    /\ UNCHANGED <<disk, memory, wasRunning, reply, service, before, faults>>

\* Faulty variant: a journal found at the start is left alone.
SkipRecovery ==
    /\ pc = "starting" /\ pc' = "ensure"
    /\ UNCHANGED <<disk, memory, wasRunning, reply, service, before, faults>>

RecoverTransaction ==
    /\ pc = "starting"
    /\ IF journal = NoJournal
       THEN pc' = "ensure" /\ UNCHANGED <<record, at, then, failed>>
       ELSE RestoreFor("recover") /\ record' = journal
    /\ UNCHANGED <<disk, caller, changes, wasRunning, reply, service, before, faults>>

\* Creates base, draft, active, in that order, when they do not exist.
EnsureOrder == <<"base", "draft", "active">>

WriteInitial(path) ==
    file' = [file EXCEPT ![path] = InitialContent(file, path)]

CreateMissing ==
    /\ pc = "ensure"
    /\ \E i \in 1 .. 3 :
        /\ file[EnsureOrder[i]] = NoFile
        /\ \A j \in 1 .. i - 1 : file[EnsureOrder[j]] # NoFile
        /\ Try("create", WriteInitial(EnsureOrder[i]), UNCHANGED file,
               UNCHANGED <<pc, memory, wasRunning, reply>>, InitializeFails)
    /\ UNCHANGED <<backup, journal, service, before>>

AllPresent ==
    /\ pc = "ensure"
    /\ \A i \in 1 .. 3 : file[EnsureOrder[i]] # NoFile
    /\ pc' = "reconcile"
    /\ UNCHANGED <<disk, memory, wasRunning, reply, service, before, faults>>

Merged == Merge(file["base"], file["active"])

\* What commit is called with.
ReconcileChanges(dir) ==
    <<[path |-> "effective", data |-> Merge(dir["base"], dir["active"])]>>

BaseChanges(dir, text) ==
    <<[path |-> "base", data |-> text],
      [path |-> "effective", data |-> Merge(text, dir["active"])]>>

OverrideChanges(dir) ==
    <<[path |-> "active", data |-> dir["draft"]],
      [path |-> "effective", data |-> Merge(dir["base"], dir["draft"])]>>

\* commit's prologue: the caller's validation succeeded.
BeginCommit(list) ==
    /\ pc' = "probing" /\ changes' = list /\ before' = file /\ reply' = "none"
    /\ record' = <<>> /\ at' = 1 /\ then' = "commit" /\ failed' = FALSE

CreateEffective ==
    /\ pc = "reconcile" /\ file["effective"] = NoFile
    /\ Try("create", WriteInitial("effective"), UNCHANGED file,
           Answer("none"), InitializeFails)
    /\ UNCHANGED <<backup, journal, service, before>>

UpToDate ==
    /\ pc = "reconcile" /\ file["effective"] = Merged /\ Answer("none")
    /\ UNCHANGED <<disk, service, before, faults>>

ReconcileRefused ==
    /\ pc = "reconcile" /\ file["effective"] \notin {NoFile, Merged} /\ InitializeFails
    /\ UNCHANGED <<disk, service, before, faults>>

Reconcile ==
    /\ pc = "reconcile" /\ file["effective"] \notin {NoFile, Merged}
    /\ BeginCommit(ReconcileChanges(file))
    /\ UNCHANGED <<disk, caller, wasRunning, service, faults>>

-----------------------------------------------------------------------------
(* The handlers.  The revision a request names is that of the current      *)
(* file, or the request is refused.                                        *)


\* Too large, stale revision or preview, no YAML, rejected by mihomo -t.
Refuse ==
    /\ pc = "idle" /\ reply' = "refused" /\ before' = file
    /\ UNCHANGED <<disk, memory, pc, wasRunning, service, faults>>

SaveDraft(items) ==
    /\ pc = "idle" /\ before' = file
    /\ Try("draft", file' = [file EXCEPT !["draft"] = items], UNCHANGED file,
           reply' = "saved", reply' = "failed")
    /\ UNCHANGED <<backup, journal, memory, pc, wasRunning, service>>

Handle(list) ==
    /\ pc = "idle" /\ caller' = "api" /\ BeginCommit(list)
    /\ UNCHANGED <<disk, wasRunning, service, faults>>

\* Faulty variant: the base is merged with the draft overrides.
ApplyBaseWithDraft(text) ==
    Handle(<<[path |-> "base", data |-> text],
             [path |-> "effective", data |-> Merge(text, file["draft"])]>>)

ApplyBase(text) == Handle(BaseChanges(file, text))

\* Faulty variant: the override list goes to the path of the base.
ApplyOverridesToBase ==
    Handle(<<[path |-> "base", data |-> file["draft"]],
             [path |-> "effective", data |-> Merge(file["base"], file["draft"])]>>)

ApplyOverrides == Handle(OverrideChanges(file))

-----------------------------------------------------------------------------
(* service.Running: the init script's exit status.  A probe killed by the  *)
(* request's context exits with an error too and reads as "not running".   *)

ProbeResult == IF "probe" \in MayFailLate THEN {running, FALSE} ELSE {running}

ProbeFails ==
    /\ "probe" \in MayFail /\ Fault
    /\ pc \in {"probing", "recovered"} /\ Answer("failed")
    /\ UNCHANGED <<disk, service, before>>

\* commit's probe.
Probe ==
    /\ pc = "probing" /\ pc' = "backingUp"
    /\ wasRunning' \in ProbeResult
    /\ UNCHANGED <<disk, memory, reply, service, before, faults>>

\* initialize's probe after a recovery.
ProbeRecovered ==
    /\ pc = "recovered"
    /\ wasRunning' \in ProbeResult
    /\ pc' = IF wasRunning' THEN "restarting" ELSE "ensure"
    /\ UNCHANGED <<disk, memory, reply, service, before, faults>>

-----------------------------------------------------------------------------
(* beginTransaction                                                        *)

NextEntry ==
    LET path == changes[Len(record) + 1].path
    IN  [path |-> path, existed |-> file[path] # NoFile]

\* Faulty variant: a backup that is still there is not replaced.
KeepStaleBackup(path) ==
    backup' = [backup EXCEPT ![Len(record) + 1] = IF @ = NoFile THEN file[path] ELSE @]

CopyToBackup(path) ==
    backup' = [backup EXCEPT ![Len(record) + 1] =
                   IF file[path] # NoFile THEN file[path] ELSE @]

Backup ==
    /\ pc = "backingUp" /\ Len(record) < Len(changes)
    /\ record' = Append(record, NextEntry)
    /\ Try("backup", CopyToBackup(NextEntry.path), UNCHANGED backup,
           UNCHANGED pc, pc' = "discarding")
    /\ UNCHANGED <<file, journal, caller, changes, at, then, failed, wasRunning, reply,
                   service, before>>

WriteJournal ==
    /\ pc = "backingUp" /\ Len(record) = Len(changes)
    /\ Try("journal", journal' = record, UNCHANGED journal,
           pc' = "writing", pc' = "discarding")
    /\ UNCHANGED <<file, backup, memory, wasRunning, reply, service, before>>

\* Removing the backups of the record: errors are ignored, so any may stay.
RemoveBackups ==
    \E removed \in SUBSET (1 .. Len(record)) :
        backup' = [i \in Index |-> IF i \in removed THEN NoFile ELSE backup[i]]

\* The deferred function of a beginTransaction that did not complete.
Discard ==
    /\ pc = "discarding" /\ RemoveBackups /\ Answer("failed")
    /\ UNCHANGED <<file, journal, service, before, faults>>

-----------------------------------------------------------------------------
(* commit                                                                  *)

\* Faulty variant: a failed write is reported without restoring the files.
WriteFileWithoutRestore ==
    /\ pc = "writing" /\ at <= Len(changes)
    /\ Try("write", file' = [file EXCEPT ![changes[at].path] = changes[at].data], UNCHANGED file,
           at' = at + 1 /\ UNCHANGED <<pc, caller, changes, record, failed, then, wasRunning, reply>>,
           Answer("failed"))
    /\ UNCHANGED <<backup, journal, service, before>>

WriteFile ==
    /\ pc = "writing" /\ at <= Len(changes)
    /\ Try("write", file' = [file EXCEPT ![changes[at].path] = changes[at].data], UNCHANGED file,
           at' = at + 1 /\ UNCHANGED <<pc, failed, then>>, RestoreFor("abort"))
    /\ UNCHANGED <<backup, journal, caller, changes, record, wasRunning, reply, service, before>>

\* Faulty variant: the last file is not written.
WrittenTooEarly ==
    /\ pc = "writing" /\ at >= Len(changes)
    /\ pc' = IF wasRunning THEN "reloading" ELSE "finishing"
    /\ UNCHANGED <<disk, memory, wasRunning, reply, service, before, faults>>

Written ==
    /\ pc = "writing" /\ at > Len(changes)
    /\ pc' = IF wasRunning THEN "reloading" ELSE "finishing"
    /\ UNCHANGED <<disk, memory, wasRunning, reply, service, before, faults>>

\* Faulty variant: reload_service tests the configuration, nothing more.
ReloadTestsOnly ==
    /\ pc = "reloading" /\ pc' = "health"
    /\ UNCHANGED <<disk, memory, wasRunning, reply, service, before, faults>>

\* reload_service: mihomo -t, then SIGHUP.  The signal is handled later.
Reload ==
    /\ pc = "reloading"
    /\ Try("reload", hup' = running, UNCHANGED hup,
           pc' = "health" /\ UNCHANGED <<at, then, failed>>, RestoreFor("rollback"))
    /\ UNCHANGED <<disk, caller, changes, record, wasRunning, reply, running, loaded, before>>

\* Faulty variant: initialize goes on as if its recovery were a commit.
HealthyAlwaysFinishes ==
    /\ pc = "health" /\ running /\ pc' = "finishing"
    /\ UNCHANGED <<disk, memory, wasRunning, reply, service, before, faults>>

\* waitHealthy: the controller answers, whatever it has loaded by then.
Healthy ==
    /\ pc = "health" /\ running
    /\ pc' = IF then = "recover" THEN "ensure" ELSE "finishing"
    /\ UNCHANGED <<disk, memory, wasRunning, reply, service, before, faults>>

Unhealthy ==
    /\ pc = "health"
    /\ IF then = "recover"
       THEN InitializeFails
       ELSE RestoreFor("rollback") /\ UNCHANGED <<caller, changes, record, wasRunning, reply>>
    /\ UNCHANGED <<disk, service, before, faults>>

-----------------------------------------------------------------------------
(* finishTransaction and restoreTransaction                                *)

\* Faulty variant: a rollback does not restart Mihomo.
RestoredWithoutRestart(ok) ==
    IF then # "recover" \/ ~ ok
    THEN Answer(IF then = "rollback" THEN "rolledBack" ELSE "failed")
    ELSE pc' = "recovered" /\ UNCHANGED <<memory, wasRunning, reply>>

\* What follows a restoreTransaction, which ignored, reported or returned
\* whether it succeeded.
Restored(ok) ==
    IF then = "abort" \/ (then = "recover" /\ ~ ok)
    THEN Answer("failed")
    ELSE /\ pc' = IF then = "recover" THEN "recovered" ELSE "restarting"
         /\ UNCHANGED <<memory, wasRunning, reply>>

\* Faulty variant: a commit that cannot be finished is rolled back as after a
\* reload, although there was none.
AlwaysRolledBack ==
    IF then = "commit"
    THEN RestoreFor("rollback") /\ UNCHANGED <<caller, changes, record, wasRunning, reply>>
    ELSE Restored(FALSE)

\* What follows a finishTransaction that returned an error.
NotFinished ==
    IF then = "commit"
    THEN /\ RestoreFor(IF wasRunning THEN "rollback" ELSE "abort")
         /\ UNCHANGED <<caller, changes, record, wasRunning, reply>>
    ELSE Restored(FALSE)

FinishStep == IF then = "abort" THEN "rollback" ELSE then

RemoveJournal ==
    /\ pc = "finishing"
    /\ Try(FinishStep, journal' = NoJournal, UNCHANGED journal,
           pc' = "cleaning" /\ UNCHANGED <<memory, wasRunning, reply>>, NotFinished)
    /\ UNCHANGED <<file, backup, service, before>>

Clean ==
    /\ pc = "cleaning" /\ RemoveBackups
    /\ IF then = "commit" THEN Answer("applied") ELSE Restored(TRUE)
    /\ UNCHANGED <<file, journal, service, before, faults>>

Restorable(i) == record[i].existed => backup[i] # NoFile

RestoreFile ==
    file' = [file EXCEPT ![record[at].path] = IF record[at].existed THEN backup[at] ELSE NoFile]

RestoreEntry ==
    /\ pc = "restoring" /\ at <= Len(record)
    /\ at' = at + 1
    /\ IF Restorable(at)
       THEN Try(FinishStep, RestoreFile, UNCHANGED file, UNCHANGED failed, failed' = TRUE)
       ELSE failed' = TRUE /\ UNCHANGED <<file, faults>>
    /\ UNCHANGED <<backup, journal, pc, caller, changes, record, then, wasRunning, reply,
                   service, before>>

AllRestored ==
    /\ pc = "restoring" /\ at > Len(record)
    /\ IF failed THEN Restored(FALSE)
       ELSE pc' = "finishing" /\ UNCHANGED <<memory, wasRunning, reply>>
    /\ UNCHANGED <<disk, service, before, faults>>

-----------------------------------------------------------------------------
(* rc.common's restart: stop, then start, which needs the effective file.  *)

StopService  == running' = FALSE /\ loaded' = NoFile /\ hup' = FALSE

StartService ==
    /\ running' = (file["effective"] # NoFile)
    /\ loaded' = file["effective"]
    /\ hup' = FALSE

RestartFails ==
    IF then = "recover" THEN InitializeFails ELSE Answer("rolledBack")

\* The restart of rollbackAfterReload, and initialize's after a recovery.
Restart ==
    /\ pc = "restarting"
    /\ \/ /\ StartService /\ UNCHANGED faults
          /\ IF then = "recover" /\ running'
             THEN pc' = "health" /\ UNCHANGED <<memory, wasRunning, reply>>
             ELSE RestartFails
       \/ /\ "restart" \in MayFail /\ Fault
          /\ StopService \/ StartService \/ UNCHANGED service
          /\ RestartFails
    /\ UNCHANGED <<disk, before>>

-----------------------------------------------------------------------------
(* Mihomo and those who control it beside the panel's manager.             *)

\* Mihomo handles SIGHUP: it loads the file that is there then.
HandleReload ==
    /\ hup /\ hup' = FALSE /\ loaded' = file["effective"]
    /\ UNCHANGED <<disk, memory, pc, wasRunning, reply, running, before, faults>>

\* start of a service that runs restarts it only if procd saw the file change.
ServiceEventHappens(event) ==
    /\ CASE event = "start"   -> StartService \/ (running /\ UNCHANGED service)
         [] event = "stop"    -> StopService
         [] event = "restart" -> StartService
         [] event = "reload"  -> hup' = running /\ UNCHANGED <<running, loaded>>
         [] event = "respawn" -> running /\ StartService
         [] event = "giveup"  -> running /\ StopService
    /\ UNCHANGED <<disk, memory, pc, wasRunning, reply, before, faults>>

-----------------------------------------------------------------------------
Initialize ==
    \/ Start \/ RecoverTransaction \/ ProbeRecovered \/ CreateMissing \/ AllPresent
    \/ CreateEffective \/ UpToDate \/ ReconcileRefused \/ Reconcile

Request ==
    \/ Refuse \/ ApplyOverrides
    \/ \E items \in Items : SaveDraft(items)
    \/ \E text \in Submitted : ApplyBase(text)

Transaction ==
    \/ ProbeFails \/ Probe \/ Backup \/ WriteJournal \/ Discard \/ WriteFile \/ Written
    \/ Reload \/ Healthy \/ Unhealthy \/ RemoveJournal \/ Clean
    \/ RestoreEntry \/ AllRestored \/ Restart

Environment ==
    \/ Crash \/ HandleReload
    \/ \E event \in ServiceEvents : ServiceEventHappens(event)

Next == Initialize \/ Request \/ Transaction \/ Environment

\* The panel's process is scheduled, procd starts it again after it died, and
\* Mihomo handles its signals.  Requests and service events need not come.
Fairness == WF_vars(Initialize) /\ WF_vars(Transaction) /\ WF_vars(HandleReload)

Spec     == Init /\ [][Next]_vars
FairSpec == Spec /\ Fairness
-----------------------------------------------------------------------------
(* Properties                                                              *)

DiskTypeOK ==
    /\ file \in Directory /\ before \in Directory
    /\ backup \in [Index -> Text \cup Items \cup {NoFile}]
    /\ journal \in Seq(Entry) /\ Len(journal) <= 2

PanelTypeOK ==
    /\ pc \in Location /\ caller \in {"init", "api"} /\ reply \in Reply
    /\ changes \in Seq(Change) /\ Len(changes) <= 2
    /\ record \in Seq(Entry) /\ Len(record) <= 2
    /\ at \in 1 .. 3 /\ then \in {"commit", "abort", "rollback", "recover"}
    /\ failed \in BOOLEAN /\ wasRunning \in BOOLEAN

ServiceTypeOK ==
    /\ running \in BOOLEAN /\ loaded \in Text \cup {NoFile} /\ hup \in BOOLEAN
    /\ faults \in 0 .. MaxFaults

\* The type invariant: every variable ranges over what the code stores in it;
\* no path ever holds a document of the other kind (newConfigManager's state).
TypeOK == DiskTypeOK /\ PanelTypeOK /\ ServiceTypeOK

\* The directory as recoverTransaction would make it if the panel died now.
RecoveredConfig ==
    [path \in Path |->
        IF \E i \in 1 .. Len(journal) : journal[i].path = path
        THEN LET i == CHOOSE j \in 1 .. Len(journal) : journal[j].path = path
             IN  IF journal[i].existed THEN backup[i] ELSE NoFile
        ELSE file[path]]

\* As long as a journal is on disk, recovering from it gives back exactly the
\* files as they were when the transaction began, however far it, its
\* rollback or an earlier recovery has got (restoreTransaction).
JournalRecovers == journal # NoJournal => RecoveredConfig = before

\* Whenever the panel serves requests no transaction is unresolved, and the
\* effective file is what base and active overrides merge to (initialize's
\* reconciliation and commit keep the three files together).
ServingInSync == pc = "idle" => journal = NoJournal /\ InSync(file)

\* An answer that reports an error (configuration_write_failed,
\* reload_rolled_back and the others) leaves base, active and effective files
\* as they were when the request came.
ErrorsChangeNothing ==
    reply \in {"failed", "rolledBack"} =>
        \A path \in {"base", "active", "effective"} : file[path] = before[path]

\* When a handler answers that a configuration is applied, every file of the
\* change holds its new content and no journal is left that a later recovery
\* would undo it with (commit returns only after finishTransaction).
AppliedIsCommitted ==
    [][reply' = "applied" /\ reply # "applied" =>
          /\ journal' = NoJournal
          /\ \A i \in 1 .. Len(changes) : file'[changes[i].path] = changes[i].data]_vars

\* After an apply that reports a reload, Mihomo, once it has handled the
\* signal and if it still runs, uses the effective file (serviceReloaded),
\* whatever others did to the service meanwhile.
ReloadedIsLoaded ==
    reply = "applied" /\ wasRunning /\ running /\ ~ hup => loaded = file["effective"]

\* The running Mihomo uses the effective file whenever the panel serves: the
\* rollback and the recovery restart it after they restored the files.
RunningUsesEffective ==
    pc = "idle" /\ running /\ ~ hup => loaded = file["effective"]

\* The panel starts no Mihomo that its own probe found stopped, whatever fails in
\* the commit or the recovery that follows and whatever others do to the service
\* meanwhile: only a rollback after a reload and a recovery of a service that ran
\* restart it (config.go commit, rollbackAfterReload, initialize).  Steps of the
\* panel change pc.
FoundStoppedStays == [][pc' # pc /\ ~ wasRunning /\ ~ running => ~ running']_vars

\* The same of an apply by a handler without regard to what its probe found: it
\* starts no Mihomo that is stopped at that moment (README.md of an apply: "A
\* stopped service remains stopped.").
StoppedRemainsStopped == [][caller = "api" /\ pc' # pc /\ ~ running => ~ running']_vars

\* The journalled transaction implements the atomic change of all files.
Atomic == INSTANCE AtomicConfig WITH config <- RecoveredConfig
ImplementsAtomic == Atomic!Spec

\* Every transaction is committed or undone in the end, crashes and failing
\* steps included (commit, or recoverTransaction at a later start).
JournalResolved == journal # NoJournal ~> journal = NoJournal

\* Once the configuration has been reconciled, no crash or failing step keeps
\* the panel from serving again: initialize succeeds in the end.
ServesAgain == InSync(RecoveredConfig) ~> pc = "idle"

-----------------------------------------------------------------------------
(* The inductive invariant behind JournalRecovers, ErrorsChangeNothing and *)
(* ServingInSync: what is on disk and in memory at each place the panel    *)
(* can be.                                                                 *)

\* The faults the journal protects the files against.
TolerableFaults ==
    /\ "rollback" \notin MayFail
    /\ MayFailLate \cap {"journal", "commit", "rollback"} = {}

\* An entry describes the file as it was when the transaction began.
Describes(entry, copy) ==
    /\ entry.existed <=> before[entry.path] # NoFile
    /\ entry.existed => copy = before[entry.path]

Untouched(seq) ==
    \A path \in Path :
        (\A i \in 1 .. Len(seq) : seq[i].path # path) => file[path] = before[path]

OnePathEach(seq) ==
    \A i, j \in 1 .. Len(seq) : seq[i].path = seq[j].path => i = j

\* The journal and its backups hold the old directory.
JournalInv ==
    /\ OnePathEach(journal)
    /\ \A i \in 1 .. Len(journal) : Describes(journal[i], backup[i])
    /\ journal # NoJournal => Untouched(journal)

\* Where a journal is on disk, where it may be, and where there is none.
HasJournal ==
    \/ pc \in {"writing", "reloading", "finishing", "restoring"}
    \/ pc = "health" /\ then = "commit"

PhaseInv ==
    /\ HasJournal => journal = record /\ journal # NoJournal
    /\ ~ HasJournal /\ pc \notin {"down", "starting"} => journal = NoJournal
    /\ pc \in {"probing", "backingUp", "discarding", "writing", "reloading"} => then = "commit"
    /\ pc = "restoring" => then # "commit"
    /\ pc = "restarting" => then \in {"recover", "rollback"}
    /\ pc = "health" => then \in {"recover", "commit"}
    /\ pc \in {"down", "starting", "recovered", "ensure", "reconcile", "idle"} => then = "recover"
    /\ then = "recover" => caller = "init"
    /\ pc # "idle" => reply = "none"

\* The transaction under way.
BeginInv ==
    /\ pc \in {"probing", "backingUp", "discarding"} => file = before
    /\ pc = "probing" => record = <<>>
    /\ pc \in {"probing", "backingUp"} => at = 1
    /\ pc = "backingUp" =>
          /\ Len(record) <= Len(changes)
          /\ \A i \in 1 .. Len(record) :
                record[i].path = changes[i].path /\ Describes(record[i], backup[i])
    /\ then = "commit" => OnePathEach(changes) /\ Len(changes) > 0
    /\ HasJournal /\ then = "commit" =>
          /\ Len(record) = Len(changes)
          /\ \A i \in 1 .. Len(record) : record[i].path = changes[i].path

WriteInv ==
    /\ pc = "writing" =>
          \A i \in 1 .. Len(changes) : i < at => file[changes[i].path] = changes[i].data
    /\ then = "commit" /\ pc \in {"reloading", "health", "finishing", "cleaning"} =>
          /\ \A i \in 1 .. Len(changes) : file[changes[i].path] = changes[i].data
          /\ Untouched(changes)

RestoreInv ==
    /\ pc = "restoring" /\ ~ failed =>
          \A i \in 1 .. Len(record) : i < at => file[record[i].path] = before[record[i].path]
    /\ pc = "restoring" /\ failed => then = "recover"
    /\ then # "commit" /\ pc \in {"finishing", "cleaning"} => file = before
    /\ then = "rollback" /\ pc = "restarting" => file = before

\* The directory the transaction under way will leave if it commits.
Overwrite(dir, seq) ==
    [path \in Path |->
        IF \E i \in 1 .. Len(seq) : seq[i].path = path
        THEN seq[CHOOSE i \in 1 .. Len(seq) : seq[i].path = path].data
        ELSE dir[path]]

After == Overwrite(before, changes)

SyncInv ==
    /\ caller = "api" => InSync(before)
    /\ then = "commit" => InSync(After)
    /\ pc = "idle" => InSync(file)
    /\ pc = "reconcile" => \A path \in {"base", "draft", "active"} : file[path] # NoFile

RequestInv ==
    then = "commit" =>
        \/ /\ caller = "init" /\ changes = ReconcileChanges(before)
           /\ ~ InSync(before) /\ \A path \in Path : before[path] # NoFile
        \/ /\ caller = "api" /\ InSync(before)
           /\ \/ \E text \in Submitted : changes = BaseChanges(before, text)
              \/ changes = OverrideChanges(before)

TransactionInv ==
    /\ TypeOK /\ JournalInv /\ PhaseInv /\ BeginInv /\ WriteInv /\ RestoreInv
    /\ RequestInv /\ SyncInv /\ ErrorsChangeNothing

-----------------------------------------------------------------------------
(* The invariant behind ReloadedIsLoaded.                                  *)

\* From the reload of an apply on, until the next operation.
Reloaded ==
    /\ wasRunning
    /\ \/ reply = "applied"
       \/ then = "commit" /\ pc \in {"health", "finishing", "cleaning"}

ServiceInv ==
    /\ hup => running
    /\ Reloaded /\ running /\ ~ hup => loaded = file["effective"]

-----------------------------------------------------------------------------
(* The invariant behind RunningUsesEffective.                              *)

\* The faults and events it holds under: nobody else touches the service, the
\* panel lives on, its probe and its restart work, and so do its writes.
Undisturbed ==
    /\ TolerableFaults /\ ServiceEvents = {}
    /\ MayFail \cap {"crash", "restart", "write"} = {}
    /\ MayFailLate \cap {"probe", "write"} = {}

Loaded == running /\ ~ hup => loaded = file["effective"]

\* The new effective file is written and Mihomo has no signal yet.
AwaitsReload == pc = "reloading" \/ (pc = "writing" /\ at > Len(changes))

UndisturbedInv ==
    /\ then = "recover" => pc \in {"down", "starting", "ensure", "reconcile", "idle"}
    /\ pc \in {"down", "starting"} => journal = NoJournal
    /\ running => file["effective"] # NoFile /\ before["effective"] # NoFile
    /\ pc \in {"backingUp", "writing", "reloading", "health", "finishing", "cleaning", "restoring"} =>
          wasRunning = running
    /\ then = "abort" => ~ running
    /\ Loaded \/ AwaitsReload \/ then = "rollback"
=============================================================================
