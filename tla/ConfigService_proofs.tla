------------------------ MODULE ConfigService_proofs ------------------------
(***************************************************************************)
(* What the running Mihomo has loaded: after an apply, whatever others do  *)
(* to the service, and at all times when nobody else touches it.           *)
(***************************************************************************)
EXTENDS ConfigTransaction_proofs

(* What Mihomo has loaded after an apply.                                  *)

\* A step that leaves the service, the effective file and the result of the probe
\* alone, and enters no place after a reload.
LEMMA ServiceKept ==
  ASSUME ServiceInv, UNCHANGED <<service, file["effective"], wasRunning>>,
         Reloaded' => Reloaded
  PROVE  ServiceInv'
  BY DEF ServiceInv, service

\* Steps of initialize and the answer of a handler that does not apply anything.
LEMMA InitializeKeepsService ==
  ASSUME TransactionInv, ServiceInv, Initialize
  PROVE  ServiceInv'
<1>1. pc # "idle" /\ reply = "none" /\ UNCHANGED service
  BY DEF Initialize, Start, RecoverTransaction, ProbeRecovered, CreateMissing, AllPresent,
         CreateEffective, UpToDate, ReconcileRefused, Reconcile, TransactionInv, PhaseInv
<1>2. pc' \notin {"health", "finishing", "cleaning"}
  BY DEF Initialize, Start, RecoverTransaction, ProbeRecovered, CreateMissing, AllPresent,
         CreateEffective, UpToDate, ReconcileRefused, Reconcile, Try, InitializeFails, Answer,
         BeginCommit, RestoreFor
<1>3. reply' = "none"
  <2>1. caller = "init"
    BY DEF Initialize, Start, RecoverTransaction, ProbeRecovered, CreateMissing, AllPresent,
           CreateEffective, UpToDate, ReconcileRefused, Reconcile, TransactionInv, PhaseInv
  <2>2. QED
    BY <1>1, <2>1
       DEF Initialize, Start, RecoverTransaction, ProbeRecovered, CreateMissing, AllPresent,
           CreateEffective, UpToDate, ReconcileRefused, Reconcile, Try, InitializeFails, Answer,
           BeginCommit
<1>4. QED
  BY <1>1, <1>2, <1>3 DEF ServiceInv, Reloaded, service

\* A request ends what the last answer said.
LEMMA RequestKeepsService ==
  ASSUME TransactionInv, ServiceInv, Request
  PROVE  ServiceInv'
<1>1. pc = "idle" /\ UNCHANGED service /\ pc' \in {"idle", "probing"}
  BY DEF Request, Refuse, ApplyOverrides, ApplyBase, SaveDraft, Handle, BeginCommit
<1>2. reply' \in {"none", "refused", "saved", "failed"}
  BY DEF Request, Refuse, ApplyOverrides, ApplyBase, SaveDraft, Handle, BeginCommit, Try
<1>3. QED
  BY <1>1, <1>2 DEF ServiceInv, Reloaded, service

\* The steps of a commit: a reload leaves a signal behind, an apply without a
\* reload had not found Mihomo running.
LEMMA TransactionKeepsService ==
  ASSUME TransactionInv, ServiceInv, Transaction
  PROVE  ServiceInv'
<1>1. pc # "idle" /\ reply = "none"
  BY DEF Transaction, ProbeFails, Probe, Backup, WriteJournal, Discard, WriteFile, Written,
         Reload, Healthy, Unhealthy, RemoveJournal, Clean, RestoreEntry, AllRestored, Restart,
         TransactionInv, PhaseInv
<1>2. CASE ProbeFails \/ Probe \/ Backup \/ WriteJournal \/ Discard \/ WriteFile
  <2>1. reply' # "applied" /\ pc' \notin {"health", "finishing", "cleaning"} /\ UNCHANGED service
    BY <1>1, <1>2
       DEF ProbeFails, Probe, Backup, WriteJournal, Discard, WriteFile, Try, Answer, RestoreFor
  <2>2. QED
    BY <2>1 DEF ServiceInv, Reloaded, service
<1>3. CASE Written
  <2>1. /\ UNCHANGED <<service, wasRunning, reply>>
        /\ pc' = "reloading" \/ ~ wasRunning
    BY <1>3 DEF Written
  <2>2. QED
    BY <1>1, <2>1 DEF ServiceInv, Reloaded, service
<1>4. CASE Reload
  <2>1. /\ UNCHANGED <<running, reply>>
        /\ \/ hup' = running
           \/ hup' = hup /\ pc' = "restoring"
    BY <1>4 DEF Reload, Try, RestoreFor
  <2>2. QED
    BY <1>1, <2>1 DEF ServiceInv, Reloaded
<1>5. CASE Healthy \/ RemoveJournal \/ Clean
  <2>1. UNCHANGED <<service, file, wasRunning>>
    BY <1>5
       DEF Healthy, RemoveJournal, Clean, Try, NotFinished, Restored, RestoreFor, Answer, disk
  <2>2. Reloaded' => Reloaded
    BY <1>1, <1>5
       DEF Healthy, RemoveJournal, Clean, Try, NotFinished, Restored, RestoreFor, Answer, Forget,
           memory, Reloaded
  <2>3. QED
    BY <2>1, <2>2, ServiceKept
<1>6. CASE Unhealthy \/ RestoreEntry \/ AllRestored
  <2>1. then # "commit" \/ Unhealthy
    BY <1>6 DEF RestoreEntry, AllRestored, TransactionInv, PhaseInv
  <2>2. reply' # "applied" /\ UNCHANGED service
    BY <1>1, <1>6
       DEF Unhealthy, RestoreEntry, AllRestored, Try, Restored, InitializeFails, Answer
  <2>3. then' # "commit" \/ pc' \notin {"health", "finishing", "cleaning"}
    BY <1>6, <2>1
       DEF Unhealthy, RestoreEntry, AllRestored, Restored, InitializeFails, RestoreFor, Answer,
           Forget, memory
  <2>4. QED
    BY <2>2, <2>3 DEF ServiceInv, Reloaded, service
<1>7. CASE Restart
  <2>1. then \in {"recover", "rollback"}
    BY <1>7 DEF Restart, TransactionInv, PhaseInv
  <2>2. reply' # "applied" /\ then' # "commit"
    BY <1>1, <1>7, <2>1 DEF Restart, RestartFails, InitializeFails, Answer, Forget, memory
  <2>3. hup' => running'
    BY <1>7 DEF Restart, StartService, StopService, ServiceInv, service
  <2>4. QED
    BY <2>2, <2>3 DEF ServiceInv, Reloaded
<1>8. QED
  BY <1>2, <1>3, <1>4, <1>5, <1>6, <1>7 DEF Transaction

\* Whoever starts Mihomo, or makes it reload, makes it read the effective file.
LEMMA EnvironmentKeepsService ==
  ASSUME TransactionInv, ServiceInv, Environment
  PROVE  ServiceInv'
<1>1. CASE Crash
  <2>1. UNCHANGED service /\ reply' = "none" /\ pc' = "down"
    BY <1>1 DEF Crash
  <2>2. QED
    BY <2>1 DEF ServiceInv, Reloaded, service
<1>2. CASE HandleReload
  BY <1>2 DEF HandleReload, ServiceInv, Reloaded, disk, memory
<1>3. ASSUME NEW event \in ServiceEvents, ServiceEventHappens(event) PROVE ServiceInv'
  <2>1. Reloaded' = Reloaded /\ UNCHANGED file
    BY <1>3 DEF ServiceEventHappens, Reloaded, disk, memory
  <2>2. event \in {"start", "stop", "restart", "reload", "respawn", "giveup"}
    BY FaultAssumption DEF ServiceEvent
  <2>3. \/ StartService \/ StopService \/ UNCHANGED service
        \/ hup' = running /\ UNCHANGED <<running, loaded>>
    BY <1>3, <2>2 DEF ServiceEventHappens
  <2>4. QED
    BY <2>1, <2>3 DEF ServiceInv, StartService, StopService, service
<1>4. QED
  BY <1>1, <1>2, <1>3 DEF Environment

\* After an apply that reports a reload, Mihomo has loaded the effective file as
\* soon as it has handled the signal, whatever others do to the service and
\* whatever fails (commit, reload_service).
THEOREM ReloadIsLoaded ==
  ASSUME TolerableFaults
  PROVE  Spec => []ReloadedIsLoaded
<1>1. Init => ServiceInv
  BY DEF Init, ServiceInv, Reloaded
<1>2. ASSUME TransactionInv, ServiceInv, [Next]_vars PROVE ServiceInv'
  <2>1. CASE UNCHANGED vars
    BY <1>2, <2>1 DEF vars, ServiceInv, Reloaded
  <2>2. CASE Next
    BY <1>2, <2>2, InitializeKeepsService, RequestKeepsService, TransactionKeepsService,
       EnvironmentKeepsService DEF Next
  <2>3. QED
    BY <1>2, <2>1, <2>2
<1>3. ServiceInv => ReloadedIsLoaded
  BY DEF ServiceInv, Reloaded, ReloadedIsLoaded
<1>4. QED
  BY <1>1, <1>2, <1>3, TransactionSafety, PTL DEF Spec

-----------------------------------------------------------------------------
(* What Mihomo has loaded when nobody else touches the service.            *)

\* An operation ends where Mihomo agrees with the effective file.
LEMMA AnswerUndisturbed ==
  ASSUME UndisturbedInv, NEW code, Answer(code), Loaded', journal' = NoJournal,
         running' => file'["effective"] # NoFile /\ before'["effective"] # NoFile
  PROVE  UndisturbedInv'
<1>1. pc' \in {"down", "idle"} /\ then' = "recover"
  BY DEF Answer, Forget
<1>2. QED
  BY <1>1 DEF UndisturbedInv, AwaitsReload

\* initialize only writes the effective file when it is missing, and Mihomo does
\* not run without it.
LEMMA InitializeUndisturbed ==
  ASSUME TransactionInv, UndisturbedInv, Initialize
  PROVE  UndisturbedInv'
<1> USE DEF disk, memory, service
<1>1. /\ UNCHANGED <<running, loaded, hup>>
      /\ pc \in {"down", "starting", "recovered", "ensure", "reconcile"}
  BY DEF Initialize, Start, RecoverTransaction, ProbeRecovered, CreateMissing, AllPresent,
         CreateEffective, UpToDate, ReconcileRefused, Reconcile
<1>2. then = "recover" /\ pc # "recovered" /\ journal = NoJournal /\ Loaded
  BY <1>1 DEF TransactionInv, PhaseInv, HasJournal, UndisturbedInv, AwaitsReload
<1>3. CASE Start \/ RecoverTransaction \/ AllPresent
  <2>1. pc' \in {"starting", "ensure", "reconcile"}
        /\ UNCHANGED <<file, journal, then, before, running, loaded, hup>>
    BY <1>2, <1>3 DEF Start, RecoverTransaction, AllPresent
  <2>2. QED
    BY <1>2, <2>1 DEF UndisturbedInv, Loaded, AwaitsReload
<1>4. CASE ProbeRecovered
  BY <1>2, <1>4 DEF ProbeRecovered
<1>5. CASE CreateMissing
  <2>1. /\ file'["effective"] = file["effective"] /\ UNCHANGED <<journal, before>>
        /\ (UNCHANGED <<pc, then, wasRunning>> /\ pc = "ensure") \/ Answer("failed")
    <3>1. file \in Directory
      BY DEF TransactionInv, TypeOK, DiskTypeOK
    <3>2. \A i \in 1 .. 3 : EnsureOrder[i] \in Path /\ EnsureOrder[i] # "effective"
      BY DEF EnsureOrder, Path, TextPath, ItemsPath
    <3>3. PICK i \in 1 .. 3 :
             Try("create", WriteInitial(EnsureOrder[i]), UNCHANGED file,
                 UNCHANGED <<pc, memory, wasRunning, reply>>, InitializeFails)
      BY <1>5 DEF CreateMissing
    <3>4. WriteInitial(EnsureOrder[i]) => file'["effective"] = file["effective"]
      BY <3>1, <3>2 DEF WriteInitial, Directory
    <3>5. /\ WriteInitial(EnsureOrder[i]) \/ UNCHANGED file
          /\ UNCHANGED <<pc, memory, wasRunning, reply>> \/ Answer("failed")
      BY <3>3 DEF Try, InitializeFails
    <3>6. QED
      BY <1>5, <3>4, <3>5 DEF CreateMissing
  <2>2. Loaded'
    BY <1>1, <1>2, <2>1 DEF Loaded
  <2>3. CASE UNCHANGED <<pc, then, wasRunning>> /\ pc = "ensure"
    BY <1>1, <1>2, <2>1, <2>2, <2>3 DEF UndisturbedInv
  <2>4. CASE Answer("failed")
    BY <1>1, <1>2, <2>1, <2>2, <2>4, AnswerUndisturbed DEF UndisturbedInv
  <2>5. QED
    BY <2>1, <2>3, <2>4
<1>6. CASE CreateEffective
  <2>1. ~ running /\ UNCHANGED <<journal, before>>
    BY <1>6 DEF CreateEffective, UndisturbedInv
  <2>2. Answer("none") \/ Answer("failed")
    BY <1>6 DEF CreateEffective, Try, InitializeFails
  <2>3. QED
    BY <1>1, <1>2, <2>1, <2>2, AnswerUndisturbed DEF Loaded
<1>7. CASE UpToDate \/ ReconcileRefused
  <2>1. UNCHANGED <<file, journal, before>> /\ (Answer("none") \/ Answer("failed"))
    BY <1>7 DEF UpToDate, ReconcileRefused, InitializeFails
  <2>2. QED
    BY <1>1, <1>2, <2>1, AnswerUndisturbed DEF UndisturbedInv, Loaded
<1>8. CASE Reconcile
  <2>1. pc' = "probing" /\ then' = "commit" /\ UNCHANGED file /\ before' = file
    BY <1>8 DEF Reconcile, BeginCommit
  <2>2. QED
    BY <1>1, <1>2, <2>1 DEF UndisturbedInv, Loaded
<1>9. QED
  BY <1>3, <1>4, <1>5, <1>6, <1>7, <1>8 DEF Initialize

LEMMA RequestUndisturbed ==
  ASSUME TransactionInv, UndisturbedInv, Request
  PROVE  UndisturbedInv'
<1> USE DEF disk, memory, service
<1>1. /\ pc = "idle" /\ UNCHANGED <<running, loaded, hup>>
      /\ \/ pc' = "idle" /\ UNCHANGED then
         \/ pc' = "probing" /\ then' = "commit"
      /\ before' = file
  BY DEF Request, Refuse, ApplyOverrides, ApplyBase, SaveDraft, Handle, BeginCommit
<1>2. file'["effective"] = file["effective"]
  <2>1. file \in Directory
    BY DEF TransactionInv, TypeOK, DiskTypeOK
  <2>2. QED
    BY <2>1
       DEF Request, Refuse, ApplyOverrides, ApplyBase, SaveDraft, Handle, BeginCommit, Try,
           Directory, Path, TextPath, ItemsPath
<1>3. then = "recover" /\ Loaded
  BY <1>1 DEF TransactionInv, PhaseInv, UndisturbedInv, AwaitsReload
<1>4. QED
  BY <1>1, <1>2, <1>3 DEF UndisturbedInv, Loaded

\* The effective file is the last a commit writes.
LEMMA EffectiveIsLast ==
  ASSUME RequestInv, then = "commit", NEW i \in 1 .. Len(changes), i < Len(changes)
  PROVE  changes[i].path # "effective"
<1>1. CASE changes = ReconcileChanges(before)
  BY <1>1 DEF ReconcileChanges
<1>2. CASE \E text \in Submitted : changes = BaseChanges(before, text)
  BY <1>2 DEF BaseChanges
<1>3. CASE changes = OverrideChanges(before)
  BY <1>3 DEF OverrideChanges
<1>4. QED
  BY <1>1, <1>2, <1>3 DEF RequestInv

\* The steps of a commit and of a rollback: a reload that was reported leaves a
\* signal behind, and everything that fails after the files were written ends in
\* a restart, or had not found Mihomo running.
LEMMA TransactionUndisturbed ==
  ASSUME Undisturbed, TransactionInv, UndisturbedInv, Transaction
  PROVE  UndisturbedInv'
<1> USE DEF disk, memory, service
<1>0. /\ "write" \notin MayFail /\ "write" \notin MayFailLate /\ "rollback" \notin MayFail
      /\ "rollback" \notin MayFailLate /\ "commit" \notin MayFailLate
      /\ "restart" \notin MayFail /\ "probe" \notin MayFailLate
  BY DEF Undisturbed, TolerableFaults
<1>1. then # "recover" /\ pc \notin {"down", "starting", "ensure", "reconcile", "idle", "recovered"}
  BY DEF Transaction, ProbeFails, Probe, Backup, WriteJournal, Discard, WriteFile, Written,
         Reload, Healthy, Unhealthy, RemoveJournal, Clean, RestoreEntry, AllRestored, Restart,
         TransactionInv, PhaseInv, UndisturbedInv
<1>2. CASE ProbeFails
  <2>1. pc = "probing" /\ Answer("failed") /\ UNCHANGED <<file, journal, running, loaded, hup, before>>
    BY <1>1, <1>2 DEF ProbeFails
  <2>2. journal = NoJournal /\ Loaded
    BY <2>1 DEF TransactionInv, PhaseInv, HasJournal, UndisturbedInv, AwaitsReload
  <2>3. QED
    BY <2>1, <2>2, AnswerUndisturbed DEF UndisturbedInv, Loaded
<1>3. CASE Probe
  <2>1. /\ pc = "probing" /\ pc' = "backingUp" /\ wasRunning' = running
        /\ UNCHANGED <<file, journal, then, running, loaded, hup, before>>
    BY <1>0, <1>3 DEF Probe, ProbeResult
  <2>2. then = "commit" /\ Loaded
    BY <2>1 DEF TransactionInv, PhaseInv, UndisturbedInv, AwaitsReload
  <2>3. QED
    BY <2>1, <2>2 DEF UndisturbedInv, Loaded
<1>4. CASE Backup \/ WriteJournal
  <2>1. /\ pc = "backingUp" /\ pc' \in {"backingUp", "discarding", "writing"}
        /\ UNCHANGED <<file, then, wasRunning, running, loaded, hup, before>>
    BY <1>4 DEF Backup, WriteJournal, Try
  <2>2. then = "commit" /\ Loaded
    BY <2>1 DEF TransactionInv, PhaseInv, UndisturbedInv, AwaitsReload
  <2>3. QED
    BY <2>1, <2>2 DEF UndisturbedInv, Loaded
<1>5. CASE Discard
  <2>1. pc = "discarding" /\ Answer("failed") /\ UNCHANGED <<file, journal, running, loaded, hup, before>>
    BY <1>5 DEF Discard
  <2>2. journal = NoJournal /\ Loaded
    BY <2>1 DEF TransactionInv, PhaseInv, HasJournal, UndisturbedInv, AwaitsReload
  <2>3. QED
    BY <2>1, <2>2, AnswerUndisturbed DEF UndisturbedInv, Loaded
<1>6. CASE WriteFile
  <2>1. /\ pc = "writing" /\ at <= Len(changes) /\ at' = at + 1
        /\ file' = [file EXCEPT ![changes[at].path] = changes[at].data]
        /\ UNCHANGED <<pc, then, wasRunning, running, loaded, hup, before, changes>>
    BY <1>0, <1>6 DEF WriteFile, Try
  <2>2. /\ file \in Directory /\ at \in Nat /\ Len(changes) \in Nat /\ at \in 1 .. Len(changes)
        /\ changes[at] \in Change /\ then = "commit" /\ Loaded
    BY <2>1
       DEF TransactionInv, TypeOK, DiskTypeOK, PanelTypeOK, PhaseInv, UndisturbedInv, AwaitsReload
  <2>3. changes[at].path \in Path
        /\ (changes[at].path = "effective" => changes[at].data \in Text)
    BY <2>2 DEF Change, Content, TextPath
  <2>4. file'["effective"] # NoFile \/ file'["effective"] = file["effective"]
    BY <2>1, <2>2, <2>3, DataAssumption DEF Directory, Path, TextPath
  <2>5. CASE at < Len(changes)
    <3>1. changes[at].path # "effective"
      BY <2>2, <2>5, EffectiveIsLast DEF TransactionInv
    <3>2. file'["effective"] = file["effective"]
      BY <2>1, <2>2, <2>3, <3>1 DEF Directory, Path, TextPath
    <3>3. QED
      BY <2>1, <2>2, <3>2 DEF UndisturbedInv, Loaded
  <2>6. CASE at = Len(changes)
    <3>1. AwaitsReload'
      BY <2>1, <2>2, <2>6 DEF AwaitsReload
    <3>2. QED
      BY <2>1, <2>2, <2>4, <3>1 DEF UndisturbedInv
  <2>7. QED
    BY <2>1, <2>2, <2>5, <2>6
<1>7. CASE Written
  <2>1. /\ pc = "writing" /\ pc' = IF wasRunning THEN "reloading" ELSE "finishing"
        /\ UNCHANGED <<file, journal, then, wasRunning, running, loaded, hup, before>>
    BY <1>7 DEF Written
  <2>2. wasRunning = running /\ then = "commit"
    BY <2>1 DEF TransactionInv, PhaseInv, UndisturbedInv
  <2>3. QED
    BY <2>1, <2>2 DEF UndisturbedInv, Loaded, AwaitsReload
<1>8. CASE Reload
  <2>1. /\ pc = "reloading" /\ UNCHANGED <<file, journal, wasRunning, running, loaded, before>>
        /\ \/ pc' = "health" /\ then' = then /\ hup' = running
           \/ pc' = "restoring" /\ then' = "rollback"
    BY <1>8 DEF Reload, Try, RestoreFor
  <2>2. wasRunning = running /\ then = "commit"
    BY <2>1 DEF TransactionInv, PhaseInv, UndisturbedInv
  <2>3. QED
    BY <2>1, <2>2 DEF UndisturbedInv, Loaded
<1>9. CASE Healthy \/ Unhealthy
  <2>1. /\ pc = "health" /\ UNCHANGED <<file, journal, wasRunning, running, loaded, hup, before>>
        /\ \/ pc' = "finishing" /\ then' = then
           \/ pc' = "restoring" /\ then' = "rollback"
    BY <1>1, <1>9 DEF Healthy, Unhealthy, RestoreFor
  <2>2. wasRunning = running /\ then = "commit" /\ Loaded
    BY <1>1, <2>1 DEF TransactionInv, PhaseInv, UndisturbedInv, AwaitsReload
  <2>3. QED
    BY <2>1, <2>2 DEF UndisturbedInv, Loaded
<1>10. CASE RemoveJournal
  <2>1. /\ pc = "finishing" /\ UNCHANGED <<file, wasRunning, running, loaded, hup, before>>
        /\ \/ pc' = "cleaning" /\ then' = then
           \/ /\ then = "commit" /\ pc' = "restoring"
              /\ then' = IF wasRunning THEN "rollback" ELSE "abort"
    BY <1>0, <1>1, <1>10
       DEF RemoveJournal, Try, FinishStep, NotFinished, RestoreFor, TransactionInv, TypeOK, PanelTypeOK
  <2>2. wasRunning = running
    BY <2>1 DEF UndisturbedInv
  <2>3. Loaded \/ then = "rollback"
    BY <2>1 DEF UndisturbedInv, AwaitsReload
  <2>4. QED
    BY <1>1, <2>1, <2>2, <2>3 DEF UndisturbedInv, Loaded
<1>11. CASE Clean
  <2>1. pc = "cleaning" /\ UNCHANGED <<file, journal, running, loaded, hup, before>>
    BY <1>11 DEF Clean
  <2>2. journal = NoJournal /\ (Loaded \/ then = "rollback") /\ (then = "abort" => ~ running)
    BY <2>1 DEF TransactionInv, PhaseInv, HasJournal, UndisturbedInv, AwaitsReload
  <2>3. CASE then = "rollback"
    <3>1. pc' = "restarting" /\ UNCHANGED <<then, wasRunning>>
      BY <1>11, <2>3 DEF Clean, Restored
    <3>2. QED
      BY <2>1, <2>3, <3>1 DEF UndisturbedInv
  <2>4. CASE then # "rollback"
    <3>1. Answer("applied") \/ Answer("failed")
      BY <1>1, <1>11, <2>4 DEF Clean, Restored, TransactionInv, TypeOK, PanelTypeOK
    <3>2. Loaded'
      BY <2>1, <2>2, <2>4 DEF Loaded
    <3>3. QED
      BY <2>1, <2>2, <3>1, <3>2, AnswerUndisturbed DEF UndisturbedInv
  <2>5. QED
    BY <2>3, <2>4
<1>12. CASE RestoreEntry
  <2>1. /\ pc = "restoring" /\ at <= Len(record) /\ UNCHANGED <<pc, then, wasRunning, running, loaded, hup, before, journal>>
        /\ file' = file \/ RestoreFile
    BY <1>12 DEF RestoreEntry, Try
  <2>2. then \in {"abort", "rollback"} /\ journal = record
    BY <1>1, <2>1 DEF TransactionInv, TypeOK, PanelTypeOK, PhaseInv, HasJournal
  <2>3. running => file'["effective"] # NoFile
    <3>1. CASE file' = file
      BY <2>1, <3>1 DEF UndisturbedInv
    <3>2. CASE RestoreFile
      <4>1. at \in 1 .. Len(journal) /\ file \in Directory
        BY <2>1, <2>2 DEF TransactionInv, TypeOK, DiskTypeOK, PanelTypeOK
      <4>2. Describes(journal[at], backup[at])
        BY <4>1 DEF TransactionInv, JournalInv
      <4>3. file'["effective"] = file["effective"] \/ file'["effective"] = before["effective"]
        BY <2>2, <3>2, <4>1, <4>2 DEF RestoreFile, Describes, Directory, TransactionInv, TypeOK, DiskTypeOK
      <4>4. QED
        BY <2>1, <4>3 DEF UndisturbedInv
    <3>3. QED
      BY <2>1, <3>1, <3>2
  <2>4. QED
    BY <2>1, <2>2, <2>3 DEF UndisturbedInv, Loaded
<1>13. CASE AllRestored
  <2>1. pc = "restoring" /\ ~ failed /\ then \in {"abort", "rollback"}
    BY <1>1, <1>13 DEF AllRestored, TransactionInv, TypeOK, PanelTypeOK, PhaseInv, RestoreInv
  <2>2. pc' = "finishing" /\ UNCHANGED <<file, journal, then, wasRunning, running, loaded, hup, before>>
    BY <1>13, <2>1 DEF AllRestored
  <2>3. QED
    BY <2>1, <2>2 DEF UndisturbedInv, Loaded
<1>14. CASE Restart
  <2>1. /\ pc = "restarting" /\ then = "rollback" /\ StartService /\ Answer("rolledBack")
        /\ UNCHANGED <<file, journal, before>>
    BY <1>0, <1>1, <1>14 DEF Restart, RestartFails, TransactionInv, PhaseInv
  <2>2. file = before /\ journal = NoJournal
    BY <2>1 DEF TransactionInv, PhaseInv, HasJournal, RestoreInv
  <2>3. Loaded' /\ (running' => file["effective"] # NoFile)
    BY <2>1 DEF StartService, Loaded
  <2>4. QED
    BY <2>1, <2>2, <2>3, AnswerUndisturbed
<1>15. QED
  BY <1>2, <1>3, <1>4, <1>5, <1>6, <1>7, <1>8, <1>9, <1>10, <1>11, <1>12, <1>13, <1>14
     DEF Transaction

LEMMA EnvironmentUndisturbed ==
  ASSUME Undisturbed, TransactionInv, UndisturbedInv, Environment
  PROVE  UndisturbedInv'
<1>1. HandleReload
  BY DEF Environment, Crash, Undisturbed
<1>2. /\ loaded' = file'["effective"]
      /\ UNCHANGED <<file, journal, pc, at, changes, then, wasRunning, running, before>>
  BY <1>1 DEF HandleReload, disk, memory
<1>3. QED
  BY <1>2 DEF UndisturbedInv, Loaded

\* Whenever the panel serves, a Mihomo that runs and has handled its signals has
\* loaded the effective file, also after a reload that failed, a controller that
\* did not answer, or a commit that failed at its last step.
THEOREM RunningIsEffective ==
  ASSUME Undisturbed
  PROVE  Spec => []RunningUsesEffective
<1>1. Init => UndisturbedInv
  BY DEF Init, UndisturbedInv, Loaded
<1>2. ASSUME TransactionInv, UndisturbedInv, [Next]_vars PROVE UndisturbedInv'
  <2>1. CASE UNCHANGED vars
    BY <1>2, <2>1 DEF vars, UndisturbedInv, Loaded, AwaitsReload
  <2>2. CASE Next
    BY <1>2, <2>2, InitializeUndisturbed, RequestUndisturbed, TransactionUndisturbed,
       EnvironmentUndisturbed DEF Next
  <2>3. QED
    BY <1>2, <2>1, <2>2
<1>3. TransactionInv /\ UndisturbedInv => RunningUsesEffective
  BY DEF TransactionInv, PhaseInv, UndisturbedInv, AwaitsReload, Loaded, RunningUsesEffective
<1>4. TolerableFaults
  BY DEF Undisturbed
<1>5. Spec => []TransactionInv
  BY <1>4, TransactionSafety
<1>6. QED
  BY <1>1, <1>2, <1>3, <1>5, PTL DEF Spec

-----------------------------------------------------------------------------
(* A service that was found stopped.                                       *)

\* Where the panel reloads, checks or restarts Mihomo, its probe found it running.
ProbedInv ==
    /\ pc \in {"reloading", "health", "restarting"} => wasRunning
    /\ then = "rollback" => wasRunning

LEMMA InitializeKeepsProbed ==
  ASSUME TransactionInv, ProbedInv, Initialize
  PROVE  ProbedInv'
<1>1. pc' \in {"starting", "restoring", "restarting", "ensure", "reconcile", "idle", "down", "probing"}
  BY DEF Initialize, Start, RecoverTransaction, ProbeRecovered, CreateMissing, AllPresent,
         CreateEffective, UpToDate, ReconcileRefused, Reconcile, Try, InitializeFails, Answer,
         BeginCommit, RestoreFor
<1>2. pc' = "restarting" => wasRunning'
  BY DEF Initialize, Start, RecoverTransaction, ProbeRecovered, CreateMissing, AllPresent,
         CreateEffective, UpToDate, ReconcileRefused, Reconcile, Try, InitializeFails, Answer,
         BeginCommit, RestoreFor
<1>3. then = "recover"
  BY DEF Initialize, Start, RecoverTransaction, ProbeRecovered, CreateMissing, AllPresent,
         CreateEffective, UpToDate, ReconcileRefused, Reconcile, TransactionInv, PhaseInv
<1>4. then' # "rollback"
  BY <1>3
     DEF Initialize, Start, RecoverTransaction, ProbeRecovered, CreateMissing, AllPresent,
         CreateEffective, UpToDate, ReconcileRefused, Reconcile, Try, InitializeFails, Answer,
         Forget, BeginCommit, RestoreFor, memory
<1>5. QED
  BY <1>1, <1>2, <1>4 DEF ProbedInv

\* The steps of a commit before its reload, and the end of its writes.
LEMMA CommitKeepsProbed ==
  ASSUME TransactionInv, ProbedInv,
         ProbeFails \/ Probe \/ Backup \/ WriteJournal \/ Discard \/ WriteFile \/ Written
  PROVE  ProbedInv'
<1>1. then # "rollback"
  BY DEF ProbeFails, Probe, Backup, WriteJournal, Discard, WriteFile, Written, TransactionInv,
         PhaseInv
<1>2. then' # "rollback"
  BY <1>1
     DEF ProbeFails, Probe, Backup, WriteJournal, Discard, WriteFile, Written, Try, Answer,
         Forget, RestoreFor, memory
<1>3. pc' \in {"reloading", "health", "restarting"} => Written /\ wasRunning /\ wasRunning'
  BY DEF ProbeFails, Probe, Backup, WriteJournal, Discard, WriteFile, Written, Try, Answer,
         RestoreFor
<1>4. QED
  BY <1>2, <1>3 DEF ProbedInv

\* The steps from the reload on: a rollback follows a reload or a commit that
\* cannot be finished after one.
LEMMA RollbackKeepsProbed ==
  ASSUME TransactionInv, ProbedInv,
         Reload \/ Healthy \/ Unhealthy \/ RemoveJournal \/ Clean \/ RestoreEntry \/ AllRestored
         \/ Restart
  PROVE  ProbedInv'
<1>1. wasRunning' = wasRunning
  BY DEF Reload, Healthy, Unhealthy, RemoveJournal, Clean, RestoreEntry, AllRestored, Restart,
         Try, NotFinished, Restored, RestartFails, InitializeFails, Answer, RestoreFor
<1>2. then' = "rollback" => wasRunning
  <2>1. CASE Reload \/ Healthy \/ Unhealthy
    BY <2>1
       DEF Reload, Healthy, Unhealthy, Try, InitializeFails, Answer, Forget, RestoreFor, memory,
           ProbedInv
  <2>2. CASE RemoveJournal
    BY <2>2
       DEF RemoveJournal, Try, NotFinished, Restored, Answer, Forget, RestoreFor, memory, ProbedInv
  <2>3. CASE Clean \/ RestoreEntry \/ AllRestored \/ Restart
    BY <2>3
       DEF Clean, RestoreEntry, AllRestored, Restart, Try, Restored, RestartFails,
           InitializeFails, Answer, Forget, memory, ProbedInv
  <2>4. QED
    BY <2>1, <2>2, <2>3
<1>3. pc' \in {"reloading", "health", "restarting"} => wasRunning
  <2>1. CASE Reload \/ Healthy \/ Unhealthy \/ Restart
    BY <2>1
       DEF Reload, Healthy, Unhealthy, Restart, Try, RestartFails, InitializeFails, Answer,
           RestoreFor, memory, ProbedInv
  <2>2. CASE RemoveJournal \/ Clean \/ RestoreEntry \/ AllRestored
    <3>1. pc' = "restarting" => then = "rollback"
      BY <2>2
         DEF RemoveJournal, Clean, RestoreEntry, AllRestored, Try, NotFinished, Restored, Answer,
             RestoreFor, TransactionInv, PhaseInv, PanelTypeOK, TypeOK
    <3>2. pc' \notin {"reloading", "health"}
      BY <2>2
         DEF RemoveJournal, Clean, RestoreEntry, AllRestored, Try, NotFinished, Restored, Answer,
             RestoreFor
    <3>3. QED
      BY <3>1, <3>2 DEF ProbedInv
  <2>3. QED
    BY <2>1, <2>2
<1>4. QED
  BY <1>1, <1>2, <1>3 DEF ProbedInv

LEMMA StepKeepsProbed ==
  ASSUME TransactionInv, ProbedInv, [Next]_vars
  PROVE  ProbedInv'
<1>1. CASE UNCHANGED vars
  BY <1>1 DEF vars, ProbedInv
<1>2. CASE Initialize
  BY <1>2, InitializeKeepsProbed
<1>3. CASE Request
  <2>1. pc' \in {"idle", "probing"} /\ then' # "rollback"
    BY <1>3
       DEF Request, Refuse, ApplyOverrides, ApplyBase, SaveDraft, Handle, BeginCommit, Try,
           memory, TransactionInv, PhaseInv
  <2>2. QED
    BY <2>1 DEF ProbedInv
<1>4. CASE Transaction
  BY <1>4, CommitKeepsProbed, RollbackKeepsProbed DEF Transaction
<1>5. CASE Environment
  <2>1. CASE Crash
    BY <2>1 DEF Crash, Forget, ProbedInv
  <2>2. CASE HandleReload
    BY <2>2 DEF HandleReload, memory, ProbedInv
  <2>3. ASSUME NEW event \in ServiceEvents, ServiceEventHappens(event) PROVE ProbedInv'
    BY <2>3 DEF ServiceEventHappens, memory, ProbedInv
  <2>4. QED
    BY <1>5, <2>1, <2>2, <2>3 DEF Environment
<1>6. QED
  BY <1>1, <1>2, <1>3, <1>4, <1>5 DEF Next

\* Of the steps of the panel only a restart starts Mihomo.
LEMMA OnlyRestartStarts ==
  ASSUME [Next]_vars, pc' # pc, running' # running
  PROVE  Restart
<1>1. UNCHANGED running \/ Restart \/ \E event \in ServiceEvents : ServiceEventHappens(event)
  BY DEF Next, vars, Initialize, Request, Transaction, Environment, Start, RecoverTransaction,
         ProbeRecovered, CreateMissing, AllPresent, CreateEffective, UpToDate, ReconcileRefused,
         Reconcile, Refuse, ApplyOverrides, ApplyBase, SaveDraft, Handle, ProbeFails, Probe,
         Backup, WriteJournal, Discard, WriteFile, Written, Reload, Healthy, Unhealthy,
         RemoveJournal, Clean, RestoreEntry, AllRestored, Crash, HandleReload, service
<1>2. QED
  BY <1>1 DEF ServiceEventHappens

\* No step of a commit, a rollback or a recovery starts a Mihomo that the panel's
\* probe found stopped, whatever fails and whatever others do to the service
\* (config.go commit, rollbackAfterReload, initialize).
THEOREM FoundStoppedAlwaysStays ==
  ASSUME TolerableFaults
  PROVE  Spec => FoundStoppedStays
<1>1. Init => ProbedInv
  BY DEF Init, ProbedInv
<1>2. TransactionInv /\ ProbedInv /\ [Next]_vars => ProbedInv'
  BY StepKeepsProbed
<1>3. ASSUME ProbedInv, [Next]_vars, pc' # pc, ~ wasRunning, ~ running
      PROVE  ~ running'
  <2>1. ~ Restart
    BY <1>3 DEF ProbedInv, Restart
  <2>2. running' = running
    BY <1>3, <2>1, OnlyRestartStarts
  <2>3. QED
    BY <1>3, <2>2
<1>4. ProbedInv /\ [Next]_vars => [pc' # pc /\ ~ wasRunning /\ ~ running => ~ running']_vars
  BY <1>3
<1>5. QED
  BY <1>1, <1>2, <1>4, TransactionSafety, PTL DEF Spec, FoundStoppedStays
=============================================================================
