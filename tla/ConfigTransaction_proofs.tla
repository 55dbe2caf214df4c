---------------------- MODULE ConfigTransaction_proofs ----------------------
EXTENDS ConfigTransaction, TLAPS

USE DEF NoJournal

\* What a path of the directory may hold.
LEMMA DirectoryRead ==
  ASSUME NEW dir \in Directory, NEW path \in Path
  PROVE  dir[path] \in Content(path) \cup {NoFile}
  BY DEF Directory

\* Writing or removing one file gives a directory again.
LEMMA DirectoryUpdate ==
  ASSUME NEW dir \in Directory, NEW path \in Path, NEW content \in Content(path) \cup {NoFile}
  PROVE  [dir EXCEPT ![path] = content] \in Directory
  BY DEF Directory, Content, Path, TextPath, ItemsPath

\* The four paths and the kind of content of each.
LEMMA Contents ==
  /\ Path = {"base", "effective", "draft", "active"}
  /\ Content("base") = Text /\ Content("effective") = Text
  /\ Content("draft") = Items /\ Content("active") = Items
  /\ \A path \in Path : Content(path) \subseteq Text \cup Items
  BY DEF Path, TextPath, ItemsPath, Content

\* The empty sequence is of every type needed here.
LEMMA EmptySequences ==
  <<>> \in Seq(Change) /\ <<>> \in Seq(Entry) /\ Len(<<>>) = 0
  OBVIOUS

\* Merging two files that exist gives a document.
LEMMA MergedType ==
  ASSUME NEW base \in Text \cup {NoFile}, NEW items \in Items \cup {NoFile},
         base # NoFile, items # NoFile
  PROVE  Merge(base, items) \in Text /\ Merge(base, items) # NoFile
  BY MergeAssumption, DataAssumption

\* What initialize creates a missing file with is content of its kind.
LEMMA InitialContentType ==
  ASSUME NEW dir \in Directory, NEW path \in Path,
         path = "effective" => dir["base"] # NoFile /\ dir["active"] # NoFile
  PROVE  InitialContent(dir, path) \in Content(path) /\ InitialContent(dir, path) # NoFile
<1>1. /\ dir["effective"] \in Text \cup {NoFile} /\ dir["base"] \in Text \cup {NoFile}
      /\ dir["active"] \in Items \cup {NoFile}
  BY DirectoryRead, Contents
<1>2. CASE path = "effective"
  BY <1>1, <1>2, MergedType, Contents DEF InitialContent, ItemsPath
<1>3. CASE path = "base"
  BY <1>1, <1>3, Contents, DataAssumption DEF InitialContent, ItemsPath
<1>4. CASE path \in ItemsPath
  BY <1>4, Contents, DataAssumption DEF InitialContent, ItemsPath
<1>5. QED
  BY <1>2, <1>3, <1>4 DEF Path, TextPath

\* A change of one or of two files, as commit is called with it.
LEMMA ChangeType ==
  ASSUME NEW path \in Path, NEW data \in Content(path)
  PROVE  [path |-> path, data |-> data] \in Change
  BY Contents DEF Change

\* Lists of one and of two changes.
LEMMA ChangesType ==
  ASSUME NEW first \in Change, NEW second \in Change
  PROVE  /\ <<first>> \in Seq(Change) /\ <<first, second>> \in Seq(Change)
         /\ Len(<<first>>) = 1 /\ Len(<<first, second>>) = 2
  OBVIOUS

\* The index of the next backup, when at most two files are changed.
LEMMA NextIndex ==
  ASSUME NEW r \in Nat, NEW c \in Nat, c <= 2, r < c
  PROVE  r \in 0 .. 1 /\ r + 1 \in Index
  BY DEF Index

\* An answer ends the operation and forgets what it had in memory.
LEMMA AnswerForgets ==
  ASSUME NEW code, Answer(code)
  PROVE  /\ caller' = "init" /\ changes' = <<>> /\ record' = <<>>
         /\ at' = 1 /\ then' = "recover" /\ failed' = FALSE /\ wasRunning' = wasRunning
         /\ pc' \in {"down", "idle"}
         /\ reply' = IF caller = "init" THEN "none" ELSE code
         /\ pc' = IF caller = "init" /\ code \notin {"none", "applied"} THEN "down" ELSE "idle"
  BY DEF Answer, Forget

\* An error of initialize takes the panel down, and only a handler answers it.
LEMMA AnswerError ==
  ASSUME NEW code \in {"failed", "rolledBack"}, Answer(code), caller \in {"init", "api"}
  PROVE  /\ caller = "init" => pc' = "down" /\ reply' = "none"
         /\ pc' = "idle" => caller = "api"
  BY DEF Answer

\* An answer keeps the panel's variables in their types.
LEMMA AnswerType ==
  ASSUME PanelTypeOK, NEW code \in Reply, Answer(code)
  PROVE  PanelTypeOK'
<1>1. /\ caller' = "init" /\ changes' = <<>> /\ record' = <<>> /\ at' = 1
      /\ then' = "recover" /\ failed' = FALSE /\ wasRunning' = wasRunning
      /\ pc' \in {"down", "idle"} /\ reply' \in {"none", code}
  BY AnswerForgets
<1>2. pc' \in Location /\ reply' \in Reply
  BY <1>1 DEF Location, Reply
<1>3. changes' \in Seq(Change) /\ Len(changes') <= 2 /\ record' \in Seq(Entry) /\ Len(record') <= 2
  BY <1>1
<1>4. caller' \in {"init", "api"} BY <1>1
<1>5. at' \in 1..3 BY <1>1
<1>6. then' \in {"commit", "abort", "rollback", "recover"} BY <1>1
<1>7. failed' \in BOOLEAN BY <1>1
<1>8. wasRunning' \in BOOLEAN BY <1>1 DEF PanelTypeOK
<1>9. QED
  BY <1>2, <1>3, <1>4, <1>5, <1>6, <1>7, <1>8 DEF PanelTypeOK

\* A fault is counted within its bound.
LEMMA FaultType ==
  ASSUME ServiceTypeOK, Fault
  PROVE  faults' \in 0 .. MaxFaults
  BY FaultAssumption DEF ServiceTypeOK, Fault

\* Without a journal there is nothing to say about it.
LEMMA WithoutJournal ==
  ASSUME journal' = NoJournal
  PROVE  JournalInv'
  BY EmptySequences DEF JournalInv, OnePathEach

\* The promised directory depends on the old files and on the changes only.
LEMMA AfterUnchanged ==
  ASSUME UNCHANGED <<before, changes>>
  PROVE  After' = After
  BY DEF After

\* When every change is written and nothing else is touched, the directory is
\* the one the transaction promised.
LEMMA Committed ==
  ASSUME file \in Directory, before \in Directory, changes \in Seq(Change),
         \A i \in 1 .. Len(changes) : file[changes[i].path] = changes[i].data,
         Untouched(changes)
  PROVE  file = After
<1>1. ASSUME NEW path \in Path
      PROVE  file[path] = After[path]
  <2>1. CASE \E i \in 1 .. Len(changes) : changes[i].path = path
    <3> DEFINE j == CHOOSE i \in 1 .. Len(changes) : changes[i].path = path
    <3>1. j \in 1 .. Len(changes) /\ changes[j].path = path
      BY <2>1
    <3>2. After[path] = changes[j].data
      BY <2>1 DEF After, Overwrite
    <3>3. QED
      BY <3>1, <3>2
  <2>2. CASE ~ \E i \in 1 .. Len(changes) : changes[i].path = path
    BY <2>2 DEF After, Overwrite, Untouched
  <2>3. QED
    BY <2>1, <2>2
<1>2. file = [path \in Path |-> file[path]] /\ After = [path \in Path |-> After[path]]
  BY DEF Directory, After, Overwrite
<1>3. QED
  BY <1>1, <1>2

\* Overwriting with reconcile's list replaces the effective file.
LEMMA OverwriteOne ==
  ASSUME NEW dir, NEW data
  PROVE  /\ OnePathEach(<<[path |-> "effective", data |-> data]>>)
         /\ Overwrite(dir, <<[path |-> "effective", data |-> data]>>) =
                [path \in Path |-> IF path = "effective" THEN data ELSE dir[path]]
<1> DEFINE seq == <<[path |-> "effective", data |-> data]>>
<1>1. Len(seq) = 1 /\ seq[1].path = "effective" /\ seq[1].data = data
  OBVIOUS
<1> HIDE DEF seq
<1>2. OnePathEach(seq)
  BY <1>1 DEF OnePathEach
<1>3. ASSUME NEW path \in Path
      PROVE  Overwrite(dir, seq)[path] = IF path = "effective" THEN data ELSE dir[path]
  <2>1. CASE path = "effective"
    <3>1. 1 \in 1 .. Len(seq) /\ seq[1].path = path
      BY <1>1, <2>1
    <3>2. (CHOOSE i \in 1 .. Len(seq) : seq[i].path = path) = 1
      BY <1>1, <3>1
    <3>3. QED
      BY <1>1, <2>1, <3>1, <3>2 DEF Overwrite
  <2>2. CASE path # "effective"
    <3>1. ~ \E i \in 1 .. Len(seq) : seq[i].path = path
      BY <1>1, <2>2
    <3>2. QED
      BY <2>2, <3>1 DEF Overwrite
  <2>3. QED
    BY <2>1, <2>2
<1>4. QED
  BY <1>2, <1>3 DEF Overwrite, seq

\* Overwriting with a handler's list replaces its two files.
LEMMA OverwriteTwo ==
  ASSUME NEW dir, NEW first \in {"base", "active"}, NEW new, NEW data
  PROVE  LET seq == <<[path |-> first, data |-> new], [path |-> "effective", data |-> data]>>
         IN  /\ OnePathEach(seq)
             /\ Overwrite(dir, seq) =
                   [path \in Path |-> IF path = first THEN new
                                      ELSE IF path = "effective" THEN data ELSE dir[path]]
<1> DEFINE seq == <<[path |-> first, data |-> new], [path |-> "effective", data |-> data]>>
<1>1. Len(seq) = 2
  OBVIOUS
<1>a. seq[1].path = first /\ seq[1].data = new
  OBVIOUS
<1>b. seq[2].path = "effective" /\ seq[2].data = data
  OBVIOUS
<1> HIDE DEF seq
<1>2. OnePathEach(seq)
  BY <1>1, <1>a, <1>b DEF OnePathEach
<1>3. ASSUME NEW path \in Path
      PROVE  Overwrite(dir, seq)[path] =
                IF path = first THEN new ELSE IF path = "effective" THEN data ELSE dir[path]
  <2>1. ASSUME NEW k \in 1 .. 2, seq[k].path = path
        PROVE  Overwrite(dir, seq)[path] = seq[k].data
    <3>1. k \in 1 .. Len(seq) /\ \A i \in 1 .. Len(seq) : seq[i].path = path => i = k
      BY <1>1, <1>a, <1>b, <1>2, <2>1
    <3>2. (CHOOSE i \in 1 .. Len(seq) : seq[i].path = path) = k
      BY <2>1, <3>1
    <3>3. QED
      BY <2>1, <3>1, <3>2 DEF Overwrite
  <2>2. CASE path \notin {first, "effective"}
    <3>1. ~ \E i \in 1 .. Len(seq) : seq[i].path = path
      BY <1>1, <1>a, <1>b, <2>2
    <3>2. QED
      BY <2>2, <3>1 DEF Overwrite
  <2>3. QED
    BY <1>1, <1>a, <1>b, <2>1, <2>2
<1>4. QED
  BY <1>2, <1>3 DEF Overwrite, seq

\* The end of an operation leaves the files in sync if the panel serves then.
LEMMA SyncAfterAnswer ==
  ASSUME NEW code, Answer(code), pc' = "idle" => InSync(file')
  PROVE  SyncInv'
  BY AnswerForgets DEF SyncInv

\* The lists commit is called with: well typed, one entry for each path, and
\* what the directory is when all of it is written.
LEMMA ReconcileList ==
  ASSUME NEW dir \in Directory, \A path \in {"base", "draft", "active"} : dir[path] # NoFile
  PROVE  /\ ReconcileChanges(dir) \in Seq(Change)
         /\ Len(ReconcileChanges(dir)) = 1
         /\ OnePathEach(ReconcileChanges(dir))
         /\ Overwrite(dir, ReconcileChanges(dir)) =
               [dir EXCEPT !["effective"] = Merge(dir["base"], dir["active"])]
         /\ InSync(Overwrite(dir, ReconcileChanges(dir)))
<1> DEFINE data == Merge(dir["base"], dir["active"])
<1>1. data \in Text /\ data # NoFile
  BY DirectoryRead, Contents, MergedType
<1>2. [path |-> "effective", data |-> data] \in Change
  BY <1>1, Contents, ChangeType
<1>3. ReconcileChanges(dir) = <<[path |-> "effective", data |-> data]>>
  BY DEF ReconcileChanges
<1> HIDE DEF data
<1>4. ReconcileChanges(dir) \in Seq(Change) /\ Len(ReconcileChanges(dir)) = 1
  BY <1>2, <1>3
<1>5. OnePathEach(ReconcileChanges(dir))
  BY <1>3, OverwriteOne
<1>6. Overwrite(dir, ReconcileChanges(dir)) =
          [path \in Path |-> IF path = "effective" THEN data ELSE dir[path]]
  BY <1>3, OverwriteOne
<1>7. dir = [path \in Path |-> dir[path]]
  BY DEF Directory
<1>8. Overwrite(dir, ReconcileChanges(dir)) = [dir EXCEPT !["effective"] = data]
  BY <1>6, <1>7
<1>9. InSync(Overwrite(dir, ReconcileChanges(dir)))
  BY <1>1, <1>6, Contents DEF InSync, data
<1>10. QED
  BY <1>4, <1>5, <1>8, <1>9 DEF data

\* The changes of ApplyBase: their type, and the files they give are in sync.
LEMMA BaseList ==
  ASSUME NEW dir \in Directory, \A path \in Path : dir[path] # NoFile, NEW text \in Submitted
  PROVE  /\ BaseChanges(dir, text) \in Seq(Change)
         /\ Len(BaseChanges(dir, text)) = 2
         /\ OnePathEach(BaseChanges(dir, text))
         /\ Overwrite(dir, BaseChanges(dir, text)) =
               [dir EXCEPT !["base"] = text, !["effective"] = Merge(text, dir["active"])]
         /\ InSync(Overwrite(dir, BaseChanges(dir, text)))
<1> DEFINE data == Merge(text, dir["active"])
           first == [path |-> "base", data |-> text]
           second == [path |-> "effective", data |-> data]
<1>1. data \in Text /\ data # NoFile /\ text \in Text /\ text # NoFile
  BY DirectoryRead, Contents, MergedType, DataAssumption
<1>2. first \in Change /\ second \in Change
  BY <1>1, Contents, ChangeType
<1>3. BaseChanges(dir, text) = <<first, second>>
  BY DEF BaseChanges
<1>4. BaseChanges(dir, text) = <<[path |-> "base", data |-> text],
                                 [path |-> "effective", data |-> data]>>
  BY DEF BaseChanges
<1> HIDE DEF data, first, second
<1>5. BaseChanges(dir, text) \in Seq(Change) /\ Len(BaseChanges(dir, text)) = 2
  BY <1>2, <1>3
<1>6. /\ OnePathEach(BaseChanges(dir, text))
      /\ Overwrite(dir, BaseChanges(dir, text)) =
            [path \in Path |-> IF path = "base" THEN text
                               ELSE IF path = "effective" THEN data ELSE dir[path]]
  BY <1>4, OverwriteTwo
<1>7. dir = [path \in Path |-> dir[path]]
  BY DEF Directory
<1>8. Overwrite(dir, BaseChanges(dir, text)) =
          [dir EXCEPT !["base"] = text, !["effective"] = data]
  BY <1>6, <1>7
<1>9. InSync(Overwrite(dir, BaseChanges(dir, text)))
  BY <1>1, <1>6, Contents DEF InSync, data
<1>10. QED
  BY <1>5, <1>6, <1>8, <1>9 DEF data

\* The changes of ApplyOverrides: their type, and the files they give are in sync.
LEMMA OverrideList ==
  ASSUME NEW dir \in Directory, \A path \in Path : dir[path] # NoFile
  PROVE  /\ OverrideChanges(dir) \in Seq(Change)
         /\ Len(OverrideChanges(dir)) = 2
         /\ OnePathEach(OverrideChanges(dir))
         /\ Overwrite(dir, OverrideChanges(dir)) =
               [dir EXCEPT !["active"] = dir["draft"],
                           !["effective"] = Merge(dir["base"], dir["draft"])]
         /\ InSync(Overwrite(dir, OverrideChanges(dir)))
<1> DEFINE items == dir["draft"]
           data == Merge(dir["base"], items)
           first == [path |-> "active", data |-> items]
           second == [path |-> "effective", data |-> data]
<1>1. data \in Text /\ data # NoFile /\ items \in Items /\ items # NoFile
  BY DirectoryRead, Contents, MergedType
<1>2. first \in Change /\ second \in Change
  BY <1>1, Contents, ChangeType
<1>3. OverrideChanges(dir) = <<first, second>>
  BY DEF OverrideChanges
<1>4. OverrideChanges(dir) = <<[path |-> "active", data |-> items],
                               [path |-> "effective", data |-> data]>>
  BY DEF OverrideChanges
<1> HIDE DEF data, first, second
<1>5. OverrideChanges(dir) \in Seq(Change) /\ Len(OverrideChanges(dir)) = 2
  BY <1>2, <1>3
<1> HIDE DEF items
<1>6. /\ OnePathEach(OverrideChanges(dir))
      /\ Overwrite(dir, OverrideChanges(dir)) =
            [path \in Path |-> IF path = "active" THEN items
                               ELSE IF path = "effective" THEN data ELSE dir[path]]
  BY <1>4, OverwriteTwo
<1>7. dir = [path \in Path |-> dir[path]]
  BY DEF Directory
<1>8. Overwrite(dir, OverrideChanges(dir)) =
          [dir EXCEPT !["active"] = items, !["effective"] = data]
  BY <1>6, <1>7
<1>9. InSync(Overwrite(dir, OverrideChanges(dir)))
  BY <1>1, <1>6, Contents DEF InSync, data
<1>10. QED
  BY <1>5, <1>6, <1>8, <1>9 DEF data, items

\* commit's prologue, whichever operation calls it.
LEMMA BeginCommitStep ==
  ASSUME TolerableFaults, TransactionInv,
         NEW STATE list, list \in Seq(Change), Len(list) > 0, Len(list) <= 2, OnePathEach(list),
         InSync(Overwrite(file, list)),
         pc \in {"reconcile", "idle"},
         BeginCommit(list), UNCHANGED <<disk, wasRunning, service, faults>>,
         caller' \in {"init", "api"}, caller' = "api" => InSync(file),
         RequestInv'
  PROVE  TransactionInv'
<1>. /\ file' = file /\ backup' = backup /\ journal' = journal /\ wasRunning' = wasRunning
     /\ running' = running /\ loaded' = loaded /\ hup' = hup /\ faults' = faults
  BY DEF disk, service
<1>. /\ pc' = "probing" /\ changes' = list /\ before' = file /\ reply' = "none"
     /\ record' = <<>> /\ at' = 1 /\ then' = "commit" /\ failed' = FALSE
  BY DEF BeginCommit
<1>1. journal = NoJournal
  BY DEF TransactionInv, PhaseInv, HasJournal
<1>2. DiskTypeOK'
  BY DEF TransactionInv, TypeOK, DiskTypeOK
<1>3. PanelTypeOK'
  <2>1. pc' \in Location /\ reply' \in Reply
    BY DEF Location, Reply
  <2>2. changes' \in Seq(Change) /\ Len(changes') <= 2
    OBVIOUS
  <2>3. record' \in Seq(Entry) /\ Len(record') <= 2
    OBVIOUS
  <2>4. at' \in 1 .. 3 /\ then' \in {"commit", "abort", "rollback", "recover"}
    OBVIOUS
  <2>5. failed' \in BOOLEAN /\ wasRunning' \in BOOLEAN
    BY DEF TransactionInv, TypeOK, PanelTypeOK
  <2>6. QED
    BY <2>1, <2>2, <2>3, <2>4, <2>5 DEF PanelTypeOK
<1>4. ServiceTypeOK'
  BY DEF TransactionInv, TypeOK, ServiceTypeOK
<1>5. JournalInv'
  BY <1>1, WithoutJournal
<1>6. PhaseInv'
  BY <1>1 DEF PhaseInv, HasJournal
<1>7. BeginInv'
  BY DEF BeginInv, HasJournal
<1>8. WriteInv'
  BY DEF WriteInv
<1>9. RestoreInv'
  BY DEF RestoreInv
<1>10. After' = Overwrite(file, list)
  BY DEF After
<1>11. SyncInv'
  BY <1>10 DEF SyncInv
<1>12. ErrorsChangeNothing'
  BY DEF ErrorsChangeNothing
<1>13. QED
  BY <1>2, <1>3, <1>4, <1>5, <1>6, <1>7, <1>8, <1>9, <1>11, <1>12
     DEF TransactionInv, TypeOK

\* Start (ConfigManager.initialize) preserves the inductive invariant.
LEMMA StartStep ==
  ASSUME TolerableFaults, TransactionInv, Start
  PROVE  TransactionInv'
<1>1. DiskTypeOK'
  BY DEF Start, TransactionInv, DiskTypeOK, TypeOK, disk
<1>2. PanelTypeOK'
  BY DEF Start, TransactionInv, PanelTypeOK, TypeOK, Location, memory
<1>3. ServiceTypeOK'
  BY DEF Start, TransactionInv, ServiceTypeOK, TypeOK, service
<1>4. JournalInv'
  BY DEF Start, TransactionInv, JournalInv, Describes, Untouched, disk
<1>5. PhaseInv'
  BY DEF Start, TransactionInv, PhaseInv, HasJournal, memory
<1>6. BeginInv'
  BY DEF Start, TransactionInv, BeginInv, PhaseInv, memory
<1>7. WriteInv'
  BY DEF Start, WriteInv
<1>8. RestoreInv'
  BY DEF Start, RestoreInv
<1>9. SyncInv'
  BY DEF Start, TransactionInv, SyncInv, After, memory
<1>10. RequestInv'
  BY DEF Start, TransactionInv, RequestInv, memory
<1>11. ErrorsChangeNothing'
  BY DEF Start, TransactionInv, ErrorsChangeNothing, disk
<1>12. QED
  BY <1>1, <1>2, <1>3, <1>4, <1>5, <1>6, <1>7, <1>8, <1>9, <1>10, <1>11
     DEF TransactionInv, TypeOK

\* RecoverTransaction
\* (ConfigManager.recoverTransaction) preserves the inductive invariant.
LEMMA RecoverTransactionStep ==
  ASSUME TolerableFaults, TransactionInv, RecoverTransaction
  PROVE  TransactionInv'
<1>1. DiskTypeOK'
  BY DEF RecoverTransaction, TransactionInv, DiskTypeOK, TypeOK, disk
<1>2. PanelTypeOK'
  <2>1. pc' \in Location /\ caller' \in {"init", "api"} /\ reply' \in Reply
    BY DEF RecoverTransaction, RestoreFor, TransactionInv, TypeOK, PanelTypeOK,
           Location, memory
  <2>2. /\ changes' \in Seq(Change) /\ Len(changes') <= 2
        /\ record' \in Seq(Entry) /\ Len(record') <= 2
    BY DEF RecoverTransaction, RestoreFor, TransactionInv, TypeOK, PanelTypeOK,
           DiskTypeOK, memory
  <2>3. at' \in 1 .. 3 /\ then' \in {"commit", "abort", "rollback", "recover"}
    BY DEF RecoverTransaction, RestoreFor, TransactionInv, TypeOK, PanelTypeOK, memory
  <2>4. failed' \in BOOLEAN /\ wasRunning' \in BOOLEAN
    BY DEF RecoverTransaction, RestoreFor, TransactionInv, TypeOK, PanelTypeOK
  <2>5. QED
    BY <2>1, <2>2, <2>3, <2>4 DEF PanelTypeOK
<1>3. ServiceTypeOK'
  BY DEF RecoverTransaction, TransactionInv, ServiceTypeOK, TypeOK, service
<1>4. JournalInv'
  BY DEF RecoverTransaction, TransactionInv, JournalInv, Describes, Untouched, disk
<1>5. PhaseInv'
  BY DEF RecoverTransaction, RestoreFor, TransactionInv, PhaseInv, HasJournal, disk
<1>6. BeginInv'
  BY DEF RecoverTransaction, RestoreFor, TransactionInv, BeginInv, PhaseInv
<1>7. WriteInv'
  BY DEF RecoverTransaction, RestoreFor, WriteInv
<1>8. RestoreInv'
  BY DEF RecoverTransaction, RestoreFor, RestoreInv
<1>9. SyncInv'
  BY DEF RecoverTransaction, RestoreFor, TransactionInv, SyncInv, After
<1>10. RequestInv'
  BY DEF RecoverTransaction, RestoreFor, TransactionInv, RequestInv
<1>11. ErrorsChangeNothing'
  BY DEF RecoverTransaction, TransactionInv, ErrorsChangeNothing, disk
<1>12. QED
  BY <1>1, <1>2, <1>3, <1>4, <1>5, <1>6, <1>7, <1>8, <1>9, <1>10, <1>11
     DEF TransactionInv, TypeOK

\* ProbeRecovered (ConfigManager.initialize) preserves the inductive invariant.
LEMMA ProbeRecoveredStep ==
  ASSUME TolerableFaults, TransactionInv, ProbeRecovered
  PROVE  TransactionInv'
<1>1. DiskTypeOK'
  BY DEF ProbeRecovered, TransactionInv, DiskTypeOK, TypeOK, disk
<1>2. PanelTypeOK'
  <2>1. pc' \in Location /\ caller' \in {"init", "api"} /\ reply' \in Reply
    BY DEF ProbeRecovered, TransactionInv, TypeOK, PanelTypeOK, Location, memory
  <2>2. /\ changes' \in Seq(Change) /\ Len(changes') <= 2
        /\ record' \in Seq(Entry) /\ Len(record') <= 2
    BY DEF ProbeRecovered, ProbeResult, TransactionInv, TypeOK, PanelTypeOK,
           DiskTypeOK, memory
  <2>3. at' \in 1 .. 3 /\ then' \in {"commit", "abort", "rollback", "recover"}
    BY DEF ProbeRecovered, TransactionInv, TypeOK, PanelTypeOK, memory
  <2>4. failed' \in BOOLEAN /\ wasRunning' \in BOOLEAN
    BY DEF ProbeRecovered, ProbeResult, TransactionInv, TypeOK, PanelTypeOK,
           ServiceTypeOK, memory
  <2>5. QED
    BY <2>1, <2>2, <2>3, <2>4 DEF PanelTypeOK
<1>3. ServiceTypeOK'
  BY DEF ProbeRecovered, TransactionInv, ServiceTypeOK, TypeOK, service
<1>4. JournalInv'
  BY DEF ProbeRecovered, TransactionInv, JournalInv, Describes, Untouched, disk
<1>5. PhaseInv'
  <2>1. pc' \in {"restarting", "ensure"} /\ then = "recover" /\ journal = NoJournal
    BY DEF ProbeRecovered, TransactionInv, PhaseInv, HasJournal
  <2>2. QED
    BY <2>1 DEF ProbeRecovered, disk, memory, HasJournal, TransactionInv, PhaseInv
<1>6. BeginInv'
  BY DEF ProbeRecovered, TransactionInv, BeginInv, PhaseInv, memory
<1>7. WriteInv'
  BY DEF ProbeRecovered, WriteInv
<1>8. RestoreInv'
  <2>1. pc' \in {"restarting", "ensure"} /\ then = "recover"
    BY DEF ProbeRecovered, TransactionInv, PhaseInv
  <2>2. QED
    BY <2>1 DEF ProbeRecovered, memory, RestoreInv
<1>9. SyncInv'
  BY DEF ProbeRecovered, TransactionInv, SyncInv, After, memory
<1>10. RequestInv'
  BY DEF ProbeRecovered, TransactionInv, RequestInv, memory
<1>11. ErrorsChangeNothing'
  BY DEF ProbeRecovered, TransactionInv, ErrorsChangeNothing, disk
<1>12. QED
  BY <1>1, <1>2, <1>3, <1>4, <1>5, <1>6, <1>7, <1>8, <1>9, <1>10, <1>11
     DEF TransactionInv, TypeOK

\* CreateMissing (ConfigManager.initialize) preserves the inductive invariant.
LEMMA CreateMissingStep ==
  ASSUME TolerableFaults, TransactionInv, CreateMissing
  PROVE  TransactionInv'
<1>1. DiskTypeOK'
  BY DirectoryUpdate, InitialContentType, Contents
     DEF CreateMissing, Try, WriteInitial, EnsureOrder, TransactionInv, DiskTypeOK,
         TypeOK
<1>2. PanelTypeOK'
  BY AnswerType
     DEF CreateMissing, Try, InitializeFails, TransactionInv, PanelTypeOK, TypeOK,
         Reply, memory
<1>3. ServiceTypeOK'
  BY FaultType DEF CreateMissing, Try, TransactionInv, ServiceTypeOK, TypeOK, service
<1>4. JournalInv'
  BY WithoutJournal DEF CreateMissing, TransactionInv, PhaseInv, HasJournal, disk
<1>5. PhaseInv'
  BY DEF CreateMissing, Try, InitializeFails, Answer, Forget, TransactionInv,
         PhaseInv, HasJournal, memory
<1>6. BeginInv'
  BY DEF CreateMissing, Try, InitializeFails, Answer, Forget, TransactionInv,
         BeginInv, PhaseInv, memory
<1>7. WriteInv'
  BY DEF CreateMissing, Try, InitializeFails, Answer, WriteInv
<1>8. RestoreInv'
  BY DEF CreateMissing, Try, InitializeFails, Answer, RestoreInv
<1>9. SyncInv'
  BY DEF CreateMissing, Try, InitializeFails, Answer, Forget, TransactionInv,
         SyncInv, PhaseInv, memory
<1>10. RequestInv'
  BY AnswerForgets
     DEF CreateMissing, Try, InitializeFails, TransactionInv, RequestInv, memory
<1>11. ErrorsChangeNothing'
  BY DEF CreateMissing, Try, InitializeFails, Answer, TransactionInv,
         ErrorsChangeNothing, PhaseInv
<1>12. QED
  BY <1>1, <1>2, <1>3, <1>4, <1>5, <1>6, <1>7, <1>8, <1>9, <1>10, <1>11
     DEF TransactionInv, TypeOK

\* AllPresent (ConfigManager.initialize) preserves the inductive invariant.
LEMMA AllPresentStep ==
  ASSUME TolerableFaults, TransactionInv, AllPresent
  PROVE  TransactionInv'
<1>1. DiskTypeOK'
  BY DEF AllPresent, TransactionInv, DiskTypeOK, TypeOK, disk
<1>2. PanelTypeOK'
  BY DEF AllPresent, TransactionInv, PanelTypeOK, TypeOK, Location, memory
<1>3. ServiceTypeOK'
  BY DEF AllPresent, TransactionInv, ServiceTypeOK, TypeOK, service
<1>4. JournalInv'
  BY DEF AllPresent, TransactionInv, JournalInv, Describes, Untouched, disk
<1>5. PhaseInv'
  BY DEF AllPresent, TransactionInv, PhaseInv, HasJournal, disk, memory
<1>6. BeginInv'
  BY DEF AllPresent, TransactionInv, BeginInv, PhaseInv, memory
<1>7. WriteInv'
  BY DEF AllPresent, WriteInv
<1>8. RestoreInv'
  BY DEF AllPresent, RestoreInv
<1>9. SyncInv'
  BY DEF AllPresent, EnsureOrder, TransactionInv, SyncInv, After, disk, memory
<1>10. RequestInv'
  BY DEF AllPresent, TransactionInv, RequestInv, memory
<1>11. ErrorsChangeNothing'
  BY DEF AllPresent, TransactionInv, ErrorsChangeNothing, disk
<1>12. QED
  BY <1>1, <1>2, <1>3, <1>4, <1>5, <1>6, <1>7, <1>8, <1>9, <1>10, <1>11
     DEF TransactionInv, TypeOK

\* CreateEffective (ConfigManager.initialize) preserves the inductive invariant.
LEMMA CreateEffectiveStep ==
  ASSUME TolerableFaults, TransactionInv, CreateEffective
  PROVE  TransactionInv'
<1>1. DiskTypeOK'
  <2>1. file["base"] # NoFile /\ file["active"] # NoFile
    BY DEF CreateEffective, TransactionInv, SyncInv
  <2>2. InitialContent(file, "effective") \in Content("effective") \cup {NoFile}
    BY <2>1, InitialContentType, Contents DEF TransactionInv, TypeOK, DiskTypeOK
  <2>3. file' \in Directory
    BY <2>2, DirectoryUpdate, Contents
       DEF CreateEffective, Try, WriteInitial, TransactionInv, TypeOK, DiskTypeOK
  <2>4. QED
    BY <2>3 DEF CreateEffective, TransactionInv, TypeOK, DiskTypeOK
<1>2. PanelTypeOK'
  BY AnswerType DEF CreateEffective, Try, InitializeFails, TransactionInv, TypeOK, Reply
<1>3. ServiceTypeOK'
  BY FaultType DEF CreateEffective, Try, TransactionInv, ServiceTypeOK, TypeOK, service
<1>4. JournalInv'
  BY WithoutJournal DEF CreateEffective, TransactionInv, PhaseInv, HasJournal, disk
<1>5. PhaseInv'
  BY DEF CreateEffective, Try, InitializeFails, Answer, Forget, TransactionInv,
         PhaseInv, HasJournal
<1>6. BeginInv'
  BY DEF CreateEffective, Try, InitializeFails, Answer, Forget, BeginInv
<1>7. WriteInv'
  BY DEF CreateEffective, Try, InitializeFails, Answer, WriteInv
<1>8. RestoreInv'
  BY DEF CreateEffective, Try, InitializeFails, Answer, RestoreInv
<1>9. SyncInv'
  <2>1. /\ file["base"] \in Text \cup {NoFile} /\ file["active"] \in Items \cup {NoFile}
        /\ \A path \in {"base", "draft", "active"} : file[path] # NoFile
    BY DirectoryRead, Contents
       DEF CreateEffective, TransactionInv, TypeOK, DiskTypeOK, SyncInv
  <2>2. CASE WriteInitial("effective")
    <3>1. file' = [file EXCEPT !["effective"] = Merge(file["base"], file["active"])]
      BY <2>2 DEF WriteInitial, InitialContent, ItemsPath
    <3>2. InSync(file')
      BY <2>1, <3>1, MergedType, Contents
         DEF InSync, TransactionInv, TypeOK, DiskTypeOK, Directory
    <3>3. QED
      BY <3>2, SyncAfterAnswer DEF CreateEffective, Try, InitializeFails
  <2>3. CASE Answer("failed")
    <3>1. pc' = "down"
      BY <2>3, AnswerError DEF CreateEffective, TransactionInv, PhaseInv
    <3>2. QED
      BY <2>3, <3>1, SyncAfterAnswer
  <2>4. QED
    BY <2>2, <2>3 DEF CreateEffective, Try, InitializeFails
<1>10. RequestInv'
  BY AnswerForgets DEF CreateEffective, Try, InitializeFails, RequestInv
<1>11. ErrorsChangeNothing'
  BY DEF CreateEffective, Try, InitializeFails, Answer, TransactionInv,
         ErrorsChangeNothing, PhaseInv
<1>12. QED
  BY <1>1, <1>2, <1>3, <1>4, <1>5, <1>6, <1>7, <1>8, <1>9, <1>10, <1>11
     DEF TransactionInv, TypeOK

\* UpToDate (ConfigManager.initialize) preserves the inductive invariant.
LEMMA UpToDateStep ==
  ASSUME TolerableFaults, TransactionInv, UpToDate
  PROVE  TransactionInv'
<1>1. DiskTypeOK'
  BY DEF UpToDate, TransactionInv, DiskTypeOK, TypeOK, disk
<1>2. PanelTypeOK'
  BY AnswerType DEF UpToDate, TransactionInv, TypeOK, Reply
<1>3. ServiceTypeOK'
  BY DEF UpToDate, TransactionInv, ServiceTypeOK, TypeOK, service
<1>4. JournalInv'
  BY DEF UpToDate, TransactionInv, JournalInv, Describes, Untouched, disk
<1>5. PhaseInv'
  BY DEF UpToDate, Answer, Forget, TransactionInv, PhaseInv, HasJournal, disk
<1>6. BeginInv'
  BY DEF UpToDate, Answer, Forget, BeginInv
<1>7. WriteInv'
  BY DEF UpToDate, Answer, WriteInv
<1>8. RestoreInv'
  BY DEF UpToDate, Answer, RestoreInv
<1>9. SyncInv'
  <2>1. InSync(file)
    BY DirectoryRead, Contents, MergedType
       DEF UpToDate, Merged, InSync, SyncInv, TransactionInv, TypeOK, DiskTypeOK
  <2>2. QED
    BY <2>1, SyncAfterAnswer DEF UpToDate, disk
<1>10. RequestInv'
  BY AnswerForgets DEF UpToDate, RequestInv
<1>11. ErrorsChangeNothing'
  BY DEF UpToDate, Answer, ErrorsChangeNothing
<1>12. QED
  BY <1>1, <1>2, <1>3, <1>4, <1>5, <1>6, <1>7, <1>8, <1>9, <1>10, <1>11
     DEF TransactionInv, TypeOK

\* ReconcileRefused
\* (ConfigManager.initialize) preserves the inductive invariant.
LEMMA ReconcileRefusedStep ==
  ASSUME TolerableFaults, TransactionInv, ReconcileRefused
  PROVE  TransactionInv'
<1>1. DiskTypeOK'
  BY DEF ReconcileRefused, TransactionInv, DiskTypeOK, TypeOK, disk
<1>2. PanelTypeOK'
  BY AnswerType DEF ReconcileRefused, InitializeFails, TransactionInv, TypeOK, Reply
<1>3. ServiceTypeOK'
  BY DEF ReconcileRefused, TransactionInv, ServiceTypeOK, TypeOK, service
<1>4. JournalInv'
  BY DEF ReconcileRefused, TransactionInv, JournalInv, Describes, Untouched, disk
<1>5. PhaseInv'
  BY DEF ReconcileRefused, InitializeFails, Answer, Forget, TransactionInv,
         PhaseInv, HasJournal
<1>6. BeginInv'
  BY DEF ReconcileRefused, InitializeFails, Answer, Forget, BeginInv
<1>7. WriteInv'
  BY DEF ReconcileRefused, InitializeFails, Answer, WriteInv
<1>8. RestoreInv'
  BY DEF ReconcileRefused, InitializeFails, Answer, RestoreInv
<1>9. SyncInv'
  BY DEF ReconcileRefused, InitializeFails, Answer, Forget, TransactionInv,
         SyncInv, PhaseInv
<1>10. RequestInv'
  BY AnswerForgets DEF ReconcileRefused, InitializeFails, RequestInv
<1>11. ErrorsChangeNothing'
  BY DEF ReconcileRefused, InitializeFails, Answer, TransactionInv,
         ErrorsChangeNothing, PhaseInv
<1>12. QED
  BY <1>1, <1>2, <1>3, <1>4, <1>5, <1>6, <1>7, <1>8, <1>9, <1>10, <1>11
     DEF TransactionInv, TypeOK

\* Refuse (ConfigManager.validate) preserves the inductive invariant.
LEMMA RefuseStep ==
  ASSUME TolerableFaults, TransactionInv, Refuse
  PROVE  TransactionInv'
<1>1. DiskTypeOK'
  BY DEF Refuse, TransactionInv, DiskTypeOK, TypeOK, disk
<1>2. PanelTypeOK'
  BY DEF Refuse, TransactionInv, PanelTypeOK, TypeOK, Reply, memory
<1>3. ServiceTypeOK'
  BY DEF Refuse, TransactionInv, ServiceTypeOK, TypeOK, service
<1>4. JournalInv'
  BY WithoutJournal DEF Refuse, TransactionInv, PhaseInv, HasJournal, disk
<1>5. PhaseInv'
  BY DEF Refuse, TransactionInv, PhaseInv, HasJournal, disk, memory
<1>6. BeginInv'
  BY DEF Refuse, TransactionInv, BeginInv, PhaseInv, memory
<1>7. WriteInv'
  BY DEF Refuse, WriteInv
<1>8. RestoreInv'
  BY DEF Refuse, RestoreInv
<1>9. SyncInv'
  BY DEF Refuse, memory, disk, TransactionInv, PhaseInv, SyncInv
<1>10. RequestInv'
  BY DEF Refuse, TransactionInv, RequestInv, PhaseInv, memory
<1>11. ErrorsChangeNothing'
  BY DEF Refuse, ErrorsChangeNothing
<1>12. QED
  BY <1>1, <1>2, <1>3, <1>4, <1>5, <1>6, <1>7, <1>8, <1>9, <1>10, <1>11
     DEF TransactionInv, TypeOK

\* SaveDraft (ConfigManager.SaveDraft) preserves the inductive invariant.
LEMMA SaveDraftStep ==
  ASSUME TolerableFaults, TransactionInv, NEW items \in Items, SaveDraft(items)
  PROVE  TransactionInv'
<1>1. DiskTypeOK'
  BY DirectoryUpdate, Contents DEF SaveDraft, Try, TransactionInv, DiskTypeOK, TypeOK
<1>2. PanelTypeOK'
  BY DEF SaveDraft, Try, TransactionInv, PanelTypeOK, TypeOK, Reply, memory
<1>3. ServiceTypeOK'
  BY FaultType DEF SaveDraft, Try, TransactionInv, ServiceTypeOK, TypeOK, service
<1>4. JournalInv'
  BY WithoutJournal DEF SaveDraft, TransactionInv, PhaseInv, HasJournal, disk
<1>5. PhaseInv'
  BY DEF SaveDraft, TransactionInv, PhaseInv, HasJournal, memory
<1>6. BeginInv'
  BY DEF SaveDraft, TransactionInv, BeginInv, PhaseInv, memory
<1>7. WriteInv'
  BY DEF SaveDraft, WriteInv
<1>8. RestoreInv'
  BY DEF SaveDraft, RestoreInv
<1>9. SyncInv'
  <2>1. then' = "recover" /\ caller' = "init" /\ pc' = "idle"
    BY DEF SaveDraft, memory, TransactionInv, PhaseInv
  <2>2. InSync(file')
    BY DataAssumption, Contents
       DEF SaveDraft, Try, InSync, TransactionInv, SyncInv, TypeOK, DiskTypeOK, Directory
  <2>3. QED
    BY <2>1, <2>2 DEF SyncInv
<1>10. RequestInv'
  BY DEF SaveDraft, TransactionInv, RequestInv, PhaseInv, memory
<1>11. ErrorsChangeNothing'
  <2>1. before' = file /\ file \in Directory
    BY DEF SaveDraft, TransactionInv, TypeOK, DiskTypeOK
  <2>2. \A path \in {"base", "active", "effective"} : file'[path] = file[path]
    BY <2>1, Contents DEF SaveDraft, Try, Directory
  <2>3. QED
    BY <2>1, <2>2 DEF ErrorsChangeNothing
<1>12. QED
  BY <1>1, <1>2, <1>3, <1>4, <1>5, <1>6, <1>7, <1>8, <1>9, <1>10, <1>11
     DEF TransactionInv, TypeOK

\* ProbeFails (ConfigManager.commit) preserves the inductive invariant.
LEMMA ProbeFailsStep ==
  ASSUME TolerableFaults, TransactionInv, ProbeFails
  PROVE  TransactionInv'
<1>1. DiskTypeOK'
  BY DEF ProbeFails, TransactionInv, DiskTypeOK, TypeOK, disk
<1>2. PanelTypeOK'
  BY AnswerType DEF ProbeFails, TransactionInv, TypeOK, Reply
<1>3. ServiceTypeOK'
  BY FaultType DEF ProbeFails, TransactionInv, ServiceTypeOK, TypeOK, service
<1>4. JournalInv'
  BY DEF ProbeFails, TransactionInv, JournalInv, Describes, Untouched, disk
<1>5. PhaseInv'
  BY DEF ProbeFails, Answer, Forget, TransactionInv, PhaseInv, HasJournal, disk
<1>6. BeginInv'
  BY DEF ProbeFails, Answer, Forget, BeginInv
<1>7. WriteInv'
  BY DEF ProbeFails, Answer, WriteInv
<1>8. RestoreInv'
  BY DEF ProbeFails, Answer, RestoreInv
<1>9. SyncInv'
  <2>1. CASE pc = "recovered"
    <3>1. pc' = "down"
      BY <2>1, AnswerError DEF ProbeFails, TransactionInv, PhaseInv
    <3>2. QED
      BY <3>1, SyncAfterAnswer DEF ProbeFails
  <2>2. CASE pc = "probing"
    <3>1. file' = file /\ file = before
      BY <2>2 DEF ProbeFails, disk, TransactionInv, BeginInv
    <3>2. caller \in {"init", "api"}
      BY DEF TransactionInv, TypeOK, PanelTypeOK
    <3>3. pc' = "idle" => caller = "api"
      BY <3>2, AnswerError DEF ProbeFails
    <3>4. QED
      BY <3>1, <3>3, SyncAfterAnswer DEF ProbeFails, TransactionInv, SyncInv
  <2>3. QED
    BY <2>1, <2>2 DEF ProbeFails
<1>10. RequestInv'
  BY AnswerForgets DEF ProbeFails, RequestInv
<1>11. ErrorsChangeNothing'
  BY DEF ProbeFails, Answer, TransactionInv, ErrorsChangeNothing, PhaseInv,
         BeginInv, disk
<1>12. QED
  BY <1>1, <1>2, <1>3, <1>4, <1>5, <1>6, <1>7, <1>8, <1>9, <1>10, <1>11
     DEF TransactionInv, TypeOK

\* Probe (ConfigManager.commit) preserves the inductive invariant.
LEMMA ProbeStep ==
  ASSUME TolerableFaults, TransactionInv, Probe
  PROVE  TransactionInv'
<1>1. DiskTypeOK'
  BY DEF Probe, TransactionInv, DiskTypeOK, TypeOK, disk
<1>2. PanelTypeOK'
  <2>1. pc' \in Location /\ caller' \in {"init", "api"} /\ reply' \in Reply
    BY DEF Probe, TransactionInv, TypeOK, PanelTypeOK, Location, memory
  <2>2. /\ changes' \in Seq(Change) /\ Len(changes') <= 2
        /\ record' \in Seq(Entry) /\ Len(record') <= 2
    BY DEF Probe, ProbeResult, TransactionInv, TypeOK, PanelTypeOK, DiskTypeOK, memory
  <2>3. at' \in 1 .. 3 /\ then' \in {"commit", "abort", "rollback", "recover"}
    BY DEF Probe, TransactionInv, TypeOK, PanelTypeOK, memory
  <2>4. failed' \in BOOLEAN /\ wasRunning' \in BOOLEAN
    BY DEF Probe, ProbeResult, TransactionInv, TypeOK, PanelTypeOK, ServiceTypeOK,
           memory
  <2>5. QED
    BY <2>1, <2>2, <2>3, <2>4 DEF PanelTypeOK
<1>3. ServiceTypeOK'
  BY DEF Probe, TransactionInv, ServiceTypeOK, TypeOK, service
<1>4. JournalInv'
  BY DEF Probe, TransactionInv, JournalInv, Describes, Untouched, disk
<1>5. PhaseInv'
  BY DEF Probe, TransactionInv, PhaseInv, HasJournal, disk, memory
<1>6. BeginInv'
  BY DEF Probe, TransactionInv, BeginInv, HasJournal, disk, memory
<1>7. WriteInv'
  BY DEF Probe, WriteInv
<1>8. RestoreInv'
  BY DEF Probe, RestoreInv
<1>9. SyncInv'
  BY DEF Probe, TransactionInv, SyncInv, After, memory
<1>10. RequestInv'
  BY DEF Probe, TransactionInv, RequestInv, memory
<1>11. ErrorsChangeNothing'
  BY DEF Probe, TransactionInv, ErrorsChangeNothing, disk
<1>12. QED
  BY <1>1, <1>2, <1>3, <1>4, <1>5, <1>6, <1>7, <1>8, <1>9, <1>10, <1>11
     DEF TransactionInv, TypeOK

\* Backup (ConfigManager.beginTransaction) preserves the inductive invariant.
LEMMA BackupStep ==
  ASSUME TolerableFaults, TransactionInv, Backup
  PROVE  TransactionInv'
<1>1. DiskTypeOK'
  <2>1. changes[Len(record) + 1] \in Change /\ Len(record) + 1 \in Index
    BY DEF Backup, TransactionInv, TypeOK, PanelTypeOK, Index
  <2>2. file[changes[Len(record) + 1].path] \in Text \cup Items \cup {NoFile}
    BY <2>1, DirectoryRead, Contents DEF Change, TransactionInv, TypeOK, DiskTypeOK
  <2>3. backup' \in [Index -> Text \cup Items \cup {NoFile}]
    BY <2>1, <2>2
       DEF Backup, Try, CopyToBackup, NextEntry, TransactionInv, TypeOK, DiskTypeOK
  <2>4. QED
    BY <2>3 DEF Backup, TransactionInv, TypeOK, DiskTypeOK
<1>2. PanelTypeOK'
  <2>1. changes[Len(record) + 1] \in Change
    BY DEF Backup, TransactionInv, TypeOK, PanelTypeOK
  <2>2. NextEntry \in Entry
    BY <2>1 DEF NextEntry, Change, Entry
  <2>3. record' \in Seq(Entry) /\ Len(record') <= 2
    BY <2>2 DEF Backup, TransactionInv, TypeOK, PanelTypeOK
  <2>4. pc' \in Location
    BY DEF Backup, Try, Location
  <2>5. QED
    BY <2>3, <2>4 DEF Backup, TransactionInv, TypeOK, PanelTypeOK
<1>3. ServiceTypeOK'
  BY FaultType DEF Backup, Try, TransactionInv, ServiceTypeOK, TypeOK, service
<1>4. JournalInv'
  BY WithoutJournal DEF Backup, TransactionInv, PhaseInv, HasJournal, disk
<1>5. PhaseInv'
  BY DEF Backup, Try, TransactionInv, PhaseInv, HasJournal
<1>6. BeginInv'
  <2>7. /\ then = "commit" /\ journal = NoJournal /\ file = before /\ at = 1
    BY DEF Backup, TransactionInv, PhaseInv, BeginInv
  <2>8. Len(record) < Len(changes) /\ Len(record) \in 0 .. 1 /\ Len(record) + 1 \in Index
    <3>1. /\ Len(record) \in Nat /\ Len(changes) \in Nat /\ Len(changes) <= 2
      BY DEF TransactionInv, TypeOK, PanelTypeOK
    <3>2. Len(record) < Len(changes)
      BY DEF Backup
    <3>3. QED
      BY <3>1, <3>2, NextIndex
  <2>1. /\ then = "commit" /\ journal = NoJournal /\ file = before /\ at = 1
        /\ Len(record) < Len(changes) /\ Len(record) \in 0 .. 1
    BY <2>7, <2>8
  <2>. DEFINE n == Len(record) + 1
  <2>2. /\ record' = Append(record, NextEntry) /\ Len(record') = n /\ record'[n] = NextEntry
        /\ \A i \in 1 .. Len(record) : record'[i] = record[i]
    BY <2>1 DEF Backup, TransactionInv, TypeOK, PanelTypeOK
  <2>3. NextEntry.path = changes[n].path /\ NextEntry.existed = (file[changes[n].path] # NoFile)
    BY DEF NextEntry
  <2>4. /\ UNCHANGED <<changes, then, at, before, file, journal>>
        /\ pc' \in {"backingUp", "discarding"} /\ (pc' = "backingUp" => CopyToBackup(NextEntry.path))
    BY DEF Backup, Try
  <2>5. CASE pc' = "backingUp"
    <3>1. \A i \in 1 .. Len(record) : backup'[i] = backup[i]
      BY <2>1, <2>4, <2>5 DEF CopyToBackup, TransactionInv, TypeOK, DiskTypeOK, Index
    <3>6. n \in Index /\ n = Len(record) + 1
      BY <2>8
    <3>7. backup \in [Index -> Text \cup Items \cup {NoFile}]
      BY DEF TransactionInv, TypeOK, DiskTypeOK
    <3>8. backup' = [backup EXCEPT ![n] = IF file[changes[n].path] # NoFile
                                           THEN file[changes[n].path] ELSE @]
      BY <2>3, <2>4, <2>5, <3>6 DEF CopyToBackup
    <3>2. file[changes[n].path] # NoFile => backup'[n] = file[changes[n].path]
      BY <3>6, <3>7, <3>8
    <3>3. \A i \in 1 .. Len(record) :
             record[i].path = changes[i].path /\ Describes(record[i], backup[i])
      BY DEF Backup, TransactionInv, BeginInv
    <3>4. \A i \in 1 .. Len(record') :
             record'[i].path = changes[i].path /\ Describes(record[i], backup[i])'
      <4>1. TAKE i \in 1 .. Len(record')
      <4>2. CASE i = n
        BY <2>1, <2>2, <2>3, <2>4, <3>2, <4>2 DEF Describes
      <4>3. CASE i \in 1 .. Len(record)
        BY <2>2, <2>4, <3>1, <3>3, <4>3 DEF Describes
      <4>4. QED
        BY <2>1, <2>2, <4>2, <4>3
    <3>5. QED
      BY <2>1, <2>2, <2>4, <2>5, <3>4
         DEF BeginInv, HasJournal, OnePathEach, TransactionInv
  <2>6. CASE pc' = "discarding"
    BY <2>1, <2>4, <2>6 DEF BeginInv, HasJournal, TransactionInv
  <2>9. QED
    BY <2>4, <2>5, <2>6
<1>7. WriteInv'
  BY DEF Backup, Try, WriteInv
<1>8. RestoreInv'
  BY DEF Backup, Try, RestoreInv
<1>9. SyncInv'
  BY AfterUnchanged DEF Backup, Try, TransactionInv, SyncInv
<1>10. RequestInv'
  BY DEF Backup, TransactionInv, RequestInv
<1>11. ErrorsChangeNothing'
  BY DEF Backup, TransactionInv, ErrorsChangeNothing
<1>12. QED
  BY <1>1, <1>2, <1>3, <1>4, <1>5, <1>6, <1>7, <1>8, <1>9, <1>10, <1>11
     DEF TransactionInv, TypeOK

\* WriteJournal
\* (ConfigManager.beginTransaction) preserves the inductive invariant.
LEMMA WriteJournalStep ==
  ASSUME TolerableFaults, TransactionInv, WriteJournal
  PROVE  TransactionInv'
<1>1. DiskTypeOK'
  BY DEF WriteJournal, Try, TransactionInv, DiskTypeOK, TypeOK, PanelTypeOK
<1>2. PanelTypeOK'
  BY DEF WriteJournal, Try, TransactionInv, PanelTypeOK, TypeOK, Location, memory
<1>3. ServiceTypeOK'
  BY FaultType DEF WriteJournal, Try, TransactionInv, ServiceTypeOK, TypeOK, service
<1>4. JournalInv'
  <2>1. /\ journal = NoJournal /\ file = before /\ then = "commit"
        /\ UNCHANGED <<file, backup, before, record>> /\ journal' \in {journal, record}
    BY DEF WriteJournal, Try, memory, TransactionInv, PhaseInv, BeginInv, HasJournal
  <2>2. CASE journal' = record
    <3>1. OnePathEach(record)
      BY <2>1 DEF WriteJournal, OnePathEach, TransactionInv, BeginInv
    <3>2. \A i \in 1 .. Len(record) : Describes(record[i], backup[i])
      BY DEF WriteJournal, TransactionInv, BeginInv
    <3>3. (OnePathEach(journal) /\ \A i \in 1 .. Len(journal) : Describes(journal[i], backup[i]))'
      BY <2>1, <2>2, <3>1, <3>2 DEF Describes
    <3>4. QED
      BY <2>1, <3>3 DEF JournalInv, Untouched
  <2>3. CASE journal' = journal
    BY <2>1, <2>3, WithoutJournal
  <2>4. QED
    BY <2>1, <2>2, <2>3
<1>5. PhaseInv'
  <2>1. /\ then = "commit" /\ journal = NoJournal /\ reply = "none" /\ record # <<>>
        /\ UNCHANGED <<then, caller, reply, record>>
    BY EmptySequences
       DEF WriteJournal, memory, TransactionInv, PhaseInv, BeginInv, HasJournal, TypeOK, PanelTypeOK
  <2>2. \/ pc' = "writing" /\ journal' = record
        \/ pc' = "discarding" /\ journal' = journal
    BY DEF WriteJournal, Try, TolerableFaults
  <2>3. QED
    BY <2>1, <2>2 DEF PhaseInv, HasJournal
<1>6. BeginInv'
  BY DEF WriteJournal, Try, TransactionInv, BeginInv, memory
<1>7. WriteInv'
  <2>1. at = 1 /\ at' = 1 /\ pc' \in {"writing", "discarding"}
    BY DEF WriteJournal, Try, memory, TransactionInv, BeginInv
  <2>2. \A i \in 1 .. Len(changes) : ~ (i < 1)
    OBVIOUS
  <2>3. QED
    BY <2>1, <2>2 DEF WriteJournal, memory, WriteInv
<1>8. RestoreInv'
  BY DEF WriteJournal, Try, RestoreInv
<1>9. SyncInv'
  BY DEF WriteJournal, Try, TransactionInv, SyncInv, After, memory
<1>10. RequestInv'
  BY DEF WriteJournal, TransactionInv, RequestInv, memory
<1>11. ErrorsChangeNothing'
  BY DEF WriteJournal, TransactionInv, ErrorsChangeNothing
<1>12. QED
  BY <1>1, <1>2, <1>3, <1>4, <1>5, <1>6, <1>7, <1>8, <1>9, <1>10, <1>11
     DEF TransactionInv, TypeOK

\* Discard (ConfigManager.beginTransaction) preserves the inductive invariant.
LEMMA DiscardStep ==
  ASSUME TolerableFaults, TransactionInv, Discard
  PROVE  TransactionInv'
<1>1. DiskTypeOK'
  BY DEF Discard, RemoveBackups, TransactionInv, DiskTypeOK, TypeOK
<1>2. PanelTypeOK'
  BY AnswerType DEF Discard, TransactionInv, TypeOK, Reply
<1>3. ServiceTypeOK'
  BY DEF Discard, TransactionInv, ServiceTypeOK, TypeOK, service
<1>4. JournalInv'
  BY WithoutJournal DEF Discard, TransactionInv, PhaseInv, HasJournal, disk
<1>5. PhaseInv'
  BY DEF Discard, Answer, Forget, TransactionInv, PhaseInv, HasJournal
<1>6. BeginInv'
  BY DEF Discard, Answer, Forget, BeginInv
<1>7. WriteInv'
  BY DEF Discard, Answer, WriteInv
<1>8. RestoreInv'
  BY DEF Discard, Answer, RestoreInv
<1>9. SyncInv'
  <2>1. file' = file /\ file = before
    BY DEF Discard, TransactionInv, BeginInv
  <2>2. caller \in {"init", "api"}
    BY DEF TransactionInv, TypeOK, PanelTypeOK
  <2>3. pc' = "idle" => caller = "api"
    BY <2>2, AnswerError DEF Discard
  <2>4. QED
    BY <2>1, <2>3, SyncAfterAnswer DEF Discard, TransactionInv, SyncInv
<1>10. RequestInv'
  BY AnswerForgets DEF Discard, RequestInv
<1>11. ErrorsChangeNothing'
  BY DEF Discard, TransactionInv, ErrorsChangeNothing, BeginInv
<1>12. QED
  BY <1>1, <1>2, <1>3, <1>4, <1>5, <1>6, <1>7, <1>8, <1>9, <1>10, <1>11
     DEF TransactionInv, TypeOK

\* WriteFile (ConfigManager.commit) preserves the inductive invariant.
LEMMA WriteFileStep ==
  ASSUME TolerableFaults, TransactionInv, WriteFile
  PROVE  TransactionInv'
<1>1. DiskTypeOK'
  <2>1. changes[at] \in Change
    BY DEF WriteFile, TransactionInv, TypeOK, PanelTypeOK
  <2>2. file' \in Directory
    BY <2>1, DirectoryUpdate
       DEF WriteFile, Try, Change, TransactionInv, TypeOK, DiskTypeOK
  <2>3. QED
    BY <2>2 DEF WriteFile, TransactionInv, TypeOK, DiskTypeOK
<1>2. PanelTypeOK'
  <2>1. pc' \in Location /\ caller' \in {"init", "api"} /\ reply' \in Reply
    BY DEF WriteFile, RestoreFor, Try, TransactionInv, TypeOK, PanelTypeOK,
           Location, memory
  <2>2. /\ changes' \in Seq(Change) /\ Len(changes') <= 2
        /\ record' \in Seq(Entry) /\ Len(record') <= 2
    BY DEF WriteFile, RestoreFor, Try, TransactionInv, TypeOK, PanelTypeOK,
           DiskTypeOK, memory
  <2>3. at' \in 1 .. 3 /\ then' \in {"commit", "abort", "rollback", "recover"}
    BY DEF WriteFile, RestoreFor, Try, TransactionInv, TypeOK, PanelTypeOK, memory
  <2>4. failed' \in BOOLEAN /\ wasRunning' \in BOOLEAN
    BY DEF WriteFile, RestoreFor, Try, TransactionInv, TypeOK, PanelTypeOK
  <2>5. QED
    BY <2>1, <2>2, <2>3, <2>4 DEF PanelTypeOK
<1>3. ServiceTypeOK'
  BY FaultType DEF WriteFile, Try, TransactionInv, ServiceTypeOK, TypeOK, service
<1>4. JournalInv'
  <2>1. /\ journal = record /\ journal # NoJournal /\ Len(record) = Len(changes)
        /\ at \in 1 .. Len(changes) /\ record[at].path = changes[at].path
        /\ file \in Directory /\ changes[at] \in Change
    BY DEF WriteFile, TransactionInv, PhaseInv, BeginInv, HasJournal, TypeOK,
           PanelTypeOK, DiskTypeOK
  <2>2. UNCHANGED <<backup, journal, record, changes, before>>
    BY DEF WriteFile
  <2>3. \/ file' = file
        \/ file' = [file EXCEPT ![changes[at].path] = changes[at].data]
    BY DEF WriteFile, Try
  <2>4. \A path \in Path : path # record[at].path => file'[path] = file[path]
    BY <2>1, <2>3 DEF Directory
  <2>5. Untouched(journal)'
    BY <2>1, <2>2, <2>4 DEF Untouched, TransactionInv, JournalInv
  <2>6. (OnePathEach(journal) /\ \A i \in 1 .. Len(journal) : Describes(journal[i], backup[i]))'
    BY <2>2 DEF Describes, TransactionInv, JournalInv
  <2>7. QED
    BY <2>5, <2>6 DEF JournalInv
<1>5. PhaseInv'
  BY DEF WriteFile, Try, RestoreFor, TransactionInv, PhaseInv, HasJournal
<1>6. BeginInv'
  BY DEF WriteFile, Try, RestoreFor, TransactionInv, BeginInv, HasJournal
<1>7. WriteInv'
  <2>1. /\ journal = record /\ journal # NoJournal /\ Len(record) = Len(changes)
        /\ at \in 1 .. Len(changes) /\ record[at].path = changes[at].path
        /\ file \in Directory /\ changes[at] \in Change
    BY DEF WriteFile, TransactionInv, PhaseInv, BeginInv, HasJournal, TypeOK,
           PanelTypeOK, DiskTypeOK
  <2>2. UNCHANGED <<backup, journal, record, changes, before>>
    BY DEF WriteFile
  <2>3. \/ file' = file
        \/ file' = [file EXCEPT ![changes[at].path] = changes[at].data]
    BY DEF WriteFile, Try
  <2>4. CASE pc' = "writing"
    <3>1. at' = at + 1 /\ file' = [file EXCEPT ![changes[at].path] = changes[at].data]
      BY <2>4 DEF WriteFile, Try, RestoreFor
    <3>2. file'[changes[at].path] = changes[at].data
      BY <2>1, <3>1 DEF Directory, Change
    <3>3. ASSUME NEW i \in 1 .. Len(changes), i < at
          PROVE  file'[changes[i].path] = changes[i].data
      <4>1. changes[i].path # changes[at].path
        BY <2>1, <3>3 DEF WriteFile, TransactionInv, PhaseInv, BeginInv, OnePathEach
      <4>2. changes[i] \in Change
        BY DEF TransactionInv, TypeOK, PanelTypeOK
      <4>3. file[changes[i].path] = changes[i].data
        BY <3>3 DEF WriteFile, TransactionInv, WriteInv
      <4>4. QED
        BY <2>1, <3>1, <4>1, <4>2, <4>3 DEF Directory, Change
    <3>4. \A i \in 1 .. Len(changes) : i < at' => i < at \/ i = at
      BY <2>1, <3>1
    <3>5. QED
      BY <2>2, <2>4, <3>2, <3>3, <3>4 DEF WriteInv
  <2>5. CASE pc' = "restoring"
    BY <2>5 DEF WriteInv
  <2>6. QED
    BY <2>4, <2>5 DEF WriteFile, Try, RestoreFor
<1>8. RestoreInv'
  BY DEF WriteFile, Try, RestoreFor, RestoreInv
<1>9. SyncInv'
  BY DEF WriteFile, Try, RestoreFor, TransactionInv, SyncInv, After
<1>10. RequestInv'
  BY DEF WriteFile, Try, RestoreFor, TransactionInv, RequestInv
<1>11. ErrorsChangeNothing'
  BY DEF WriteFile, TransactionInv, ErrorsChangeNothing, PhaseInv
<1>12. QED
  BY <1>1, <1>2, <1>3, <1>4, <1>5, <1>6, <1>7, <1>8, <1>9, <1>10, <1>11
     DEF TransactionInv, TypeOK

\* Written (ConfigManager.commit) preserves the inductive invariant.
LEMMA WrittenStep ==
  ASSUME TolerableFaults, TransactionInv, Written
  PROVE  TransactionInv'
<1>1. DiskTypeOK'
  BY DEF Written, TransactionInv, DiskTypeOK, TypeOK, disk
<1>2. PanelTypeOK'
  BY DEF Written, TransactionInv, PanelTypeOK, TypeOK, Location, memory
<1>3. ServiceTypeOK'
  BY DEF Written, TransactionInv, ServiceTypeOK, TypeOK, service
<1>4. JournalInv'
  BY DEF Written, TransactionInv, JournalInv, Describes, Untouched, disk
<1>5. PhaseInv'
  BY DEF Written, TransactionInv, PhaseInv, HasJournal, disk, memory
<1>6. BeginInv'
  BY DEF Written, TransactionInv, BeginInv, HasJournal, memory
<1>7. WriteInv'
  <2>1. /\ journal = record /\ journal # NoJournal /\ Len(record) = Len(changes)
        /\ \A i \in 1 .. Len(changes) : record[i].path = changes[i].path
        /\ at \in 1 .. 3 /\ at > Len(changes) /\ Len(changes) \in Nat
    BY DEF Written, TransactionInv, PhaseInv, BeginInv, HasJournal, TypeOK, PanelTypeOK
  <2>2. \A i \in 1 .. Len(changes) : file[changes[i].path] = changes[i].data
    BY <2>1 DEF Written, TransactionInv, WriteInv
  <2>3. Untouched(changes)
    BY <2>1 DEF Untouched, TransactionInv, JournalInv
  <2>4. UNCHANGED <<file, before, changes, then>> /\ pc' # "writing"
    BY DEF Written, disk, memory
  <2>5. QED
    BY <2>2, <2>3, <2>4 DEF WriteInv, Untouched
<1>8. RestoreInv'
  BY DEF Written, TransactionInv, RestoreInv, PhaseInv, memory
<1>9. SyncInv'
  BY DEF Written, TransactionInv, SyncInv, After, memory
<1>10. RequestInv'
  BY DEF Written, TransactionInv, RequestInv, memory
<1>11. ErrorsChangeNothing'
  BY DEF Written, TransactionInv, ErrorsChangeNothing, disk
<1>12. QED
  BY <1>1, <1>2, <1>3, <1>4, <1>5, <1>6, <1>7, <1>8, <1>9, <1>10, <1>11
     DEF TransactionInv, TypeOK

\* Reload (reload_service) preserves the inductive invariant.
LEMMA ReloadStep ==
  ASSUME TolerableFaults, TransactionInv, Reload
  PROVE  TransactionInv'
<1>1. DiskTypeOK'
  BY DEF Reload, TransactionInv, DiskTypeOK, TypeOK, disk
<1>2. PanelTypeOK'
  <2>1. pc' \in Location /\ caller' \in {"init", "api"} /\ reply' \in Reply
    BY DEF Reload, RestoreFor, Try, TransactionInv, TypeOK, PanelTypeOK, Location,
           memory
  <2>2. /\ changes' \in Seq(Change) /\ Len(changes') <= 2
        /\ record' \in Seq(Entry) /\ Len(record') <= 2
    BY DEF Reload, RestoreFor, Try, TransactionInv, TypeOK, PanelTypeOK,
           DiskTypeOK, memory
  <2>3. at' \in 1 .. 3 /\ then' \in {"commit", "abort", "rollback", "recover"}
    BY DEF Reload, RestoreFor, Try, TransactionInv, TypeOK, PanelTypeOK, memory
  <2>4. failed' \in BOOLEAN /\ wasRunning' \in BOOLEAN
    BY DEF Reload, RestoreFor, Try, TransactionInv, TypeOK, PanelTypeOK
  <2>5. QED
    BY <2>1, <2>2, <2>3, <2>4 DEF PanelTypeOK
<1>3. ServiceTypeOK'
  BY FaultType DEF Reload, Try, TransactionInv, ServiceTypeOK, TypeOK
<1>4. JournalInv'
  BY DEF Reload, TransactionInv, JournalInv, Describes, Untouched, disk
<1>5. PhaseInv'
  BY DEF Reload, Try, RestoreFor, TransactionInv, PhaseInv, HasJournal, disk
<1>6. BeginInv'
  BY DEF Reload, Try, RestoreFor, TransactionInv, BeginInv, HasJournal
<1>7. WriteInv'
  BY DEF Reload, Try, RestoreFor, TransactionInv, WriteInv, Untouched, disk
<1>8. RestoreInv'
  BY DEF Reload, Try, RestoreFor, RestoreInv
<1>9. SyncInv'
  BY DEF Reload, Try, RestoreFor, TransactionInv, SyncInv, After
<1>10. RequestInv'
  BY DEF Reload, Try, RestoreFor, TransactionInv, RequestInv
<1>11. ErrorsChangeNothing'
  BY DEF Reload, TransactionInv, ErrorsChangeNothing, disk
<1>12. QED
  BY <1>1, <1>2, <1>3, <1>4, <1>5, <1>6, <1>7, <1>8, <1>9, <1>10, <1>11
     DEF TransactionInv, TypeOK

\* Healthy (ConfigManager.waitHealthy) preserves the inductive invariant.
LEMMA HealthyStep ==
  ASSUME TolerableFaults, TransactionInv, Healthy
  PROVE  TransactionInv'
<1>1. DiskTypeOK'
  BY DEF Healthy, TransactionInv, DiskTypeOK, TypeOK, disk
<1>2. PanelTypeOK'
  BY DEF Healthy, TransactionInv, PanelTypeOK, TypeOK, Location, memory
<1>3. ServiceTypeOK'
  BY DEF Healthy, TransactionInv, ServiceTypeOK, TypeOK, service
<1>4. JournalInv'
  BY DEF Healthy, TransactionInv, JournalInv, Describes, Untouched, disk
<1>5. PhaseInv'
  BY DEF Healthy, TransactionInv, PhaseInv, HasJournal, disk, memory
<1>6. BeginInv'
  BY DEF Healthy, TransactionInv, BeginInv, HasJournal, memory
<1>7. WriteInv'
  BY DEF Healthy, TransactionInv, WriteInv, Untouched, disk, memory
<1>8. RestoreInv'
  BY DEF Healthy, TransactionInv, RestoreInv, PhaseInv, memory
<1>9. SyncInv'
  BY DEF Healthy, TransactionInv, SyncInv, After, memory
<1>10. RequestInv'
  BY DEF Healthy, TransactionInv, RequestInv, memory
<1>11. ErrorsChangeNothing'
  BY DEF Healthy, TransactionInv, ErrorsChangeNothing, disk
<1>12. QED
  BY <1>1, <1>2, <1>3, <1>4, <1>5, <1>6, <1>7, <1>8, <1>9, <1>10, <1>11
     DEF TransactionInv, TypeOK

\* Unhealthy (ConfigManager.waitHealthy) preserves the inductive invariant.
LEMMA UnhealthyStep ==
  ASSUME TolerableFaults, TransactionInv, Unhealthy
  PROVE  TransactionInv'
<1>1. DiskTypeOK'
  BY DEF Unhealthy, TransactionInv, DiskTypeOK, TypeOK, disk
<1>2. PanelTypeOK'
  <2>1. CASE then = "recover"
    BY <2>1, AnswerType DEF Unhealthy, InitializeFails, Reply, TransactionInv, TypeOK
  <2>2. CASE then # "recover"
    <3>1. pc' \in Location /\ caller' \in {"init", "api"} /\ reply' \in Reply
      BY <2>2 DEF Unhealthy, RestoreFor, TransactionInv, TypeOK, PanelTypeOK, Location
    <3>2. /\ changes' = changes /\ record' = record /\ at' = 1 /\ then' = "rollback"
          /\ failed' = FALSE /\ wasRunning' = wasRunning
      BY <2>2 DEF Unhealthy, RestoreFor
    <3>3. at' \in 1 .. 3 /\ then' \in {"commit", "abort", "rollback", "recover"}
      BY <3>2
    <3>4. failed' \in BOOLEAN /\ wasRunning' \in BOOLEAN
      BY <3>2 DEF TransactionInv, TypeOK, PanelTypeOK
    <3>5. /\ changes' \in Seq(Change) /\ Len(changes') <= 2
          /\ record' \in Seq(Entry) /\ Len(record') <= 2
      BY <3>2 DEF TransactionInv, TypeOK, PanelTypeOK
    <3>6. QED
      BY <3>1, <3>3, <3>4, <3>5 DEF PanelTypeOK
  <2>3. QED
    BY <2>1, <2>2
<1>3. ServiceTypeOK'
  BY DEF Unhealthy, TransactionInv, ServiceTypeOK, TypeOK, service
<1>4. JournalInv'
  BY DEF Unhealthy, TransactionInv, JournalInv, Describes, Untouched, disk
<1>5. PhaseInv'
  BY DEF Unhealthy, InitializeFails, Answer, Forget, RestoreFor, TransactionInv,
         PhaseInv, HasJournal, disk
<1>6. BeginInv'
  BY DEF Unhealthy, InitializeFails, Answer, Forget, RestoreFor, BeginInv
<1>7. WriteInv'
  BY DEF Unhealthy, InitializeFails, Answer, RestoreFor, WriteInv
<1>8. RestoreInv'
  BY DEF Unhealthy, InitializeFails, Answer, RestoreFor, RestoreInv
<1>9. SyncInv'
  BY DEF Unhealthy, InitializeFails, Answer, Forget, RestoreFor, TransactionInv,
         SyncInv, PhaseInv
<1>10. RequestInv'
  BY AnswerForgets DEF Unhealthy, InitializeFails, RestoreFor, RequestInv
<1>11. ErrorsChangeNothing'
  BY DEF Unhealthy, InitializeFails, Answer, TransactionInv, ErrorsChangeNothing,
         PhaseInv
<1>12. QED
  BY <1>1, <1>2, <1>3, <1>4, <1>5, <1>6, <1>7, <1>8, <1>9, <1>10, <1>11
     DEF TransactionInv, TypeOK

\* RemoveJournal
\* (ConfigManager.finishTransaction) preserves the inductive invariant.
LEMMA RemoveJournalStep ==
  ASSUME TolerableFaults, TransactionInv, RemoveJournal
  PROVE  TransactionInv'
<1>1. DiskTypeOK'
  <2>1. journal' \in {journal, <<>>}
    BY DEF RemoveJournal, Try
  <2>2. CASE journal' = <<>>
    BY <2>2 DEF RemoveJournal, TransactionInv, TypeOK, DiskTypeOK
  <2>3. QED
    BY <2>1, <2>2 DEF RemoveJournal, TransactionInv, TypeOK, DiskTypeOK
<1>2. PanelTypeOK'
  <2>1. ASSUME NEW ok \in BOOLEAN, Restored(ok)
        PROVE  PanelTypeOK'
    <3>1. CASE then = "abort" \/ (then = "recover" /\ ~ ok)
      BY <2>1, <3>1, AnswerType DEF Restored, Reply, TransactionInv, TypeOK
    <3>2. CASE ~ (then = "abort" \/ (then = "recover" /\ ~ ok))
      BY <2>1, <3>2 DEF Restored, memory, TransactionInv, TypeOK, PanelTypeOK, Location
    <3>3. QED
      BY <3>1, <3>2
  <2>2. CASE pc' = "cleaning" /\ UNCHANGED <<memory, wasRunning, reply>>
    BY <2>2 DEF memory, TransactionInv, TypeOK, PanelTypeOK, Location
  <2>3. CASE NotFinished /\ then # "commit"
    BY <2>1, <2>3 DEF NotFinished
  <2>4. CASE NotFinished /\ then = "commit"
    <3>1. pc' \in Location /\ caller' \in {"init", "api"} /\ reply' \in Reply
      BY <2>4 DEF NotFinished, RestoreFor, TransactionInv, TypeOK, PanelTypeOK, Location
    <3>2. /\ changes' = changes /\ record' = record /\ at' = 1 /\ then' \in {"rollback", "abort"}
          /\ failed' = FALSE /\ wasRunning' = wasRunning
      BY <2>4 DEF NotFinished, RestoreFor
    <3>3. at' \in 1 .. 3 /\ then' \in {"commit", "abort", "rollback", "recover"}
      BY <3>2
    <3>4. failed' \in BOOLEAN /\ wasRunning' \in BOOLEAN
      BY <3>2 DEF TransactionInv, TypeOK, PanelTypeOK
    <3>5. /\ changes' \in Seq(Change) /\ Len(changes') <= 2
          /\ record' \in Seq(Entry) /\ Len(record') <= 2
      BY <3>2 DEF TransactionInv, TypeOK, PanelTypeOK
    <3>6. QED
      BY <3>1, <3>3, <3>4, <3>5 DEF PanelTypeOK
  <2>5. QED
    BY <2>2, <2>3, <2>4 DEF RemoveJournal, Try
<1>3. ServiceTypeOK'
  BY FaultType DEF RemoveJournal, Try, TransactionInv, ServiceTypeOK, TypeOK, service
<1>4. JournalInv'
  BY DEF RemoveJournal, Try, TransactionInv, JournalInv, OnePathEach, Describes,
         Untouched, TolerableFaults
<1>5. PhaseInv'
  BY DEF RemoveJournal, Try, FinishStep, NotFinished, Restored, RestoreFor, Answer,
         Forget, TransactionInv, PhaseInv, HasJournal, TypeOK, PanelTypeOK,
         TolerableFaults, memory
<1>6. BeginInv'
  BY DEF RemoveJournal, Try, NotFinished, Restored, RestoreFor, Answer, Forget,
         TransactionInv, BeginInv, HasJournal, memory
<1>7. WriteInv'
  BY DEF RemoveJournal, Try, NotFinished, Restored, Answer, TransactionInv,
         WriteInv, Untouched, memory
<1>8. RestoreInv'
  BY DEF RemoveJournal, Try, NotFinished, Restored, RestoreFor, Answer,
         TransactionInv, RestoreInv, memory
<1>9. SyncInv'
  <2>1. \/ pc' = "cleaning" /\ UNCHANGED memory
        \/ NotFinished /\ then \in {"commit", "recover"}
    BY DEF RemoveJournal, Try, FinishStep, TolerableFaults, TransactionInv, TypeOK,
           PanelTypeOK
  <2>2. CASE pc' = "cleaning" /\ UNCHANGED memory
    BY <2>2, AfterUnchanged DEF RemoveJournal, memory, TransactionInv, SyncInv
  <2>3. CASE NotFinished /\ then = "commit"
    BY <2>3 DEF RemoveJournal, NotFinished, RestoreFor, TransactionInv, SyncInv
  <2>4. CASE NotFinished /\ then = "recover"
    <3>1. Answer("failed") /\ caller = "init"
      BY <2>4 DEF NotFinished, Restored, TransactionInv, PhaseInv
    <3>2. pc' = "down"
      BY <3>1, AnswerError
    <3>3. QED
      BY <3>1, <3>2, SyncAfterAnswer
  <2>5. QED
    BY <2>1, <2>2, <2>3, <2>4
<1>10. RequestInv'
  BY AnswerForgets
     DEF RemoveJournal, Try, NotFinished, Restored, TransactionInv, RequestInv, memory
<1>11. ErrorsChangeNothing'
  BY DEF RemoveJournal, Try, NotFinished, TransactionInv, ErrorsChangeNothing,
         RestoreInv
<1>12. QED
  BY <1>1, <1>2, <1>3, <1>4, <1>5, <1>6, <1>7, <1>8, <1>9, <1>10, <1>11
     DEF TransactionInv, TypeOK

\* Clean (ConfigManager.finishTransaction) preserves the inductive invariant.
LEMMA CleanStep ==
  ASSUME TolerableFaults, TransactionInv, Clean
  PROVE  TransactionInv'
<1>1. DiskTypeOK'
  BY DEF Clean, RemoveBackups, TransactionInv, DiskTypeOK, TypeOK
<1>2. PanelTypeOK'
  BY AnswerType
     DEF Clean, Restored, TransactionInv, PanelTypeOK, TypeOK, Location, Reply, memory
<1>3. ServiceTypeOK'
  BY DEF Clean, TransactionInv, ServiceTypeOK, TypeOK, service
<1>4. JournalInv'
  BY WithoutJournal DEF Clean, TransactionInv, PhaseInv, HasJournal, disk
<1>5. PhaseInv'
  BY DEF Clean, Restored, Answer, Forget, TransactionInv, PhaseInv, HasJournal,
         TypeOK, PanelTypeOK, memory
<1>6. BeginInv'
  BY DEF Clean, Restored, Answer, Forget, BeginInv, memory
<1>7. WriteInv'
  BY DEF Clean, Restored, Answer, WriteInv
<1>8. RestoreInv'
  BY DEF Clean, Restored, Answer, TransactionInv, RestoreInv
<1>9. SyncInv'
  <2>1. file' = file /\ caller \in {"init", "api"}
    BY DEF Clean, TransactionInv, TypeOK, PanelTypeOK
  <2>2. CASE then = "commit"
    <3>1. file = After /\ InSync(After)
      BY <2>2, Committed
         DEF Clean, TransactionInv, TypeOK, DiskTypeOK, PanelTypeOK, WriteInv, SyncInv
    <3>2. QED
      BY <2>1, <2>2, <3>1, SyncAfterAnswer DEF Clean
  <2>3. CASE then = "abort"
    <3>1. file = before /\ Answer("failed")
      BY <2>3 DEF Clean, Restored, TransactionInv, RestoreInv
    <3>2. pc' = "idle" => caller = "api"
      BY <2>1, <3>1, AnswerError
    <3>3. QED
      BY <2>1, <3>1, <3>2, SyncAfterAnswer DEF TransactionInv, SyncInv
  <2>4. CASE then \in {"recover", "rollback"}
    <3>1. pc' # "idle" /\ pc' # "reconcile" /\ UNCHANGED <<memory, before>>
      BY <2>4 DEF Clean, Restored
    <3>2. QED
      BY <2>1, <2>4, <3>1, AfterUnchanged DEF memory, TransactionInv, SyncInv
  <2>5. QED
    BY <2>2, <2>3, <2>4 DEF TransactionInv, TypeOK, PanelTypeOK
<1>10. RequestInv'
  BY AnswerForgets DEF Clean, Restored, RequestInv, memory
<1>11. ErrorsChangeNothing'
  BY DEF Clean, Answer, TransactionInv, ErrorsChangeNothing, RestoreInv
<1>12. QED
  BY <1>1, <1>2, <1>3, <1>4, <1>5, <1>6, <1>7, <1>8, <1>9, <1>10, <1>11
     DEF TransactionInv, TypeOK

\* RestoreEntry
\* (ConfigManager.restoreTransaction) preserves the inductive invariant.
LEMMA RestoreEntryStep ==
  ASSUME TolerableFaults, TransactionInv, RestoreEntry
  PROVE  TransactionInv'
<1>1. DiskTypeOK'
  <2>1. record = journal /\ record[at] \in Entry /\ at \in 1 .. Len(journal)
    BY DEF RestoreEntry, TransactionInv, PhaseInv, HasJournal, TypeOK, PanelTypeOK
  <2>2. record[at].path \in Path /\ Describes(record[at], backup[at])
    BY <2>1 DEF TransactionInv, JournalInv, Entry
  <2>3. record[at].existed => backup[at] \in Content(record[at].path) \cup {NoFile}
    BY <2>2, DirectoryRead DEF Describes, TransactionInv, TypeOK, DiskTypeOK
  <2>. DEFINE restored == IF record[at].existed THEN backup[at] ELSE NoFile
  <2>5. restored \in Content(record[at].path) \cup {NoFile}
    BY <2>3
  <2>. HIDE DEF restored
  <2>6. [file EXCEPT ![record[at].path] = restored] \in Directory
    BY <2>2, <2>5, DirectoryUpdate DEF TransactionInv, TypeOK, DiskTypeOK
  <2>7. RestoreFile => file' \in Directory
    BY <2>6 DEF RestoreFile, restored
  <2>8. QED
    BY <2>7 DEF RestoreEntry, Try, TransactionInv, TypeOK, DiskTypeOK
<1>2. PanelTypeOK'
  <2>1. pc' \in Location /\ caller' \in {"init", "api"} /\ reply' \in Reply
    BY DEF RestoreEntry, TransactionInv, TypeOK, PanelTypeOK, memory
  <2>2. /\ changes' \in Seq(Change) /\ Len(changes') <= 2
        /\ record' \in Seq(Entry) /\ Len(record') <= 2
    BY DEF RestoreEntry, Try, TransactionInv, TypeOK, PanelTypeOK, DiskTypeOK, memory
  <2>3. at' \in 1 .. 3 /\ then' \in {"commit", "abort", "rollback", "recover"}
    BY DEF RestoreEntry, TransactionInv, TypeOK, PanelTypeOK, memory
  <2>4. failed' \in BOOLEAN /\ wasRunning' \in BOOLEAN
    BY DEF RestoreEntry, Try, TransactionInv, TypeOK, PanelTypeOK
  <2>5. QED
    BY <2>1, <2>2, <2>3, <2>4 DEF PanelTypeOK
<1>3. ServiceTypeOK'
  BY FaultType DEF RestoreEntry, Try, TransactionInv, ServiceTypeOK, TypeOK, service
<1>4. JournalInv'
  <2>1. /\ journal = record /\ journal # NoJournal /\ at \in 1 .. Len(record)
        /\ record[at] \in Entry /\ file \in Directory /\ before \in Directory
    BY DEF RestoreEntry, TransactionInv, PhaseInv, HasJournal, TypeOK, PanelTypeOK,
           DiskTypeOK
  <2>2. UNCHANGED <<backup, journal, record, before, pc, then>>
    BY DEF RestoreEntry
  <2>3. record[at].path \in Path /\ Describes(record[at], backup[at])
    BY <2>1 DEF Entry, TransactionInv, JournalInv
  <2>4. RestoreFile => file' = [file EXCEPT ![record[at].path] = before[record[at].path]]
    BY <2>3 DEF RestoreFile, Describes
  <2>5. \/ file' = file
        \/ file' = [file EXCEPT ![record[at].path] = before[record[at].path]]
    BY <2>4 DEF RestoreEntry, Try
  <2>6. \A path \in Path : path # record[at].path => file'[path] = file[path]
    BY <2>1, <2>5 DEF Directory
  <2>7. Untouched(journal)'
    BY <2>1, <2>2, <2>6 DEF Untouched, TransactionInv, JournalInv
  <2>8. (OnePathEach(journal) /\ \A i \in 1 .. Len(journal) : Describes(journal[i], backup[i]))'
    BY <2>2 DEF Describes, TransactionInv, JournalInv
  <2>9. QED
    BY <2>7, <2>8 DEF JournalInv
<1>5. PhaseInv'
  BY DEF RestoreEntry, TransactionInv, PhaseInv, HasJournal
<1>6. BeginInv'
  BY DEF RestoreEntry, TransactionInv, BeginInv, PhaseInv
<1>7. WriteInv'
  BY DEF RestoreEntry, WriteInv
<1>8. RestoreInv'
  <2>1. /\ journal = record /\ journal # NoJournal /\ at \in 1 .. Len(record)
        /\ record[at] \in Entry /\ file \in Directory /\ before \in Directory
    BY DEF RestoreEntry, TransactionInv, PhaseInv, HasJournal, TypeOK, PanelTypeOK,
           DiskTypeOK
  <2>2. UNCHANGED <<backup, journal, record, before, pc, then>>
    BY DEF RestoreEntry
  <2>3. record[at].path \in Path /\ Describes(record[at], backup[at])
    BY <2>1 DEF Entry, TransactionInv, JournalInv
  <2>4. RestoreFile => file' = [file EXCEPT ![record[at].path] = before[record[at].path]]
    BY <2>3 DEF RestoreFile, Describes
  <2>5. \/ file' = file
        \/ file' = [file EXCEPT ![record[at].path] = before[record[at].path]]
    BY <2>4 DEF RestoreEntry, Try
  <2>6. pc = "restoring" /\ at' = at + 1 /\ then \in {"recover", "abort", "rollback"}
    BY DEF RestoreEntry, TransactionInv, PhaseInv, TypeOK, PanelTypeOK
  <2>7. Restorable(at)
    BY <2>1, <2>3 DEF Restorable, Describes
  <2>8. \/ RestoreFile /\ failed' = failed
        \/ failed' = TRUE /\ then = "recover"
    BY <2>6, <2>7 DEF RestoreEntry, Try, FinishStep, TolerableFaults
  <2>9. CASE RestoreFile /\ failed' = failed
    <3>1. \A path \in Path : file[path] = before[path] \/ path = record[at].path
                             => file'[path] = before[path]
      BY <2>1, <2>3, <2>4, <2>9 DEF Directory
    <3>2. \A i \in 1 .. Len(record) : i < at' => i < at \/ i = at
      BY <2>1, <2>6
    <3>3. ASSUME NEW i \in 1 .. Len(record)
          PROVE  record[i].path \in Path
      <4>1. record[i] \in Entry
        BY DEF TransactionInv, TypeOK, PanelTypeOK
      <4>2. QED
        BY <4>1 DEF Entry
    <3>4. ~ failed => \A i \in 1 .. Len(record) : i < at => file[record[i].path] = before[record[i].path]
      BY <2>6 DEF TransactionInv, RestoreInv
    <3>5. ~ failed' => \A i \in 1 .. Len(record) : i < at' => file'[record[i].path] = before[record[i].path]
      BY <2>9, <3>1, <3>2, <3>3, <3>4
    <3>6. failed' => then = "recover"
      BY <2>6, <2>9 DEF TransactionInv, RestoreInv
    <3>7. QED
      BY <2>2, <2>6, <3>5, <3>6 DEF RestoreInv
  <2>10. CASE failed' = TRUE /\ then = "recover"
    BY <2>2, <2>6, <2>10 DEF RestoreInv
  <2>11. QED
    BY <2>8, <2>9, <2>10
<1>9. SyncInv'
  BY DEF RestoreEntry, TransactionInv, SyncInv, PhaseInv
<1>10. RequestInv'
  BY DEF RestoreEntry, TransactionInv, RequestInv
<1>11. ErrorsChangeNothing'
  BY DEF RestoreEntry, TransactionInv, ErrorsChangeNothing, PhaseInv
<1>12. QED
  BY <1>1, <1>2, <1>3, <1>4, <1>5, <1>6, <1>7, <1>8, <1>9, <1>10, <1>11
     DEF TransactionInv, TypeOK

\* AllRestored
\* (ConfigManager.restoreTransaction) preserves the inductive invariant.
LEMMA AllRestoredStep ==
  ASSUME TolerableFaults, TransactionInv, AllRestored
  PROVE  TransactionInv'
<1>1. DiskTypeOK'
  BY DEF AllRestored, TransactionInv, DiskTypeOK, TypeOK, disk
<1>2. PanelTypeOK'
  BY AnswerType
     DEF AllRestored, Restored, TransactionInv, PanelTypeOK, TypeOK, Location, Reply,
         memory
<1>3. ServiceTypeOK'
  BY DEF AllRestored, TransactionInv, ServiceTypeOK, TypeOK, service
<1>4. JournalInv'
  BY DEF AllRestored, TransactionInv, JournalInv, Describes, Untouched, disk
<1>5. PhaseInv'
  <2>1. CASE failed
    <3>1. then = "recover" /\ caller = "init"
      BY <2>1 DEF AllRestored, TransactionInv, RestoreInv, PhaseInv
    <3>2. Answer("failed")
      BY <2>1, <3>1 DEF AllRestored, Restored
    <3>3. pc' = "down" /\ then' = "recover" /\ caller' = "init" /\ reply' = "none"
      BY <3>1, <3>2, AnswerForgets, AnswerError
    <3>4. QED
      BY <3>3 DEF PhaseInv, HasJournal
  <2>2. CASE ~ failed
    <3>1. pc' = "finishing" /\ UNCHANGED <<file, backup, journal, before, memory, reply>>
      BY <2>2 DEF AllRestored, disk
    <3>2. QED
      BY <3>1 DEF AllRestored, memory, TransactionInv, PhaseInv, HasJournal
  <2>3. QED
    BY <2>1, <2>2
<1>6. BeginInv'
  BY DEF AllRestored, Restored, Answer, Forget, TransactionInv, BeginInv, PhaseInv,
         memory
<1>7. WriteInv'
  BY DEF AllRestored, Restored, Answer, TransactionInv, WriteInv, PhaseInv, memory
<1>8. RestoreInv'
  <2>1. CASE failed
    <3>1. then = "recover" /\ caller = "init"
      BY <2>1 DEF AllRestored, TransactionInv, RestoreInv, PhaseInv
    <3>2. Answer("failed")
      BY <2>1, <3>1 DEF AllRestored, Restored
    <3>3. pc' = "down" /\ then' = "recover" /\ caller' = "init" /\ reply' = "none"
      BY <3>1, <3>2, AnswerForgets, AnswerError
    <3>4. QED
      BY <3>3 DEF RestoreInv
  <2>2. CASE ~ failed
    <3>1. pc' = "finishing" /\ UNCHANGED <<file, backup, journal, before, memory, reply>>
      BY <2>2 DEF AllRestored, disk
    <3>2. /\ journal = record /\ journal # NoJournal /\ then # "commit"
          /\ at \in 1 .. 3 /\ at > Len(record) /\ Len(record) \in Nat
          /\ file \in Directory /\ before \in Directory
      BY DEF AllRestored, TransactionInv, PhaseInv, HasJournal, TypeOK,
             PanelTypeOK, DiskTypeOK
    <3>3. \A i \in 1 .. Len(record) : file[record[i].path] = before[record[i].path]
      BY <2>2, <3>2 DEF AllRestored, TransactionInv, RestoreInv
    <3>4. Untouched(record)
      BY <3>2 DEF TransactionInv, JournalInv
    <3>5. \A path \in Path : file[path] = before[path]
      BY <3>3, <3>4 DEF Untouched
    <3>6. file = before
      BY <3>2, <3>5 DEF Directory
    <3>7. QED
      BY <3>1, <3>6 DEF RestoreInv
  <2>3. QED
    BY <2>1, <2>2
<1>9. SyncInv'
  <2>1. CASE failed
    <3>1. then = "recover" /\ caller = "init"
      BY <2>1 DEF AllRestored, TransactionInv, RestoreInv, PhaseInv
    <3>2. Answer("failed")
      BY <2>1, <3>1 DEF AllRestored, Restored
    <3>3. pc' = "down" /\ then' = "recover" /\ caller' = "init" /\ reply' = "none"
      BY <3>1, <3>2, AnswerForgets, AnswerError
    <3>4. QED
      BY <3>2, <3>3, SyncAfterAnswer
  <2>2. CASE ~ failed
    <3>1. pc' = "finishing" /\ UNCHANGED <<file, backup, journal, before, memory, reply>>
      BY <2>2 DEF AllRestored, disk
    <3>2. QED
      BY <3>1, AfterUnchanged DEF memory, TransactionInv, SyncInv
  <2>3. QED
    BY <2>1, <2>2
<1>10. RequestInv'
  BY AnswerForgets DEF AllRestored, Restored, TransactionInv, RequestInv, memory
<1>11. ErrorsChangeNothing'
  <2>1. CASE failed
    <3>1. then = "recover" /\ caller = "init"
      BY <2>1 DEF AllRestored, TransactionInv, RestoreInv, PhaseInv
    <3>2. Answer("failed")
      BY <2>1, <3>1 DEF AllRestored, Restored
    <3>3. pc' = "down" /\ then' = "recover" /\ caller' = "init" /\ reply' = "none"
      BY <3>1, <3>2, AnswerForgets, AnswerError
    <3>4. QED
      BY <3>3 DEF ErrorsChangeNothing
  <2>2. CASE ~ failed
    <3>1. pc' = "finishing" /\ UNCHANGED <<file, backup, journal, before, memory, reply>>
      BY <2>2 DEF AllRestored, disk
    <3>2. QED
      BY <3>1 DEF TransactionInv, ErrorsChangeNothing
  <2>3. QED
    BY <2>1, <2>2
<1>12. QED
  BY <1>1, <1>2, <1>3, <1>4, <1>5, <1>6, <1>7, <1>8, <1>9, <1>10, <1>11
     DEF TransactionInv, TypeOK

\* Restart
\* (ConfigManager.rollbackAfterReload) preserves the inductive invariant.
LEMMA RestartStep ==
  ASSUME TolerableFaults, TransactionInv, Restart
  PROVE  TransactionInv'
<1>1. DiskTypeOK'
  BY DEF Restart, TransactionInv, DiskTypeOK, TypeOK, disk
<1>2. PanelTypeOK'
  BY AnswerType
     DEF Restart, RestartFails, InitializeFails, TransactionInv, PanelTypeOK, TypeOK,
         Location, Reply, memory
<1>3. ServiceTypeOK'
  BY FaultType, DirectoryRead, Contents
     DEF Restart, StartService, StopService, TransactionInv, ServiceTypeOK, TypeOK,
         DiskTypeOK, service
<1>4. JournalInv'
  BY DEF Restart, TransactionInv, JournalInv, Describes, Untouched, disk
<1>5. PhaseInv'
  BY DEF Restart, RestartFails, InitializeFails, Answer, Forget, TransactionInv,
         PhaseInv, HasJournal, disk, memory
<1>6. BeginInv'
  BY DEF Restart, RestartFails, InitializeFails, Answer, Forget, BeginInv, memory
<1>7. WriteInv'
  BY DEF Restart, RestartFails, InitializeFails, Answer, WriteInv, memory
<1>8. RestoreInv'
  BY DEF Restart, RestartFails, InitializeFails, Answer, RestoreInv
<1>9. SyncInv'
  <2>1. file' = file /\ caller \in {"init", "api"}
    BY DEF Restart, disk, TransactionInv, TypeOK, PanelTypeOK
  <2>2. CASE then = "recover" /\ pc' = "health" /\ UNCHANGED memory
    BY <2>1, <2>2 DEF Restart, memory, TransactionInv, SyncInv
  <2>3. CASE then = "recover" /\ Answer("failed")
    <3>1. pc' = "down"
      BY <2>3, AnswerError DEF TransactionInv, PhaseInv
    <3>2. QED
      BY <2>3, <3>1, SyncAfterAnswer
  <2>4. CASE then = "rollback" /\ Answer("rolledBack")
    <3>1. pc' = "idle" => caller = "api"
      BY <2>1, <2>4, AnswerError
    <3>2. file = before
      BY <2>4 DEF Restart, TransactionInv, RestoreInv
    <3>3. QED
      BY <2>1, <2>4, <3>1, <3>2, SyncAfterAnswer DEF TransactionInv, SyncInv
  <2>5. QED
    BY <2>2, <2>3, <2>4
       DEF Restart, RestartFails, InitializeFails, TransactionInv, PhaseInv
<1>10. RequestInv'
  BY AnswerForgets DEF Restart, RestartFails, InitializeFails, RequestInv, memory
<1>11. ErrorsChangeNothing'
  BY DEF Restart, RestartFails, InitializeFails, Answer, TransactionInv,
         ErrorsChangeNothing, PhaseInv, RestoreInv, disk
<1>12. QED
  BY <1>1, <1>2, <1>3, <1>4, <1>5, <1>6, <1>7, <1>8, <1>9, <1>10, <1>11
     DEF TransactionInv, TypeOK

\* Crash (main) preserves the inductive invariant.
LEMMA CrashStep ==
  ASSUME TolerableFaults, TransactionInv, Crash
  PROVE  TransactionInv'
<1>1. DiskTypeOK'
  BY DEF Crash, TransactionInv, DiskTypeOK, TypeOK, disk
<1>2. PanelTypeOK'
  <2>1. pc' \in Location /\ caller' \in {"init", "api"} /\ reply' \in Reply
    BY DEF Crash, Forget, Location, Reply, memory
  <2>2. /\ changes' \in Seq(Change) /\ Len(changes') <= 2
        /\ record' \in Seq(Entry) /\ Len(record') <= 2
    BY EmptySequences
       DEF Crash, Forget, TransactionInv, TypeOK, PanelTypeOK, DiskTypeOK, memory
  <2>3. at' \in 1 .. 3 /\ then' \in {"commit", "abort", "rollback", "recover"}
    BY DEF Crash, Forget, memory
  <2>4. failed' \in BOOLEAN /\ wasRunning' \in BOOLEAN
    BY DEF Crash, Forget
  <2>5. QED
    BY <2>1, <2>2, <2>3, <2>4 DEF PanelTypeOK
<1>3. ServiceTypeOK'
  BY FaultType DEF Crash, TransactionInv, ServiceTypeOK, TypeOK, service
<1>4. JournalInv'
  BY DEF Crash, TransactionInv, JournalInv, Describes, Untouched, disk
<1>5. PhaseInv'
  BY DEF Crash, Forget, PhaseInv, HasJournal
<1>6. BeginInv'
  BY DEF Crash, Forget, BeginInv
<1>7. WriteInv'
  BY DEF Crash, WriteInv
<1>8. RestoreInv'
  BY DEF Crash, RestoreInv
<1>9. SyncInv'
  BY DEF Crash, Forget, SyncInv
<1>10. RequestInv'
  BY DEF Crash, Forget, RequestInv
<1>11. ErrorsChangeNothing'
  BY DEF Crash, ErrorsChangeNothing
<1>12. QED
  BY <1>1, <1>2, <1>3, <1>4, <1>5, <1>6, <1>7, <1>8, <1>9, <1>10, <1>11
     DEF TransactionInv, TypeOK

\* HandleReload (Mihomo: handling of SIGHUP) preserves the inductive invariant.
LEMMA HandleReloadStep ==
  ASSUME TolerableFaults, TransactionInv, HandleReload
  PROVE  TransactionInv'
<1>1. DiskTypeOK'
  BY DEF HandleReload, TransactionInv, DiskTypeOK, TypeOK, disk
<1>2. PanelTypeOK'
  BY DEF HandleReload, TransactionInv, PanelTypeOK, TypeOK, memory
<1>3. ServiceTypeOK'
  BY DirectoryRead, Contents
     DEF HandleReload, TransactionInv, ServiceTypeOK, TypeOK, DiskTypeOK
<1>4. JournalInv'
  BY DEF HandleReload, TransactionInv, JournalInv, Describes, Untouched, disk
<1>5. PhaseInv'
  BY DEF HandleReload, TransactionInv, PhaseInv, HasJournal, disk, memory
<1>6. BeginInv'
  BY DEF HandleReload, TransactionInv, BeginInv, HasJournal, Describes, disk, memory
<1>7. WriteInv'
  BY DEF HandleReload, TransactionInv, WriteInv, Untouched, disk, memory
<1>8. RestoreInv'
  BY DEF HandleReload, TransactionInv, RestoreInv, disk, memory
<1>9. SyncInv'
  BY DEF HandleReload, TransactionInv, SyncInv, After, disk, memory
<1>10. RequestInv'
  BY DEF HandleReload, TransactionInv, RequestInv, memory
<1>11. ErrorsChangeNothing'
  BY DEF HandleReload, TransactionInv, ErrorsChangeNothing, disk
<1>12. QED
  BY <1>1, <1>2, <1>3, <1>4, <1>5, <1>6, <1>7, <1>8, <1>9, <1>10, <1>11
     DEF TransactionInv, TypeOK

\* ServiceEventHappens (App.serviceAction) preserves the inductive invariant.
LEMMA ServiceEventHappensStep ==
  ASSUME TolerableFaults, TransactionInv, NEW event \in ServiceEvents, ServiceEventHappens(event)
  PROVE  TransactionInv'
<1>1. DiskTypeOK'
  BY DEF ServiceEventHappens, TransactionInv, DiskTypeOK, TypeOK, disk
<1>2. PanelTypeOK'
  BY DEF ServiceEventHappens, TransactionInv, PanelTypeOK, TypeOK, memory
<1>3. ServiceTypeOK'
  <2>1. file["effective"] \in Text \cup {NoFile}
    BY DirectoryRead, Contents DEF TransactionInv, TypeOK, DiskTypeOK
  <2>2. event \in {"start", "stop", "restart", "reload", "respawn", "giveup"}
    BY FaultAssumption DEF ServiceEvent
  <2>3. StartService => running' \in BOOLEAN /\ loaded' \in Text \cup {NoFile} /\ hup' \in BOOLEAN
    BY <2>1 DEF StartService
  <2>4. StopService => running' \in BOOLEAN /\ loaded' \in Text \cup {NoFile} /\ hup' \in BOOLEAN
    BY DEF StopService
  <2>5. /\ running \in BOOLEAN /\ loaded \in Text \cup {NoFile} /\ hup \in BOOLEAN
        /\ faults' \in 0 .. MaxFaults
    BY DEF ServiceEventHappens, TransactionInv, TypeOK, ServiceTypeOK
  <2>6. running' \in BOOLEAN /\ loaded' \in Text \cup {NoFile} /\ hup' \in BOOLEAN
    BY <2>2, <2>3, <2>4, <2>5 DEF ServiceEventHappens, service
  <2>7. QED
    BY <2>5, <2>6 DEF ServiceTypeOK
<1>4. JournalInv'
  BY DEF ServiceEventHappens, TransactionInv, JournalInv, Describes, Untouched, disk
<1>5. PhaseInv'
  BY DEF ServiceEventHappens, TransactionInv, PhaseInv, HasJournal, disk, memory
<1>6. BeginInv'
  BY DEF ServiceEventHappens, TransactionInv, BeginInv, HasJournal, Describes,
         disk, memory
<1>7. WriteInv'
  BY DEF ServiceEventHappens, TransactionInv, WriteInv, Untouched, disk, memory
<1>8. RestoreInv'
  BY DEF ServiceEventHappens, TransactionInv, RestoreInv, disk, memory
<1>9. SyncInv'
  BY DEF ServiceEventHappens, TransactionInv, SyncInv, After, disk, memory
<1>10. RequestInv'
  BY DEF ServiceEventHappens, TransactionInv, RequestInv, memory
<1>11. ErrorsChangeNothing'
  BY DEF ServiceEventHappens, TransactionInv, ErrorsChangeNothing, disk
<1>12. QED
  BY <1>1, <1>2, <1>3, <1>4, <1>5, <1>6, <1>7, <1>8, <1>9, <1>10, <1>11
     DEF TransactionInv, TypeOK

\* Reconcile (ConfigManager.initialize) preserves the inductive invariant.
LEMMA ReconcileStep ==
  ASSUME TolerableFaults, TransactionInv, Reconcile
  PROVE  TransactionInv'
<1>1. /\ file \in Directory /\ \A path \in {"base", "draft", "active"} : file[path] # NoFile
      /\ caller = "init"
  BY DEF Reconcile, TransactionInv, TypeOK, DiskTypeOK, SyncInv, PhaseInv
<1>2. file["effective"] # NoFile /\ file["effective"] # Merge(file["base"], file["active"])
  BY DEF Reconcile, Merged
<1>3. RequestInv'
  <2>1. caller' = "init" /\ before' = file /\ changes' = ReconcileChanges(file)
    BY <1>1 DEF Reconcile, BeginCommit
  <2>2. ~ InSync(file) /\ \A path \in Path : file[path] # NoFile
    BY <1>1, <1>2, Contents DEF InSync
  <2>3. QED
    BY <2>1, <2>2 DEF RequestInv
<1>4. QED
  BY <1>1, <1>3, ReconcileList, BeginCommitStep DEF Reconcile

\* ApplyBase (ConfigManager.ApplyBase) preserves the inductive invariant.
LEMMA ApplyBaseStep ==
  ASSUME TolerableFaults, TransactionInv, NEW text \in Submitted, ApplyBase(text)
  PROVE  TransactionInv'
<1>1. file \in Directory /\ InSync(file) /\ \A path \in Path : file[path] # NoFile
  BY DEF ApplyBase, Handle, TransactionInv, TypeOK, DiskTypeOK, SyncInv, InSync
<1>2. RequestInv'
  <2>1. caller' = "api" /\ before' = file /\ changes' = BaseChanges(file, text)
    BY DEF ApplyBase, Handle, BeginCommit
  <2>2. QED
    BY <1>1, <2>1 DEF RequestInv
<1>3. QED
  <2>1. /\ pc = "idle" /\ caller' = "api" /\ BeginCommit(BaseChanges(file, text))
        /\ UNCHANGED <<disk, wasRunning, service, faults>>
    BY DEF ApplyBase, Handle
  <2>2. /\ BaseChanges(file, text) \in Seq(Change) /\ Len(BaseChanges(file, text)) = 2
        /\ OnePathEach(BaseChanges(file, text)) /\ InSync(Overwrite(file, BaseChanges(file, text)))
    BY <1>1, BaseList
  <2>3. Len(BaseChanges(file, text)) > 0 /\ Len(BaseChanges(file, text)) <= 2
    BY <2>2
  <2>4. QED
    BY <1>1, <1>2, <2>1, <2>2, <2>3, BeginCommitStep

\* ApplyOverrides
\* (ConfigManager.ApplyOverrides) preserves the inductive invariant.
LEMMA ApplyOverridesStep ==
  ASSUME TolerableFaults, TransactionInv, ApplyOverrides
  PROVE  TransactionInv'
<1>1. file \in Directory /\ InSync(file) /\ \A path \in Path : file[path] # NoFile
  BY DEF ApplyOverrides, Handle, TransactionInv, TypeOK, DiskTypeOK, SyncInv, InSync
<1>2. RequestInv'
  <2>1. caller' = "api" /\ before' = file /\ changes' = OverrideChanges(file)
    BY DEF ApplyOverrides, Handle, BeginCommit
  <2>2. QED
    BY <1>1, <2>1 DEF RequestInv
<1>3. QED
  <2>1. /\ pc = "idle" /\ caller' = "api" /\ BeginCommit(OverrideChanges(file))
        /\ UNCHANGED <<disk, wasRunning, service, faults>>
    BY DEF ApplyOverrides, Handle
  <2>2. /\ OverrideChanges(file) \in Seq(Change) /\ Len(OverrideChanges(file)) = 2
        /\ OnePathEach(OverrideChanges(file)) /\ InSync(Overwrite(file, OverrideChanges(file)))
    BY <1>1, OverrideList
  <2>3. Len(OverrideChanges(file)) > 0 /\ Len(OverrideChanges(file)) <= 2
    BY <2>2
  <2>4. QED
    BY <1>1, <1>2, <2>1, <2>2, <2>3, BeginCommitStep

\* The inductive invariant holds at first, in every fresh installation.
LEMMA InitInv ==
  Init => TransactionInv
<1> SUFFICES ASSUME Init PROVE TransactionInv
  OBVIOUS
<1>1. file \in Directory /\ before \in Directory
  BY Contents, DataAssumption
     DEF Init, FreshDirectories, Directory, Path, TextPath, ItemsPath, Content
<1>2. DiskTypeOK
  BY <1>1 DEF Init, DiskTypeOK
<1>3. PanelTypeOK
  <2>1. pc \in Location /\ caller \in {"init", "api"} /\ reply \in Reply
    BY DEF Init, Location, Reply
  <2>2. /\ changes \in Seq(Change) /\ Len(changes) <= 2
        /\ record \in Seq(Entry) /\ Len(record) <= 2
    BY EmptySequences DEF Init
  <2>3. at \in 1 .. 3 /\ then \in {"commit", "abort", "rollback", "recover"}
    BY DEF Init
  <2>4. failed \in BOOLEAN /\ wasRunning \in BOOLEAN
    BY DEF Init
  <2>5. QED
    BY <2>1, <2>2, <2>3, <2>4 DEF PanelTypeOK
<1>4. ServiceTypeOK
  <2>1. file["effective"] \in Text \cup {NoFile}
    BY <1>1, DirectoryRead, Contents
  <2>2. running \in BOOLEAN /\ loaded \in Text \cup {NoFile} /\ hup \in BOOLEAN
    BY <2>1 DEF Init
  <2>3. faults \in 0 .. MaxFaults
    BY FaultAssumption DEF Init
  <2>4. QED
    BY <2>2, <2>3 DEF ServiceTypeOK
<1>5. JournalInv
  BY DEF Init, JournalInv, OnePathEach
<1>6. PhaseInv
  BY DEF Init, PhaseInv, HasJournal
<1>7. BeginInv /\ WriteInv /\ RestoreInv
  BY DEF Init, BeginInv, WriteInv, RestoreInv
<1>8. SyncInv /\ RequestInv /\ ErrorsChangeNothing
  BY DEF Init, SyncInv, RequestInv, ErrorsChangeNothing
<1>9. QED
  BY <1>2, <1>3, <1>4, <1>5, <1>6, <1>7, <1>8 DEF TransactionInv, TypeOK

\* A stuttering step preserves the inductive invariant.
LEMMA StutterInv ==
  ASSUME TransactionInv, UNCHANGED vars
  PROVE  TransactionInv'
<1>1. /\ UNCHANGED <<file, backup, journal, pc, caller, changes, record, at, then, failed>>
      /\ UNCHANGED <<wasRunning, reply, running, loaded, hup, before, faults>>
  BY DEF vars
<1>2. TypeOK'
  BY <1>1 DEF TransactionInv, TypeOK, DiskTypeOK, PanelTypeOK, ServiceTypeOK
<1>3. JournalInv' /\ PhaseInv'
  BY <1>1 DEF TransactionInv, JournalInv, Describes, Untouched, PhaseInv, HasJournal
<1>4. BeginInv' /\ WriteInv' /\ RestoreInv'
  BY <1>1 DEF TransactionInv, BeginInv, WriteInv, RestoreInv, HasJournal, OnePathEach,
              Describes, Untouched
<1>5. RequestInv' /\ SyncInv' /\ ErrorsChangeNothing'
  BY <1>1 DEF TransactionInv, RequestInv, SyncInv, After, ErrorsChangeNothing
<1>6. QED
  BY <1>2, <1>3, <1>4, <1>5 DEF TransactionInv

\* Every step preserves the inductive invariant.
LEMMA NextInv ==
  ASSUME TolerableFaults, TransactionInv, [Next]_vars
  PROVE  TransactionInv'
<1>1. CASE Initialize
  BY <1>1, StartStep, RecoverTransactionStep, ProbeRecoveredStep, CreateMissingStep,
     AllPresentStep, CreateEffectiveStep, UpToDateStep, ReconcileRefusedStep, ReconcileStep
     DEF Initialize
<1>2. CASE Request
  BY <1>2, RefuseStep, ApplyOverridesStep, SaveDraftStep, ApplyBaseStep DEF Request
<1>3. CASE Transaction
  BY <1>3, ProbeFailsStep, ProbeStep, BackupStep, WriteJournalStep, DiscardStep,
     WriteFileStep, WrittenStep, ReloadStep, HealthyStep, UnhealthyStep, RemoveJournalStep,
     CleanStep, RestoreEntryStep, AllRestoredStep, RestartStep
     DEF Transaction
<1>4. CASE Environment
  BY <1>4, CrashStep, HandleReloadStep, ServiceEventHappensStep DEF Environment
<1>5. CASE UNCHANGED vars
  BY <1>5, StutterInv
<1>6. QED
  BY <1>1, <1>2, <1>3, <1>4, <1>5 DEF Next

\* The inductive invariant holds in every reachable state, whatever the steps
\* that may fail outside the rollback, the service events and the number of
\* faults are: the journal, the files, the panel's memory and what was
\* promised to the caller agree at every place of commit and initialize.
THEOREM TransactionSafety ==
  ASSUME TolerableFaults
  PROVE  Spec => []TransactionInv
<1>1. TransactionInv /\ [Next]_vars => TransactionInv'
  BY NextInv
<1>2. QED
  BY <1>1, InitInv, PTL DEF Spec

\* Type correctness of the transaction: no path ever holds a document of the
\* other kind and no loop index or journal leaves its range.
THEOREM TypeCorrect ==
  ASSUME TolerableFaults
  PROVE  Spec => []TypeOK
<1>1. TransactionInv => TypeOK
  BY DEF TransactionInv
<1>2. QED
  BY <1>1, TransactionSafety, PTL

\* While a journal is there, the directory that recoverTransaction would
\* restore is the one from before the transaction.
LEMMA RecoveredIsBefore ==
  ASSUME TransactionInv, journal # NoJournal
  PROVE  RecoveredConfig = before
<1>1. /\ before \in Directory /\ OnePathEach(journal) /\ Untouched(journal)
      /\ \A i \in 1 .. Len(journal) : Describes(journal[i], backup[i])
  BY DEF TransactionInv, TypeOK, DiskTypeOK, JournalInv
<1>2. ASSUME NEW path \in Path
      PROVE  RecoveredConfig[path] = before[path]
  <2>1. CASE \E i \in 1 .. Len(journal) : journal[i].path = path
    <3>1. PICK k \in 1 .. Len(journal) : k = CHOOSE j \in 1 .. Len(journal) : journal[j].path = path
      BY <2>1
    <3>2. journal[k].path = path
      BY <2>1, <3>1
    <3>3. RecoveredConfig[path] = IF journal[k].existed THEN backup[k] ELSE NoFile
      BY <2>1, <3>1 DEF RecoveredConfig
    <3>4. QED
      BY <1>1, <3>2, <3>3 DEF Describes
  <2>2. CASE ~ \E i \in 1 .. Len(journal) : journal[i].path = path
    BY <1>1, <2>2 DEF RecoveredConfig, Untouched
  <2>3. QED
    BY <2>1, <2>2
<1>3. RecoveredConfig = [path \in Path |-> RecoveredConfig[path]]
  BY DEF RecoveredConfig
<1>4. before = [path \in Path |-> before[path]]
  BY <1>1 DEF Directory
<1>5. QED
  BY <1>2, <1>3, <1>4

\* As long as a journal is on disk, recovering from it gives back exactly the
\* files as they were when the transaction began (restoreTransaction,
\* recoverTransaction), however many crashes and failing steps there were.
THEOREM JournalAlwaysRecovers ==
  ASSUME TolerableFaults
  PROVE  Spec => []JournalRecovers
<1>1. TransactionInv => JournalRecovers
  BY RecoveredIsBefore DEF JournalRecovers
<1>2. QED
  BY <1>1, TransactionSafety, PTL

\* Whenever the panel serves requests no transaction is unresolved and the
\* effective file is the merge of base and active overrides.
THEOREM AlwaysServingInSync ==
  ASSUME TolerableFaults
  PROVE  Spec => []ServingInSync
<1>1. TransactionInv => ServingInSync
  BY DEF TransactionInv, ServingInSync, SyncInv, PhaseInv, HasJournal
<1>2. QED
  BY <1>1, TransactionSafety, PTL

\* An answer that reports an error leaves base, active and effective files as
\* they were when the request came.
THEOREM ErrorsNeverChange ==
  ASSUME TolerableFaults
  PROVE  Spec => []ErrorsChangeNothing
<1>1. TransactionInv => ErrorsChangeNothing
  BY DEF TransactionInv
<1>2. QED
  BY <1>1, TransactionSafety, PTL

-----------------------------------------------------------------------------
\* Only the last step of a commit answers that a configuration is applied.
LEMMA OnlyCleanApplies ==
  ASSUME [Next]_vars, reply' = "applied", reply # "applied"
  PROVE  Clean /\ then = "commit"
<1>1. ASSUME NEW code \in {"none", "failed", "rolledBack"}, Answer(code)
      PROVE  FALSE
  BY <1>1, AnswerForgets
<1>2. CASE Initialize
  <2>1. ~ Start /\ ~ RecoverTransaction /\ ~ ProbeRecovered /\ ~ AllPresent
    BY DEF Start, RecoverTransaction, ProbeRecovered, AllPresent
  <2>2. ~ CreateMissing /\ ~ CreateEffective
    BY <1>1 DEF CreateMissing, CreateEffective, Try, InitializeFails
  <2>3. ~ UpToDate /\ ~ ReconcileRefused /\ ~ Reconcile
    BY <1>1 DEF UpToDate, ReconcileRefused, InitializeFails, Reconcile, BeginCommit
  <2>4. QED
    BY <1>2, <2>1, <2>2, <2>3 DEF Initialize
<1>3. CASE Request
  BY <1>3
     DEF Request, Refuse, SaveDraft, Try, ApplyOverrides, ApplyBase, Handle,
         BeginCommit
<1>4. CASE Transaction
  <2>1. ~ ProbeFails /\ ~ Discard
    BY <1>1 DEF ProbeFails, Discard
  <2>2. ~ Probe /\ ~ Backup /\ ~ WriteJournal /\ ~ WriteFile /\ ~ Written
    BY DEF Probe, Backup, WriteJournal, WriteFile, Written
  <2>3. ~ Reload /\ ~ Healthy /\ ~ RestoreEntry
    BY DEF Reload, Healthy, RestoreEntry
  <2>4. ~ Unhealthy /\ ~ Restart
    BY <1>1 DEF Unhealthy, InitializeFails, Restart, RestartFails
  <2>5. ~ Restored(TRUE) /\ ~ Restored(FALSE)
    BY <1>1 DEF Restored
  <2>6. ~ RemoveJournal /\ ~ AllRestored
    BY <2>5 DEF RemoveJournal, Try, NotFinished, AllRestored
  <2>7. Clean => then = "commit"
    BY <1>1 DEF Clean, Restored
  <2>8. QED
    BY <1>4, <2>1, <2>2, <2>3, <2>4, <2>6, <2>7 DEF Transaction
<1>5. CASE Environment
  BY <1>5 DEF Environment, Crash, HandleReload, ServiceEventHappens
<1>6. QED
  BY <1>2, <1>3, <1>4, <1>5 DEF Next, vars

\* When a handler answers that a configuration is applied, every file of the
\* change holds its new content and no journal is left to undo it with.
THEOREM AppliedIsAlwaysCommitted ==
  ASSUME TolerableFaults
  PROVE  Spec => AppliedIsCommitted
<1>1. ASSUME TransactionInv, [Next]_vars, reply' = "applied", reply # "applied"
      PROVE  /\ journal' = NoJournal
             /\ \A i \in 1 .. Len(changes) : file'[changes[i].path] = changes[i].data
  <2>1. Clean /\ then = "commit"
    BY <1>1, OnlyCleanApplies
  <2>2. file' = file /\ journal' = journal
    BY <2>1 DEF Clean
  <2>3. QED
    BY <1>1, <2>1, <2>2 DEF Clean, TransactionInv, PhaseInv, HasJournal, WriteInv
<1>2. TransactionInv /\ [Next]_vars =>
         [reply' = "applied" /\ reply # "applied" =>
          /\ journal' = NoJournal
          /\ \A i \in 1 .. Len(changes) : file'[changes[i].path] = changes[i].data]_vars
  BY <1>1
<1>3. QED
  BY <1>2, TransactionSafety, PTL DEF Spec, AppliedIsCommitted

-----------------------------------------------------------------------------
(* The journalled transaction implements the atomic change of all files.   *)

\* What the files count as: the old directory until the journal is gone.
View == IF journal = NoJournal THEN file ELSE before

SeenAsView == RecoveredConfig = View

\* The directory a recovery would give is before, as long as there is a journal,
\* and else the files (recoverTransaction).
LEMMA RecoveredIsView ==
  TransactionInv => SeenAsView
<1> SUFFICES ASSUME TransactionInv PROVE RecoveredConfig = View
  BY DEF SeenAsView
<1>1. CASE journal = NoJournal
  <2>1. Len(journal) = 0 /\ file = [path \in Path |-> file[path]]
    BY <1>1 DEF TransactionInv, TypeOK, DiskTypeOK, Directory
  <2>2. RecoveredConfig = [path \in Path |-> file[path]]
    BY <2>1 DEF RecoveredConfig
  <2>3. QED
    BY <1>1, <2>1, <2>2 DEF View
<1>2. CASE journal # NoJournal
  BY <1>2, RecoveredIsBefore DEF View
<1>3. QED
  BY <1>1, <1>2

\* The same after a step.
LEMMA RecoveredIsViewNext ==
  (TransactionInv => SeenAsView)'
  BY RecoveredIsView, PTL

\* Steps of initialize that write a file.
LEMMA CreateImplements ==
  ASSUME TransactionInv, TransactionInv', CreateMissing \/ CreateEffective
  PROVE  Atomic!Next \/ RecoveredConfig' = RecoveredConfig
<1>1. /\ journal = NoJournal /\ journal' = NoJournal /\ file \in Directory
  BY DEF CreateMissing, CreateEffective, TransactionInv, PhaseInv, HasJournal,
         TypeOK, DiskTypeOK
<1>2. RecoveredConfig = file /\ RecoveredConfig' = file'
  BY <1>1, RecoveredIsView, RecoveredIsViewNext DEF SeenAsView, View
<1>3. CASE file' = file
  BY <1>2, <1>3
<1>4. ASSUME NEW path \in Path, file[path] = NoFile, WriteInitial(path),
             path = "effective" => file["base"] # NoFile /\ file["active"] # NoFile
      PROVE  Atomic!Create(path)
  BY <1>2, <1>4
     DEF Atomic!Create, WriteInitial, Atomic!InitialContent, InitialContent, Atomic!ItemsPath, ItemsPath
<1>5. \/ file' = file
      \/ \E path \in Path : /\ file[path] = NoFile /\ WriteInitial(path)
                            /\ path = "effective" => file["base"] # NoFile /\ file["active"] # NoFile
  <2>1. CASE CreateMissing
    BY <2>1, Contents DEF CreateMissing, Try, EnsureOrder
  <2>2. CASE CreateEffective
    BY <2>2, Contents DEF CreateEffective, Try, TransactionInv, SyncInv
  <2>3. QED
    BY <2>1, <2>2
<1>6. QED
  BY <1>3, <1>4, <1>5, Contents
     DEF Atomic!Next, Atomic!Path, Atomic!TextPath, Atomic!ItemsPath

\* Saving a draft is the abstract operation, or nothing when it failed.
LEMMA DraftImplements ==
  ASSUME TransactionInv, TransactionInv', NEW items \in Items, SaveDraft(items)
  PROVE  Atomic!Next \/ RecoveredConfig' = RecoveredConfig
<1>1. /\ journal = NoJournal /\ journal' = NoJournal /\ InSync(file)
  BY DEF SaveDraft, TransactionInv, PhaseInv, HasJournal, SyncInv
<1>2. RecoveredConfig = file /\ RecoveredConfig' = file'
  BY <1>1, RecoveredIsView, RecoveredIsViewNext DEF SeenAsView, View
<1>3. file' = file \/ file' = [file EXCEPT !["draft"] = items]
  BY DEF SaveDraft, Try
<1>4. file' = [file EXCEPT !["draft"] = items] => Atomic!SaveDraft(items)
  BY <1>1, <1>2 DEF Atomic!SaveDraft, Atomic!InSync, InSync, Atomic!Path, Path,
     Atomic!TextPath, TextPath, Atomic!ItemsPath, ItemsPath
<1>5. QED
  BY <1>2, <1>3, <1>4 DEF Atomic!Next

\* Removing the journal is the step that commits, or ends a restore.
LEMMA CommitImplements ==
  ASSUME TransactionInv, TransactionInv', RemoveJournal
  PROVE  Atomic!Next \/ RecoveredConfig' = RecoveredConfig
<1>1. /\ journal # NoJournal /\ file' = file /\ before' = before
      /\ journal' = NoJournal \/ journal' = journal
  BY DEF RemoveJournal, Try, TransactionInv, PhaseInv, HasJournal
<1>2. RecoveredConfig = before
  BY <1>1, RecoveredIsView DEF SeenAsView, View
<1>3. CASE journal' = journal
  BY <1>1, <1>2, <1>3, RecoveredIsViewNext DEF SeenAsView, View
<1>4. CASE journal' = NoJournal /\ then # "commit"
  <2>1. file = before
    BY <1>4 DEF RemoveJournal, TransactionInv, RestoreInv
  <2>2. QED
    BY <1>1, <1>2, <1>4, <2>1, RecoveredIsViewNext DEF SeenAsView, View
<1>5. CASE journal' = NoJournal /\ then = "commit"
  <2>1. before \in Directory /\ file = Overwrite(before, changes)
    BY <1>5, Committed
       DEF RemoveJournal, TransactionInv, TypeOK, DiskTypeOK, PanelTypeOK,
       WriteInv, After
  <2>2. RecoveredConfig' = Overwrite(before, changes)
    BY <1>1, <1>5, <2>1, RecoveredIsViewNext DEF SeenAsView, View
  <2>3. Atomic!InSync(before) <=> InSync(before)
    BY DEF Atomic!InSync, InSync, Atomic!Path, Path, Atomic!TextPath, TextPath,
           Atomic!ItemsPath, ItemsPath
  <2>4. CASE /\ changes = ReconcileChanges(before)
             /\ ~ InSync(before) /\ \A path \in Path : before[path] # NoFile
    <3>1. RecoveredConfig' =
              [before EXCEPT !["effective"] = Merge(before["base"], before["active"])]
      BY <2>1, <2>2, <2>4, ReconcileList, Contents
    <3>2. Atomic!Reconcile
      BY <1>2, <2>3, <2>4, <3>1
         DEF Atomic!Reconcile, Atomic!Path, Path, Atomic!TextPath,
         TextPath, Atomic!ItemsPath, ItemsPath
    <3>3. QED
      BY <3>2 DEF Atomic!Next
  <2>5. ASSUME NEW text \in Submitted, changes = BaseChanges(before, text), InSync(before)
        PROVE  Atomic!Next
    <3>1. RecoveredConfig' = [before EXCEPT !["base"] = text,
                                            !["effective"] = Merge(text, before["active"])]
      BY <2>1, <2>2, <2>5, BaseList DEF InSync
    <3>2. Atomic!ApplyBase(text)
      BY <1>2, <2>3, <2>5, <3>1 DEF Atomic!ApplyBase
    <3>3. QED
      BY <3>2 DEF Atomic!Next
  <2>6. CASE changes = OverrideChanges(before) /\ InSync(before)
    <3>1. RecoveredConfig' = [before EXCEPT !["active"] = before["draft"],
                                  !["effective"] = Merge(before["base"], before["draft"])]
      BY <2>1, <2>2, <2>6, OverrideList DEF InSync
    <3>2. Atomic!ApplyOverrides
      BY <1>2, <2>3, <2>6, <3>1 DEF Atomic!ApplyOverrides
    <3>3. QED
      BY <3>2 DEF Atomic!Next
  <2>7. QED
    BY <1>5, <2>4, <2>5, <2>6 DEF TransactionInv, RequestInv
<1>6. QED
  BY <1>1, <1>3, <1>4, <1>5

\* No other step changes what the files count as.
LEMMA OthersStutter ==
  ASSUME TransactionInv, [Next]_vars, ~ RemoveJournal, ~ CreateMissing, ~ CreateEffective,
         \A items \in Items : ~ SaveDraft(items)
  PROVE  View' = View
<1>1. CASE Initialize
  <2>1. UNCHANGED <<file, journal>>
    BY <1>1
       DEF Initialize, Start, RecoverTransaction, ProbeRecovered, AllPresent,
           UpToDate,
       ReconcileRefused, Reconcile, disk
  <2>2. UNCHANGED before \/ journal = NoJournal
    BY <1>1
       DEF Initialize, Start, RecoverTransaction, ProbeRecovered, AllPresent,
           UpToDate,
       ReconcileRefused, Reconcile, TransactionInv, PhaseInv, HasJournal
  <2>3. QED
    BY <2>1, <2>2 DEF View
<1>2. CASE Request
  <2>1. UNCHANGED <<file, journal>> /\ pc = "idle"
    BY <1>2 DEF Request, Refuse, ApplyOverrides, ApplyBase, Handle, disk
  <2>2. QED
    BY <2>1 DEF View, TransactionInv, PhaseInv, HasJournal
<1>3. CASE WriteJournal
  <2>1. file = before /\ UNCHANGED <<file, before>>
    BY <1>3 DEF WriteJournal, TransactionInv, BeginInv
  <2>2. QED
    BY <2>1 DEF View
<1>4. CASE WriteFile \/ RestoreEntry
  <2>1. journal # NoJournal /\ UNCHANGED <<journal, before>>
    BY <1>4 DEF WriteFile, RestoreEntry, TransactionInv, PhaseInv, HasJournal
  <2>2. QED
    BY <2>1 DEF View
<1>5. CASE ProbeFails \/ Probe \/ Backup \/ Discard \/ Written \/ Reload
  BY <1>5 DEF ProbeFails, Probe, Backup, Discard, Written, Reload, disk, View
<1>6. CASE Healthy \/ Unhealthy \/ Clean \/ AllRestored \/ Restart
  BY <1>6 DEF Healthy, Unhealthy, Clean, AllRestored, Restart, disk, View
<1>7. CASE Environment
  BY <1>7 DEF Environment, Crash, HandleReload, ServiceEventHappens, disk, View
<1>8. CASE UNCHANGED vars
  BY <1>8 DEF vars, View
<1>9. QED
  BY <1>1, <1>2, <1>3, <1>4, <1>5, <1>6, <1>7, <1>8 DEF Next, Transaction

\* Every step is a step of the atomic configuration or a stutter.
LEMMA StepImplements ==
  ASSUME TransactionInv, TransactionInv', [Next]_vars
  PROVE  Atomic!Next \/ RecoveredConfig' = RecoveredConfig
<1>1. CASE CreateMissing \/ CreateEffective
  BY <1>1, CreateImplements
<1>2. CASE \E items \in Items : SaveDraft(items)
  BY <1>2, DraftImplements
<1>3. CASE RemoveJournal
  BY <1>3, CommitImplements
<1>4. CASE ~ RemoveJournal /\ ~ CreateMissing /\ ~ CreateEffective
           /\ \A items \in Items : ~ SaveDraft(items)
  BY <1>4, OthersStutter, RecoveredIsView, RecoveredIsViewNext DEF SeenAsView
<1>5. QED
  BY <1>1, <1>2, <1>3, <1>4

\* Every initial state is an initial state of the atomic configuration.
LEMMA InitImplements ==
  Init => Atomic!Init
<1> SUFFICES ASSUME Init PROVE Atomic!Init
  OBVIOUS
<1>1. RecoveredConfig = file
  BY InitInv, RecoveredIsView DEF Init, SeenAsView, View
<1>2. QED
  BY <1>1
     DEF Init, Atomic!Init, Atomic!FreshDirectories, FreshDirectories, Atomic!Path,
         Path,
     Atomic!TextPath, TextPath, Atomic!ItemsPath, ItemsPath

\* The journalled transaction implements the atomic change of all files: at
\* every moment the directory that a recovery would leave is one that whole
\* operations have led to, whatever fails and whenever the panel dies.
THEOREM TransactionImplementsAtomic ==
  ASSUME TolerableFaults
  PROVE  Spec => ImplementsAtomic
<1>1. TransactionInv /\ TransactionInv' /\ [Next]_vars => [Atomic!Next]_RecoveredConfig
  BY StepImplements
<1>2. QED
  BY <1>1, InitImplements, TransactionSafety, PTL
     DEF Spec, ImplementsAtomic, Atomic!Spec
=============================================================================
