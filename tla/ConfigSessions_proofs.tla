------------------------ MODULE ConfigSessions_proofs ------------------------
(***************************************************************************)
(* The properties of ConfigSessions for any pages, any documents and any   *)
(* bounds.  The invariant SessionInv says of every request under way, given *)
(* up or not, that the revision it names is the content its user saw; the  *)
(* manager's checks then make a write one of what the user saw.            *)
(***************************************************************************)
EXTENDS ConfigSessions, TLAPS

USE DEF Document, Digest

\* The three parts of the invariant: the files, the pages, the requests.
FilesOK == config \in Directory /\ InSync(config) /\ config["base"] \in Submitted

PagesOK ==
    /\ content \in [Page -> Document] /\ revision \in [Page -> Document]
    /\ filled = revision
    /\ \A page \in Page : content[page] \in Editable(page) /\ revision[page] \in Editable(page)
    /\ dirty \in [Page -> BOOLEAN]
    /\ preview \in [OverridePage -> Digest \cup {None}]
    /\ orders \in 0 .. MaxOrders
    /\ CleanIsStored

RequestsOK ==
    /\ pending \subseteq Message /\ lost \subseteq Message
    /\ \A m \in pending \cup lost : WellFormed(m)

\* The invariant is the conjunction of its parts.
LEMMA Parts == SessionInv <=> FilesOK /\ PagesOK /\ RequestsOK
  BY DEF SessionInv, TypeOK, FilesOK, PagesOK, RequestsOK

\* What the four files hold.
LEMMA FilesHold ==
  ASSUME FilesOK
  PROVE  /\ config["base"] \in Submitted /\ config["base"] \in Text
         /\ config["draft"] \in Items /\ config["active"] \in Items
         /\ config["effective"] \in Text
         /\ config["effective"] = Merge(config["base"], config["active"])
         /\ DOMAIN config = Path
<1>1. \A path \in Path : config[path] \in Content(path)
  BY DEF FilesOK, InSync, Directory
<1>2. config["draft"] \in Items /\ config["active"] \in Items /\ config["effective"] \in Text
  BY <1>1 DEF Content, Path, TextPath, ItemsPath
<1>3. QED
  BY <1>2, DataAssumption DEF FilesOK, InSync, Directory

\* A directory of four documents of which the effective one is the merge.
LEMMA Directories ==
  ASSUME NEW dir \in [Path -> Text \cup Items \cup {NoFile}],
         dir["base"] \in Submitted, dir["draft"] \in Items, dir["active"] \in Items,
         dir["effective"] = Merge(dir["base"], dir["active"])
  PROVE  dir \in Directory /\ InSync(dir) /\ dir["base"] \in Submitted
<1>1. dir["base"] \in Text /\ dir["effective"] \in Text
  BY DataAssumption, MergeAssumption
<1>2. \A path \in Path : dir[path] \in Content(path) /\ dir[path] # NoFile
  BY <1>1, DataAssumption DEF Content, Path, TextPath, ItemsPath
<1>3. QED
  BY <1>2 DEF Directory, InSync

\* An operation leaves four files of which the effective one is the merge.
LEMMA PerformKeepsFiles ==
  ASSUME FilesOK, NEW m \in Message, WellFormed(m), Perform(m)
  PROVE  FilesOK'
<1> USE FilesHold
<1>0. config \in [Path -> Text \cup Items \cup {NoFile}]
  BY DEF FilesOK, Directory
<1>1. CASE StoreDraft(m)
  <2>1. Normalize(m.data) \in Items
    BY <1>1, SessionAssumption DEF StoreDraft, WellFormed
  <2>2. /\ config' \in [Path -> Text \cup Items \cup {NoFile}]
        /\ config'["draft"] = Normalize(m.data)
        /\ config'["base"] = config["base"] /\ config'["active"] = config["active"]
        /\ config'["effective"] = config["effective"]
    BY <1>0, <1>1, <2>1 DEF StoreDraft, Path, TextPath, ItemsPath
  <2>3. QED
    BY <2>1, <2>2, Directories DEF FilesOK
<1>2. CASE StoreBase(m)
  <2>1. m.data \in Submitted /\ m.data \in Text
    BY <1>2, DataAssumption DEF StoreBase, WellFormed
  <2>2. /\ config' \in [Path -> Text \cup Items \cup {NoFile}]
        /\ config'["base"] = m.data /\ config'["draft"] = config["draft"]
        /\ config'["active"] = config["active"]
        /\ config'["effective"] = Merge(m.data, config["active"])
    BY <1>0, <1>2, <2>1, MergeAssumption DEF StoreBase, Path, TextPath, ItemsPath
  <2>3. QED
    BY <2>1, <2>2, Directories DEF FilesOK
<1>3. CASE Activate(m)
  <2>1. /\ config' \in [Path -> Text \cup Items \cup {NoFile}]
        /\ config'["base"] = config["base"] /\ config'["draft"] = config["draft"]
        /\ config'["active"] = config["draft"]
        /\ config'["effective"] = Merge(config["base"], config["draft"])
    BY <1>0, <1>3, MergeAssumption DEF Activate, Path, TextPath, ItemsPath
  <2>2. QED
    BY <2>1, Directories DEF FilesOK
<1>4. CASE UNCHANGED config
  BY <1>4 DEF FilesOK, InSync, Directory
<1>5. QED
  BY <1>1, <1>2, <1>3, <1>4 DEF Perform

\* Every step that may change the files is an operation on a known request.
LEMMA WritersPerform ==
  ASSUME [Next]_vars, UNCHANGED config => FALSE
  PROVE  \E m \in pending \cup lost : Perform(m)
  BY DEF Next, User, Manager, Bridge, Answer, Execute, Fail, ExecuteLost, GiveUp, LoseAnswer,
         ReceiveSaved, ReceivePreview, ReceiveDocument, ReceiveApplied, Reload, SaveDraft,
         Preview, ApplyOverrides, ApplyBase, Edit, Send, vars

\* The files stay in step.
LEMMA FilesNext ==
  ASSUME FilesOK, RequestsOK, [Next]_vars
  PROVE  FilesOK'
<1>1. CASE UNCHANGED config
  BY <1>1 DEF FilesOK, InSync, Directory
<1>2. CASE \E m \in pending \cup lost : Perform(m)
  BY <1>2, PerformKeepsFiles DEF RequestsOK
<1>3. QED
  BY <1>1, <1>2, WritersPerform

-----------------------------------------------------------------------------
\* What a user may submit is a document.
LEMMA EditableType == \A page \in Page : Editable(page) \subseteq Document
  BY DataAssumption DEF Editable

\* What a page loads may be edited on it.
LEMMA StoredEditable ==
  ASSUME FilesOK, NEW page \in Page
  PROVE  Stored(page) \in Editable(page)
  BY FilesHold DEF Stored, PathOf, Editable

\* A page filled with a document of its kind.
LEMMA FilledPage ==
  ASSUME PagesOK, NEW page \in Page, NEW document \in Editable(page), Fill(page, document),
         preview' \in [OverridePage -> Digest \cup {None}], orders' = orders
  PROVE  PagesOK'
<1>1. document \in Document
  BY EditableType
<1>2. /\ content' \in [Page -> Document] /\ revision' \in [Page -> Document]
      /\ filled' = revision' /\ dirty' \in [Page -> BOOLEAN]
  BY <1>1 DEF PagesOK, Fill
<1>3. \A p \in Page : content'[p] \in Editable(p) /\ revision'[p] \in Editable(p)
  BY DEF PagesOK, Fill
<1>4. CleanIsStored'
  <2> SUFFICES ASSUME NEW p \in OverridePage, ~ dirty'[p] PROVE content'[p] = revision'[p]
    BY DEF CleanIsStored
  <2>1. p \in Page
    BY DEF Page
  <2>2. CASE p = page
    BY <2>1, <2>2 DEF PagesOK, Fill
  <2>3. CASE p # page
    BY <2>1, <2>3 DEF PagesOK, Fill, CleanIsStored
  <2>4. QED
    BY <2>2, <2>3
<1>5. QED
  BY <1>2, <1>3, <1>4 DEF PagesOK, Editable

\* A step that leaves the pages alone.
LEMMA PagesKept ==
  ASSUME PagesOK, UNCHANGED pageVars, orders' \in 0 .. MaxOrders
  PROVE  PagesOK'
  BY DEF PagesOK, pageVars, CleanIsStored, Editable

\* Typing marks the page.
LEMMA EditedPage ==
  ASSUME PagesOK, NEW page \in Page, NEW document \in Editable(page), Edit(page, document)
  PROVE  PagesOK'
<1>1. document \in Document
  BY EditableType
<1>2. /\ content' \in [Page -> Document] /\ revision' \in [Page -> Document]
      /\ filled' = revision' /\ dirty' \in [Page -> BOOLEAN] /\ orders' = orders
  BY <1>1 DEF PagesOK, Edit
<1>3. \A p \in Page : content'[p] \in Editable(p) /\ revision'[p] \in Editable(p)
  BY DEF PagesOK, Edit
<1>4. preview' \in [OverridePage -> Digest \cup {None}]
  BY DEF PagesOK, Edit
<1>5. CleanIsStored'
  <2> SUFFICES ASSUME NEW p \in OverridePage, ~ dirty'[p] PROVE content'[p] = revision'[p]
    BY DEF CleanIsStored
  <2>1. p \in Page /\ p # page
    BY DEF Page, Edit, PagesOK
  <2>2. QED
    BY <2>1 DEF PagesOK, Edit, CleanIsStored
<1>6. QED
  BY <1>2, <1>3, <1>4, <1>5 DEF PagesOK, Editable

\* An order is counted.
LEMMA OrderedPage ==
  ASSUME PagesOK, NEW m, Send(m), orders < MaxOrders
  PROVE  PagesOK'
  BY PagesKept, SessionAssumption DEF Send, PagesOK

\* The answer to an apply clears the mark of a configuration page only.
LEMMA AppliedPage ==
  ASSUME PagesOK, NEW m \in Message, WellFormed(m), ReceiveApplied(m)
  PROVE  PagesOK'
<1>1. m.kind = "base" => m.page \notin OverridePage
  BY SessionAssumption DEF WellFormed
<1>2. dirty' \in [Page -> BOOLEAN]
  BY DEF PagesOK, ReceiveApplied
<1>3. CleanIsStored'
  <2> SUFFICES ASSUME NEW p \in OverridePage, ~ dirty'[p] PROVE content'[p] = revision'[p]
    BY DEF CleanIsStored
  <2>1. p \in Page
    BY DEF Page
  <2>2. ~ dirty[p]
    BY <1>1, <2>1 DEF ReceiveApplied, PagesOK
  <2>3. QED
    BY <2>2 DEF ReceiveApplied, PagesOK, CleanIsStored
<1>4. QED
  BY <1>2, <1>3 DEF ReceiveApplied, PagesOK, Editable

\* Every step keeps the pages well formed and clean pages current.
LEMMA PagesNext ==
  ASSUME PagesOK, RequestsOK, [Next]_vars
  PROVE  PagesOK'
<1> USE DEF Page
<1>1. ASSUME NEW page \in Page, NEW document \in Editable(page), Edit(page, document)
      PROVE  PagesOK'
  BY <1>1, EditedPage
<1>2. ASSUME NEW page \in Page,
             ApplyBase(page) \/ Reload(page) \/ SaveDraft(page) \/ Preview(page)
                \/ ApplyOverrides(page)
      PROVE  PagesOK'
  BY <1>2, OrderedPage
     DEF ApplyBase, Reload, SaveDraft, Preview, ApplyOverrides, Room
<1>3. ASSUME NEW m \in pending \cup lost,
             Execute(m) \/ Fail(m) \/ ExecuteLost(m) \/ GiveUp(m) \/ LoseAnswer(m)
      PROVE  PagesOK'
  <2>1. UNCHANGED <<pageVars, orders>>
    BY <1>3 DEF Execute, Fail, ExecuteLost, GiveUp, LoseAnswer
  <2>2. QED
    BY <2>1, PagesKept DEF PagesOK
<1>4. ASSUME NEW m \in pending, ReceiveSaved(m) PROVE PagesOK'
  <2>1. m \in Message /\ m.page \in OverridePage /\ m.answer \in Items
    BY <1>4 DEF RequestsOK, WellFormed, ReceiveSaved
  <2>2. m.answer \in Editable(m.page)
    BY <2>1, SessionAssumption DEF Editable
  <2>3. QED
    BY <1>4, <2>1, <2>2, FilledPage DEF ReceiveSaved, PagesOK
<1>5. ASSUME NEW m \in pending, ReceivePreview(m) PROVE PagesOK'
  <2>1. m \in Message /\ m.page \in OverridePage /\ m.answer \in Digest
    BY <1>5 DEF RequestsOK, WellFormed, ReceivePreview
  <2>2. preview' \in [OverridePage -> Digest \cup {None}]
    BY <1>5, <2>1 DEF ReceivePreview, PagesOK
  <2>3. QED
    BY <1>5, <2>2 DEF ReceivePreview, PagesOK, CleanIsStored, Editable
<1>6. ASSUME NEW m \in pending, ReceiveDocument(m) PROVE PagesOK'
  <2>1. m.page \in Page /\ m.answer \in Editable(m.page)
    BY <1>6 DEF RequestsOK, WellFormed, ReceiveDocument, Message
  <2>2. preview' \in [OverridePage -> Digest \cup {None}]
    BY <1>6 DEF ReceiveDocument, PagesOK
  <2>3. QED
    BY <1>6, <2>1, <2>2, FilledPage DEF ReceiveDocument
<1>7. ASSUME NEW m \in pending, ReceiveApplied(m) PROVE PagesOK'
  BY <1>7, AppliedPage DEF RequestsOK
<1>8. CASE UNCHANGED vars
  BY <1>8, PagesKept DEF vars, PagesOK
<1>9. CASE User
  <2>1. \A page \in ConfigPage, text \in Submitted : Edit(page, text) => PagesOK'
    BY <1>1 DEF Editable
  <2>2. \A page \in OverridePage, items \in Items : Edit(page, items) => PagesOK'
    BY <1>1, SessionAssumption DEF Editable
  <2>3. QED
    BY <1>2, <1>9, <2>1, <2>2 DEF User
<1>10. QED
  BY <1>3, <1>4, <1>5, <1>6, <1>7, <1>8, <1>9 DEF Next, Manager, Bridge, Answer

-----------------------------------------------------------------------------
\* The orders of a page are requests that name what its user saw.
LEMMA OrderWellFormed ==
  ASSUME PagesOK, NEW page \in Page,
         NEW op \in Op
  PROVE  /\ Get(page, op) \in Message /\ WellFormed(Get(page, op))
         /\ page \in OverridePage =>
               /\ PutDraft(page, op) \in Message /\ WellFormed(PutDraft(page, op))
               /\ \A rev \in Document :
                     AskPreview(page, rev) \in Message /\ WellFormed(AskPreview(page, rev))
<1> USE DEF Request, Kind, Op
<1>1. Get(page, op) \in Message /\ WellFormed(Get(page, op))
  BY DEF Get, Message, WellFormed
<1>2. ASSUME page \in OverridePage
      PROVE  PutDraft(page, op) \in Message /\ WellFormed(PutDraft(page, op))
  <2>1. /\ content[page] \in Items /\ revision[page] \in Document
        /\ filled[page] = revision[page]
    BY <1>2, SessionAssumption DEF PagesOK, Editable
  <2>2. QED
    BY <1>2, <2>1 DEF PutDraft, Message, WellFormed
<1>3. ASSUME page \in OverridePage, NEW rev \in Document
      PROVE  AskPreview(page, rev) \in Message /\ WellFormed(AskPreview(page, rev))
  BY <1>3 DEF AskPreview, Message, WellFormed
<1>4. QED
  BY <1>1, <1>2, <1>3

\* So are those of the two applies.
LEMMA ApplyWellFormed ==
  ASSUME PagesOK, NEW page \in Page
  PROVE  /\ page \in ConfigPage =>
               LET m == Request(page, "apply", "base", content[page], revision[page], None, filled[page])
               IN  m \in Message /\ WellFormed(m)
         /\ page \in OverridePage /\ preview[page] # None =>
               LET m == Request(page, "apply", "activate", None, preview[page].draft, preview[page],
                                Merge(preview[page].base, preview[page].draft))
               IN  m \in Message /\ WellFormed(m)
<1> USE DEF Request, Kind, Op
<1>1. ASSUME page \in ConfigPage
      PROVE  LET m == Request(page, "apply", "base", content[page], revision[page], None, filled[page])
             IN  m \in Message /\ WellFormed(m)
  <2>1. /\ content[page] \in Submitted /\ content[page] \in Document
        /\ revision[page] \in Document /\ filled[page] = revision[page]
    BY <1>1 DEF PagesOK, Editable
  <2>2. QED
    BY <1>1, <2>1 DEF Message, WellFormed
<1>2. ASSUME page \in OverridePage, preview[page] # None
      PROVE  LET m == Request(page, "apply", "activate", None, preview[page].draft, preview[page],
                              Merge(preview[page].base, preview[page].draft))
             IN  m \in Message /\ WellFormed(m)
  <2>1. preview[page] \in Digest
    BY <1>2 DEF PagesOK
  <2>2. /\ preview[page].draft \in Document
        /\ Merge(preview[page].base, preview[page].draft) \in Document
    BY <2>1, MergeAssumption
  <2>3. QED
    BY <1>2, <2>1, <2>2 DEF Message, WellFormed
<1>3. QED
  BY <1>1, <1>2

\* An answered request is well formed.
LEMMA AnswerWellFormed ==
  ASSUME FilesOK, NEW m \in Message, WellFormed(m),
         NEW n, n = [m EXCEPT !.status = "done", !.answer = AnswerTo(m)]
  PROVE  n \in Message /\ WellFormed(n)
<1>1. /\ m.kind = "get" => AnswerTo(m) \in Editable(m.page)
      /\ m.kind = "draft" => AnswerTo(m) \in Items
      /\ m.kind = "preview" => AnswerTo(m) \in Digest
      /\ m.kind \notin {"get", "draft", "preview"} => AnswerTo(m) = None
  <2>1. m.kind = "get" => AnswerTo(m) \in Editable(m.page)
    BY StoredEditable DEF AnswerTo, Message
  <2>2. m.kind = "draft" => AnswerTo(m) \in Items
    BY SessionAssumption DEF AnswerTo, WellFormed
  <2>3. m.kind = "preview" => AnswerTo(m) \in Digest
    BY FilesHold DEF AnswerTo, Previewed
  <2>4. m.kind \notin {"get", "draft", "preview"} => AnswerTo(m) = None
    BY DEF AnswerTo
  <2>5. QED
    BY <2>1, <2>2, <2>3, <2>4
<1>2. AnswerTo(m) \in Document \cup Digest \cup {None}
  BY <1>1, EditableType DEF Message
<1>3. n \in Message
  BY <1>2 DEF Message
<1>4. /\ n.page = m.page /\ n.kind = m.kind /\ n.data = m.data /\ n.revision = m.revision
      /\ n.seen = m.seen /\ n.digest = m.digest /\ n.answer = AnswerTo(m)
  BY DEF Message
<1>5. QED
  BY <1>1, <1>3, <1>4 DEF WellFormed

\* Adding well formed requests keeps the rest.
LEMMA RequestsAdded ==
  ASSUME RequestsOK, NEW new,
         new \in Message /\ WellFormed(new),
         pending' \subseteq pending \cup {new}, lost' \subseteq lost \cup pending
  PROVE  RequestsOK'
  BY DEF RequestsOK, WellFormed, Editable

\* Removing and giving up requests keeps the rest.
LEMMA RequestsKept ==
  ASSUME RequestsOK, pending' \subseteq pending, lost' \subseteq lost \cup pending
  PROVE  RequestsOK'
  BY DEF RequestsOK, WellFormed, Editable

\* Every request, at every time, is one that names what its user saw.
LEMMA RequestsNext ==
  ASSUME FilesOK, PagesOK, RequestsOK, [Next]_vars
  PROVE  RequestsOK'
<1> USE DEF Page, Op
<1>1. ASSUME NEW page \in Page, Reload(page) PROVE RequestsOK'
  BY <1>1, OrderWellFormed, RequestsAdded DEF Reload, Send
<1>2. ASSUME NEW page \in OverridePage, SaveDraft(page) PROVE RequestsOK'
  BY <1>2, OrderWellFormed, RequestsAdded DEF SaveDraft, Send
<1>3. ASSUME NEW page \in OverridePage, Preview(page) PROVE RequestsOK'
  <2>1. revision[page] \in Document
    BY DEF PagesOK
  <2>2. QED
    BY <1>3, <2>1, OrderWellFormed, RequestsAdded DEF Preview, Send
<1>4. ASSUME NEW page \in Page,
             \/ page \in ConfigPage /\ ApplyBase(page)
             \/ page \in OverridePage /\ ApplyOverrides(page)
      PROVE  RequestsOK'
  BY <1>4, ApplyWellFormed, RequestsAdded DEF ApplyBase, ApplyOverrides, Send
<1>5. ASSUME NEW m \in pending, Execute(m) PROVE RequestsOK'
  <2>1. m \in Message /\ WellFormed(m)
    BY DEF RequestsOK
  <2>2. PICK n : n = [m EXCEPT !.status = "done", !.answer = AnswerTo(m)]
    OBVIOUS
  <2>3. n \in Message /\ WellFormed(n)
    BY <2>1, <2>2, AnswerWellFormed
  <2>4. pending' \subseteq pending \cup {n} /\ lost' = lost
    BY <1>5, <2>2 DEF Execute, Follow
  <2>5. QED
    BY <2>3, <2>4, RequestsAdded
<1>6. ASSUME NEW m \in pending \cup lost,
             \/ m \in pending /\ (Fail(m) \/ GiveUp(m) \/ LoseAnswer(m))
             \/ m \in lost /\ ExecuteLost(m)
      PROVE  RequestsOK'
  BY <1>6, RequestsKept DEF Fail, ExecuteLost, GiveUp, LoseAnswer, Finish
<1>7. ASSUME NEW m \in pending, ReceiveSaved(m) PROVE RequestsOK'
  <2>1. m \in Message /\ m.page \in OverridePage /\ m.answer \in Items
    BY <1>7 DEF RequestsOK, WellFormed, ReceiveSaved
  <2>2. AskPreview(m.page, m.answer) \in Message /\ WellFormed(AskPreview(m.page, m.answer))
    BY <2>1, OrderWellFormed
  <2>3. QED
    BY <1>7, <2>2, RequestsAdded, RequestsKept DEF ReceiveSaved, Finish, Follow
<1>8. ASSUME NEW m \in pending, ReceivePreview(m) \/ ReceiveDocument(m) PROVE RequestsOK'
  BY <1>8, RequestsKept DEF ReceivePreview, ReceiveDocument, Finish
<1>9. ASSUME NEW m \in pending, ReceiveApplied(m) PROVE RequestsOK'
  <2>1. m.page \in Page
    BY DEF RequestsOK, Message
  <2>2. Get(m.page, "apply") \in Message /\ WellFormed(Get(m.page, "apply"))
    BY <2>1, OrderWellFormed
  <2>3. QED
    BY <1>9, <2>2, RequestsAdded DEF ReceiveApplied, Follow
<1>10. CASE UNCHANGED <<pending, lost>>
  BY <1>10, RequestsKept
<1>11. ASSUME NEW page \in Page, NEW document, Edit(page, document) PROVE RequestsOK'
  BY <1>10, <1>11 DEF Edit
<1>12. CASE User
  <2>1. CASE \E page \in ConfigPage :
                 ApplyBase(page) \/ Reload(page) \/ \E text \in Submitted : Edit(page, text)
    <3>1. PICK page \in ConfigPage :
                  ApplyBase(page) \/ Reload(page) \/ \E text \in Submitted : Edit(page, text)
      BY <2>1
    <3>2. CASE ApplyBase(page)
      BY <1>4, <3>2
    <3>3. CASE Reload(page)
      BY <1>1, <3>3
    <3>4. CASE \E text \in Submitted : Edit(page, text)
      BY <1>11, <3>4
    <3>5. QED
      BY <3>1, <3>2, <3>3, <3>4
  <2>2. CASE \E page \in OverridePage :
                 \/ SaveDraft(page) \/ Preview(page) \/ ApplyOverrides(page) \/ Reload(page)
                 \/ \E items \in Items : Edit(page, items)
    <3>1. PICK page \in OverridePage :
                  \/ SaveDraft(page) \/ Preview(page) \/ ApplyOverrides(page) \/ Reload(page)
                  \/ \E items \in Items : Edit(page, items)
      BY <2>2
    <3>2. CASE SaveDraft(page) \/ Preview(page)
      BY <1>2, <1>3, <3>2
    <3>3. CASE ApplyOverrides(page)
      BY <1>4, <3>3
    <3>4. CASE Reload(page)
      BY <1>1, <3>4
    <3>5. CASE \E items \in Items : Edit(page, items)
      BY <1>11, <3>5
    <3>6. QED
      BY <3>1, <3>2, <3>3, <3>4, <3>5
  <2>3. QED
    BY <1>12, <2>1, <2>2 DEF User
<1>13. CASE Manager \/ Bridge
  BY <1>5, <1>6, <1>13 DEF Manager, Bridge
<1>14. CASE Answer
  BY <1>7, <1>8, <1>9, <1>14 DEF Answer
<1>15. QED
  BY <1>10, <1>12, <1>13, <1>14 DEF Next, vars

-----------------------------------------------------------------------------
\* The directory of a first start, open on every page.
LEMMA SessionInit == Init => SessionInv
<1> SUFFICES ASSUME Init PROVE SessionInv
  OBVIOUS
<1>1. Merge(Default, Empty) \in Text /\ Default \in Text /\ Empty \in Items
  BY DataAssumption, MergeAssumption
<1>2. /\ config \in [Path -> Text \cup Items \cup {NoFile}]
      /\ config["base"] = Default /\ config["draft"] = Empty /\ config["active"] = Empty
      /\ config["effective"] = Merge(Default, Empty)
  BY <1>1 DEF Init, Initialized, Path, TextPath, ItemsPath
<1>3. FilesOK
  BY <1>1, <1>2, Directories, DataAssumption DEF FilesOK
<1>4. \A page \in Page : Stored(page) \in Editable(page) /\ Stored(page) \in Document
  BY <1>3, StoredEditable, EditableType
<1>5. PagesOK
  BY <1>4, SessionAssumption DEF PagesOK, Init, CleanIsStored, Page
<1>6. RequestsOK
  BY DEF RequestsOK, Init
<1>7. QED
  BY <1>3, <1>5, <1>6, Parts

\* SessionInv is inductive.
LEMMA SessionNext == SessionInv /\ [Next]_vars => SessionInv'
<1> SUFFICES ASSUME FilesOK, PagesOK, RequestsOK, [Next]_vars
             PROVE  FilesOK' /\ PagesOK' /\ RequestsOK'
  BY Parts, PTL
<1>1. QED
  BY FilesNext, PagesNext, RequestsNext

\* The files, the pages and the requests are always well formed, and every
\* request names the revision its user saw.
THEOREM SessionInvariant == Spec => []SessionInv
  BY SessionInit, SessionNext, PTL DEF Spec

\* Editors, requests and previews are well formed and the files are in step,
\* for any number of pages, requests and documents.
THEOREM SessionTypes == Spec => []TypeOK
<1>1. SessionInv => TypeOK
  BY DEF SessionInv
<1>2. QED
  BY <1>1, SessionInvariant, PTL

\* A page of overrides without unsaved changes shows the stored revision it names.
THEOREM CleanPagesAreStored == Spec => []CleanIsStored
<1>1. SessionInv => CleanIsStored
  BY DEF SessionInv
<1>2. QED
  BY <1>1, SessionInvariant, PTL

\* A step of the operation of a request, seen by the properties.
LEMMA PerformedAsSeen ==
  ASSUME SessionInv, NEW m \in pending \cup lost, Perform(m)
  PROVE  /\ config'["base"] # config["base"] =>
               m.kind = "base" /\ config'["base"] = m.data /\ m.seen = config["base"]
         /\ config'["draft"] # config["draft"] =>
               m.kind = "draft" /\ config'["draft"] = Normalize(m.data) /\ m.seen = config["draft"]
         /\ \/ config'["active"] # config["active"]
            \/ config'["effective"] # config["effective"] /\ config'["base"] = config["base"]
            => m.kind = "activate" /\ config'["effective"] = m.seen
<1>0. /\ FilesOK /\ WellFormed(m) /\ Accepted(m)
      /\ config \in [Path -> Text \cup Items \cup {NoFile}]
  BY Parts DEF RequestsOK, Perform, FilesOK, Directory
<1> USE <1>0, FilesHold
<1>1. CASE StoreDraft(m)
  BY <1>1 DEF StoreDraft, WellFormed, Accepted, Path, TextPath, ItemsPath
<1>2. CASE StoreBase(m)
  <2>1. /\ config'["base"] = m.data /\ config'["draft"] = config["draft"]
        /\ config'["active"] = config["active"]
        /\ config'["effective"] = Merge(m.data, config["active"])
    BY <1>2 DEF StoreBase, Path, TextPath, ItemsPath
  <2>2. m.kind = "base" /\ m.seen = config["base"]
    BY <1>2 DEF StoreBase, WellFormed, Accepted
  <2>3. QED
    BY <2>1, <2>2
<1>3. CASE Activate(m)
  <2>1. /\ config'["base"] = config["base"] /\ config'["draft"] = config["draft"]
        /\ config'["effective"] = Merge(config["base"], config["draft"])
    BY <1>3 DEF Activate, Path, TextPath, ItemsPath
  <2>2. m.kind = "activate" /\ m.seen = Merge(config["base"], config["draft"])
    BY <1>3 DEF Activate, WellFormed, Accepted, Previewed
  <2>3. QED
    BY <2>1, <2>2
<1>4. CASE UNCHANGED config
  BY <1>4
<1>5. QED
  BY <1>1, <1>2, <1>3, <1>4 DEF Perform

\* Only a request that is still to be executed is.
LEMMA WritersAreSent ==
  ASSUME [Next]_vars, UNCHANGED config => FALSE, \A m \in lost : m.status = "sent"
  PROVE  \E m \in pending \cup lost : m.status = "sent" /\ Perform(m)
  BY DEF Next, User, Manager, Bridge, Answer, Execute, Fail, ExecuteLost, GiveUp, LoseAnswer,
         ReceiveSaved, ReceivePreview, ReceiveDocument, ReceiveApplied, Reload, SaveDraft,
         Preview, ApplyOverrides, ApplyBase, Edit, Send, vars

\* The bridge gives up requests without an answer only.
LEMMA LostAreSent == Spec => [](\A m \in lost : m.status = "sent")
<1> DEFINE Inv == \A m \in lost : m.status = "sent"
<1>1. Init => Inv
  BY DEF Init
<1>2. Inv /\ [Next]_vars => Inv'
  BY DEF Next, User, Manager, Bridge, Answer, Execute, Fail, ExecuteLost, GiveUp, LoseAnswer,
         ReceiveSaved, ReceivePreview, ReceiveDocument, ReceiveApplied, Reload, SaveDraft,
         Preview, ApplyOverrides, ApplyBase, Edit, Send, vars
<1>3. QED
  BY <1>1, <1>2, PTL DEF Spec

\* No base and no draft is overwritten by somebody who did not see it, with any
\* number of browsers and of operations that were given up.
THEOREM NoUpdateIsLost == Spec => NoLostUpdate
<1>1. ASSUME SessionInv, \A m \in lost : m.status = "sent", [Next]_vars,
             NEW path \in {"base", "draft"}, config'[path] # config[path]
      PROVE  \E m \in pending \cup lost :
                m.status = "sent" /\ Replaces(m, path) /\ m.seen = config[path]
  <2>1. PICK m \in pending \cup lost : m.status = "sent" /\ Perform(m)
    BY <1>1, WritersAreSent
  <2>2. QED
    BY <1>1, <2>1, PerformedAsSeen DEF Replaces
<1>2. SessionInv /\ (\A m \in lost : m.status = "sent") /\ [Next]_vars
        => [\A path \in {"base", "draft"} :
              config'[path] # config[path] =>
                 \E m \in pending \cup lost :
                    m.status = "sent" /\ Replaces(m, path) /\ m.seen = config[path]]_vars
  BY <1>1
<1>3. QED
  BY <1>2, SessionInvariant, LostAreSent, PTL DEF Spec, NoLostUpdate

\* What an apply of overrides activates is what its user had in the preview.
THEOREM AppliedWasPreviewed == Spec => AppliedIsPreviewed
<1>1. ASSUME SessionInv, \A m \in lost : m.status = "sent", [Next]_vars,
             \/ config'["active"] # config["active"]
             \/ config'["effective"] # config["effective"] /\ config'["base"] = config["base"]
      PROVE  \E m \in pending \cup lost :
                m.status = "sent" /\ m.kind = "activate" /\ config'["effective"] = m.seen
  <2>1. PICK m \in pending \cup lost : m.status = "sent" /\ Perform(m)
    BY <1>1, WritersAreSent
  <2>2. QED
    BY <1>1, <2>1, PerformedAsSeen
<1>2. SessionInv /\ (\A m \in lost : m.status = "sent") /\ [Next]_vars
        => [\/ config'["active"] # config["active"]
            \/ config'["effective"] # config["effective"] /\ config'["base"] = config["base"]
            => \E m \in pending \cup lost :
                  m.status = "sent" /\ m.kind = "activate" /\ config'["effective"] = m.seen]_vars
  BY <1>1
<1>3. QED
  BY <1>2, SessionInvariant, LostAreSent, PTL DEF Spec, AppliedIsPreviewed

\* The pages, the bridge and the checks together implement AtomicConfig's steps.
THEOREM SessionsAreAtomic == Spec => OnlyWholeOperations
<1>1. ASSUME SessionInv, [Next]_vars PROVE [Atomic!Next]_config
  <2>1. CASE UNCHANGED config
    BY <2>1
  <2>2. CASE \E m \in pending \cup lost : Perform(m)
    <3>1. PICK m \in pending \cup lost : Perform(m)
      BY <2>2
    <3>2. /\ FilesOK /\ InSync(config) /\ WellFormed(m) /\ DOMAIN config = Path
      BY <1>1, Parts, FilesHold DEF RequestsOK, FilesOK
    <3>3. CASE StoreDraft(m)
      <4>1. Normalize(m.data) \in Items
        BY <3>2, <3>3, SessionAssumption DEF StoreDraft, WellFormed
      <4>2. Atomic!SaveDraft(Normalize(m.data))
        BY <3>2, <3>3 DEF StoreDraft, Atomic!SaveDraft, Atomic!InSync, InSync, Atomic!Path, Path,
           Atomic!TextPath, TextPath, Atomic!ItemsPath, ItemsPath
      <4>3. QED
        BY <4>1, <4>2 DEF Atomic!Next
    <3>4. CASE StoreBase(m)
      <4>1. m.data \in Submitted
        BY <3>2, <3>4 DEF StoreBase, WellFormed
      <4>2. Atomic!ApplyBase(m.data)
        BY <3>2, <3>4 DEF StoreBase, Atomic!ApplyBase, Atomic!InSync, InSync, Atomic!Path, Path,
           Atomic!TextPath, TextPath, Atomic!ItemsPath, ItemsPath
      <4>3. QED
        BY <4>1, <4>2 DEF Atomic!Next
    <3>5. CASE Activate(m)
      <4>1. Atomic!ApplyOverrides
        BY <3>2, <3>5 DEF Activate, Atomic!ApplyOverrides, Atomic!InSync, InSync, Atomic!Path, Path,
           Atomic!TextPath, TextPath, Atomic!ItemsPath, ItemsPath
      <4>2. QED
        BY <4>1 DEF Atomic!Next
    <3>6. QED
      BY <3>1, <3>3, <3>4, <3>5, <2>1 DEF Perform
  <2>3. QED
    BY <1>1, <2>1, <2>2, WritersPerform
<1>2. QED
  BY <1>1, SessionInvariant, PTL DEF Spec, OnlyWholeOperations
=============================================================================
