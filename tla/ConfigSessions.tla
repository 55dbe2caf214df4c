--------------------------- MODULE ConfigSessions ---------------------------
(***************************************************************************)
(* Several browsers edit the configuration through the bridge: the pages   *)
(* view/mihomo/config.js and view/mihomo/overrides.js, the requests they   *)
(* have under way (mihomo.uc), and the manager that checks the revision    *)
(* and the digest a request names (internal/panel/config.go).              *)
(*                                                                         *)
(* An operation of the manager is one step here: it holds manager.mu, and  *)
(* ConfigTransaction shows that its change of several files is atomic.     *)
(* Before it and after it everything interleaves: other pages, further     *)
(* edits, other orders of the same page, and the bridge, which may give up *)
(* while the operation is still to come.                                   *)
(*                                                                         *)
(* A revision (SHA-256 of a content) is modelled by the content and the    *)
(* digest of a preview by what it hashes: base and draft, of which the     *)
(* effective text is a function.                                           *)
(***************************************************************************)
EXTENDS ConfigFiles, Naturals, FiniteSets

CONSTANTS
    ConfigPage,    \* open pages of view/mihomo/config.js
    OverridePage,  \* open pages of view/mihomo/overrides.js
    Normalize(_),  \* normalizeOverrideItems: trimmed names, generated IDs
    MaxOrders,     \* bound on the orders the users give
    MaxPending,    \* bound on the requests under way at a time
    MaxLost,       \* bound on the requests the bridge gave up, at a time
    None           \* no value

Page     == ConfigPage \cup OverridePage
Document == Text \cup Items

ASSUME SessionAssumption ==
    /\ ConfigPage \cap OverridePage = {}
    /\ \A items \in Items : Normalize(items) \in Items
    /\ None \notin Document /\ MaxOrders \in Nat /\ MaxPending \in Nat /\ MaxLost \in Nat

VARIABLES
    config,   \* the four files
    content,  \* per page: what its editors hold (baseEditor, items)
    revision, \* per page: data.baseRevision or state.draftRevision
    dirty,    \* per page: its field dirty
    preview,  \* per override page: previewDigest, previewDraftRevision and the panel
    filled,   \* history, per page: the document its editors were last filled with
    pending,  \* requests whose answer a page waits for
    lost,     \* requests the bridge has given up and the manager may still execute
    orders    \* how many orders were given

pageVars == <<content, revision, dirty, preview, filled>>
vars == <<config, pageVars, pending, lost, orders>>

\* The orders a user gives.
Op   == {"save", "preview", "apply", "reload"}
Kind == {"get", "draft", "preview", "activate", "base"}
Writing == {"draft", "activate", "base"}

Digest == [base : Text, draft : Items]

Message ==
    [page : Page, op : Op, kind : Kind,
     data : Document \cup {None},       \* the items or the text to store
     revision : Document \cup {None},   \* the revision the request names
     digest : Digest \cup {None},
     seen : Document \cup {None},       \* history: what the user had before him
     status : {"sent", "done"},
     answer : Document \cup Digest \cup {None}]

\* Faulty variant: the page loads the effective text into its editor.
EffectivePathOf(page) == IF page \in ConfigPage THEN "effective" ELSE "draft"

\* The document a page edits, and what a get returns to it.
PathOf(page) == IF page \in ConfigPage THEN "base" ELSE "draft"
Stored(page) == config[PathOf(page)]

\* The directory a first start of the panel leaves; the pages open on it.
Initialized ==
    [path \in Path |-> IF path = "base" THEN Default
                       ELSE IF path = "effective" THEN Merge(Default, Empty)
                       ELSE Empty]

Init ==
    /\ config = Initialized
    /\ content = [page \in Page |-> Stored(page)]
    /\ revision = content /\ filled = content
    /\ dirty = [page \in Page |-> FALSE]
    /\ preview = [page \in OverridePage |-> None]
    /\ pending = {} /\ lost = {} /\ orders = 0

-----------------------------------------------------------------------------
(* The user.                                                               *)

Request(page, op, kind, data, rev, digest, seen) ==
    [page |-> page, op |-> op, kind |-> kind, data |-> data, revision |-> rev,
     digest |-> digest, seen |-> seen, status |-> "sent", answer |-> None]

Get(page, op)     == Request(page, op, "get", None, None, None, None)
PutDraft(page, op) ==
    Request(page, op, "draft", content[page], revision[page], None, filled[page])
AskPreview(page, rev) == Request(page, "preview", "preview", None, rev, None, None)

\* The bounds of the model.
Room == Cardinality(pending) < MaxPending /\ orders < MaxOrders

\* setBusy disables the button of an order while it runs.
Idle(page, op) == \A m \in pending : m.page = page => m.op # op

Send(m) ==
    /\ pending' = pending \cup {m} /\ orders' = orders + 1
    /\ UNCHANGED <<config, pageVars, lost>>

\* Typing in an editor, adding, moving or deleting an override.
Edit(page, document) ==
    /\ document # content[page]
    /\ content' = [content EXCEPT ![page] = document]
    /\ dirty' = [dirty EXCEPT ![page] = TRUE]
    /\ preview' = IF page \in OverridePage THEN [preview EXCEPT ![page] = None] ELSE preview
    /\ UNCHANGED <<config, revision, filled, pending, lost, orders>>

\* With unsaved changes the user is asked first, and agreed.
Reload(page) == Room /\ Send(Get(page, "reload"))

SaveDraft(page) == Room /\ Idle(page, "save") /\ Send(PutDraft(page, "save"))

Preview(page) ==
    /\ Room /\ Idle(page, "preview")
    /\ Send(IF dirty[page] THEN PutDraft(page, "preview") ELSE AskPreview(page, revision[page]))

\* The panel shows the merge of what its digest names.  The button works whenever
\* there is a preview, during an apply too: updateState enables it again.
ApplyOverrides(page) ==
    /\ Room /\ preview[page] # None
    /\ Send(Request(page, "apply", "activate", None, preview[page].draft, preview[page],
                    Merge(preview[page].base, preview[page].draft)))

ApplyBase(page) ==
    /\ Room /\ Idle(page, "apply")
    /\ Send(Request(page, "apply", "base", content[page], revision[page], None, filled[page]))

-----------------------------------------------------------------------------
(* The manager: what an operation that holds manager.mu does.              *)

Previewed == [base |-> config["base"], draft |-> config["draft"]]

\* Faulty variant: any browser may replace the draft.
AcceptedAnyDraft(m) ==
    /\ m.kind = "preview"  => m.revision = config["draft"]
    /\ m.kind = "base"     => m.revision = config["base"]
    /\ m.kind = "activate" => m.revision = config["draft"] /\ m.digest = Previewed

\* Faulty variant: the revision of the draft stands for the whole preview.
AcceptedAnyDigest(m) ==
    /\ m.kind \in {"draft", "preview", "activate"} => m.revision = config["draft"]
    /\ m.kind = "base" => m.revision = config["base"]

\* The revision and the digest a request names are those of the files.
Accepted(m) ==
    /\ m.kind \in {"draft", "preview", "activate"} => m.revision = config["draft"]
    /\ m.kind = "base"     => m.revision = config["base"]
    /\ m.kind = "activate" => m.digest = Previewed

StoreDraft(m) ==
    /\ m.kind = "draft"
    /\ config' = [config EXCEPT !["draft"] = Normalize(m.data)]

StoreBase(m) ==
    /\ m.kind = "base"
    /\ config' = [config EXCEPT !["base"] = m.data,
                                !["effective"] = Merge(m.data, config["active"])]

Activate(m) ==
    /\ m.kind = "activate"
    /\ config' = [config EXCEPT !["active"] = config["draft"],
                                !["effective"] = Merge(config["base"], config["draft"])]

Perform(m) ==
    /\ Accepted(m)
    /\ \/ StoreDraft(m) \/ StoreBase(m) \/ Activate(m)
       \/ m.kind \notin Writing /\ UNCHANGED config

AnswerTo(m) ==
    IF m.kind = "get" THEN Stored(m.page)
    ELSE IF m.kind = "draft" THEN Normalize(m.data)
    ELSE IF m.kind = "preview" THEN Previewed
    ELSE None

Finish(m)       == pending' = pending \ {m}
Follow(m, next) == pending' = (pending \ {m}) \cup {next}

Execute(m) ==
    /\ m.status = "sent" /\ Perform(m)
    /\ Follow(m, [m EXCEPT !.status = "done", !.answer = AnswerTo(m)])
    /\ UNCHANGED <<pageVars, lost, orders>>

\* A stale revision or digest, or another error, after which the files are as
\* before, except that a draft whose directory cannot be synced is stored.
\* An error changes nothing in a page, so that its way to the page is left out.
Fail(m) ==
    /\ m.status = "sent" /\ Finish(m)
    /\ \/ UNCHANGED config
       \/ m.kind = "draft" /\ Perform(m)
    /\ UNCHANGED <<pageVars, lost, orders>>

-----------------------------------------------------------------------------
(* The bridge: no data for 95 seconds, a connection the server closed      *)
(* after its WriteTimeout, or a panel that died.  The page gets an error.  *)

\* The operation is still to come, or never happens.
GiveUp(m) ==
    /\ m.status = "sent" /\ m.kind \in Writing /\ Cardinality(lost) < MaxLost
    /\ Finish(m) /\ lost' = lost \cup {m}
    /\ UNCHANGED <<config, pageVars, orders>>

LoseAnswer(m) ==
    /\ m.status = "done" /\ Finish(m)
    /\ UNCHANGED <<config, pageVars, lost, orders>>

\* The operation goes on without its page.
ExecuteLost(m) ==
    /\ lost' = lost \ {m}
    /\ UNCHANGED config \/ Perform(m)
    /\ UNCHANGED <<pageVars, pending, orders>>

-----------------------------------------------------------------------------
(* A page handles an answer.                                               *)

Fill(page, document) ==
    /\ content' = [content EXCEPT ![page] = document]
    /\ revision' = [revision EXCEPT ![page] = document]
    /\ filled' = [filled EXCEPT ![page] = document]
    /\ dirty' = [dirty EXCEPT ![page] = FALSE]

\* Faulty variant: only the revision is taken from the answer.
ReceiveSavedRevision(m) ==
    /\ m.status = "done" /\ m.kind = "draft"
    /\ revision' = [revision EXCEPT ![m.page] = m.answer]
    /\ filled' = revision'
    /\ dirty' = [dirty EXCEPT ![m.page] = FALSE]
    /\ IF m.op = "preview" THEN Follow(m, AskPreview(m.page, m.answer)) ELSE Finish(m)
    /\ UNCHANGED <<config, content, preview, lost, orders>>

\* saveDraft's answer, and the request for the preview that waited for it.
ReceiveSaved(m) ==
    /\ m.status = "done" /\ m.kind = "draft"
    /\ Fill(m.page, m.answer)
    /\ IF m.op = "preview" THEN Follow(m, AskPreview(m.page, m.answer))
                           ELSE Finish(m)
    /\ UNCHANGED <<config, preview, lost, orders>>

ReceivePreview(m) ==
    /\ m.status = "done" /\ m.kind = "preview"
    /\ preview' = [preview EXCEPT ![m.page] = m.answer]
    /\ Finish(m)
    /\ UNCHANGED <<config, content, revision, dirty, filled, lost, orders>>

\* "get" after an apply, or a reload.
ReceiveDocument(m) ==
    /\ m.status = "done" /\ m.kind = "get"
    /\ Fill(m.page, m.answer)
    /\ preview' = IF m.page \in OverridePage THEN [preview EXCEPT ![m.page] = None] ELSE preview
    /\ Finish(m)
    /\ UNCHANGED <<config, lost, orders>>

\* An apply succeeded: the page loads what is stored now.
ReceiveApplied(m) ==
    /\ m.status = "done" /\ m.kind \in {"activate", "base"}
    /\ dirty' = IF m.kind = "base" THEN [dirty EXCEPT ![m.page] = FALSE] ELSE dirty
    /\ Follow(m, Get(m.page, "apply"))
    /\ UNCHANGED <<config, content, revision, preview, filled, lost, orders>>

-----------------------------------------------------------------------------
User ==
    \/ \E page \in ConfigPage :
        ApplyBase(page) \/ Reload(page) \/ \E text \in Submitted : Edit(page, text)
    \/ \E page \in OverridePage :
        \/ SaveDraft(page) \/ Preview(page) \/ ApplyOverrides(page) \/ Reload(page)
        \/ \E items \in Items : Edit(page, items)

Manager ==
    \/ \E m \in pending : Execute(m) \/ Fail(m)
    \/ \E m \in lost : ExecuteLost(m)

Bridge == \E m \in pending : GiveUp(m) \/ LoseAnswer(m)

Answer ==
    \E m \in pending :
        \/ ReceiveSaved(m) \/ ReceivePreview(m)
        \/ ReceiveDocument(m) \/ ReceiveApplied(m)

Next == User \/ Manager \/ Bridge \/ Answer

Spec == Init /\ [][Next]_vars

-----------------------------------------------------------------------------
(* Properties.                                                             *)

\* A page's editors hold a document a user may submit, every request and
\* every preview is well formed, and the four files are in step.
Editable(page) == IF page \in ConfigPage THEN Submitted ELSE Items

TypeOK ==
    /\ config \in Directory /\ InSync(config) /\ config["base"] \in Submitted
    /\ content \in [Page -> Document] /\ \A page \in Page : content[page] \in Editable(page)
    /\ revision \in [Page -> Document] /\ filled \in [Page -> Document]
    /\ \A page \in Page : revision[page] \in Editable(page)
    /\ dirty \in [Page -> BOOLEAN]
    /\ preview \in [OverridePage -> Digest \cup {None}]
    /\ pending \subseteq Message /\ lost \subseteq Message
    /\ orders \in 0 .. MaxOrders

\* A base or a draft is replaced only on behalf of a user whose editor was last
\* filled with the very content that is replaced: nobody's saved work is
\* overwritten unseen, whichever browsers edit at the same time and although an
\* operation the bridge gave up may still be executed after a retry
\* (config.go ApplyBase and SaveDraft: the revision check under manager.mu).
Replaces(m, path) ==
    \/ path = "base" /\ m.kind = "base" /\ config'[path] = m.data
    \/ path = "draft" /\ m.kind = "draft" /\ config'[path] = Normalize(m.data)

NoLostUpdate ==
    [][\A path \in {"base", "draft"} :
          config'[path] # config[path] =>
             \E m \in pending \cup lost :
                m.status = "sent" /\ Replaces(m, path) /\ m.seen = config[path]]_vars

\* The active overrides change, and the effective text without a new base, only
\* by an apply whose user had that effective text before him in the preview when
\* he confirmed (overrides.js apply: "activate exactly the configuration shown
\* in the current preview"; config.go ApplyOverrides: the digest check).
AppliedIsPreviewed ==
    [][\/ config'["active"] # config["active"]
       \/ config'["effective"] # config["effective"] /\ config'["base"] = config["base"]
       => \E m \in pending \cup lost :
             m.status = "sent" /\ m.kind = "activate" /\ config'["effective"] = m.seen]_vars

\* An override page without unsaved changes shows the content of the revision it
\* would name: a preview it orders without saving first is one of what it shows
\* (overrides.js saveDraft takes the normalized items, preview tests dirty).
CleanIsStored ==
    \A page \in OverridePage : ~ dirty[page] => content[page] = revision[page]

\* Whatever the pages and the bridge do, the files change by the operations of
\* AtomicConfig only.
Atomic == INSTANCE AtomicConfig

OnlyWholeOperations == [][Atomic!Next]_config

\* The panel that says "Preview is current" is the preview of the items on the
\* page (overrides.js preview and changed).
PreviewIsCurrent == \A page \in OverridePage : preview[page] # None => ~ dirty[page]

-----------------------------------------------------------------------------
(* What is true of every request: it names the revision its user saw.      *)

WellFormed(m) ==
    /\ m.kind = "draft" => m.page \in OverridePage /\ m.data \in Items
    /\ m.kind = "base"  => m.page \in ConfigPage /\ m.data \in Submitted
    /\ m.kind \in {"draft", "base"} => m.revision = m.seen
    /\ m.kind = "activate" => m.digest \in Digest /\ m.seen = Merge(m.digest.base, m.digest.draft)
    /\ m.kind = "preview" => m.page \in OverridePage
    /\ m.status = "done" =>
          /\ m.kind = "get" => m.answer \in Editable(m.page)
          /\ m.kind = "draft" => m.answer \in Items
          /\ m.kind = "preview" => m.answer \in Digest

SessionInv ==
    /\ TypeOK /\ CleanIsStored /\ filled = revision
    /\ \A m \in pending \cup lost : WellFormed(m)
=============================================================================
