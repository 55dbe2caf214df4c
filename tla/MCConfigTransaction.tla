------------------------ MODULE MCConfigTransaction ------------------------
(***************************************************************************)
(* A small instance for TLC.  A text is a pair of the document a user      *)
(* wrote and of what was merged into it last, "raw" if nothing was.        *)
(***************************************************************************)
EXTENDS ConfigTransaction

CONSTANTS baseA, baseB, raw, none, some

MCItems     == {none, some}
MCText      == {baseA, baseB} \X {raw, none, some}
MCSubmitted == {baseA, baseB} \X {raw}
MCDefault   == <<baseA, raw>>
MCMerge(text, items) == <<text[1], items>>


\* Faults the journal protects the files against: everything but a rollback
\* that cannot be completed (MayFail) and a directory that cannot be synced
\* after the journal was written, removed or restored from (MayFailLate).
TolerableFail     == Step \ {"rollback"}
TolerableFailLate == {"create", "draft", "probe", "backup", "write", "reload", "recover"}
\* Faults of the undisturbed run: the panel lives on, its probe and its
\* restart work, and it never gives up after it has written a file.
UndisturbedFail     == TolerableFail \ {"crash", "restart", "write"}
UndisturbedFailLate == TolerableFailLate \ {"probe", "write"}
Nothing           == {}
Journalling       == {"journal"}
AllEvents         == ServiceEvent
Stopping          == {"stop"}
=============================================================================
