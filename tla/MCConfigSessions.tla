-------------------------- MODULE MCConfigSessions --------------------------
(***************************************************************************)
(* A small instance of the pages and the manager for TLC.                  *)
(***************************************************************************)
EXTENDS ConfigSessions, TLC

CONSTANTS config1, override1, override2, baseA, baseB, raw, none, some, spaced

OneConfigPage    == {config1}
TwoOverridePages == {override1, override2}

Base   == {baseA, baseB}
Lists  == {none, some, spaced}

\* A text is the document a user wrote and the list merged into it.
Texts       == [document : Base, list : Lists \cup {raw}]
Documents   == [document : Base, list : {raw}]
DefaultText == [document |-> baseA, list |-> raw]
Merged(text, items) == [text EXCEPT !.list = items]

\* The names in the third list carry blanks that the manager trims.
Trimmed(items) == IF items = spaced THEN some ELSE items

Interchangeable == Permutations(TwoOverridePages)
=============================================================================
