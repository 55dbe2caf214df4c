---------------------------- MODULE ConfigFiles ----------------------------
(***************************************************************************)
(* The four files the configuration manager keeps in /etc/mihomo, and what *)
(* they may contain.  Texts (YAML documents) and override lists are        *)
(* abstract values; what matters of mergeYAML is that the effective text   *)
(* is a function of the base text and of the override list.                *)
(***************************************************************************)
CONSTANTS
    Text,        \* YAML documents: base, effective and what Mihomo loads
    Items,       \* override lists
    Submitted,   \* the documents a user may submit as base
    Default,     \* defaultBaseConfiguration
    Empty,       \* the empty override list, written as "[]"
    NoFile,      \* the content of a path that does not exist
    Merge(_, _)  \* mergeYAML: effective text of a base and an override list

ASSUME DataAssumption ==
    /\ Submitted \subseteq Text
    /\ Default \in Submitted
    /\ Empty \in Items
    /\ NoFile \notin Text \cup Items

ASSUME MergeAssumption ==
    \A text \in Text, items \in Items : Merge(text, items) \in Text

TextPath  == {"base", "effective"}
ItemsPath == {"draft", "active"}
Path      == TextPath \cup ItemsPath

Content(path) == IF path \in TextPath THEN Text ELSE Items

\* The directory as a function from path to content, absent files included.
Directory == {dir \in [Path -> Text \cup Items \cup {NoFile}] :
                 \A path \in Path : dir[path] \in Content(path) \cup {NoFile}}

\* config.go initialize(): what a missing file is created with.
InitialContent(dir, path) ==
    IF path \in ItemsPath THEN Empty
    ELSE IF path = "base" THEN (IF dir["effective"] # NoFile THEN dir["effective"] ELSE Default)
    ELSE Merge(dir["base"], dir["active"])

\* The effective file is what mergeYAML makes of base and active overrides.
InSync(dir) ==
    /\ \A path \in Path : dir[path] # NoFile
    /\ dir["effective"] = Merge(dir["base"], dir["active"])

(***************************************************************************)
(* A fresh package: at most the effective file of an earlier Mihomo        *)
(* installation is there.                                                  *)
(***************************************************************************)
FreshDirectories ==
    {[path \in Path |-> IF path = "effective" THEN legacy ELSE NoFile] :
        legacy \in Submitted \cup {NoFile}}
=============================================================================
