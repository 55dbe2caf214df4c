------------------------------ MODULE YamlMerge ------------------------------
(***************************************************************************)
(* internal/panel/yamlmerge.go: a base document and the enabled overrides, *)
(* top to bottom, make the effective document.  The keys of an override    *)
(* carry operators: `key!`, `+key`, `key+`, and `<key>` to escape them.    *)
(*                                                                         *)
(* A mapping keeps its entries in order, and may repeat a key; a key is    *)
(* its sequence of characters.  Anything that is neither a mapping nor an  *)
(* array is a leaf, an alias of YAML too: the code looks at the kind of a  *)
(* node only.  A recursion into a document is a recursive function of the  *)
(* levels it may still have, so that it can be reasoned about.             *)
(***************************************************************************)
EXTENDS Naturals, Sequences, SequencesExt

CONSTANTS
    Character,  \* of keys
    Scalar,     \* the values of leaves
    Item,       \* the elements of arrays, which a merge never looks into
    MaxDepth,   \* how deep mappings nest in a document: the parser's max_indents
    Document,   \* what a base may say, as the entries of its mapping
    Unreadable, \* any text parseYAMLDocument refuses
    Override,   \* overrides: whether it is enabled, and its content
    SocketKey,  \* "external-controller-unix"
    SocketPath, \* defaultControllerSocket, as a leaf
    MaxOverrides \* bound on the overrides of a list

VARIABLES
    base,      \* the base document
    overrides, \* those merged so far, the disabled and the refused ones too
    root,      \* the mapping mergeYAML works on, then the effective document
    status     \* "merging", "done", or "refused": mergeYAML returns an error

vars == <<base, overrides, root, status>>

Entry(key, value) == [key |-> key, value |-> value]
Leaf(value)       == [kind |-> "leaf", value |-> value]
Array(items)      == [kind |-> "array", items |-> items]
Mapping(entries)  == [kind |-> "mapping", entries |-> entries]

Key  == Seq(Character)
Flat == [kind : {"leaf"}, value : Scalar] \cup [kind : {"array"}, items : Seq(Item)]

\* What a document with n levels of mappings and certain keys may say.
WithMappings(names, values) ==
    Flat \cup [kind : {"mapping"}, entries : Seq([key : names, value : values])]

ValuesOver(names, n) ==
    LET level[i \in Nat] == IF i = 0 THEN Flat ELSE WithMappings(names, level[i - 1])
    IN  level[n]

EntriesOver(names, n) == Seq([key : names, value : ValuesOver(names, n)])

Values(n)  == ValuesOver(Key, n)
Entries(n) == EntriesOver(Key, n)

ASSUME MergeAssumption ==
    /\ MaxDepth \in Nat /\ MaxOverrides \in Nat
    /\ Document \subseteq Entries(MaxDepth) /\ Unreadable \notin Entries(MaxDepth)
    /\ Override \subseteq [enabled : BOOLEAN, content : Entries(MaxDepth) \cup {Unreadable}]
    /\ SocketKey \in Key \ {<<>>} /\ SocketPath \in [kind : {"leaf"}, value : Scalar]

-----------------------------------------------------------------------------
Operator == {"normal", "force", "prepend", "append"}

HasPrefix(raw, prefix) ==
    Len(prefix) <= Len(raw) /\ \A i \in 1 .. Len(prefix) : raw[i] = prefix[i]

HasSuffix(raw, suffix) ==
    /\ Len(suffix) <= Len(raw)
    /\ \A i \in 1 .. Len(suffix) : raw[Len(raw) - Len(suffix) + i] = suffix[i]

\* Faulty variant: the operators are looked for before the brackets.
ParseOperatorsFirst(raw) ==
    LET n == Len(raw)
        Parsed(first, last, operator) ==
            [key |-> SubSeq(raw, first, last), operator |-> operator]
    IN  IF HasSuffix(raw, <<"!">>) THEN Parsed(1, n - 1, "force")
        ELSE IF HasPrefix(raw, <<"+">>) THEN Parsed(2, n, "prepend")
        ELSE IF HasSuffix(raw, <<"+">>) THEN Parsed(1, n - 1, "append")
        ELSE IF HasPrefix(raw, <<"<">>) /\ HasSuffix(raw, <<">">>) /\ n >= 2
             THEN Parsed(2, n - 1, "normal")
        ELSE Parsed(1, n, "normal")

\* The first rule that fits decides.
ParseMergeKey(raw) ==
    LET n == Len(raw)
        Enclosed(open, close) == HasPrefix(raw, open) /\ HasSuffix(raw, close)
        Parsed(first, last, operator) ==
            [key |-> SubSeq(raw, first, last), operator |-> operator]
    IN  IF Enclosed(<<"<">>, <<">">>) /\ n >= 2 THEN Parsed(2, n - 1, "normal")
        ELSE IF Enclosed(<<"+", "<">>, <<">">>) /\ n >= 3 THEN Parsed(3, n - 1, "prepend")
        ELSE IF Enclosed(<<"<">>, <<">", "+">>) /\ n >= 3 THEN Parsed(2, n - 2, "append")
        ELSE IF HasSuffix(raw, <<"!">>) THEN Parsed(1, n - 1, "force")
        ELSE IF HasPrefix(raw, <<"+">>) THEN Parsed(2, n, "prepend")
        ELSE IF HasSuffix(raw, <<"+">>) THEN Parsed(1, n - 1, "append")
        ELSE Parsed(1, n, "normal")

-----------------------------------------------------------------------------
\* The place of a key in a mapping, 0 if it is not there.
MappingIndex(entries, key) == SelectInSeq(entries, LAMBDA entry : entry.key = key)

\* Faulty variant: a value that is replaced moves to the end.
SetAtEnd(entries, index, key, value) ==
    Append(IF index = 0 THEN entries ELSE RemoveAt(entries, index), Entry(key, value))

SetMappingNode(entries, index, key, value) ==
    IF index = 0 THEN Append(entries, Entry(key, value))
    ELSE [entries EXCEPT ![index] = Entry(key, value)]

\* mergeMapping returned an error; the caller drops the mapping.
Refused         == [ok |-> FALSE, entries |-> <<>>]
Merged(entries) == [ok |-> TRUE, entries |-> entries]

\* The array operators.
MergeArray(entries, index, parsed, value) ==
    IF \/ value.kind # "array"
       \/ index # 0 /\ entries[index].value.kind # "array"
    THEN Refused
    ELSE LET current == IF index = 0 THEN <<>> ELSE entries[index].value.items
             combined == IF parsed.operator = "prepend" THEN value.items \o current
                                                        ELSE current \o value.items
         IN  Merged(SetMappingNode(entries, index, parsed.key, Array(combined)))

\* Faulty variant: the key is looked up with its operator.
MergeEntryByRawKey(inner, entries, entry) ==
    LET parsed == ParseMergeKey(entry.key)
        index  == MappingIndex(entries, entry.key)
    IN  IF parsed.key = <<>> THEN Refused
        ELSE IF parsed.operator \in {"prepend", "append"}
             THEN MergeArray(entries, index, parsed, entry.value)
        ELSE Merged(SetMappingNode(entries, index, parsed.key, entry.value))

\* One entry of the patch; inner is the function for the mappings in mappings.
MergeEntry(inner, entries, entry) ==
    LET parsed == ParseMergeKey(entry.key)
        index  == MappingIndex(entries, parsed.key)
    IN  IF parsed.key = <<>> THEN Refused
        ELSE IF parsed.operator \in {"prepend", "append"}
             THEN MergeArray(entries, index, parsed, entry.value)
        ELSE IF /\ parsed.operator = "normal" /\ index # 0
                /\ entries[index].value.kind = "mapping" /\ entry.value.kind = "mapping"
             THEN LET result == inner[<<entries[index].value.entries, entry.value.entries>>]
                  IN  IF result.ok
                      THEN Merged(SetMappingNode(entries, index, parsed.key,
                                                 Mapping(result.entries)))
                      ELSE Refused
        ELSE Merged(SetMappingNode(entries, index, parsed.key, entry.value))

\* Entry by entry; the first error ends it.
NextEntry(inner, patch, result, i) ==
    IF result.ok THEN MergeEntry(inner, result.entries, patch[i]) ELSE result

MergedUpTo(inner, target, patch, n) ==
    LET after[i \in Nat] ==
            IF i = 0 THEN Merged(target) ELSE NextEntry(inner, patch, after[i - 1], i)
    IN  after[n]

\* mergeMapping for mappings with n more levels in them.
MergeLevel(n, inner) ==
    [pair \in Entries(n) \X Entries(n) |->
        MergedUpTo(inner, pair[1], pair[2], Len(pair[2]))]

Merging[n \in Nat] == IF n = 0 THEN MergeLevel(0, <<>>) ELSE MergeLevel(n, Merging[n - 1])

MergeMapping(target, patch) == Merging[MaxDepth][<<target, patch>>]

-----------------------------------------------------------------------------
(* mergeYAML                                                               *)

\* The first parse.
Init ==
    /\ base \in Document \cup {Unreadable}
    /\ overrides = <<>>
    /\ root = IF base = Unreadable THEN <<>> ELSE base
    /\ status = IF base = Unreadable THEN "refused" ELSE "merging"

\* What a round of the loop does; a disabled override is not even parsed.
MergedWith(entries, override) ==
    IF ~ override.enabled THEN Merged(entries)
    ELSE IF override.content = Unreadable THEN Refused
    ELSE MergeMapping(entries, override.content)

\* Faulty variant: the mapping is returned as far as it was merged before.
MergeOverrideKeeping(override) ==
    /\ status = "merging" /\ Len(overrides) < MaxOverrides
    /\ overrides' = Append(overrides, override)
    /\ LET result == MergedWith(root, override)
       IN  /\ root' = IF result.ok THEN result.entries ELSE root
           /\ status' = IF result.ok THEN "merging" ELSE "refused"
    /\ UNCHANGED base

MergeOverride(override) ==
    /\ status = "merging" /\ Len(overrides) < MaxOverrides
    /\ overrides' = Append(overrides, override)
    /\ LET result == MergedWith(root, override)
       IN  /\ root' = result.entries
           /\ status' = IF result.ok THEN "merging" ELSE "refused"
    /\ UNCHANGED base

\* setMappingScalar: the controller socket is the panel's, whatever was merged.
Finish ==
    /\ status = "merging"
    /\ root' = SetMappingNode(root, MappingIndex(root, SocketKey), SocketKey, SocketPath)
    /\ status' = "done"
    /\ UNCHANGED <<base, overrides>>

Next == (\E override \in Override : MergeOverride(override)) \/ Finish

Spec == Init /\ [][Next]_vars

-----------------------------------------------------------------------------
(* What the documentation says of a merge: a mapping is a set of named     *)
(* values without an order, of which only the first with a name counts,    *)
(* and what an override makes of a name is a matter of that name alone.    *)

Keys(entries) == {entries[i].key : i \in DOMAIN entries}

First(entries, key) == entries[MappingIndex(entries, key)].value

NamedValues(meaning, entries) ==
    {Entry(key, meaning[First(entries, key)]) : key \in Keys(entries)}

Unordered(named) == [kind |-> "mapping", named |-> named]

MeaningLevel(n, inner) ==
    [value \in Values(n) |->
        IF value.kind = "mapping" THEN Unordered(NamedValues(inner, value.entries)) ELSE value]

Meaning[n \in Nat] == IF n = 0 THEN MeaningLevel(0, <<>>) ELSE MeaningLevel(n, Meaning[n - 1])

\* The set of named values a document stands for.
Said(n, entries) == NamedValues(Meaning[n], entries)

\* The meanings of documents with n levels.
Meanings[n \in Nat] ==
    IF n = 0 THEN Flat
    ELSE Flat \cup [kind : {"mapping"}, named : SUBSET [key : Key, value : Meanings[n - 1]]]

Absent == [kind |-> "absent"]
Misuse == [kind |-> "misuse"]

Names(named) == {entry.key : entry \in named}

ValueOf(named, key) ==
    IF key \in Names(named) THEN (CHOOSE entry \in named : entry.key = key).value ELSE Absent

\* What an operator with a value makes of what a name stands for.
OverriddenBy(inner, current, operator, value, meaning) ==
    IF current.kind = "misuse" THEN Misuse
    ELSE IF operator \in {"prepend", "append"}
    THEN IF value.kind # "array" \/ current.kind \notin {"array", "absent"} THEN Misuse
         ELSE IF current.kind = "absent" THEN value
         ELSE Array(IF operator = "prepend" THEN value.items \o current.items
                                            ELSE current.items \o value.items)
    ELSE IF operator = "normal" /\ value.kind = "mapping" /\ current.kind = "mapping"
    THEN LET result == inner[<<current.named, value.entries>>]
         IN  IF result.ok THEN Unordered(result.named) ELSE Misuse
    ELSE meaning

\* What the first entries of a patch that name a key make of it.
OverrideKey(n, inner, patch, key, current, i) ==
    LET parsed == ParseMergeKey(patch[i].key)
    IN  IF parsed.key # key THEN current
        ELSE OverriddenBy(inner, current, parsed.operator, patch[i].value,
                          Meaning[n][patch[i].value])

OverriddenUpTo(n, inner, named, patch, key, m) ==
    LET after[i \in Nat] ==
            IF i = 0 THEN ValueOf(named, key)
            ELSE OverrideKey(n, inner, patch, key, after[i - 1], i)
    IN  after[m]

Named(patch) == {ParseMergeKey(patch[i].key).key : i \in DOMAIN patch}

NoMeaning     == [ok |-> FALSE, named |-> {}]
Means(named)  == [ok |-> TRUE, named |-> named]

\* Every key of a mapping and of the patch, by what the patch makes of it.
OverrideAll(n, inner, named, patch) ==
    LET all == Names(named) \cup Named(patch)
        Result(key) == OverriddenUpTo(n, inner, named, patch, key, Len(patch))
    IN  IF <<>> \in Named(patch) \/ \E key \in all : Result(key) = Misuse THEN NoMeaning
        ELSE Means({Entry(key, Result(key)) : key \in all})

OverrideLevel(n, inner) ==
    [pair \in (SUBSET [key : Key, value : Meanings[n]]) \X Entries(n) |->
        OverrideAll(n, inner, pair[1], pair[2])]

Overriding[n \in Nat] ==
    IF n = 0 THEN OverrideLevel(0, <<>>) ELSE OverrideLevel(n, Overriding[n - 1])

OverriddenWith(result, override) ==
    IF ~ override.enabled \/ ~ result.ok THEN result
    ELSE IF override.content = Unreadable THEN NoMeaning
    ELSE Overriding[MaxDepth][<<result.named, override.content>>]

\* What the enabled overrides make of the base.
DocumentedUpTo(doc, list, n) ==
    LET after[i \in Nat] ==
            IF i = 0 THEN (IF doc = Unreadable THEN NoMeaning ELSE Means(Said(MaxDepth, doc)))
            ELSE OverriddenWith(after[i - 1], list[i])
    IN  after[n]

Documented == DocumentedUpTo(base, overrides, Len(overrides))

-----------------------------------------------------------------------------
(* Properties.                                                             *)

\* The root is a document of the depth of those it is made of, and a merge
\* that is refused leaves none.
TypeOK ==
    /\ base \in Document \cup {Unreadable}
    /\ overrides \in Seq(Override) /\ Len(overrides) <= MaxOverrides
    /\ root \in Entries(MaxDepth) /\ status \in {"merging", "done", "refused"}
    /\ base = Unreadable => status = "refused"
    /\ status = "refused" => root = <<>>

\* The loop over entries, with its index lookups and its updates in place, makes
\* of the enabled overrides what the documentation says, key by key, and refuses
\* exactly an array operator on something that is no array, a key that is empty
\* without its operator, and a text that is not one mapping (README "Overrides
\* implement recursive map merging, ..."; yamlmerge.go mergeYAML).  The socket of
\* the controller is the panel's at the end.
MergedAsDocumented ==
    /\ status = "refused" <=> ~ Documented.ok
    /\ status = "merging" => Said(MaxDepth, root) = Documented.named
    /\ status = "done" =>
          Said(MaxDepth, root) =
             {entry \in Documented.named : entry.key # SocketKey}
                \cup {Entry(SocketKey, SocketPath)}

\* A merge leaves the keys of the base in their order, also those a document
\* repeats, adds each new key once at the end, none of them empty, and removes
\* none (yamlmerge.go setMappingNode).
Extends(entries, old) ==
    /\ Len(old) <= Len(entries)
    /\ \A i \in DOMAIN old : entries[i].key = old[i].key
    /\ \A i \in Len(old) + 1 .. Len(entries) :
          entries[i].key # <<>> /\ \A j \in 1 .. i - 1 : entries[j].key # entries[i].key

PositionsKept == status # "refused" => Extends(root, base)

\* Whatever its characters, a key of the document that is not empty can be named
\* by an override with each operator (README "`<key>` escaping"; yamlmerge.go
\* parseMergeKey).
Spelled(key, operator) ==
    CASE operator = "normal"  -> <<"<">> \o key \o <<">">>
      [] operator = "prepend" -> <<"+", "<">> \o key \o <<">">>
      [] operator = "append"  -> <<"<">> \o key \o <<">", "+">>
      [] operator = "force"   -> Append(key, "!")

Addressable ==
    \A key \in Keys(root) \ {<<>>}, operator \in Operator :
       ParseMergeKey(Spelled(key, operator)) = [key |-> key, operator |-> operator]

\* The operators and escapes of an override are resolved: if the keys of the base
\* and those the overrides name have no operator characters, and no override
\* forces a value, then no key of the effective document has any, at any depth
\* (README "`key+` array append, and `<key>` escaping"; yamlmerge.go mergeMapping).
Plain == {key \in Key : ParseMergeKey(key) = [key |-> key, operator |-> "normal"]}

NamesPlain ==
    {raw \in Key : LET parsed == ParseMergeKey(raw)
                   IN  parsed.key \in Plain /\ parsed.operator # "force"}

OperatorsResolved ==
    /\ status = "done" /\ base \in EntriesOver(Plain, MaxDepth)
    /\ \A override \in ToSet(overrides) :
          override.enabled => override.content \in EntriesOver(NamesPlain, MaxDepth)
    => root \in EntriesOver(Plain, MaxDepth)
=============================================================================
