-------------------------- MODULE YamlMerge_proofs --------------------------
(***************************************************************************)
(* The merge makes of every base and every list of overrides what the      *)
(* documentation says, for documents of any size and depth.                *)
(*                                                                         *)
(* Two inductions carry it: over the levels of a document, as mergeMapping *)
(* calls itself, and over the entries of a patch, as its loop goes.        *)
(***************************************************************************)
EXTENDS YamlMerge, SequenceTheorems, TLAPS

-----------------------------------------------------------------------------
(* The recursive functions, each by its equation.                          *)

ValuesBase(names)           == Flat
ValuesStep(names, level, n) == WithMappings(names, level)
ValuesRec == INSTANCE Recursion WITH Base <- ValuesBase, Step <- ValuesStep

LEMMA ValuesEquation ==
    ASSUME NEW names
    PROVE  /\ ValuesOver(names, 0) = Flat
           /\ \A n \in Nat : ValuesOver(names, n + 1) = WithMappings(names, ValuesOver(names, n))
<1>1. PICK f : f = [i \in Nat |-> IF i = 0 THEN Flat ELSE WithMappings(names, f[i - 1])]
  BY ValuesRec!RecursiveFunctionExists DEF ValuesRec!IsRecursive, ValuesBase, ValuesStep
<1>. DEFINE level == CHOOSE g : g = [i \in Nat |-> IF i = 0 THEN Flat ELSE WithMappings(names, g[i - 1])]
<1>2. level = [i \in Nat |-> IF i = 0 THEN Flat ELSE WithMappings(names, level[i - 1])]
  BY <1>1
<1>3. \A n : ValuesOver(names, n) = level[n]
  BY DEF ValuesOver
<1>. HIDE DEF level
<1>4. \A n \in Nat : level[n + 1] = WithMappings(names, level[n])
  BY <1>2
<1>. QED BY <1>2, <1>3, <1>4

MergingBase(param)              == MergeLevel(0, <<>>)
MergingStep(param, inner, n)    == MergeLevel(n, inner)
MergingRec == INSTANCE Recursion WITH Base <- MergingBase, Step <- MergingStep

LEMMA MergingEquation ==
    /\ Merging[0] = MergeLevel(0, <<>>)
    /\ \A n \in Nat : Merging[n + 1] = MergeLevel(n + 1, Merging[n])
<1>1. PICK f : f = [i \in Nat |-> IF i = 0 THEN MergeLevel(0, <<>>) ELSE MergeLevel(i, f[i - 1])]
  BY MergingRec!RecursiveFunctionExists DEF MergingRec!IsRecursive, MergingBase, MergingStep
<1>2. Merging = [i \in Nat |-> IF i = 0 THEN MergeLevel(0, <<>>) ELSE MergeLevel(i, Merging[i - 1])]
  BY <1>1 DEF Merging
<1>. QED BY <1>2

MergedBase(param)            == Merged(param[2])
MergedStep(param, result, i) == NextEntry(param[1], param[3], result, i)
MergedRec == INSTANCE Recursion WITH Base <- MergedBase, Step <- MergedStep

LEMMA MergedEquation ==
    ASSUME NEW inner, NEW target, NEW patch
    PROVE  /\ MergedUpTo(inner, target, patch, 0) = Merged(target)
           /\ \A n \in Nat : MergedUpTo(inner, target, patch, n + 1) =
                 NextEntry(inner, patch, MergedUpTo(inner, target, patch, n), n + 1)
<1>1. PICK f : f = [i \in Nat |-> IF i = 0 THEN Merged(target)
                                           ELSE NextEntry(inner, patch, f[i - 1], i)]
  <2>1. PICK f : MergedRec!IsRecursive(<<inner, target, patch>>, f)
    BY MergedRec!RecursiveFunctionExists
  <2>. QED BY <2>1 DEF MergedRec!IsRecursive, MergedBase, MergedStep
<1>. DEFINE after == CHOOSE g : g = [i \in Nat |-> IF i = 0 THEN Merged(target)
                                                   ELSE NextEntry(inner, patch, g[i - 1], i)]
<1>2. after = [i \in Nat |-> IF i = 0 THEN Merged(target)
                                      ELSE NextEntry(inner, patch, after[i - 1], i)]
  BY <1>1
<1>3. \A n : MergedUpTo(inner, target, patch, n) = after[n]
  BY DEF MergedUpTo
<1>. HIDE DEF after
<1>4. \A n \in Nat : after[n + 1] = NextEntry(inner, patch, after[n], n + 1)
  BY <1>2
<1>. QED BY <1>2, <1>3, <1>4

MeaningBase(param)           == MeaningLevel(0, <<>>)
MeaningStep(param, inner, n) == MeaningLevel(n, inner)
MeaningRec == INSTANCE Recursion WITH Base <- MeaningBase, Step <- MeaningStep

LEMMA MeaningEquation ==
    /\ Meaning[0] = MeaningLevel(0, <<>>)
    /\ \A n \in Nat : Meaning[n + 1] = MeaningLevel(n + 1, Meaning[n])
<1>1. PICK f : f = [i \in Nat |-> IF i = 0 THEN MeaningLevel(0, <<>>) ELSE MeaningLevel(i, f[i - 1])]
  BY MeaningRec!RecursiveFunctionExists DEF MeaningRec!IsRecursive, MeaningBase, MeaningStep
<1>2. Meaning = [i \in Nat |-> IF i = 0 THEN MeaningLevel(0, <<>>) ELSE MeaningLevel(i, Meaning[i - 1])]
  BY <1>1 DEF Meaning
<1>. QED BY <1>2

WithNames(meanings) == Flat \cup [kind : {"mapping"}, named : SUBSET [key : Key, value : meanings]]

MeaningsBase(param)              == Flat
MeaningsStep(param, meanings, n) == WithNames(meanings)
MeaningsRec == INSTANCE Recursion WITH Base <- MeaningsBase, Step <- MeaningsStep

LEMMA MeaningsEquation ==
    Meanings[0] = Flat /\ \A n \in Nat : Meanings[n + 1] = WithNames(Meanings[n])
<1>1. PICK f : f = [i \in Nat |-> IF i = 0 THEN Flat ELSE WithNames(f[i - 1])]
  BY MeaningsRec!RecursiveFunctionExists DEF MeaningsRec!IsRecursive, MeaningsBase, MeaningsStep
<1>2. Meanings = [i \in Nat |-> IF i = 0 THEN Flat ELSE WithNames(Meanings[i - 1])]
  BY <1>1 DEF Meanings, WithNames
<1>. QED BY <1>2

OverridingBase(param)           == OverrideLevel(0, <<>>)
OverridingStep(param, inner, n) == OverrideLevel(n, inner)
OverridingRec == INSTANCE Recursion WITH Base <- OverridingBase, Step <- OverridingStep

LEMMA OverridingEquation ==
    /\ Overriding[0] = OverrideLevel(0, <<>>)
    /\ \A n \in Nat : Overriding[n + 1] = OverrideLevel(n + 1, Overriding[n])
<1>1. PICK f : f = [i \in Nat |-> IF i = 0 THEN OverrideLevel(0, <<>>) ELSE OverrideLevel(i, f[i - 1])]
  BY OverridingRec!RecursiveFunctionExists DEF OverridingRec!IsRecursive, OverridingBase, OverridingStep
<1>2. Overriding = [i \in Nat |-> IF i = 0 THEN OverrideLevel(0, <<>>) ELSE OverrideLevel(i, Overriding[i - 1])]
  BY <1>1 DEF Overriding
<1>. QED BY <1>2

OverriddenBase(param) == ValueOf(param[3], param[5])
OverriddenStep(param, current, i) == OverrideKey(param[1], param[2], param[4], param[5], current, i)
OverriddenRec == INSTANCE Recursion WITH Base <- OverriddenBase, Step <- OverriddenStep

LEMMA OverriddenEquation ==
    ASSUME NEW n, NEW inner, NEW named, NEW patch, NEW key
    PROVE  /\ OverriddenUpTo(n, inner, named, patch, key, 0) = ValueOf(named, key)
           /\ \A m \in Nat :
                 OverriddenUpTo(n, inner, named, patch, key, m + 1) =
                    OverrideKey(n, inner, patch, key,
                                OverriddenUpTo(n, inner, named, patch, key, m), m + 1)
<1>1. PICK f : f = [i \in Nat |-> IF i = 0 THEN ValueOf(named, key)
                                           ELSE OverrideKey(n, inner, patch, key, f[i - 1], i)]
  <2>1. PICK f : OverriddenRec!IsRecursive(<<n, inner, named, patch, key>>, f)
    BY OverriddenRec!RecursiveFunctionExists
  <2>. QED BY <2>1 DEF OverriddenRec!IsRecursive, OverriddenBase, OverriddenStep
<1>. DEFINE after == CHOOSE g : g = [i \in Nat |-> IF i = 0 THEN ValueOf(named, key)
                                                   ELSE OverrideKey(n, inner, patch, key, g[i - 1], i)]
<1>2. after = [i \in Nat |-> IF i = 0 THEN ValueOf(named, key)
                                      ELSE OverrideKey(n, inner, patch, key, after[i - 1], i)]
  BY <1>1
<1>3. \A m : OverriddenUpTo(n, inner, named, patch, key, m) = after[m]
  BY DEF OverriddenUpTo
<1>. HIDE DEF after
<1>4. \A m \in Nat : after[m + 1] = OverrideKey(n, inner, patch, key, after[m], m + 1)
  BY <1>2
<1>. QED BY <1>2, <1>3, <1>4

LEMMA OverriddenNext ==
    ASSUME NEW n, NEW inner, NEW named, NEW patch, NEW key, NEW m \in Nat
    PROVE  OverriddenUpTo(n, inner, named, patch, key, m + 1) =
              OverrideKey(n, inner, patch, key, OverriddenUpTo(n, inner, named, patch, key, m), m + 1)
BY OverriddenEquation

SaidBy(doc) == IF doc = Unreadable THEN NoMeaning ELSE Means(Said(MaxDepth, doc))

DocumentedBase(param)            == SaidBy(param[1])
DocumentedStep(param, result, i) == OverriddenWith(result, param[2][i])
DocumentedRec == INSTANCE Recursion WITH Base <- DocumentedBase, Step <- DocumentedStep

LEMMA DocumentedEquation ==
    ASSUME NEW doc, NEW list
    PROVE  /\ DocumentedUpTo(doc, list, 0) = SaidBy(doc)
           /\ \A n \in Nat : DocumentedUpTo(doc, list, n + 1) =
                 OverriddenWith(DocumentedUpTo(doc, list, n), list[n + 1])
<1>1. PICK f : f = [i \in Nat |-> IF i = 0 THEN SaidBy(doc) ELSE OverriddenWith(f[i - 1], list[i])]
  <2>1. PICK f : DocumentedRec!IsRecursive(<<doc, list>>, f)
    BY DocumentedRec!RecursiveFunctionExists
  <2>. QED BY <2>1 DEF DocumentedRec!IsRecursive, DocumentedBase, DocumentedStep
<1>. DEFINE after == CHOOSE g : g = [i \in Nat |-> IF i = 0 THEN SaidBy(doc)
                                                   ELSE OverriddenWith(g[i - 1], list[i])]
<1>2. after = [i \in Nat |-> IF i = 0 THEN SaidBy(doc) ELSE OverriddenWith(after[i - 1], list[i])]
  BY <1>1
<1>3. \A n : DocumentedUpTo(doc, list, n) = after[n]
  BY DEF DocumentedUpTo, SaidBy
<1>. HIDE DEF after
<1>4. \A n \in Nat : after[n + 1] = OverriddenWith(after[n], list[n + 1])
  BY <1>2
<1>. QED BY <1>2, <1>3, <1>4

-----------------------------------------------------------------------------
(* The values of a document, level by level.                               *)

LEMMA FlatValues ==
    ASSUME NEW n \in Nat
    PROVE  /\ Flat \subseteq Values(n)
           /\ \A entries \in Entries(n) : Mapping(entries) \in Values(n + 1)
<1>1. Flat \subseteq Values(n)
  <2>1. CASE n = 0
    BY <2>1, ValuesEquation DEF Values
  <2>2. CASE n # 0
    <3>1. n - 1 \in Nat /\ (n - 1) + 1 = n
      BY <2>2
    <3>2. Values(n) = WithMappings(Key, ValuesOver(Key, n - 1))
      BY <3>1, ValuesEquation DEF Values
    <3>. QED BY <3>2 DEF WithMappings
  <2>. QED BY <2>1, <2>2
<1>2. Values(n + 1) = WithMappings(Key, ValuesOver(Key, n))
  BY ValuesEquation DEF Values
<1>3. ASSUME NEW entries \in Entries(n) PROVE Mapping(entries) \in Values(n + 1)
  BY <1>2 DEF WithMappings, Mapping, Entries, EntriesOver
<1>. QED BY <1>1, <1>3

LEMMA FlatKinds ==
    ASSUME NEW value \in Flat
    PROVE  /\ value.kind \in {"leaf", "array"}
           /\ value.kind = "array" => value.items \in Seq(Item) /\ value = Array(value.items)
<1>1. CASE value \in [kind : {"leaf"}, value : Scalar]
  BY <1>1
<1>2. CASE value \in [kind : {"array"}, items : Seq(Item)]
  BY <1>2 DEF Array
<1>. QED BY <1>1, <1>2 DEF Flat

LEMMA ValueKinds ==
    ASSUME NEW n \in Nat, NEW value \in Values(n)
    PROVE  /\ value.kind \in {"leaf", "array", "mapping"}
           /\ value.kind # "mapping" => value \in Flat
           /\ value.kind = "array" => value.items \in Seq(Item) /\ value = Array(value.items)
           /\ value.kind = "mapping" =>
                 /\ n # 0 /\ n - 1 \in Nat
                 /\ value.entries \in Entries(n - 1) /\ value = Mapping(value.entries)
<1>1. CASE value \in Flat
  BY <1>1, FlatKinds
<1>2. CASE value \notin Flat
  <2>1. n # 0 /\ n - 1 \in Nat /\ (n - 1) + 1 = n
    BY <1>2, ValuesEquation DEF Values
  <2>2. Values(n) = WithMappings(Key, ValuesOver(Key, n - 1))
    BY <2>1, ValuesEquation DEF Values
  <2>3. value \in [kind : {"mapping"}, entries : Seq([key : Key, value : ValuesOver(Key, n - 1)])]
    BY <1>2, <2>2 DEF WithMappings
  <2>. QED BY <2>1, <2>3 DEF Entries, EntriesOver, Mapping
<1>. QED BY <1>1, <1>2

LEMMA EntryTypes ==
    ASSUME NEW n \in Nat, NEW entries \in Entries(n)
    PROVE  /\ Len(entries) \in Nat /\ DOMAIN entries = 1 .. Len(entries)
           /\ \A i \in DOMAIN entries :
                 /\ entries[i] \in [key : Key, value : Values(n)]
                 /\ entries[i].key \in Key /\ entries[i].value \in Values(n)
<1>1. entries \in Seq([key : Key, value : Values(n)])
  BY DEF Entries, EntriesOver, Values
<1>2. Len(entries) \in Nat /\ DOMAIN entries = 1 .. Len(entries)
  BY <1>1
<1>3. ASSUME NEW i \in DOMAIN entries PROVE entries[i] \in [key : Key, value : Values(n)]
  BY <1>1, <1>2, ElementOfSeq
<1>. QED BY <1>2, <1>3

-----------------------------------------------------------------------------
(* The operators of keys.                                                  *)

LEMMA KeyCharacters ==
    ASSUME NEW key \in Key
    PROVE  Len(key) \in Nat /\ \A i \in 1 .. Len(key) : key[i] \in Character
BY ElementOfSeq DEF Key

\* What an operator leaves of a key is a key.
LEMMA ParsedTypes ==
    ASSUME NEW raw \in Key
    PROVE  ParseMergeKey(raw) \in [key : Key, operator : Operator]
<1>. DEFINE n == Len(raw)
<1>1. ASSUME NEW first \in Nat, NEW last \in Int, 1 <= first, last <= n
      PROVE  SubSeq(raw, first, last) \in Key
  <2>1. \A i \in first .. last : raw[i] \in Character
    BY <1>1, KeyCharacters
  <2>. QED BY <1>1, <2>1, SubSeqProperties DEF Key
<1>2. n \in Nat
  BY KeyCharacters
<1>3. /\ SubSeq(raw, 2, n - 1) \in Key /\ SubSeq(raw, 3, n - 1) \in Key
      /\ SubSeq(raw, 2, n - 2) \in Key /\ SubSeq(raw, 1, n - 1) \in Key
      /\ SubSeq(raw, 2, n) \in Key /\ SubSeq(raw, 1, n) \in Key
  BY <1>1, <1>2
<1>. QED BY <1>3 DEF ParseMergeKey, Operator

\* The parts of a key in brackets or with an operator.
LEMMA Spelling ==
    ASSUME NEW key \in Key
    PROVE  /\ LET raw == Spelled(key, "normal")
              IN  /\ Len(raw) = Len(key) + 2 /\ raw[1] = "<" /\ raw[Len(raw)] = ">"
                  /\ \A i \in 1 .. Len(key) : raw[i + 1] = key[i]
           /\ LET raw == Spelled(key, "prepend")
              IN  /\ Len(raw) = Len(key) + 3 /\ raw[1] = "+" /\ raw[2] = "<" /\ raw[Len(raw)] = ">"
                  /\ \A i \in 1 .. Len(key) : raw[i + 2] = key[i]
           /\ LET raw == Spelled(key, "append")
              IN  /\ Len(raw) = Len(key) + 3 /\ raw[1] = "<"
                  /\ raw[Len(raw) - 1] = ">" /\ raw[Len(raw)] = "+"
                  /\ \A i \in 1 .. Len(key) : raw[i + 1] = key[i]
           /\ LET raw == Spelled(key, "force")
              IN  /\ Len(raw) = Len(key) + 1 /\ raw[Len(raw)] = "!"
                  /\ \A i \in 1 .. Len(key) : raw[i] = key[i]
<1>. DEFINE All == Character \cup {"<", ">", "+", "!"}
<1>1. key \in Seq(All) /\ Len(key) \in Nat
  BY SeqMonotonic, KeyCharacters DEF Key
<1>2. <<"<">> \in Seq(All) /\ <<">">> \in Seq(All) /\ <<"+", "<">> \in Seq(All) /\ <<">", "+">> \in Seq(All)
  OBVIOUS
<1>. HIDE DEF All
<1>3. <<"<">> \o key \in Seq(All) /\ <<"+", "<">> \o key \in Seq(All)
  BY <1>1, <1>2, ConcatProperties
<1>. QED BY <1>1, <1>2, <1>3, ConcatProperties DEF Spelled

\* A part of a sequence that has the elements of a key is that key.
LEMMA PartIsKey ==
    ASSUME NEW key \in Key, NEW raw, NEW first \in Nat, NEW last \in Int,
           last - first + 1 = Len(key),
           \A i \in 1 .. Len(key) : raw[first + i - 1] = key[i]
    PROVE  SubSeq(raw, first, last) = key
<1>1. Len(key) \in Nat
  BY KeyCharacters
<1>2. \A i \in first .. last : raw[i] \in Character
  <2>. TAKE i \in first .. last
  <2>1. i - first + 1 \in 1 .. Len(key) /\ first + (i - first + 1) - 1 = i
    BY <1>1
  <2>. QED BY <2>1, KeyCharacters
<1>3. /\ SubSeq(raw, first, last) \in Seq(Character)
      /\ Len(SubSeq(raw, first, last)) = IF first <= last THEN last - first + 1 ELSE 0
      /\ \A i \in 1 .. last - first + 1 : SubSeq(raw, first, last)[i] = raw[first + i - 1]
  BY <1>2, SubSeqProperties
<1>4. Len(SubSeq(raw, first, last)) = Len(key)
  BY <1>1, <1>3
<1>. QED BY <1>1, <1>3, <1>4, SeqEqual DEF Key

\* What the rules of parseMergeKey ask of the ends of a key.
LEMMA LastCharacters ==
    ASSUME NEW raw, Len(raw) \in Nat, NEW c
    PROVE  /\ HasPrefix(raw, <<c>>) <=> 1 <= Len(raw) /\ raw[1] = c
           /\ HasSuffix(raw, <<c>>) <=> 1 <= Len(raw) /\ raw[Len(raw)] = c
<1>1. Len(<<c>>) = 1 /\ <<c>>[1] = c /\ 1 .. 1 = {1} /\ Len(raw) - 1 + 1 = Len(raw)
  OBVIOUS
<1>. QED BY <1>1 DEF HasPrefix, HasSuffix

LEMMA LastTwoCharacters ==
    ASSUME NEW raw, Len(raw) \in Nat, NEW c, NEW d
    PROVE  /\ HasPrefix(raw, <<c, d>>) <=> 2 <= Len(raw) /\ raw[1] = c /\ raw[2] = d
           /\ HasSuffix(raw, <<c, d>>) <=>
                 2 <= Len(raw) /\ raw[Len(raw) - 1] = c /\ raw[Len(raw)] = d
<1>1. Len(<<c, d>>) = 2 /\ <<c, d>>[1] = c /\ <<c, d>>[2] = d /\ 1 .. 2 = {1, 2}
  OBVIOUS
<1>2. Len(raw) - 2 + 1 = Len(raw) - 1 /\ Len(raw) - 2 + 2 = Len(raw)
  OBVIOUS
<1>. QED BY <1>1, <1>2 DEF HasPrefix, HasSuffix

\* A key that is spelled with an operator names that key with that operator.
LEMMA SpelledParses ==
    ASSUME NEW key \in Key, NEW operator \in Operator
    PROVE  ParseMergeKey(Spelled(key, operator)) = [key |-> key, operator |-> operator]
<1>. DEFINE raw == Spelled(key, operator)
<1>. SUFFICES ParseMergeKey(raw) = [key |-> key, operator |-> operator]
  OBVIOUS
<1>1. Len(key) \in Nat
  BY KeyCharacters
<1>. USE <1>1
<1>2. CASE operator = "normal"
  <2>1. Len(raw) = Len(key) + 2 /\ raw[1] = "<" /\ raw[Len(raw)] = ">"
    BY <1>2, Spelling
  <2>2. SubSeq(raw, 2, Len(raw) - 1) = key
    BY <1>2, <2>1, Spelling, PartIsKey
  <2>. HIDE DEF raw
  <2>3. Len(raw) \in Nat /\ Len(raw) >= 2
    BY <2>1
  <2>4. HasPrefix(raw, <<"<">>) /\ HasSuffix(raw, <<">">>)
    BY <2>1, <2>3, LastCharacters, LastTwoCharacters
  <2>. QED BY <1>2, <2>2, <2>4, <2>3 DEF ParseMergeKey
<1>3. CASE operator = "prepend"
  <2>1. Len(raw) = Len(key) + 3 /\ raw[1] = "+" /\ raw[2] = "<" /\ raw[Len(raw)] = ">"
    BY <1>3, Spelling
  <2>2. SubSeq(raw, 3, Len(raw) - 1) = key
    BY <1>3, <2>1, Spelling, PartIsKey
  <2>. HIDE DEF raw
  <2>3. Len(raw) \in Nat /\ Len(raw) >= 3
    BY <2>1
  <2>4. ~ HasPrefix(raw, <<"<">>) /\ HasPrefix(raw, <<"+", "<">>) /\ HasSuffix(raw, <<">">>)
    BY <2>1, <2>3, LastCharacters, LastTwoCharacters
  <2>. QED BY <1>3, <2>2, <2>4, <2>3 DEF ParseMergeKey
<1>4. CASE operator = "append"
  <2>1. Len(raw) = Len(key) + 3 /\ raw[1] = "<" /\ raw[Len(raw) - 1] = ">" /\ raw[Len(raw)] = "+"
    BY <1>4, Spelling
  <2>2. SubSeq(raw, 2, Len(raw) - 2) = key
    <3>1. \A i \in 1 .. Len(key) : raw[2 + i - 1] = key[i]
      BY <1>4, Spelling
    <3>. QED BY <2>1, <3>1, PartIsKey
  <2>. HIDE DEF raw
  <2>3. Len(raw) \in Nat /\ Len(raw) >= 3
    BY <2>1
  <2>4. /\ HasPrefix(raw, <<"<">>) /\ HasSuffix(raw, <<">", "+">>)
        /\ ~ HasSuffix(raw, <<">">>) /\ ~ HasPrefix(raw, <<"+", "<">>)
    BY <2>1, <2>3, LastCharacters, LastTwoCharacters
  <2>. QED BY <1>4, <2>2, <2>4, <2>3 DEF ParseMergeKey
<1>5. CASE operator = "force"
  <2>1. Len(raw) = Len(key) + 1 /\ raw[Len(raw)] = "!"
    BY <1>5, Spelling
  <2>2. SubSeq(raw, 1, Len(raw) - 1) = key
    BY <1>5, <2>1, Spelling, PartIsKey
  <2>. HIDE DEF raw
  <2>3. Len(raw) \in Nat
    BY <2>1
  <2>4. HasSuffix(raw, <<"!">>) /\ ~ HasSuffix(raw, <<">">>) /\ ~ HasSuffix(raw, <<">", "+">>)
    BY <2>1, <2>3, LastCharacters, LastTwoCharacters
  <2>. QED BY <1>5, <2>2, <2>4 DEF ParseMergeKey
<1>. QED BY <1>2, <1>3, <1>4, <1>5 DEF Operator

-----------------------------------------------------------------------------
(* Entries, and what a lookup and an update make of them.                  *)

LEMMA IndexFound ==
    ASSUME NEW n \in Nat, NEW entries \in Entries(n), NEW key
    PROVE  LET index == MappingIndex(entries, key)
           IN  /\ index = 0 <=> key \notin Keys(entries)
               /\ index # 0 => /\ index \in DOMAIN entries /\ entries[index].key = key
                               /\ \A i \in 1 .. index - 1 : entries[i].key # key
<1>. DEFINE I == {i \in 1 .. Len(entries) : entries[i].key = key}
<1>1. Len(entries) \in Nat /\ DOMAIN entries = 1 .. Len(entries)
  BY EntryTypes
<1>2. MappingIndex(entries, key) = IF I # {} THEN Min(I) ELSE 0
  BY DEF MappingIndex, SelectInSeq
<1>3. I = {} <=> key \notin Keys(entries)
  BY <1>1 DEF Keys
<1>4. ASSUME I # {} PROVE Min(I) \in I /\ \A i \in I : Min(I) <= i
  <2>1. I \in SUBSET Nat
    BY <1>1
  <2>2. \E least \in I : \A i \in I : least <= i
    BY <1>4, <2>1, ValuesRec!LeastNumber
  <2>. QED BY <2>2 DEF Min
<1>5. CASE I = {}
  BY <1>2, <1>3, <1>5
<1>6. CASE I # {}
  <2>1. MappingIndex(entries, key) = Min(I) /\ Min(I) \in 1 .. Len(entries) /\ entries[Min(I)].key = key
    BY <1>2, <1>4, <1>6
  <2>2. \A i \in 1 .. Min(I) - 1 : entries[i].key # key
    BY <1>1, <1>4, <1>6, <2>1
  <2>. QED BY <1>1, <1>3, <1>6, <2>1, <2>2
<1>. QED BY <1>5, <1>6

\* The first place of a key is the only one without the key before it.
LEMMA IndexUnique ==
    ASSUME NEW n \in Nat, NEW entries \in Entries(n), NEW key,
           NEW place \in DOMAIN entries, entries[place].key = key,
           \A i \in 1 .. place - 1 : entries[i].key # key
    PROVE  MappingIndex(entries, key) = place
<1>. DEFINE index == MappingIndex(entries, key)
<1>1. Len(entries) \in Nat /\ DOMAIN entries = 1 .. Len(entries)
  BY EntryTypes
<1>2. key \in Keys(entries)
  BY DEF Keys
<1>3. index \in DOMAIN entries /\ entries[index].key = key /\ \A i \in 1 .. index - 1 : entries[i].key # key
  BY <1>2, IndexFound
<1>. HIDE DEF index
<1>4. place \in Int /\ index \in Int
  BY <1>1, <1>3
<1>5. ~ (index < place)
  <2>1. index < place => index \in 1 .. place - 1
    BY <1>1, <1>3
  <2>. QED BY <1>3, <2>1
<1>6. ~ (place < index)
  <2>1. place < index => place \in 1 .. index - 1
    BY <1>1, <1>3
  <2>. QED BY <1>3, <2>1
<1>. QED
  <2>1. index = place
    BY <1>4, <1>5, <1>6
  <2>. QED BY <2>1 DEF index

\* An update gives its key the value, leaves every other key its first value, and
\* keeps the places of all keys.
LEMMA SetEntry ==
    ASSUME NEW n \in Nat, NEW entries \in Entries(n), NEW key \in Key, NEW value \in Values(n),
           NEW updated, updated = SetMappingNode(entries, MappingIndex(entries, key), key, value)
    PROVE  /\ updated \in Entries(n)
           /\ Keys(updated) = Keys(entries) \cup {key}
           /\ First(updated, key) = value
           /\ \A other \in Keys(entries) \ {key} : First(updated, other) = First(entries, other)
           /\ key # <<>> => Extends(updated, entries)
<1>. DEFINE index == MappingIndex(entries, key)
            E == [key : Key, value : Values(n)]
<1>1. /\ entries \in Seq(E) /\ Len(entries) \in Nat /\ DOMAIN entries = 1 .. Len(entries)
  BY EntryTypes DEF Entries, EntriesOver, Values
<1>2. Entry(key, value) \in E
  BY DEF Entry
<1>3. Entry(key, value).key = key /\ Entry(key, value).value = value
  BY DEF Entry
<1>4. CASE index = 0
  <2>1. key \notin Keys(entries)
    BY <1>4, IndexFound
  <2>2. updated = Append(entries, Entry(key, value))
    BY <1>4 DEF SetMappingNode
  <2>3. /\ updated \in Seq(E) /\ Len(updated) = Len(entries) + 1
        /\ \A i \in 1 .. Len(entries) : updated[i] = entries[i]
        /\ updated[Len(entries) + 1] = Entry(key, value)
    BY <1>1, <1>2, <2>2, AppendProperties
  <2>4. updated \in Entries(n) /\ DOMAIN updated = 1 .. Len(entries) + 1
    BY <2>3 DEF Entries, EntriesOver, Values
  <2>5. Keys(updated) = Keys(entries) \cup {key}
    BY <1>1, <1>3, <2>3, <2>4 DEF Keys
  <2>6. \A i \in 1 .. Len(entries) : updated[i].key # key
    BY <1>1, <2>1, <2>3 DEF Keys
  <2>7. MappingIndex(updated, key) = Len(entries) + 1
    <3>1. Len(entries) + 1 \in DOMAIN updated /\ Len(entries) + 1 - 1 = Len(entries)
      BY <1>1, <2>4
    <3>. QED BY <1>3, <2>3, <2>4, <2>6, <3>1, IndexUnique
  <2>8. ASSUME NEW other \in Keys(entries) \ {key}
        PROVE  MappingIndex(updated, other) = MappingIndex(entries, other)
    <3>. DEFINE place == MappingIndex(entries, other)
    <3>1. /\ place \in 1 .. Len(entries) /\ entries[place].key = other
          /\ \A i \in 1 .. place - 1 : entries[i].key # other
      BY <1>1, IndexFound
    <3>. HIDE DEF place
    <3>2. place \in DOMAIN updated /\ 1 .. place - 1 \subseteq 1 .. Len(entries)
      BY <1>1, <2>4, <3>1
    <3>3. updated[place].key = other /\ \A i \in 1 .. place - 1 : updated[i].key # other
      BY <2>3, <3>1, <3>2
    <3>4. MappingIndex(updated, other) = place
      BY <2>4, <3>2, <3>3, IndexUnique
    <3>. QED BY <3>4 DEF place
  <2>9. \A other \in Keys(entries) \ {key} : First(updated, other) = First(entries, other)
    BY <1>1, <2>3, <2>8, IndexFound DEF First
  <2>10. key # <<>> => Extends(updated, entries)
    BY <1>1, <1>3, <2>3, <2>6 DEF Extends
  <2>. QED BY <1>3, <2>3, <2>4, <2>5, <2>7, <2>9, <2>10 DEF First
<1>5. CASE index # 0
  <2>1. /\ index \in 1 .. Len(entries) /\ entries[index].key = key
        /\ \A i \in 1 .. index - 1 : entries[i].key # key
        /\ key \in Keys(entries)
    BY <1>1, <1>5, IndexFound
  <2>2. updated = [entries EXCEPT ![index] = Entry(key, value)]
    BY <1>5 DEF SetMappingNode
  <2>. HIDE DEF index
  <2>3. /\ updated \in Seq(E) /\ Len(updated) = Len(entries)
        /\ \A i \in 1 .. Len(entries) :
              updated[i] = IF i = index THEN Entry(key, value) ELSE entries[i]
    BY <1>1, <1>2, <2>1, <2>2, ExceptSeq
  <2>4. updated \in Entries(n) /\ DOMAIN updated = 1 .. Len(entries)
    BY <2>3 DEF Entries, EntriesOver, Values
  <2>5. \A i \in 1 .. Len(entries) : updated[i].key = entries[i].key
    BY <1>3, <2>1, <2>3
  <2>6. Keys(updated) = Keys(entries) \cup {key}
    BY <1>1, <2>1, <2>4, <2>5 DEF Keys
  <2>7. ASSUME NEW any \in Keys(entries)
        PROVE  /\ MappingIndex(updated, any) = MappingIndex(entries, any)
               /\ MappingIndex(updated, any) \in 1 .. Len(entries)
    <3>. DEFINE place == MappingIndex(entries, any)
    <3>1. /\ place \in 1 .. Len(entries) /\ entries[place].key = any
          /\ \A i \in 1 .. place - 1 : entries[i].key # any
      BY <1>1, IndexFound
    <3>. HIDE DEF place
    <3>2. place \in DOMAIN updated /\ 1 .. place - 1 \subseteq 1 .. Len(entries)
      BY <1>1, <2>4, <3>1
    <3>3. updated[place].key = any /\ \A i \in 1 .. place - 1 : updated[i].key # any
      BY <2>5, <3>1, <3>2
    <3>4. MappingIndex(updated, any) = place
      BY <2>4, <3>2, <3>3, IndexUnique
    <3>. QED BY <3>1, <3>4 DEF place
  <2>8. First(updated, key) = value
    BY <1>3, <2>1, <2>3, <2>7 DEF First, index
  <2>9. ASSUME NEW other \in Keys(entries) \ {key} PROVE First(updated, other) = First(entries, other)
    <3>1. MappingIndex(entries, other) # index
      BY <1>1, <2>1, IndexFound
    <3>. QED BY <2>3, <2>7, <3>1 DEF First
  <2>10. Extends(updated, entries)
    BY <1>1, <2>3, <2>5 DEF Extends
  <2>. QED BY <2>4, <2>6, <2>8, <2>9, <2>10
<1>. QED BY <1>4, <1>5

LEMMA ExtendsSelf ==
    ASSUME NEW n \in Nat, NEW entries \in Entries(n)
    PROVE  Extends(entries, entries)
BY EntryTypes DEF Extends

LEMMA ExtendsFurther ==
    ASSUME NEW n \in Nat, NEW a \in Entries(n), NEW b \in Entries(n), NEW c \in Entries(n),
           Extends(b, a), Extends(c, b)
    PROVE  Extends(c, a)
<1>1. /\ Len(a) \in Nat /\ DOMAIN a = 1 .. Len(a)
      /\ Len(b) \in Nat /\ DOMAIN b = 1 .. Len(b) /\ Len(c) \in Nat
  BY EntryTypes
<1>2. Len(a) <= Len(b) /\ Len(b) <= Len(c)
  BY DEF Extends
<1>3. \A i \in 1 .. Len(b) : c[i].key = b[i].key
  BY <1>1 DEF Extends
<1>4. ASSUME NEW i \in DOMAIN a PROVE c[i].key = a[i].key
  BY <1>1, <1>2, <1>3 DEF Extends
<1>5. ASSUME NEW i \in Len(a) + 1 .. Len(c)
      PROVE  c[i].key # <<>> /\ \A j \in 1 .. i - 1 : c[j].key # c[i].key
  <2>1. CASE i <= Len(b)
    <3>1. i \in Len(a) + 1 .. Len(b) /\ i \in 1 .. Len(b) /\ 1 .. i - 1 \subseteq 1 .. Len(b)
      BY <1>1, <2>1
    <3>. QED BY <1>3, <3>1 DEF Extends
  <2>2. CASE ~ (i <= Len(b))
    <3>1. i \in Len(b) + 1 .. Len(c)
      BY <1>1, <2>2
    <3>. QED BY <3>1 DEF Extends
  <2>. QED BY <2>1, <2>2
<1>. QED BY <1>1, <1>2, <1>4, <1>5 DEF Extends

-----------------------------------------------------------------------------
(* What documents stand for.                                               *)

LEMMA FirstTypes ==
    ASSUME NEW n \in Nat, NEW entries \in Entries(n), NEW key \in Keys(entries)
    PROVE  key \in Key /\ First(entries, key) \in Values(n)
<1>1. MappingIndex(entries, key) \in DOMAIN entries /\ entries[MappingIndex(entries, key)].key = key
  BY IndexFound
<1>. QED BY <1>1, EntryTypes DEF First

LEMMA MeaningOf ==
    ASSUME NEW n \in Nat, NEW value \in Values(n)
    PROVE  /\ value.kind # "mapping" => Meaning[n][value] = value
           /\ value.kind = "mapping" => Meaning[n][value] = Unordered(Said(n - 1, value.entries))
           /\ Meaning[n][value].kind = value.kind
<1>1. CASE n = 0
  <2>1. value.kind # "mapping"
    BY <1>1, ValueKinds
  <2>2. Meaning[0] = MeaningLevel(0, <<>>)
    BY MeaningEquation
  <2>3. Meaning[n][value] = value
    BY <1>1, <2>1, <2>2 DEF MeaningLevel
  <2>. QED BY <2>1, <2>3
<1>2. CASE n # 0
  <2>1. n - 1 \in Nat /\ (n - 1) + 1 = n
    BY <1>2
  <2>2. Meaning[n] = MeaningLevel(n, Meaning[n - 1])
    BY <2>1, MeaningEquation
  <2>3. Meaning[n][value] = IF value.kind = "mapping"
                            THEN Unordered(Said(n - 1, value.entries)) ELSE value
    BY <2>2 DEF MeaningLevel, Said
  <2>. QED BY <2>3 DEF Unordered
<1>. QED BY <1>1, <1>2

LEMMA SaidTyped ==
    ASSUME NEW n \in Nat, \A value \in Values(n) : Meaning[n][value] \in Meanings[n],
           NEW entries \in Entries(n)
    PROVE  Said(n, entries) \in SUBSET [key : Key, value : Meanings[n]]
BY FirstTypes DEF Said, NamedValues, Entry

LEMMA MeaningTypes == \A n \in Nat : \A value \in Values(n) : Meaning[n][value] \in Meanings[n]
<1>. DEFINE S == {n \in Nat : \A value \in Values(n) : Meaning[n][value] \in Meanings[n]}
<1>1. 0 \in S
  BY MeaningsEquation, ValueKinds, MeaningOf DEF S
<1>2. ASSUME NEW n \in Nat, n \in S PROVE n + 1 \in S
  <2>1. SUFFICES ASSUME NEW value \in Values(n + 1) PROVE Meaning[n + 1][value] \in Meanings[n + 1]
    OBVIOUS
  <2>2. Meanings[n + 1] = WithNames(Meanings[n])
    BY MeaningsEquation
  <2>3. CASE value.kind = "mapping"
    <3>1. value.entries \in Entries(n) /\ Meaning[n + 1][value] = Unordered(Said(n, value.entries))
      <4>1. n + 1 \in Nat /\ (n + 1) - 1 = n
        OBVIOUS
      <4>. QED BY <2>3, <4>1, ValueKinds, MeaningOf
    <3>2. Said(n, value.entries) \in SUBSET [key : Key, value : Meanings[n]]
      BY <1>2, <3>1, SaidTyped
    <3>. QED BY <2>2, <3>1, <3>2 DEF WithNames, Unordered
  <2>4. CASE value.kind # "mapping"
    BY <2>2, <2>4, ValueKinds, MeaningOf DEF WithNames
  <2>. QED BY <2>3, <2>4
<1>. HIDE DEF S
<1>3. Nat \subseteq S
  BY <1>1, <1>2, ValuesRec!SetInduction
<1>. QED BY <1>3 DEF S

LEMMA SaidTypes ==
    ASSUME NEW n \in Nat, NEW entries \in Entries(n)
    PROVE  Said(n, entries) \in SUBSET [key : Key, value : Meanings[n]]
BY MeaningTypes, SaidTyped

\* A name stands for what the first entry with it says.
LEMMA SaidValue ==
    ASSUME NEW n \in Nat, NEW entries \in Entries(n)
    PROVE  /\ Names(Said(n, entries)) = Keys(entries)
           /\ \A key : ValueOf(Said(n, entries), key) =
                 IF key \in Keys(entries) THEN Meaning[n][First(entries, key)] ELSE Absent
<1>1. Names(Said(n, entries)) = Keys(entries)
  <2>1. ASSUME NEW key \in Keys(entries) PROVE key \in Names(Said(n, entries))
    <3>1. Entry(key, Meaning[n][First(entries, key)]) \in Said(n, entries)
      BY DEF Said, NamedValues
    <3>2. Entry(key, Meaning[n][First(entries, key)]).key = key
      BY DEF Entry
    <3>. QED BY <3>1, <3>2 DEF Names
  <2>2. ASSUME NEW entry \in Said(n, entries) PROVE entry.key \in Keys(entries)
    BY DEF Said, NamedValues, Entry
  <2>. QED BY <2>1, <2>2 DEF Names
<1>2. ASSUME NEW key \in Keys(entries)
      PROVE  (CHOOSE entry \in Said(n, entries) : entry.key = key).value = Meaning[n][First(entries, key)]
  <2>1. Entry(key, Meaning[n][First(entries, key)]) \in Said(n, entries)
    BY DEF Said, NamedValues
  <2>2. \A entry \in Said(n, entries) :
           entry.key = key => entry.value = Meaning[n][First(entries, key)]
    BY DEF Said, NamedValues, Entry
  <2>3. \E entry \in Said(n, entries) : entry.key = key
    BY <2>1 DEF Entry
  <2>. QED BY <2>2, <2>3
<1>. QED BY <1>1, <1>2 DEF ValueOf

\* Nothing a document says is missing or misused.
LEMMA MeaningPresent ==
    ASSUME NEW n \in Nat, NEW value \in Values(n)
    PROVE  Meaning[n][value] # Absent /\ Meaning[n][value] # Misuse
BY ValueKinds, MeaningOf DEF Absent, Misuse

-----------------------------------------------------------------------------
(* One entry of a patch.                                                   *)

\* A merge and what the documentation says of it come to the same.
Agrees(n, target, result, said) ==
    \/ result = Refused /\ ~ said.ok
    \/ /\ result.entries \in Entries(n) /\ result = Merged(result.entries)
       /\ Extends(result.entries, target)
       /\ said = Means(Said(n, result.entries))

InnerAgrees(n, inner, said) ==
    n # 0 => \A target, patch \in Entries(n - 1) :
                Agrees(n - 1, target, inner[<<target, patch>>], said[<<Said(n - 1, target), patch>>])

\* What an entry makes of the mapping is one update, with the value it makes of the
\* name; or it is refused, as a misuse.
Updates(n, entries, key, result, overridden) ==
    \/ result = Refused /\ overridden = Misuse
    \/ \E value \in Values(n) :
          /\ result = Merged(SetMappingNode(entries, MappingIndex(entries, key), key, value))
          /\ overridden = Meaning[n][value]

LEMMA ArrayEntry ==
    ASSUME NEW n \in Nat, NEW entries \in Entries(n), NEW value \in Values(n),
           NEW parsed, parsed.operator \in {"prepend", "append"}, NEW said, NEW meaning
    PROVE  Updates(n, entries, parsed.key,
                   MergeArray(entries, MappingIndex(entries, parsed.key), parsed, value),
                   OverriddenBy(said, ValueOf(Said(n, entries), parsed.key), parsed.operator,
                                value, meaning))
<1>. DEFINE index   == MappingIndex(entries, parsed.key)
            first   == First(entries, parsed.key)
            current == ValueOf(Said(n, entries), parsed.key)
            result  == MergeArray(entries, index, parsed, value)
            overridden == OverriddenBy(said, current, parsed.operator, value, meaning)
<1>1. CASE value.kind # "array"
  <2>1. result = Refused
    BY <1>1 DEF MergeArray
  <2>2. overridden = Misuse
    BY <1>1 DEF OverriddenBy
  <2>. QED BY <2>1, <2>2 DEF Updates
<1>2. CASE value.kind = "array" /\ index = 0
  <2>1. value.items \in Seq(Item) /\ value = Array(value.items) /\ value \in Flat
    BY <1>2, ValueKinds
  <2>2. value.items \o <<>> = value.items /\ <<>> \o value.items = value.items
    BY <2>1, ConcatEmptySeq
  <2>3. result = Merged(SetMappingNode(entries, index, parsed.key, value))
    BY <1>2, <2>1, <2>2 DEF MergeArray
  <2>4. current = Absent
    BY <1>2, SaidValue, IndexFound
  <2>5. overridden = value
    BY <1>2, <2>4 DEF OverriddenBy, Absent
  <2>6. Meaning[n][value] = value
    BY <1>2, MeaningOf
  <2>. QED BY <2>3, <2>5, <2>6 DEF Updates
<1>3. CASE value.kind = "array" /\ index # 0
  <2>1. parsed.key \in Keys(entries) /\ first \in Values(n) /\ first = entries[index].value
    BY <1>3, IndexFound, FirstTypes DEF First
  <2>2. current = Meaning[n][first] /\ current.kind = first.kind
    BY <2>1, SaidValue, MeaningOf
  <2>3. CASE first.kind # "array"
    <3>1. result = Refused
      BY <1>3, <2>1, <2>3 DEF MergeArray
    <3>2. overridden = Misuse
      <4>1. current.kind \notin {"array", "absent"}
        BY <2>1, <2>2, <2>3, ValueKinds
      <4>. QED BY <4>1 DEF OverriddenBy
    <3>. QED BY <3>1, <3>2 DEF Updates
  <2>4. CASE first.kind = "array"
    <3>. DEFINE both == IF parsed.operator = "prepend" THEN value.items \o first.items
                                                       ELSE first.items \o value.items
    <3>1. current = first
      BY <2>1, <2>2, <2>4, MeaningOf
    <3>2. value.items \in Seq(Item) /\ first.items \in Seq(Item)
      BY <1>3, <2>1, <2>4, ValueKinds
    <3>3. both \in Seq(Item)
      BY <3>2, ConcatProperties
    <3>4. result = Merged(SetMappingNode(entries, index, parsed.key, Array(both)))
      BY <1>3, <2>1, <2>4 DEF MergeArray
    <3>5. overridden = Array(both)
      BY <1>3, <2>4, <3>1 DEF OverriddenBy
    <3>. HIDE DEF both
    <3>6. Array(both) \in Flat /\ Array(both).kind = "array"
      BY <3>3 DEF Flat, Array
    <3>7. Array(both) \in Values(n) /\ Meaning[n][Array(both)] = Array(both)
      BY <3>6, FlatValues, MeaningOf
    <3>. QED BY <3>4, <3>5, <3>7 DEF Updates
  <2>. QED BY <2>3, <2>4
<1>. QED BY <1>1, <1>2, <1>3

LEMMA OneEntry ==
    ASSUME NEW n \in Nat, NEW inner, NEW said, InnerAgrees(n, inner, said),
           NEW entries \in Entries(n), NEW entry \in [key : Key, value : Values(n)],
           NEW parsed, parsed = ParseMergeKey(entry.key), parsed.key # <<>>
    PROVE  Updates(n, entries, parsed.key, MergeEntry(inner, entries, entry),
                   OverriddenBy(said, ValueOf(Said(n, entries), parsed.key), parsed.operator,
                                entry.value, Meaning[n][entry.value]))
<1>. DEFINE index   == MappingIndex(entries, parsed.key)
            first   == First(entries, parsed.key)
            current == ValueOf(Said(n, entries), parsed.key)
            value   == entry.value
            result  == MergeEntry(inner, entries, entry)
            overridden == OverriddenBy(said, current, parsed.operator, value, Meaning[n][value])
<1>1. value \in Values(n) /\ parsed.key \in Key /\ parsed.operator \in Operator
  BY ParsedTypes
<1>2. /\ index = 0 => current = Absent
      /\ index # 0 => /\ first \in Values(n) /\ first = entries[index].value
                      /\ current = Meaning[n][first] /\ current.kind = first.kind
  BY SaidValue, IndexFound, FirstTypes, MeaningOf DEF First
<1>3. CASE parsed.operator \in {"prepend", "append"}
  <2>1. result = MergeArray(entries, index, parsed, value)
    BY <1>3 DEF MergeEntry
  <2>. QED BY <1>1, <1>3, <2>1, ArrayEntry
<1>4. CASE /\ parsed.operator = "normal" /\ index # 0
           /\ entries[index].value.kind = "mapping" /\ value.kind = "mapping"
  <2>. DEFINE both == inner[<<first.entries, value.entries>>]
              all  == said[<<Said(n - 1, first.entries), value.entries>>]
  <2>1. /\ n # 0 /\ n - 1 \in Nat /\ (n - 1) + 1 = n
        /\ first.entries \in Entries(n - 1) /\ value.entries \in Entries(n - 1)
    BY <1>1, <1>2, <1>4, ValueKinds
  <2>2. Agrees(n - 1, first.entries, both, all)
    BY <2>1 DEF InnerAgrees
  <2>3. current = Unordered(Said(n - 1, first.entries))
    BY <1>2, <1>4, MeaningOf
  <2>4. overridden = IF all.ok THEN Unordered(all.named) ELSE Misuse
    BY <1>4, <2>3 DEF OverriddenBy, Unordered
  <2>5. result = IF both.ok
                 THEN Merged(SetMappingNode(entries, index, parsed.key, Mapping(both.entries)))
                 ELSE Refused
    BY <1>2, <1>4 DEF MergeEntry
  <2>. HIDE DEF both, all
  <2>6. CASE both = Refused /\ ~ all.ok
    BY <2>4, <2>5, <2>6 DEF Updates, Refused
  <2>7. CASE /\ both.entries \in Entries(n - 1) /\ both = Merged(both.entries)
             /\ all = Means(Said(n - 1, both.entries))
    <3>1. Mapping(both.entries) \in Values(n)
      BY <2>1, <2>7, FlatValues
    <3>2. Meaning[n][Mapping(both.entries)] = Unordered(Said(n - 1, both.entries))
      BY <3>1, MeaningOf DEF Mapping
    <3>3. both.ok /\ all.ok /\ all.named = Said(n - 1, both.entries)
      BY <2>7 DEF Merged, Means
    <3>. QED BY <2>4, <2>5, <3>1, <3>2, <3>3 DEF Updates
  <2>. QED BY <2>2, <2>6, <2>7 DEF Agrees
<1>5. CASE /\ parsed.operator \in {"normal", "force"}
           /\ ~ (/\ parsed.operator = "normal" /\ index # 0
                 /\ entries[index].value.kind = "mapping" /\ value.kind = "mapping")
  <2>1. result = Merged(SetMappingNode(entries, index, parsed.key, value))
    BY <1>5 DEF MergeEntry
  <2>2. current.kind # "misuse" /\ (current.kind = "mapping" => index # 0 /\ first.kind = "mapping")
    BY <1>2, ValueKinds DEF Absent
  <2>3. overridden = Meaning[n][value]
    BY <1>2, <1>5, <2>2 DEF OverriddenBy
  <2>. QED BY <1>1, <2>1, <2>3 DEF Updates
<1>. QED BY <1>1, <1>3, <1>4, <1>5 DEF Operator

-----------------------------------------------------------------------------
(* The loop over the entries of a patch, and the recursion into mappings.  *)

NamedUpTo(patch, i) == {ParseMergeKey(patch[j].key).key : j \in 1 .. i}

\* After i entries: the mapping has its keys and those the entries name, each with
\* what they make of it, or one of them cannot be applied.
LoopInv(n, inner, said, target, patch, i) ==
    LET result    == MergedUpTo(inner, target, patch, i)
        Made(key) == OverriddenUpTo(n, said, Said(n, target), patch, key, i)
    IN  \/ /\ result = Refused
           /\ \/ <<>> \in NamedUpTo(patch, i)
              \/ \E key \in NamedUpTo(patch, i) : Made(key) = Misuse
        \/ \E entries \in Entries(n) :
              /\ result = Merged(entries) /\ Extends(entries, target)
              /\ Keys(entries) = Keys(target) \cup NamedUpTo(patch, i)
              /\ <<>> \notin NamedUpTo(patch, i)
              /\ \A key : Made(key) = ValueOf(Said(n, entries), key)

LEMMA LoopStart ==
    ASSUME NEW n \in Nat, NEW inner, NEW said, NEW target \in Entries(n), NEW patch
    PROVE  LoopInv(n, inner, said, target, patch, 0)
<1>1. MergedUpTo(inner, target, patch, 0) = Merged(target)
  BY MergedEquation
<1>2. \A key : OverriddenUpTo(n, said, Said(n, target), patch, key, 0) = ValueOf(Said(n, target), key)
  BY OverriddenEquation
<1>3. NamedUpTo(patch, 0) = {}
  BY DEF NamedUpTo
<1>. QED BY <1>1, <1>2, <1>3, ExtendsSelf DEF LoopInv

LEMMA LoopStep ==
    ASSUME NEW n \in Nat, NEW inner, NEW said, InnerAgrees(n, inner, said),
           NEW target \in Entries(n), NEW patch \in Entries(n),
           NEW i \in Nat, i < Len(patch), LoopInv(n, inner, said, target, patch, i)
    PROVE  LoopInv(n, inner, said, target, patch, i + 1)
<1>. DEFINE before == MergedUpTo(inner, target, patch, i)
            after  == MergedUpTo(inner, target, patch, i + 1)
            Made(key)   == OverriddenUpTo(n, said, Said(n, target), patch, key, i)
            Remade(key) == OverriddenUpTo(n, said, Said(n, target), patch, key, i + 1)
            entry  == patch[i + 1]
            parsed == ParseMergeKey(entry.key)
<1>1. entry \in [key : Key, value : Values(n)] /\ entry.value \in Values(n)
  BY EntryTypes
<1>2. parsed.key \in Key /\ parsed.operator \in Operator
  BY <1>1, ParsedTypes
<1>3. NamedUpTo(patch, i + 1) = NamedUpTo(patch, i) \cup {parsed.key}
  <2>1. 1 .. i + 1 = (1 .. i) \cup {i + 1}
    OBVIOUS
  <2>. QED BY <2>1 DEF NamedUpTo
<1>4. after = IF before.ok THEN MergeEntry(inner, before.entries, entry) ELSE before
  BY MergedEquation DEF NextEntry
<1>5. ASSUME NEW key
      PROVE  Remade(key) = IF parsed.key # key THEN Made(key)
                           ELSE OverriddenBy(said, Made(key), parsed.operator, entry.value,
                                             Meaning[n][entry.value])
  <2>1. Remade(key) = OverrideKey(n, said, patch, key, Made(key), i + 1)
    BY OverriddenNext
  <2>. QED BY <2>1 DEF OverrideKey
<1>. HIDE DEF before, after, Made, Remade, entry, parsed
<1>6. CASE /\ before = Refused
           /\ <<>> \in NamedUpTo(patch, i) \/ \E key \in NamedUpTo(patch, i) : Made(key) = Misuse
  <2>1. after = Refused
    BY <1>4, <1>6 DEF Refused
  <2>2. ASSUME NEW key, Made(key) = Misuse PROVE Remade(key) = Misuse
    <3>1. OverriddenBy(said, Misuse, parsed.operator, entry.value, Meaning[n][entry.value]) = Misuse
      BY DEF OverriddenBy, Misuse
    <3>. QED BY <1>5, <2>2, <3>1
  <2>3. \/ <<>> \in NamedUpTo(patch, i + 1)
        \/ \E key \in NamedUpTo(patch, i + 1) : Remade(key) = Misuse
    BY <1>3, <1>6, <2>2
  <2>. QED BY <2>1, <2>3 DEF LoopInv, after, Remade
<1>7. ASSUME NEW entries \in Entries(n),
             before = Merged(entries), Extends(entries, target),
             Keys(entries) = Keys(target) \cup NamedUpTo(patch, i),
             <<>> \notin NamedUpTo(patch, i),
             \A key : Made(key) = ValueOf(Said(n, entries), key)
      PROVE  LoopInv(n, inner, said, target, patch, i + 1)
  <2>1. after = MergeEntry(inner, entries, entry)
    BY <1>4, <1>7 DEF Merged
  <2>2. CASE parsed.key = <<>>
    <3>1. after = Refused
      BY <2>1, <2>2 DEF MergeEntry, parsed
    <3>2. <<>> \in NamedUpTo(patch, i + 1)
      BY <1>3, <2>2
    <3>. QED BY <3>1, <3>2 DEF LoopInv, after
  <2>3. CASE parsed.key # <<>>
    <3>1. Updates(n, entries, parsed.key, after, Remade(parsed.key))
      <4>1. Remade(parsed.key) = OverriddenBy(said, ValueOf(Said(n, entries), parsed.key),
                                              parsed.operator, entry.value, Meaning[n][entry.value])
        BY <1>5, <1>7
      <4>2. parsed = ParseMergeKey(entry.key)
        BY DEF parsed
      <4>. QED BY <1>1, <2>1, <2>3, <4>1, <4>2, OneEntry
    <3>2. CASE after = Refused /\ Remade(parsed.key) = Misuse
      <4>1. \E key \in NamedUpTo(patch, i + 1) : Remade(key) = Misuse
        BY <1>3, <3>2
      <4>. QED BY <3>2, <4>1 DEF LoopInv, after, Remade
    <3>3. ASSUME NEW value \in Values(n), NEW updated,
                 updated = SetMappingNode(entries, MappingIndex(entries, parsed.key), parsed.key, value),
                 after = Merged(updated), Remade(parsed.key) = Meaning[n][value]
          PROVE  LoopInv(n, inner, said, target, patch, i + 1)
      <4>1. /\ updated \in Entries(n)
            /\ Keys(updated) = Keys(entries) \cup {parsed.key}
            /\ First(updated, parsed.key) = value
            /\ \A other \in Keys(entries) \ {parsed.key} : First(updated, other) = First(entries, other)
            /\ Extends(updated, entries)
        BY <1>2, <2>3, <3>3, SetEntry
      <4>2. Extends(updated, target)
        BY <1>7, <4>1, ExtendsFurther
      <4>3. Keys(updated) = Keys(target) \cup NamedUpTo(patch, i + 1)
        BY <1>3, <1>7, <4>1
      <4>4. <<>> \notin NamedUpTo(patch, i + 1)
        BY <1>3, <1>7, <2>3
      <4>5. ASSUME NEW key PROVE Remade(key) = ValueOf(Said(n, updated), key)
        <5>1. CASE key = parsed.key
          BY <3>3, <4>1, <5>1, SaidValue
        <5>2. CASE key # parsed.key
          <6>1. Remade(key) = ValueOf(Said(n, entries), key)
            BY <1>5, <1>7, <5>2
          <6>2. ValueOf(Said(n, entries), key) =
                   IF key \in Keys(entries) THEN Meaning[n][First(entries, key)] ELSE Absent
            BY SaidValue
          <6>3. ValueOf(Said(n, updated), key) =
                   IF key \in Keys(updated) THEN Meaning[n][First(updated, key)] ELSE Absent
            BY <4>1, SaidValue
          <6>. QED BY <4>1, <5>2, <6>1, <6>2, <6>3
        <5>. QED BY <5>1, <5>2
      <4>. QED BY <3>3, <4>1, <4>2, <4>3, <4>4, <4>5 DEF LoopInv, after, Remade
    <3>. QED BY <3>1, <3>2, <3>3 DEF Updates
  <2>. QED BY <2>2, <2>3
<1>. QED BY <1>6, <1>7 DEF LoopInv, before, Made

LEMMA LoopHolds ==
    ASSUME NEW n \in Nat, NEW inner, NEW said, InnerAgrees(n, inner, said),
           NEW target \in Entries(n), NEW patch \in Entries(n)
    PROVE  LoopInv(n, inner, said, target, patch, Len(patch))
<1>. DEFINE S == {i \in Nat : i <= Len(patch) => LoopInv(n, inner, said, target, patch, i)}
<1>1. Len(patch) \in Nat
  BY EntryTypes
<1>2. 0 \in S
  BY LoopStart
<1>3. ASSUME NEW i \in Nat, i \in S PROVE i + 1 \in S
  <2>1. SUFFICES ASSUME i + 1 <= Len(patch) PROVE LoopInv(n, inner, said, target, patch, i + 1)
    OBVIOUS
  <2>2. i < Len(patch) /\ i <= Len(patch)
    BY <1>1, <2>1
  <2>. QED BY <1>3, <2>2, LoopStep
<1>. HIDE DEF S
<1>4. Nat \subseteq S
  BY <1>2, <1>3, ValuesRec!SetInduction
<1>. QED BY <1>1, <1>4 DEF S

LEMMA LevelAgrees ==
    ASSUME NEW n \in Nat, NEW inner, NEW said, InnerAgrees(n, inner, said),
           NEW target \in Entries(n), NEW patch \in Entries(n)
    PROVE  Agrees(n, target, MergedUpTo(inner, target, patch, Len(patch)),
                  OverrideAll(n, said, Said(n, target), patch))
<1>. DEFINE result    == MergedUpTo(inner, target, patch, Len(patch))
            Made(key) == OverriddenUpTo(n, said, Said(n, target), patch, key, Len(patch))
            all       == Names(Said(n, target)) \cup Named(patch)
            whole     == OverrideAll(n, said, Said(n, target), patch)
<1>1. whole = IF <<>> \in Named(patch) \/ \E key \in all : Made(key) = Misuse THEN NoMeaning
              ELSE Means({Entry(key, Made(key)) : key \in all})
  BY DEF OverrideAll
<1>2. Named(patch) = NamedUpTo(patch, Len(patch))
  BY EntryTypes DEF Named, NamedUpTo
<1>3. all = Keys(target) \cup Named(patch)
  BY SaidValue
<1>4. LoopInv(n, inner, said, target, patch, Len(patch))
  BY LoopHolds
<1>. HIDE DEF result, Made, all
<1>5. CASE /\ result = Refused
           /\ \/ <<>> \in NamedUpTo(patch, Len(patch))
              \/ \E key \in NamedUpTo(patch, Len(patch)) : Made(key) = Misuse
  <2>1. whole = NoMeaning
    BY <1>1, <1>2, <1>3, <1>5
  <2>. QED BY <1>5, <2>1 DEF Agrees, NoMeaning, result
<1>6. ASSUME NEW entries \in Entries(n),
             result = Merged(entries), Extends(entries, target),
             Keys(entries) = Keys(target) \cup NamedUpTo(patch, Len(patch)),
             <<>> \notin NamedUpTo(patch, Len(patch)),
             \A key : Made(key) = ValueOf(Said(n, entries), key)
      PROVE  Agrees(n, target, result, whole)
  <2>1. all = Keys(entries)
    BY <1>2, <1>3, <1>6
  <2>2. ASSUME NEW key \in all
        PROVE  Made(key) = Meaning[n][First(entries, key)] /\ Made(key) # Misuse
    <3>1. First(entries, key) \in Values(n)
      BY <2>1, FirstTypes
    <3>2. Made(key) = Meaning[n][First(entries, key)]
      BY <1>6, <2>1, SaidValue
    <3>. QED BY <3>1, <3>2, MeaningPresent
  <2>3. whole = Means({Entry(key, Made(key)) : key \in all})
    BY <1>1, <1>2, <1>6, <2>2
  <2>4. {Entry(key, Made(key)) : key \in all} =
           {Entry(key, Meaning[n][First(entries, key)]) : key \in Keys(entries)}
    BY <2>1, <2>2
  <2>5. whole = Means(Said(n, entries))
    BY <2>3, <2>4 DEF Said, NamedValues
  <2>6. result.entries = entries
    BY <1>6 DEF Merged
  <2>. QED BY <1>6, <2>5, <2>6 DEF Agrees
<1>. QED BY <1>4, <1>5, <1>6 DEF LoopInv, result, Made

\* mergeMapping comes to what the documentation says, at every level.
LEMMA MergeAgrees ==
    \A n \in Nat : \A target, patch \in Entries(n) :
       Agrees(n, target, Merging[n][<<target, patch>>], Overriding[n][<<Said(n, target), patch>>])
<1>. DEFINE S == {n \in Nat : \A target, patch \in Entries(n) :
                     Agrees(n, target, Merging[n][<<target, patch>>],
                            Overriding[n][<<Said(n, target), patch>>])}
<1>1. ASSUME NEW n \in Nat, NEW inner, NEW said, InnerAgrees(n, inner, said),
             Merging[n] = MergeLevel(n, inner), Overriding[n] = OverrideLevel(n, said)
      PROVE  n \in S
  <2>1. SUFFICES ASSUME NEW target \in Entries(n), NEW patch \in Entries(n)
                 PROVE  Agrees(n, target, Merging[n][<<target, patch>>],
                               Overriding[n][<<Said(n, target), patch>>])
    OBVIOUS
  <2>2. Merging[n][<<target, patch>>] = MergedUpTo(inner, target, patch, Len(patch))
    BY <1>1 DEF MergeLevel
  <2>3. Overriding[n][<<Said(n, target), patch>>] = OverrideAll(n, said, Said(n, target), patch)
    BY <1>1, SaidTypes DEF OverrideLevel
  <2>. QED BY <1>1, <2>2, <2>3, LevelAgrees
<1>2. 0 \in S
  <2>1. InnerAgrees(0, <<>>, <<>>)
    BY DEF InnerAgrees
  <2>. QED BY <1>1, <2>1, MergingEquation, OverridingEquation
<1>3. ASSUME NEW n \in Nat, n \in S PROVE n + 1 \in S
  <2>1. InnerAgrees(n + 1, Merging[n], Overriding[n])
    <3>1. (n + 1) - 1 = n
      OBVIOUS
    <3>. QED BY <1>3, <3>1 DEF InnerAgrees
  <2>2. /\ Merging[n + 1] = MergeLevel(n + 1, Merging[n])
        /\ Overriding[n + 1] = OverrideLevel(n + 1, Overriding[n])
    BY MergingEquation, OverridingEquation
  <2>. QED BY <1>1, <2>1, <2>2
<1>. HIDE DEF S
<1>4. Nat \subseteq S
  BY <1>2, <1>3, ValuesRec!SetInduction
<1>. QED BY <1>4 DEF S

-----------------------------------------------------------------------------
(* mergeYAML.                                                              *)

\* What the documentation says of a list does not depend on what follows it.
LEMMA DocumentedAppend ==
    ASSUME NEW doc, NEW list \in Seq(Override), NEW override \in Override
    PROVE  DocumentedUpTo(doc, Append(list, override), Len(list) + 1) =
              OverriddenWith(DocumentedUpTo(doc, list, Len(list)), override)
<1>. DEFINE longer == Append(list, override)
            S == {n \in Nat : n <= Len(list) =>
                     DocumentedUpTo(doc, longer, n) = DocumentedUpTo(doc, list, n)}
<1>1. /\ Len(list) \in Nat /\ \A n \in 1 .. Len(list) : longer[n] = list[n]
      /\ longer[Len(list) + 1] = override
  BY AppendProperties
<1>. HIDE DEF longer
<1>2. 0 \in S
  BY DocumentedEquation
<1>3. ASSUME NEW n \in Nat, n \in S PROVE n + 1 \in S
  <2>1. SUFFICES ASSUME n + 1 <= Len(list)
                 PROVE  DocumentedUpTo(doc, longer, n + 1) = DocumentedUpTo(doc, list, n + 1)
    OBVIOUS
  <2>2. n + 1 \in 1 .. Len(list) /\ n <= Len(list)
    BY <1>1, <2>1
  <2>3. longer[n + 1] = list[n + 1] /\ DocumentedUpTo(doc, longer, n) = DocumentedUpTo(doc, list, n)
    BY <1>1, <1>3, <2>2
  <2>. QED BY <2>3, DocumentedEquation
<1>. HIDE DEF S
<1>4. Nat \subseteq S
  BY <1>2, <1>3, ValuesRec!SetInduction
<1>5. DocumentedUpTo(doc, longer, Len(list)) = DocumentedUpTo(doc, list, Len(list))
  BY <1>1, <1>4 DEF S
<1>6. DocumentedUpTo(doc, longer, Len(list) + 1) =
         OverriddenWith(DocumentedUpTo(doc, longer, Len(list)), longer[Len(list) + 1])
  BY <1>1, DocumentedEquation
<1>. QED BY <1>1, <1>5, <1>6 DEF longer

\* A round of the loop, whether the override is disabled, unreadable or merged.
LEMMA RoundAgrees ==
    ASSUME NEW entries \in Entries(MaxDepth), NEW override \in Override
    PROVE  Agrees(MaxDepth, entries, MergedWith(entries, override),
                  OverriddenWith(Means(Said(MaxDepth, entries)), override))
<1>. DEFINE result == MergedWith(entries, override)
            said   == OverriddenWith(Means(Said(MaxDepth, entries)), override)
<1>1. MaxDepth \in Nat /\ override.content \in Entries(MaxDepth) \cup {Unreadable}
  BY MergeAssumption
<1>2. CASE ~ override.enabled
  <2>1. result = Merged(entries) /\ said = Means(Said(MaxDepth, entries))
    BY <1>2 DEF MergedWith, OverriddenWith
  <2>. QED BY <1>1, <2>1, ExtendsSelf DEF Agrees, Merged
<1>3. CASE override.enabled /\ override.content = Unreadable
  <2>1. result = Refused /\ said = NoMeaning
    BY <1>3 DEF MergedWith, OverriddenWith, Means
  <2>. QED BY <2>1 DEF Agrees, NoMeaning
<1>4. CASE override.enabled /\ override.content # Unreadable
  <2>1. result = Merging[MaxDepth][<<entries, override.content>>]
    BY <1>4 DEF MergedWith, MergeMapping
  <2>2. said = Overriding[MaxDepth][<<Said(MaxDepth, entries), override.content>>]
    BY <1>4 DEF OverriddenWith, Means
  <2>. QED BY <1>1, <1>4, <2>1, <2>2, MergeAgrees
<1>. QED BY <1>2, <1>3, <1>4

LEMMA InitHolds == Init => TypeOK /\ PositionsKept /\ MergedAsDocumented
<1>. SUFFICES ASSUME Init PROVE TypeOK /\ PositionsKept /\ MergedAsDocumented
  OBVIOUS
<1>1. overrides = <<>> /\ overrides \in Seq(Override) /\ Len(overrides) = 0
  BY DEF Init
<1>2. Documented = SaidBy(base)
  BY <1>1, DocumentedEquation DEF Documented
<1>3. CASE base = Unreadable
  <2>1. root = <<>> /\ status = "refused"
    BY <1>3 DEF Init
  <2>2. <<>> \in Entries(MaxDepth)
    BY DEF Entries, EntriesOver
  <2>3. TypeOK
    BY <1>1, <1>3, <2>1, <2>2, MergeAssumption DEF TypeOK
  <2>. QED BY <1>2, <1>3, <2>1, <2>3 DEF PositionsKept, MergedAsDocumented, SaidBy, NoMeaning
<1>4. CASE base # Unreadable
  <2>1. base \in Document /\ base \in Entries(MaxDepth) /\ root = base /\ status = "merging"
    BY <1>4, MergeAssumption DEF Init
  <2>2. TypeOK
    BY <1>1, <1>4, <2>1, MergeAssumption DEF TypeOK
  <2>3. PositionsKept
    BY <2>1, MergeAssumption, ExtendsSelf DEF PositionsKept
  <2>4. MergedAsDocumented
    BY <1>2, <1>4, <2>1 DEF MergedAsDocumented, SaidBy, Means
  <2>. QED BY <2>2, <2>3, <2>4
<1>. QED BY <1>3, <1>4

\* While the loop runs, the base was read and the root says what is documented.
LEMMA Underway ==
    ASSUME TypeOK, status = "merging"
    PROVE  /\ MaxDepth \in Nat /\ base \in Entries(MaxDepth) /\ base # Unreadable
           /\ root \in Entries(MaxDepth)
           /\ MergedAsDocumented => /\ Documented.ok
                                    /\ Documented.named = Said(MaxDepth, root)
BY MergeAssumption DEF TypeOK, MergedAsDocumented

LEMMA MergeOverrideHolds ==
    ASSUME TypeOK, NEW override \in Override, MergeOverride(override)
    PROVE  /\ TypeOK'
           /\ PositionsKept => PositionsKept'
           /\ MergedAsDocumented => MergedAsDocumented'
<1>. DEFINE result == MergedWith(root, override)
            said   == OverriddenWith(Means(Said(MaxDepth, root)), override)
<1>1. /\ status = "merging" /\ base' = base
      /\ root' = result.entries /\ status' = IF result.ok THEN "merging" ELSE "refused"
  BY DEF MergeOverride
<1>2. /\ MaxDepth \in Nat /\ base \in Entries(MaxDepth) /\ base # Unreadable
      /\ root \in Entries(MaxDepth)
  BY <1>1, Underway
<1>3. Agrees(MaxDepth, root, result, said)
  BY <1>2, RoundAgrees
<1>4. /\ overrides \in Seq(Override) /\ overrides' = Append(overrides, override)
      /\ overrides' \in Seq(Override) /\ Len(overrides') = Len(overrides) + 1
      /\ Len(overrides') <= MaxOverrides
  BY MergeAssumption, AppendProperties DEF TypeOK, MergeOverride
<1>5. base' \in Document \cup {Unreadable}
  BY <1>1 DEF TypeOK
<1>6. MergedAsDocumented => (Documented'.ok <=> said.ok) /\ Documented'.named = said.named
  <2>1. SUFFICES ASSUME MergedAsDocumented
                 PROVE  (Documented'.ok <=> said.ok) /\ Documented'.named = said.named
    OBVIOUS
  <2>2. Documented' = OverriddenWith(Documented, override)
    BY <1>1, <1>4, DocumentedAppend DEF Documented
  <2>3. Documented.ok /\ Documented.named = Said(MaxDepth, root)
    BY <1>1, <2>1, Underway
  <2>. QED BY <2>2, <2>3 DEF OverriddenWith, Means
<1>. HIDE DEF result, said
<1>7. CASE result = Refused /\ ~ said.ok
  <2>1. root' = <<>> /\ status' = "refused" /\ <<>> \in Entries(MaxDepth)
    BY <1>1, <1>7 DEF Refused, Entries, EntriesOver
  <2>2. TypeOK'
    BY <1>4, <1>5, <2>1 DEF TypeOK
  <2>. QED BY <1>6, <1>7, <2>1, <2>2 DEF PositionsKept, MergedAsDocumented
<1>8. CASE /\ result.entries \in Entries(MaxDepth) /\ result = Merged(result.entries)
           /\ Extends(result.entries, root)
           /\ said = Means(Said(MaxDepth, result.entries))
  <2>1. root' = result.entries /\ status' = "merging"
    BY <1>1, <1>8 DEF Merged
  <2>2. TypeOK'
    BY <1>1, <1>2, <1>4, <1>5, <1>8, <2>1 DEF TypeOK
  <2>3. PositionsKept => PositionsKept'
    <3>1. SUFFICES ASSUME Extends(root, base) PROVE Extends(root', base')
      BY <1>1, <2>1 DEF PositionsKept
    <3>. QED BY <1>1, <1>2, <1>8, <2>1, <3>1, ExtendsFurther
  <2>4. MergedAsDocumented => MergedAsDocumented'
    <3>1. said.ok /\ said.named = Said(MaxDepth, root')
      BY <1>8, <2>1 DEF Means
    <3>. QED BY <1>6, <2>1, <3>1 DEF MergedAsDocumented
  <2>. QED BY <2>2, <2>3, <2>4
<1>. QED BY <1>3, <1>7, <1>8 DEF Agrees

LEMMA FinishHolds ==
    ASSUME TypeOK, Finish
    PROVE  /\ TypeOK'
           /\ PositionsKept => PositionsKept'
           /\ MergedAsDocumented => MergedAsDocumented'
<1>1. /\ status = "merging" /\ status' = "done" /\ base' = base /\ overrides' = overrides
      /\ root' = SetMappingNode(root, MappingIndex(root, SocketKey), SocketKey, SocketPath)
  BY DEF Finish
<1>2. /\ MaxDepth \in Nat /\ base \in Entries(MaxDepth) /\ base # Unreadable
      /\ root \in Entries(MaxDepth)
  BY <1>1, Underway
<1>3. /\ SocketKey \in Key /\ SocketKey # <<>>
      /\ SocketPath \in Values(MaxDepth) /\ SocketPath.kind = "leaf"
  <2>1. SocketPath \in Flat
    BY MergeAssumption DEF Flat
  <2>. QED BY <1>2, <2>1, MergeAssumption, FlatValues
<1>4. /\ root' \in Entries(MaxDepth)
      /\ Keys(root') = Keys(root) \cup {SocketKey}
      /\ First(root', SocketKey) = SocketPath
      /\ \A other \in Keys(root) \ {SocketKey} : First(root', other) = First(root, other)
      /\ Extends(root', root)
  BY <1>1, <1>2, <1>3, SetEntry
<1>5. TypeOK'
  BY <1>1, <1>2, <1>4 DEF TypeOK
<1>6. PositionsKept => PositionsKept'
  <2>1. SUFFICES ASSUME Extends(root, base) PROVE Extends(root', base')
    BY <1>1 DEF PositionsKept
  <2>. QED BY <1>1, <1>2, <1>4, <2>1, ExtendsFurther
<1>7. MergedAsDocumented => MergedAsDocumented'
  <2>. DEFINE before == Said(MaxDepth, root)
              after  == Said(MaxDepth, root')
              socket == Entry(SocketKey, SocketPath)
  <2>1. SUFFICES ASSUME MergedAsDocumented PROVE MergedAsDocumented'
    OBVIOUS
  <2>2. Documented' = Documented
    BY <1>1 DEF Documented
  <2>3. Documented.ok /\ Documented.named = before
    BY <1>1, <2>1, Underway
  <2>4. Meaning[MaxDepth][SocketPath] = SocketPath
    BY <1>2, <1>3, MeaningOf
  <2>5. after = {entry \in before : entry.key # SocketKey} \cup {socket}
    <3>1. ASSUME NEW entry \in after
          PROVE  entry = socket \/ (entry \in before /\ entry.key # SocketKey)
      <4>1. PICK key \in Keys(root') : entry = Entry(key, Meaning[MaxDepth][First(root', key)])
        BY DEF Said, NamedValues
      <4>2. CASE key = SocketKey
        <5>1. entry = Entry(SocketKey, Meaning[MaxDepth][First(root', SocketKey)])
          BY <4>1, <4>2
        <5>2. First(root', SocketKey) = SocketPath
          BY <1>4
        <5>3. entry = Entry(SocketKey, Meaning[MaxDepth][SocketPath])
          BY <5>1, <5>2
        <5>. QED BY <2>4, <5>3
      <4>3. CASE key # SocketKey
        <5>1. key \in Keys(root) /\ entry = Entry(key, Meaning[MaxDepth][First(root, key)])
          BY <1>4, <4>1, <4>3
        <5>. QED BY <4>3, <5>1 DEF Said, NamedValues, Entry
      <4>. QED BY <4>2, <4>3
    <3>2. ASSUME NEW entry \in before, entry.key # SocketKey PROVE entry \in after
      <4>1. PICK key \in Keys(root) : entry = Entry(key, Meaning[MaxDepth][First(root, key)])
        BY DEF Said, NamedValues
      <4>2. key # SocketKey
        BY <3>2, <4>1 DEF Entry
      <4>3. key \in Keys(root') /\ entry = Entry(key, Meaning[MaxDepth][First(root', key)])
        BY <1>4, <4>1, <4>2
      <4>. QED BY <4>3 DEF Said, NamedValues
    <3>3. socket \in after
      BY <1>4, <2>4 DEF Said, NamedValues
    <3>. HIDE DEF before, after, socket
    <3>. QED BY <3>1, <3>2, <3>3
  <2>. HIDE DEF after
  <2>6. after = {entry \in Documented.named : entry.key # SocketKey} \cup {socket}
    BY <2>3, <2>5
  <2>. QED BY <1>1, <2>2, <2>3, <2>6 DEF MergedAsDocumented, after
<1>. QED BY <1>5, <1>6, <1>7

LEMMA NothingHolds ==
    ASSUME TypeOK, UNCHANGED vars
    PROVE  /\ TypeOK'
           /\ PositionsKept => PositionsKept'
           /\ MergedAsDocumented => MergedAsDocumented'
BY DEF vars, TypeOK, PositionsKept, MergedAsDocumented, Documented

LEMMA NextHolds ==
    ASSUME TypeOK, [Next]_vars
    PROVE  /\ TypeOK'
           /\ PositionsKept => PositionsKept'
           /\ MergedAsDocumented => MergedAsDocumented'
<1>1. CASE \E override \in Override : MergeOverride(override)
  BY <1>1, MergeOverrideHolds
<1>2. CASE Finish
  BY <1>2, FinishHolds
<1>3. CASE UNCHANGED vars
  BY <1>3, NothingHolds
<1>. QED BY <1>1, <1>2, <1>3 DEF Next

-----------------------------------------------------------------------------
(* The theorems.                                                           *)

\* The root stays a document as deep as those it is made of, and a refused merge
\* leaves none (yamlmerge.go mergeYAML).
THEOREM TypeCorrect == Spec => []TypeOK
<1>1. Init => TypeOK
  BY InitHolds
<1>2. TypeOK /\ [Next]_vars => TypeOK'
  BY NextHolds
<1>. QED BY <1>1, <1>2, PTL DEF Spec

\* A merge keeps the keys of the base where they are and adds to the end, whatever
\* is merged (yamlmerge.go setMappingNode).
THEOREM KeepsPositions == Spec => []PositionsKept
<1>1. Init => TypeOK /\ PositionsKept
  BY InitHolds
<1>2. TypeOK /\ PositionsKept /\ [Next]_vars => TypeOK' /\ PositionsKept'
  BY NextHolds
<1>. QED BY <1>1, <1>2, PTL DEF Spec

\* For any base and any list of overrides, of any size and depth, the effective
\* document says, key by key, what the documentation says, and what is refused is
\* refused for a reason it gives (yamlmerge.go mergeYAML, mergeMapping).
THEOREM MergesAsDocumented == Spec => []MergedAsDocumented
<1>1. Init => TypeOK /\ MergedAsDocumented
  BY InitHolds
<1>2. TypeOK /\ MergedAsDocumented /\ [Next]_vars => TypeOK' /\ MergedAsDocumented'
  BY NextHolds
<1>. QED BY <1>1, <1>2, PTL DEF Spec

\* Every key there is can be named by an override, with every operator
\* (yamlmerge.go parseMergeKey).
THEOREM KeysAddressable == Spec => []Addressable
<1>1. TypeOK => Addressable
  <2>1. SUFFICES ASSUME TypeOK, NEW key \in Keys(root), NEW operator \in Operator
                 PROVE  ParseMergeKey(Spelled(key, operator)) = [key |-> key, operator |-> operator]
    BY DEF Addressable
  <2>2. MaxDepth \in Nat /\ root \in Entries(MaxDepth)
    BY <2>1, MergeAssumption DEF TypeOK
  <2>. QED BY <2>2, FirstTypes, SpelledParses
<1>. QED BY <1>1, TypeCorrect, PTL
=============================================================================
