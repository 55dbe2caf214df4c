---------------------------- MODULE MCYamlMerge ----------------------------
(***************************************************************************)
(* Small documents for TLC: keys with and without operator characters, one *)
(* key twice, a key that is empty, leaves, arrays, mappings in mappings.   *)
(***************************************************************************)
EXTENDS YamlMerge

Characters == {"a", "b", "s", "!", "+", "<", ">"}
Scalars    == {"one", "two", "socket"}

One   == Leaf("one")
Two   == Leaf("two")
Items == {One, Two}
A     == <<"a">>
B     == <<"b">>

\* Values of a base, and of an override; an override's mapping may hold
\* operators of its own.
BaseValues == {One, Array(<<One>>), Mapping(<<>>), Mapping(<<Entry(A, Array(<<One>>))>>)}
Inner == {Entry(A, Two), Entry(<<"a", "+">>, Array(<<Two>>)), Entry(<<"<", "b", ">">>, Two)}
PatchValues == {Two, Array(<<Two>>)} \cup {Mapping(<<entry>>) : entry \in Inner}

\* All mappings of at most n entries with different keys.
Mappings(n, keys, values) ==
    {entries \in BoundedSeq({Entry(key, value) : key \in keys, value \in values}, n) :
        Cardinality(Keys(entries)) = Len(entries)}

BaseKeys == {A, <<"+", "a">>}
RawKeys  == {A, <<"a", "!">>, <<"+", "a">>, <<"a", "+">>, <<"<", "+", "a", ">">>,
             <<"<", ">">>, <<"s">>}

Twice == {<<Entry(A, first), Entry(A, second)>> :
             first, second \in {One, Array(<<One>>), Mapping(<<Entry(B, One), Entry(B, Two)>>)}}

Bases   == Mappings(2, BaseKeys, BaseValues) \cup Twice \cup
           Mappings(1, {<<>>, <<"a", "!">>, <<"<", "a", ">">>, <<"<", "a", ">", "+">>}, {One})
Patches == Mappings(1, RawKeys, PatchValues) \cup
           Mappings(2, {A, <<"+", "a">>, <<"a", "+">>, <<"a", "!">>},
                       {Two, Array(<<Two>>), Mapping(<<Entry(A, Two)>>)})
               \cup {<<Entry(A, Mapping(<<Entry(B, One), Entry(B, Two)>>)),
                       Entry(A, Mapping(<<Entry(<<"b", "+">>, Array(<<Two>>))>>))>>}

Documents == Bases
Overrides ==
    [enabled : {TRUE}, content : Patches \cup {Unreadable}]
        \cup [enabled : {FALSE}, content : {<<Entry(A, Two)>>, Unreadable}]
Socket    == Leaf("socket")
SocketRaw == <<"s">>
=============================================================================
