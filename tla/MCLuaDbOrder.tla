---------------------------- MODULE MCLuaDbOrder ----------------------------
(* LuaDbOrder for TLC: a few keys of up to three segments.                  *)
EXTENDS LuaDbOrder

Str(bytes) == [type |-> StringType, data |-> bytes]
Num(bytes) == [type |-> IntegerType, data |-> bytes]
Bool(byte) == [type |-> BooleanType, data |-> <<byte>>]

\* "a" with the children 7 (itself with "a" below) and "b", "b" with "b", and
\* true: no name starts another.
PlainKeys == {<<Str(<<97>>)>>, <<Bool(49)>>, <<Str(<<97>>), Num(<<55>>), Str(<<97>>)>>,
              <<Str(<<97>>), Num(<<55>>)>>, <<Str(<<97>>), Str(<<98>>)>>,
              <<Str(<<98>>), Str(<<98>>)>>}
\* "a", "ab", "b".
NestedKeys == {<<n>> : n \in {Str(<<97>>), Str(<<97, 98>>), Str(<<98>>)}}

Empty == {<<>>}

\* The theorems about traversal are about the keys of the runs.
ASSUME KeysArePlain ==
    PlainNames /\ OneSpelling /\ ReadsBack /\ (NoneStartsAnother <=> Keys = PlainKeys)
=============================================================================
