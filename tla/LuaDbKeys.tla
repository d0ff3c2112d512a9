----------------------------- MODULE LuaDbKeys -----------------------------
(***************************************************************************)
(* The keys of LuaDB (src/src/lmdb.c): a key is a sequence of segments, one *)
(* for each argument of tx:put, and a segment is a type and a string of     *)
(* bytes. In the database a key is the concatenation of its segments, each  *)
(* preceded by its length and type. Segments of more than 127 bytes, whose  *)
(* length reads back negative, are left out.                                *)
(***************************************************************************)
EXTENDS Integers, Sequences, SequencesExt

Byte == 0..255

EmptyType == 1       \* the type of a nil given as last argument
BooleanType == 98    \* 'b'
IntegerType == 105   \* 'i'
NumericType == 110   \* 'n'
StringType == 115    \* 's'

Segment == [type : Byte, data : Seq(Byte)]
Key == Seq(Segment)

\* What a nil argument becomes: one NUL byte.
NilSegment == [type |-> EmptyType, data |-> <<0>>]

Sign(n) == IF n > 0 THEN 1 ELSE IF n < 0 THEN -1 ELSE 0

\* C's strncmp of two strings up to the shorter one: the first difference, or
\* the first NUL both have, decides.
StrnCmp(s, t) ==
    LET stop == {i \in DOMAIN s \cap DOMAIN t : s[i] # t[i] \/ s[i] = 0}
    IN  IF stop = {} THEN 0 ELSE LET i == Min(stop) IN Sign(s[i] - t[i])

\* One round of the loop of CompareKeys: the data, then the lengths. The types
\* do not count.
CompareSegments(s, t) ==
    LET c == StrnCmp(s.data, t.data)
    IN  IF c # 0 THEN c ELSE Sign(Len(s.data) - Len(t.data))

\* CompareKeys, the order of the B-tree: segment by segment, and a key before
\* the keys it is a prefix of.
CompareKeys(a, b) ==
    LET differ == {i \in DOMAIN a \cap DOMAIN b : CompareSegments(a[i], b[i]) # 0}
    IN  IF differ = {} THEN Sign(Len(a) - Len(b))
        ELSE LET i == Min(differ) IN CompareSegments(a[i], b[i])

SameKey(a, b) == CompareKeys(a, b) = 0

\* GenerateLuaDbKey: the bytes of a key.
KeyBytes(key) ==
    FlattenSeq([i \in DOMAIN key |-> <<Len(key[i].data), key[i].type>> \o key[i].data])

\* Mutant: the key is left as it is.
ComputeNextLexicalValueSame(key) == key

\* ComputeNextLexicalValue: one more in the last byte of the key, which is the
\* type of a segment without data. The byte wraps.
ComputeNextLexicalValue(key) ==
    LET n == Len(key)
        m == Len(key[n].data)
    IN  IF m = 0 THEN [key EXCEPT ![n].type = (@ + 1) % 256]
        ELSE [key EXCEPT ![n].data[m] = (@ + 1) % 256]

\* GetKeyPrefix: every segment but the last.
GetKeyPrefix(key) == IF key = <<>> THEN <<>> ELSE Front(key)

\* ReplaceLastKeySegment; a key without segments becomes the segment.
ReplaceLastKeySegment(key, seg) == Append(GetKeyPrefix(key), seg)

\* The test of order, next and data that a key lies under a prefix: strncmp
\* over as many bytes as the prefix has, which stops at a NUL in both.
Matches(prefix, key) ==
    LET p == KeyBytes(prefix)
        k == KeyBytes(key)
        nul == {i \in DOMAIN p : p[i] = 0}
        n == IF nul = {} THEN Len(p) ELSE Min(nul)
    IN  n <= Len(k) /\ \A i \in 1..n : p[i] = k[i]

\* FindFirstDifferentKeyNode: the place of the first segment of key that is
\* not one of prefix; 0 for NULL.
FindFirstDifferentKeyNode(prefix, key) ==
    LET new == {i \in DOMAIN key : i \notin DOMAIN prefix \/ prefix[i] # key[i]}
    IN  IF new = {} THEN 0 ELSE Min(new)

\* How far sscanf reads a number ("%lld", "%d", and "%lf" without exponent):
\* a sign, digits, and for the last one point.
Scanned(bytes, pointed) ==
    LET inNumber(j) == \/ bytes[j] \in 48..57
                       \/ j = 1 /\ bytes[j] = 45
                       \/ /\ pointed /\ bytes[j] = 46
                          /\ \A i \in 1..(j - 1) : bytes[i] # 46
        stop == {j \in DOMAIN bytes : ~ inNumber(j)}
    IN  IF stop = {} THEN bytes ELSE SubSeq(bytes, 1, Min(stop) - 1)

\* PushValueByType: the Lua value a segment is read back as, with the type and
\* spelling it has as a key. A string has its length; the others are scanned
\* from where their data starts in the node, where the rest of the key and
\* the value follow. (At the end of the node zeros are assumed.)
PushValueByType(key, i, val) ==
    LET seg == key[i]
        rest == seg.data \o KeyBytes(SubSeq(key, i + 1, Len(key))) \o val
        number == Scanned(rest, seg.type = NumericType)
    IN  CASE seg.type = StringType -> seg
          [] seg.type \in {IntegerType, NumericType} -> [seg EXCEPT !.data = number]
          [] seg.type = BooleanType ->
                [seg EXCEPT !.data = IF ToSet(number) \subseteq {48} THEN <<48>> ELSE <<49>>]
=============================================================================
