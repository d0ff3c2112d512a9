----------------------------- MODULE QueryString -----------------------------
(***************************************************************************)
(* Query strings (query.c): the iterator that cuts one into fields, and    *)
(* the decoder of a key or value.  A string is a sequence of bytes, the    *)
(* position of the iterator an index of it or Null.                        *)
(***************************************************************************)
EXTENDS Integers, FiniteSets, Sequences, SequencesExt

Separators == {38, 59}                                    \* '&' and ';'
Equals == 61
Percent == 37
Plus == 43
Space == 32

Null == 0
Stuck == -1       \* in place of a byte: the decoder never gets past this point

(***************************************************************************)
(* The iterator.                                                           *)
(***************************************************************************)
HasNext(qs, cur) == cur # Null /\ cur <= Len(qs)

\* The end of the field at cur, one past its last byte.
FieldEnd(qs, cur) ==
    IF \E i \in cur .. Len(qs) : qs[i] \in Separators
    THEN CHOOSE i \in cur .. Len(qs) :
            qs[i] \in Separators /\ \A j \in cur .. i - 1 : qs[j] \notin Separators
    ELSE Len(qs) + 1

Field(qs, cur) == SubSeq(qs, cur, FieldEnd(qs, cur) - 1)

\* Mutant: the end of the string is passed like a separator.
MovedPast(qs, cur) == FieldEnd(qs, cur) + 1

Moved(qs, cur) == IF FieldEnd(qs, cur) <= Len(qs) THEN FieldEnd(qs, cur) + 1 ELSE Null

\* kvsep: a later '=' of the field takes the place of an earlier one.
KeySeparator(field) ==
    IF \E i \in DOMAIN field : field[i] = Equals
    THEN CHOOSE i \in DOMAIN field :
            field[i] = Equals /\ \A j \in i + 1 .. Len(field) : field[j] # Equals
    ELSE Len(field) + 1

QueryIterKey(qs, cur) == LET field == Field(qs, cur) IN SubSeq(field, 1, KeySeparator(field) - 1)
QueryIterVal(qs, cur) ==
    LET field == Field(qs, cur) IN SubSeq(field, KeySeparator(field) + 1, Len(field))

(***************************************************************************)
(* The decoder.                                                            *)
(***************************************************************************)
HexDigitToDecimal(c) ==
    CASE c \in 48 .. 57  -> c - 48
      [] c \in 65 .. 70  -> c - 55
      [] c \in 97 .. 102 -> c - 87
      [] OTHER           -> -1

HexToAscii(c, d) == (HexDigitToDecimal(c) * 16 + HexDigitToDecimal(d)) % 256

\* Mutant: an escape needs a byte after it.
QueryStrDecodeShort(in) ==
    LET from[i \in 1 .. Len(in) + 3] ==
            IF i > Len(in) THEN <<>>
            ELSE IF in[i] = Percent
                 THEN IF i + 3 <= Len(in)
                      THEN <<HexToAscii(in[i + 1], in[i + 2])>> \o from[i + 3]
                      ELSE <<Stuck>>
                 ELSE <<IF in[i] = Plus THEN Space ELSE in[i]>> \o from[i + 1]
    IN  from[1]

\* A '%' with fewer than two bytes after it moves the loop's index no further.
QueryStrDecode(in) ==
    LET from[i \in 1 .. Len(in) + 3] ==
            IF i > Len(in) THEN <<>>
            ELSE IF in[i] = Percent
                 THEN IF i + 2 <= Len(in)
                      THEN <<HexToAscii(in[i + 1], in[i + 2])>> \o from[i + 3]
                      ELSE <<Stuck>>
                 ELSE <<IF in[i] = Plus THEN Space ELSE in[i]>> \o from[i + 1]
    IN  from[1]

Hangs(in) == Stuck \in Range(QueryStrDecode(in))

(***************************************************************************)
(* The reference, one byte at a time: a query string is cut at every       *)
(* separator; what follows a last separator is no field if it is empty.  A *)
(* field is cut at its last '='.  In decoding, an escape is kept back      *)
(* until both of its digits are there.                                     *)
(***************************************************************************)
Cut(state, c) ==
    IF c \in Separators
    THEN [done |-> Append(state.done, state.open), open |-> <<>>]
    ELSE [state EXCEPT !.open = Append(@, c)]

\* The fields complete after n bytes, and the one that is not.
CutUpTo(qs) ==
    LET upTo[n \in 0 .. Len(qs)] ==
            IF n = 0 THEN [done |-> <<>>, open |-> <<>>] ELSE Cut(upTo[n - 1], qs[n])
    IN  upTo

Fields(qs) ==
    LET end == CutUpTo(qs)[Len(qs)]
    IN  IF end.open = <<>> THEN end.done ELSE Append(end.done, end.open)

Feed(state, c) ==
    IF state.held # <<>>
    THEN IF Len(state.held) = 2
         THEN [out |-> Append(state.out, HexToAscii(state.held[2], c)), held |-> <<>>]
         ELSE [state EXCEPT !.held = Append(@, c)]
    ELSE CASE c = Percent -> [state EXCEPT !.held = <<c>>]
           [] c = Plus    -> [state EXCEPT !.out = Append(@, Space)]
           [] OTHER       -> [state EXCEPT !.out = Append(@, c)]

FedUpTo(in) ==
    LET upTo[n \in 0 .. Len(in)] ==
            IF n = 0 THEN [out |-> <<>>, held |-> <<>>] ELSE Feed(upTo[n - 1], in[n])
    IN  upTo

Decoded(in) == FedUpTo(in)[Len(in)].out
Truncated(in) == FedUpTo(in)[Len(in)].held # <<>>

KeyOf(field) ==
    LET equals == {i \in DOMAIN field : field[i] = Equals}
    IN  IF equals = {} THEN field ELSE SubSeq(field, 1, Max(equals) - 1)

ValueOf(field) ==
    LET equals == {i \in DOMAIN field : field[i] = Equals}
    IN  IF equals = {} THEN <<>> ELSE SubSeq(field, Max(equals) + 1, Len(field))

\* A field without a name gives no value.
NameOf(field) == Decoded(KeyOf(field))
GivenBy(field) == IF NameOf(field) = <<>> THEN <<>> ELSE Decoded(ValueOf(field))

\* The values fields give to a name, in order.
ValuesUpTo(fields, name) ==
    LET upTo[n \in 0 .. Len(fields)] ==
            IF n = 0 THEN <<>>
            ELSE IF NameOf(fields[n]) = name THEN Append(upTo[n - 1], GivenBy(fields[n]))
            ELSE upTo[n - 1]
    IN  upTo

ValuesOf(fields, name) == ValuesUpTo(fields, name)[Len(fields)]

TableOf(fields) == [name \in {NameOf(f) : f \in Range(fields)} |-> ValuesOf(fields, name)]

Table(qs) == TableOf(Fields(qs))

HasTruncated(qs) == \E f \in Range(Fields(qs)) : Truncated(KeyOf(f)) \/ Truncated(ValueOf(f))

HasRepeated(qs) == \E name \in DOMAIN Table(qs) : Len(Table(qs)[name]) > 2
=============================================================================
