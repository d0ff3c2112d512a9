---------------------------- MODULE OrderedScan ----------------------------
(***************************************************************************)
(* What order(), iorder() and next() promise (doc/API.md, lmdb.Transaction) *)
(* on a tree of named nodes that put() and delete() change between their    *)
(* calls: each call of the iterator, or of next(), returns the first child  *)
(* of the node that follows the one it was given or returned last; at the   *)
(* end, the iterator stays where it is.                                     *)
(***************************************************************************)
EXTENDS LuaDbKeys

CONSTANTS Keys,    \* the keys a script uses
          Vals,    \* the values it stores
          NoName,  \* before the first child
          End      \* there is no further child (nil); no iterator

VARIABLES db,      \* the nodes that have a value -> the value
          node,    \* the node the iterator is for, or End
          at,      \* the child the iterator is at, or NoName
          got      \* what the last call of the iterator or of next returned

vars == <<db, node, at, got>>

Init == db = <<>> /\ node = End /\ at = NoName /\ got = End

Children(p) == {k[Len(p) + 1] : k \in {x \in DOMAIN db : IsStrictPrefix(p, x)}}

Following(p, name) ==
    {c \in Children(p) : name = NoName \/ CompareSegments(c, name) > 0}

\* c is the answer for node p after the child called name.
Answer(p, name, c) ==
    LET F == Following(p, name)
    IN  IF F = {} THEN c = End
        ELSE c \in F /\ \A d \in F : CompareSegments(c, d) <= 0

Put(k, v) == /\ db' = [x \in DOMAIN db \cup {k} |-> IF x = k THEN v ELSE db[x]]
             /\ UNCHANGED <<node, at, got>>

Delete(k) == /\ db' = [x \in DOMAIN db \ {k} |-> db[x]]
             /\ UNCHANGED <<node, at, got>>

Order(p, name) == /\ node' = p /\ at' = name
                  /\ UNCHANGED <<db, got>>

Iterate == /\ node # End
           /\ Answer(node, at, got')
           /\ at' = IF got' = End THEN at ELSE got'
           /\ UNCHANGED <<db, node>>

CallNext(p, name) == /\ Answer(p, name, got')
                     /\ UNCHANGED <<db, node, at>>

\* The node and the child that the arguments of order and next name: a nil
\* last stands before the first child of the others.
Parent(args) == GetKeyPrefix(args)
From(args) == IF args = <<>> \/ Last(args) = NilSegment THEN NoName ELSE Last(args)

Args == {<<>>} \cup Keys \cup {Append(k, NilSegment) : k \in Keys}

Next ==
    \/ \E k \in Keys : Delete(k) \/ \E v \in Vals : Put(k, v)
    \/ \E a \in Args : Order(Parent(a), From(a)) \/ CallNext(Parent(a), From(a))
    \/ Iterate

Spec == Init /\ [][Next]_vars
=============================================================================
