---------------------------- MODULE MCJsonDecode ----------------------------
(***************************************************************************)
(* The documents of JsonDecode: two names, two leaves and null; arrays up   *)
(* to three and objects up to two, alone and in one another. They are made  *)
(* as trees, whose nodes are then put in order.                             *)
(***************************************************************************)
EXTENDS JsonDecode

MCNull == <<"null">>
MCLeaf == {<<"leaf", "x">>, <<"leaf", "y">>}
MCName == {"j", "k"}

MCArrays(kids, n) == {<<"array", s>> : s \in UNION {[1..i -> kids] : i \in 0..n}}
MCObjects(kids, n) ==
    {<<"object", s>> : s \in UNION {[1..i -> MCName \X kids] : i \in 0..n}}

MCFlat == MCArrays(MCLeaf \cup {MCNull}, 3) \cup MCObjects(MCLeaf \cup {MCNull}, 2)

\* Two levels below: a leaf, null, and arrays and objects with and without null.
MCKids ==
    {MCNull, <<"leaf", "x">>,
     <<"array", <<>>>>, <<"array", <<MCNull, <<"leaf", "y">>>>>>,
     <<"array", <<<<"leaf", "y">>, MCNull>>>>,
     <<"object", <<>>>>, <<"object", <<<<"j", <<"leaf", "y">>>>>>>>}

MCTrees ==
    {MCNull} \cup MCLeaf \cup MCFlat
        \cup MCArrays(MCKids, 3) \cup MCObjects(MCKids, 2)
        \cup MCArrays(MCArrays(MCArrays(MCLeaf, 1), 1), 2)

\* The nodes of a tree, the first of which has this number.
RECURSIVE MCNodes(_, _, _, _)
MCNodes(tree, number, parent, name) ==
    LET root == [tag |-> tree[1], parent |-> parent, name |-> name,
                 value |-> IF tree[1] = "leaf" THEN tree[2] ELSE ""]
        members == CASE tree[1] = "object" -> tree[2]
                     [] tree[1] = "array"  -> [k \in DOMAIN tree[2] |-> <<"", tree[2][k]>>]
                     [] OTHER -> <<>>
    IN  FoldLeft(LAMBDA nodes, m : nodes \o MCNodes(m[2], number + Len(nodes), number, m[1]),
                 <<root>>, members)

MCDoc == {<<>>} \cup {MCNodes(tree, 1, 0, "") : tree \in MCTrees}
=============================================================================
