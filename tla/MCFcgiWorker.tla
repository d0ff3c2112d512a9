----------------------------- MODULE MCFcgiWorker -----------------------------
(***************************************************************************)
(* The FastCGI worker with every query string of up to MaxLen bytes out of *)
(* six: a letter that is a digit of an escape too, '=', '&', ';', '%', '+';*)
(* the longest that are needed are three fields, a field after them and a  *)
(* value that is one escape.                                               *)
(***************************************************************************)
EXTENDS FcgiWorker

CONSTANT MaxLen

Bytes == {97, 61, 38, 59, 37, 43}

Queries == UNION {[1 .. n -> Bytes] : n \in 0 .. MaxLen}

Entry == [name : {"h1", "h2"}, type : {"string", "number"}]

Tables == {r \in [type : {"table"}, headers : {"table"}, entries : SUBSET Entry,
                  body : {"string", "nil"}] :
              \A h, i \in r.entries : h.name = i.name => h = i}

Responses ==
    Tables
    \cup [type : {"table"}, headers : {"string", "number", "nil"}, entries : {{}}, body : {"string"}]
    \cup [type : {"string", "number", "nil"}, headers : {"nil"}, entries : {{}}, body : {"nil"}]

Lengths == {"fits", "empty", "absent"}
=============================================================================
