------------------------------ MODULE FcgiWorker ------------------------------
(***************************************************************************)
(* The FastCGI worker (fcgi.c).  It takes requests one after the other.    *)
(* Each gets a Lua state of its own, whose stack the C functions work on   *)
(* by position: `stack' holds the types of its values.  The router and the *)
(* scripts behind it are external: Route may give any response, or raise.  *)
(* An error raised outside lua_pcall is a panic: the process ends ("dead").*)
(***************************************************************************)
EXTENDS QueryString

CONSTANTS Length,       \* how a request may state its CONTENT_LENGTH
          Query,        \* the query strings of requests
          NoQuery,
          Response,     \* what a router may return
          NoResponse

Types == {"function", "table", "string", "number", "nil"}

ASSUME QueryAssumption ==
    /\ Query \subseteq Seq(0 .. 255)
    /\ NoQuery \notin Query /\ NoResponse \notin Response
ASSUME ResponseAssumption ==
    \A r \in Response :
        r.type \in Types /\ r.headers \in Types /\ \A h \in r.entries : h.type \in Types

VARIABLES pc,           \* the function the worker is in
          envp,         \* the parameters of the request
          stack,        \* the types of the values on the Lua stack
          request,      \* the fields set in the request table
          query,        \* the table of the query string: name to its values
          cur,          \* the position of the query iterator
          response,     \* what the router returned
          headers,      \* the entries of the response's headers not sent yet
          sent          \* the last part of the response sent

vars == <<pc, envp, stack, request, query, cur, response, headers, sent>>

\* The value at a negative index of the stack, counted from its top.
At(index) == stack[Len(stack) + 1 + index]
Pop(n) == SubSeq(stack, 1, Len(stack) - n)

\* lua_gettable raises on these; on a string it looks into the string library.
Unindexable == {"function", "number", "nil"}

NoEnvp == [length |-> "none", query |-> NoQuery]

Init ==
    /\ pc = "accept"
    /\ envp = NoEnvp
    /\ stack = <<>> /\ request = {} /\ query = <<>> /\ cur = Null
    /\ response = NoResponse /\ headers = {} /\ sent = "nothing"

(***************************************************************************)
(* The end of a request: lua_close on every path, or the end of all.       *)
(***************************************************************************)
Finish ==
    /\ pc' = "accept"
    /\ envp' = NoEnvp
    /\ stack' = <<>> /\ request' = {} /\ query' = <<>> /\ cur' = Null
    /\ response' = NoResponse /\ headers' = {}

Panic ==
    /\ pc' = "dead"
    /\ UNCHANGED <<envp, stack, request, query, cur, response, headers, sent>>

FCGX_Accept_r ==
    /\ pc = "accept"
    /\ \E l \in Length, q \in Query \cup {NoQuery} : envp' = [length |-> l, query |-> q]
    /\ pc' = "router"
    /\ sent' = "nothing"
    /\ UNCHANGED <<stack, request, query, cur, response, headers>>

LoadRouter ==
    /\ pc = "router"
    /\ stack' = <<"function">>
    /\ pc' = "body"
    /\ UNCHANGED <<envp, request, query, cur, response, headers, sent>>

\* No Lua state, or an error in the router's file.
LoadRouterFails == pc = "router" /\ Finish /\ UNCHANGED sent

(***************************************************************************)
(* Reading the request.  An empty CONTENT_LENGTH leaves body_len           *)
(* uninitialised; malloc(body_len + 1) gives nothing for a negative length *)
(* but -1, of which lua_pushlstring then makes the largest size there is.  *)
(***************************************************************************)
BodyLength ==
    CASE envp.length = "empty"  -> {"fits", "negative", "minus_one"}
      [] envp.length = "absent" -> {}
      [] OTHER                  -> {envp.length}

ReadHttpRequestBody ==
    /\ pc = "body"
    /\ "fits" \in BodyLength
    /\ stack' = Append(stack, "table")
    /\ request' = {"body"}
    /\ pc' = "headers"
    /\ UNCHANGED <<envp, query, cur, response, headers, sent>>

ReadHttpRequestBodyFails ==
    /\ pc = "body"
    /\ "negative" \in BodyLength
    /\ Finish /\ UNCHANGED sent

\* sscanf of a NULL, or the length of -1.
ReadHttpRequestBodyPanics ==
    /\ pc = "body"
    /\ envp.length = "absent" \/ "minus_one" \in BodyLength
    /\ Panic

ReadHttpRequestHeaders ==
    /\ pc = "headers"
    /\ request' = request \cup {"headers"}
    /\ pc' = "vars"
    /\ UNCHANGED <<envp, stack, query, cur, response, headers, sent>>

ReadHttpRequestVars ==
    /\ pc = "vars"
    /\ request' = request \cup {"vars"}
    /\ IF envp.query = NoQuery
       THEN pc' = "route" /\ UNCHANGED <<stack, cur>>
       ELSE /\ pc' = "query"
            /\ stack' = stack \o <<"string", "table">>       \* "query" and its table
            /\ cur' = 1
    /\ UNCHANGED <<envp, query, response, headers, sent>>

(***************************************************************************)
(* ReadHttpRequestQueryString, one turn of its loop at a time.  A name     *)
(* seen for the third time is left on the stack: the table is then at      *)
(* another index, and the name is taken for it.                            *)
(***************************************************************************)
RawKey == QueryIterKey(envp.query, cur)
RawVal == QueryIterVal(envp.query, cur)

Key == QueryStrDecode(RawKey)

\* PushQueryValueString: the key decides whether there is a value.
Val == IF Len(Key) > 0 THEN QueryStrDecode(RawVal) ELSE <<>>

InLoop == pc = "query" /\ HasNext(envp.query, cur)

\* A turn of the loop whose lua_gettable finds `top' where the table should be.
Turn(top) ==
    /\ InLoop /\ ~Hangs(RawKey) /\ ~Hangs(RawVal)
    /\ At(-1) = top

NextField ==
    /\ cur' = Moved(envp.query, cur)
    /\ UNCHANGED <<pc, envp, request, response, headers, sent>>

FieldHangs ==
    /\ InLoop
    /\ Hangs(RawKey) \/ Hangs(RawVal)
    /\ pc' = "hung"
    /\ UNCHANGED <<envp, stack, request, query, cur, response, headers, sent>>

FirstValue ==
    /\ Turn("table")
    /\ Key \notin DOMAIN query
    /\ query' = [k \in DOMAIN query \cup {Key} |-> IF k = Key THEN <<Val>> ELSE query[k]]
    /\ NextField
    /\ UNCHANGED stack

\* Mutant: the first value is not kept.
SecondValueReplaces ==
    /\ Turn("table")
    /\ Key \in DOMAIN query /\ Len(query[Key]) = 1
    /\ query' = [query EXCEPT ![Key] = <<Val>>]
    /\ NextField
    /\ UNCHANGED stack

\* Mutant: the key is left on the stack, as LaterValue leaves it.
SecondValueKeepsKey ==
    /\ Turn("table")
    /\ Key \in DOMAIN query /\ Len(query[Key]) = 1
    /\ query' = [query EXCEPT ![Key] = Append(@, Val)]
    /\ NextField
    /\ stack' = Append(stack, "string")

\* The string becomes an array of two.
SecondValue ==
    /\ Turn("table")
    /\ Key \in DOMAIN query /\ Len(query[Key]) = 1
    /\ query' = [query EXCEPT ![Key] = Append(@, Val)]
    /\ NextField
    /\ UNCHANGED stack

LaterValue ==
    /\ Turn("table")
    /\ Key \in DOMAIN query /\ Len(query[Key]) > 1
    /\ query' = [query EXCEPT ![Key] = Append(@, Val)]
    /\ stack' = Append(stack, "string")                      \* the key stays
    /\ NextField

\* The value is set into the key that was left instead of the table.
FieldPanics == Turn("string") /\ Panic

QueryDone ==
    /\ pc = "query" /\ ~HasNext(envp.query, cur)
    /\ At(-3) = "table"
    /\ request' = request \cup {"query"}
    /\ stack' = Pop(2)
    /\ pc' = "route"
    /\ UNCHANGED <<envp, query, cur, response, headers, sent>>

QueryDonePanics ==
    /\ pc = "query" /\ ~HasNext(envp.query, cur)
    /\ At(-3) # "table"
    /\ Panic

(***************************************************************************)
(* Routing: the function and the request are replaced by its result.       *)
(***************************************************************************)
RouteHttpRequest ==
    /\ pc = "route"
    /\ \E r \in Response :
          /\ response' = r
          /\ stack' = <<r.type>>
    /\ envp' = NoEnvp /\ request' = {} /\ query' = <<>> /\ cur' = Null
    /\ pc' = "send_status"
    /\ UNCHANGED <<headers, sent>>

RouteHttpRequestFails == pc = "route" /\ Finish /\ UNCHANGED sent

(***************************************************************************)
(* Sending the response.  Its fields are "headers" and "body"; the status  *)
(* is asked for under "status" and a NUL, which no response has.           *)
(***************************************************************************)
SendHttpResponseStatus ==
    /\ pc = "send_status"
    /\ At(-1) \notin Unindexable
    /\ pc' = "send_headers"
    /\ UNCHANGED <<envp, stack, request, query, cur, response, headers, sent>>

\* Mutant: what was found in place of the headers is popped.
SendHttpResponseHeadersPops ==
    /\ pc = "send_headers"
    /\ IF At(-1) = "table" /\ response.headers = "table"
       THEN pc' = "send_header" /\ headers' = response.entries /\ stack' = Append(stack, "table")
       ELSE pc' = "send_body" /\ UNCHANGED <<headers, stack>>
    /\ UNCHANGED <<envp, request, query, cur, response, sent>>

SendHttpResponseHeaders ==
    /\ pc = "send_headers"
    /\ IF At(-1) = "table" /\ response.headers = "table"
       THEN pc' = "send_header" /\ headers' = response.entries
       ELSE pc' = "send_body" /\ UNCHANGED headers
    /\ stack' = Append(stack, IF At(-1) = "table" THEN response.headers ELSE "nil")
    /\ UNCHANGED <<envp, request, query, cur, response, sent>>

\* Mutant: the iteration does not advance.
SendHeaderAgain ==
    /\ pc = "send_header"
    /\ \E h \in headers : h.type = "string"
    /\ sent' = "header"
    /\ UNCHANGED <<pc, envp, stack, request, query, cur, response, headers>>

\* lua_next takes the entries in any order.
SendHeader ==
    /\ pc = "send_header"
    /\ \E h \in headers :
          /\ h.type = "string"
          /\ headers' = headers \ {h}
    /\ sent' = "header"
    /\ UNCHANGED <<pc, envp, stack, request, query, cur, response>>

SendSeparator ==
    /\ pc = "send_header"
    /\ headers = {}
    /\ stack' = Pop(1)
    /\ sent' = "separator"
    /\ pc' = "send_body"
    /\ UNCHANGED <<envp, request, query, cur, response, headers>>

SendHttpResponseBody ==
    /\ pc = "send_body"
    /\ At(-1) \notin Unindexable
    /\ sent' = IF At(-1) = "table" /\ response.body = "string" THEN "body" ELSE sent
    /\ Finish

\* The response, an entry of the headers or what was left in their place is of
\* a type the C code raises an error for.
SendPanics ==
    /\ \/ pc \in {"send_status", "send_body"} /\ At(-1) \in Unindexable
       \/ pc = "send_header" /\ \E h \in headers : h.type # "string"
    /\ Panic

(***************************************************************************)
(* The worker.                                                             *)
(***************************************************************************)
Read ==
    \/ LoadRouter \/ LoadRouterFails
    \/ ReadHttpRequestBody \/ ReadHttpRequestBodyFails \/ ReadHttpRequestBodyPanics
    \/ ReadHttpRequestHeaders \/ ReadHttpRequestVars

ReadQuery ==
    \/ FieldHangs \/ FirstValue \/ SecondValue \/ LaterValue \/ FieldPanics
    \/ QueryDone \/ QueryDonePanics

Send ==
    \/ SendHttpResponseStatus \/ SendHttpResponseHeaders \/ SendHeader \/ SendSeparator
    \/ SendHttpResponseBody \/ SendPanics

Process == Read \/ ReadQuery \/ RouteHttpRequest \/ RouteHttpRequestFails \/ Send

Next == FCGX_Accept_r \/ Process

Spec == Init /\ [][Next]_vars

\* The worker runs on once it has a request; the router returns.
FairSpec == Spec /\ WF_vars(Process)

(***************************************************************************)
(* Properties.                                                             *)
(***************************************************************************)
\* The variables keep their types; the query iterator stays within its string
\* or is at its end (query.c:41-101, fcgi.c:473-533).
TypeOK ==
    /\ pc \in {"accept", "router", "body", "headers", "vars", "query", "route", "send_status",
                "send_headers", "send_header", "send_body", "dead", "hung"}
    /\ envp \in [length : Length, query : Query \cup {NoQuery}] \cup {NoEnvp}
    /\ Range(stack) \subseteq Types
    /\ request \subseteq {"body", "headers", "vars", "query"}
    /\ \A key \in DOMAIN query : Len(query[key]) \in 1 .. 3
    /\ cur \in 0 .. IF envp.query = NoQuery THEN 0 ELSE Len(envp.query) + 1
    /\ response \in Response \cup {NoResponse}
    /\ response # NoResponse => headers \subseteq response.entries
    /\ sent \in {"nothing", "header", "separator", "body"}

\* A script is called with exactly the request on the stack, and request.query
\* holds every name of the query string with its values, in their order, and
\* nothing else (fcgi.c:473-533 with query.c:41-149).
QueryRead ==
    pc = "route" =>
        /\ stack = <<"function", "table">>
        /\ request = {"body", "headers", "vars"} \cup (IF envp.query = NoQuery THEN {} ELSE {"query"})
        /\ envp.query # NoQuery => query = Table(envp.query)

\* The worker hangs on a query string only if an escape of it is cut short
\* (query.c:124-134), and gets past none that has such an escape.
QueryFate ==
    /\ pc = "hung" => HasTruncated(envp.query)
    /\ pc = "route" /\ envp.query # NoQuery => ~HasTruncated(envp.query)

\* "This should be able to handle most common query string cases such as -
\* Multiple query string values with the same key" (fcgi.c:468-470): no query
\* string ends the worker, whatever that of fields without a name may do.
RepeatedHandled == pc = "dead" /\ "vars" \in request => <<>> \in DOMAIN query

\* What a response must be for the C code to send it without an error.
Sendable(r) ==
    /\ r.type = "table"
    /\ r.headers = "string" \/ (r.headers = "table" /\ \A h \in r.entries : h.type = "string")

\* The worker dies of nothing but a length it cannot use, a name with three
\* values, or a response it cannot send (fcgi.c:436-463, 501-510, 203-267).
DeathJustified ==
    pc = "dead" =>
        \/ request = {} /\ response = NoResponse /\ envp.length # "fits"
        \/ "vars" \in request /\ HasRepeated(envp.query)
        \/ response # NoResponse /\ ~Sendable(response)

\* Headers go out before the separator and the body right after it, and a
\* response with a table of headers is ended only after its separator
\* (fcgi.c:223-267).
ResponseOrder ==
    [][ /\ sent' = "header" => sent \in {"nothing", "header"}
        /\ sent' = "separator" => sent # "body"
        /\ sent' = "body" => sent \in {"separator", "body"}
        /\ pc = "send_body" /\ pc' = "accept" /\ response.headers = "table"
               => sent' \in {"separator", "body"} ]_vars

\* Every request ends: the worker is back for the next one, or dead, or hung on
\* an escape that is cut short (fcgi.c:86-93, 129-169).
RequestEnds == pc = "router" ~> pc \in {"accept", "dead", "hung"}
=============================================================================
