--------------------------- MODULE FcgiWorker_proofs ---------------------------
(***************************************************************************)
(* What the FastCGI worker makes of a request and of its answer, for every *)
(* set of query strings and of responses: types, the order in which the    *)
(* parts of a response are sent, what a script finds in request.query, and *)
(* what the worker hangs on and dies of.                                   *)
(***************************************************************************)
EXTENDS FcgiWorker, TLAPS, WellFoundedInduction

\* What has been sent where.  After headers that were no table their value lies
\* on top of the response: SendHttpResponseBody indexes it, and finds no table.
SendInv ==
    /\ stack \in Seq(Types)
    /\ pc \in {"router", "body", "headers", "vars", "query", "route", "send_status", "send_headers"}
           => sent = "nothing"
    /\ pc \in {"send_status", "send_headers"} => response \in Response /\ Len(stack) = 1
    /\ pc = "send_header" => sent \in {"nothing", "header"} /\ Len(stack) = 2
    /\ pc = "send_body" =>
           \/ sent = "separator"
           \/ /\ sent = "nothing"
              /\ At(-1) # "table"
              /\ response.headers = "table" => At(-1) = "nil"

\* What ResponseOrder says of a step.
OrderStep ==
    /\ sent' = "header" => sent \in {"nothing", "header"}
    /\ sent' = "separator" => sent # "body"
    /\ sent' = "body" => sent \in {"separator", "body"}
    /\ pc = "send_body" /\ pc' = "accept" /\ response.headers = "table"
           => sent' \in {"separator", "body"}

LEMMA InitSends == Init => SendInv
  BY DEF Init, SendInv

\* Before there is a response nothing is sent; an error ends the request or the
\* worker.
Before == {"router", "body", "headers", "vars", "query", "route"}
Ended == {"accept", "dead", "hung"}

LEMMA BeforeKeeps ==
    ASSUME SendInv, pc \in Before, pc' \in Before \cup Ended, sent' = sent, stack' \in Seq(Types)
    PROVE  SendInv' /\ OrderStep
  BY DEF SendInv, OrderStep, Before, Ended

LEMMA AcceptKeeps == ASSUME SendInv, FCGX_Accept_r PROVE SendInv' /\ OrderStep
  BY DEF SendInv, OrderStep, FCGX_Accept_r

LEMMA ReadKeeps == ASSUME SendInv, Read PROVE SendInv' /\ OrderStep
  <1> SUFFICES pc \in Before /\ pc' \in Before \cup Ended /\ sent' = sent /\ stack' \in Seq(Types)
    BY BeforeKeeps
  <1>1. stack \in Seq(Types)
    BY DEF SendInv
  <1> USE DEF Before, Ended
  <1>2. CASE LoadRouter
    BY <1>2 DEF LoadRouter, Types
  <1>3. CASE LoadRouterFails
    BY <1>3 DEF LoadRouterFails, Finish
  <1>4. CASE ReadHttpRequestBody
    <2>1. "table" \in Types
      BY DEF Types
    <2> QED  BY <1>1, <1>4, <2>1 DEF ReadHttpRequestBody
  <1>5. CASE ReadHttpRequestBodyFails
    BY <1>5 DEF ReadHttpRequestBodyFails, Finish
  <1>6. CASE ReadHttpRequestBodyPanics
    BY <1>1, <1>6 DEF ReadHttpRequestBodyPanics, Panic
  <1>7. CASE ReadHttpRequestHeaders
    BY <1>1, <1>7 DEF ReadHttpRequestHeaders
  <1>8. CASE ReadHttpRequestVars
    <2>1. stack \o <<"string", "table">> \in Seq(Types)
      BY <1>1 DEF Types
    <2> QED  BY <1>1, <1>8, <2>1 DEF ReadHttpRequestVars
  <1> QED  BY <1>2, <1>3, <1>4, <1>5, <1>6, <1>7, <1>8 DEF Read

LEMMA ReadQueryKeeps == ASSUME SendInv, ReadQuery PROVE SendInv' /\ OrderStep
  <1> SUFFICES pc \in Before /\ pc' \in Before \cup Ended /\ sent' = sent /\ stack' \in Seq(Types)
    BY BeforeKeeps
  <1>1. stack \in Seq(Types)
    BY DEF SendInv
  <1> USE DEF Before, Ended
  <1>2. CASE FieldHangs
    BY <1>1, <1>2 DEF FieldHangs, InLoop
  <1>3. CASE FirstValue \/ SecondValue
    BY <1>1, <1>3 DEF FirstValue, SecondValue, Turn, InLoop, NextField
  <1>4. CASE LaterValue
    <2>1. "string" \in Types
      BY DEF Types
    <2>2. stack' = Append(stack, "string")
      BY <1>4 DEF LaterValue
    <2> QED  BY <1>1, <1>4, <2>1, <2>2 DEF LaterValue, Turn, InLoop, NextField
  <1>5. CASE FieldPanics \/ QueryDonePanics
    BY <1>1, <1>5 DEF FieldPanics, QueryDonePanics, Turn, InLoop, Panic
  <1>6. CASE QueryDone
    BY <1>1, <1>6 DEF QueryDone, Pop
  <1> QED  BY <1>2, <1>3, <1>4, <1>5, <1>6 DEF ReadQuery

LEMMA RouteKeeps == ASSUME SendInv, RouteHttpRequest PROVE SendInv' /\ OrderStep
  <1>1. PICK r \in Response : response' = r /\ stack' = <<r.type>>
    BY DEF RouteHttpRequest
  <1>2. r.type \in Types
    BY ResponseAssumption
  <1>3. stack' \in Seq(Types) /\ Len(stack') = 1
    BY <1>1, <1>2
  <1>4. pc = "route" /\ pc' = "send_status" /\ sent' = sent
    BY DEF RouteHttpRequest
  <1> QED  BY <1>1, <1>3, <1>4 DEF SendInv, OrderStep

LEMMA RouteFailKeeps == ASSUME SendInv, RouteHttpRequestFails PROVE SendInv' /\ OrderStep
  BY BeforeKeeps DEF RouteHttpRequestFails, Finish, Before, Ended

LEMMA StatusKeeps == ASSUME SendInv, SendHttpResponseStatus PROVE SendInv' /\ OrderStep
  BY DEF SendInv, OrderStep, SendHttpResponseStatus

LEMMA Pushed ==
    ASSUME NEW s \in Seq(Types), NEW type \in Types
    PROVE  /\ Append(s, type) \in Seq(Types)
           /\ Len(Append(s, type)) = Len(s) + 1
           /\ Append(s, type)[Len(s) + 1] = type
  OBVIOUS

\* The one step that decides between the separator and no output at all.
LEMMA HeadersKeep == ASSUME SendInv, SendHttpResponseHeaders PROVE SendInv' /\ OrderStep
  <1> DEFINE found == IF At(-1) = "table" THEN response.headers ELSE "nil"
  <1>1. stack \in Seq(Types) /\ Len(stack) = 1 /\ sent = "nothing" /\ sent' = sent
    BY DEF SendInv, SendHttpResponseHeaders
  <1>2. found \in Types
    BY ResponseAssumption DEF SendInv, SendHttpResponseHeaders, Types
  <1>3. stack' = Append(stack, found) /\ response' = response
    BY DEF SendHttpResponseHeaders
  <1> HIDE DEF found
  <1>4. stack' \in Seq(Types) /\ Len(stack') = 2 /\ stack'[2] = found
    <2>1. Len(Append(stack, found)) = Len(stack) + 1 /\ Append(stack, found)[Len(stack) + 1] = found
      BY <1>1, <1>2, Pushed
    <2>2. Append(stack, found) \in Seq(Types)
      BY <1>1, <1>2, Pushed
    <2>3. Len(stack) + 1 = 2
      BY <1>1
    <2> QED  BY <1>3, <2>1, <2>2, <2>3
  <1>5. At(-1)' = found
    BY <1>4 DEF At
  <1>6. CASE At(-1) = "table" /\ response.headers = "table"
    <2>1. pc' = "send_header"
      BY <1>6 DEF SendHttpResponseHeaders
    <2> QED  BY <1>1, <1>4, <2>1 DEF SendInv, OrderStep
  <1>7. CASE ~ (At(-1) = "table" /\ response.headers = "table")
    <2>1. pc' = "send_body"
      BY <1>7 DEF SendHttpResponseHeaders
    <2>2. found # "table" /\ (response.headers = "table" => found = "nil")
      BY <1>7 DEF found
    <2> QED  BY <1>1, <1>3, <1>4, <1>5, <2>1, <2>2 DEF SendInv, OrderStep
  <1> QED  BY <1>6, <1>7

LEMMA HeaderKeeps == ASSUME SendInv, SendHeader PROVE SendInv' /\ OrderStep
  BY DEF SendInv, OrderStep, SendHeader

LEMMA SeparatorKeeps == ASSUME SendInv, SendSeparator PROVE SendInv' /\ OrderStep
  BY DEF SendInv, OrderStep, SendSeparator, Pop

\* With headers that were a table only the response itself can be indexed.
LEMMA BodyKeeps == ASSUME SendInv, SendHttpResponseBody PROVE SendInv' /\ OrderStep
  <1> USE DEF SendInv, OrderStep, SendHttpResponseBody, Finish
  <1>1. CASE sent = "separator"
    BY <1>1
  <1>2. CASE sent = "nothing" /\ At(-1) # "table" /\ (response.headers = "table" => At(-1) = "nil")
    BY <1>2 DEF Unindexable
  <1> QED  BY <1>1, <1>2

LEMMA NextSends == SendInv /\ [Next]_vars => SendInv' /\ [OrderStep]_vars
  <1> SUFFICES ASSUME SendInv, [Next]_vars PROVE SendInv' /\ [OrderStep]_vars
    OBVIOUS
  <1>1. CASE UNCHANGED vars
    BY <1>1 DEF vars, SendInv, At
  <1>2. CASE SendPanics
    BY <1>2 DEF SendPanics, Panic, SendInv, OrderStep
  <1>3. CASE Next /\ ~ SendPanics
    BY <1>3, AcceptKeeps, ReadKeeps, ReadQueryKeeps, RouteKeeps, RouteFailKeeps,
       StatusKeeps, HeadersKeep, HeaderKeeps, SeparatorKeeps, BodyKeeps
       DEF Next, Process, Send
  <1> QED  BY <1>1, <1>2, <1>3

\* Headers, then the separator, then the body, and no response with a table of
\* headers ends before its separator (fcgi.c:203-267).
THEOREM PartsInOrder == Spec => ResponseOrder
  <1>1. SendInv /\ [Next]_vars => [OrderStep]_vars
    BY NextSends
  <1>2. SendInv /\ [Next]_vars => SendInv'
    BY NextSends
  <1> QED  BY InitSends, <1>1, <1>2, PTL DEF Spec, ResponseOrder, OrderStep
-----------------------------------------------------------------------------
(* Types. The table of the query string holds sequences of at most three    *)
(* values, since a name seen for the third time leaves the stack such that  *)
(* the next field ends the worker; until there is a response no headers are *)
(* left of one.                                                             *)

IsSequence(s) == \E S : s \in Seq(S)

QueryInv ==
    /\ pc \in {"accept", "router", "body", "headers", "vars"} => query = <<>> /\ cur = Null
    /\ pc = "query" => envp.query \in Query
    /\ \A key \in DOMAIN query : IsSequence(query[key]) /\ Len(query[key]) \in 1 .. 3
    /\ pc = "query" /\ At(-1) = "table" => \A key \in DOMAIN query : Len(query[key]) < 3

HeadersInv == pc \in Before \cup {"accept"} => headers = {} /\ response = NoResponse

TypeInv == TypeOK /\ QueryInv /\ HeadersInv

LEMMA NatMin ==
    ASSUME NEW T \in SUBSET Nat, T # {}
    PROVE  \E x \in T : \A y \in T : x <= y
  <1>1. PICK x \in T : \A y \in T : ~ (<<y, x>> \in OpToRel(<, Nat))
    BY NatLessThanWellFounded, WFMin
  <1>2. \A y \in T : y \in Nat /\ x \in Nat
    OBVIOUS
  <1>3. \A y \in T : ~ (y < x)
    BY <1>1, <1>2 DEF OpToRel
  <1> QED  BY <1>2, <1>3

\* The end of a field lies in the string or one past it.
LEMMA FieldEndInside ==
    ASSUME NEW qs \in Seq(0 .. 255), NEW c \in 1 .. Len(qs)
    PROVE  FieldEnd(qs, c) \in c .. Len(qs) + 1
  <1> DEFINE seps == {i \in c .. Len(qs) : qs[i] \in Separators}
  <1>1. CASE seps = {}
    BY <1>1 DEF FieldEnd
  <1>2. CASE seps # {}
    <2>0. seps \in SUBSET Nat
      OBVIOUS
    <2>1. PICK i \in seps : \A j \in seps : i <= j
      BY <1>2, <2>0, NatMin, Zenon
    <2>2. i \in c .. Len(qs) /\ qs[i] \in Separators /\ \A j \in c .. i - 1 : qs[j] \notin Separators
      BY <2>0, <2>1
    <2> QED  BY <2>2 DEF FieldEnd
  <1> QED  BY <1>1, <1>2

LEMMA MovedInside ==
    ASSUME NEW qs \in Seq(0 .. 255), NEW c \in 1 .. Len(qs)
    PROVE  Moved(qs, c) \in 0 .. Len(qs) + 1
  BY FieldEndInside DEF Moved, Null

LEMMA AppendToSequence ==
    ASSUME NEW s, IsSequence(s), NEW v
    PROVE  IsSequence(Append(s, v)) /\ Len(Append(s, v)) = Len(s) + 1 /\ Len(s) \in Nat
  <1>1. PICK S : s \in Seq(S)
    BY DEF IsSequence
  <1>2. s \in Seq(S \cup {v})
    BY <1>1
  <1>3. Append(s, v) \in Seq(S \cup {v})
    BY <1>2
  <1> QED  BY <1>2, <1>3 DEF IsSequence

LEMMA OneIsSequence ==
    ASSUME NEW v
    PROVE  IsSequence(<<v>>) /\ Len(<<v>>) = 1
  <1>1. <<v>> \in Seq({v})
    OBVIOUS
  <1> QED  BY <1>1 DEF IsSequence
LEMMA InitTyped == Init => TypeInv
  BY DEF Init, TypeInv, TypeOK, QueryInv, HeadersInv, Before, Null, NoEnvp, Range, Types

\* A request that ends, or a worker that does, leaves nothing behind.
LEMMA FinishTyped ==
    ASSUME TypeInv, Finish, sent' \in {"nothing", "header", "separator", "body"}
    PROVE  TypeInv'
  BY QueryAssumption
     DEF Finish, TypeInv, TypeOK, QueryInv, HeadersInv, Before, Null, NoEnvp, Range, Types

LEMMA PanicTyped == ASSUME TypeInv, Panic PROVE TypeInv'
  BY DEF Panic, TypeInv, TypeOK, QueryInv, HeadersInv, Before

LEMMA AcceptTyped == ASSUME TypeInv, FCGX_Accept_r PROVE TypeInv'
  <1>1. envp' \in [length : Length, query : Query \cup {NoQuery}] /\ cur' = 0
    BY DEF FCGX_Accept_r, TypeInv, QueryInv, Null
  <1>2. cur' \in 0 .. IF envp'.query = NoQuery THEN 0 ELSE Len(envp'.query) + 1
    BY <1>1, QueryAssumption
  <1> QED  BY <1>1, <1>2 DEF FCGX_Accept_r, TypeInv, TypeOK, QueryInv, HeadersInv, Before

LEMMA RangeTyped ==
    ASSUME NEW s \in Seq(Types)
    PROVE  Range(s) \subseteq Types
  BY DEF Range
LEMMA ReadTyped == ASSUME TypeInv, SendInv, SendInv', Read PROVE TypeInv'
  <1> USE DEF TypeInv, TypeOK, QueryInv, HeadersInv, Before
  <1>0. Range(stack') \subseteq Types
    BY RangeTyped DEF SendInv
  <1>1. CASE LoadRouter
    BY <1>0, <1>1 DEF LoadRouter
  <1>2. CASE LoadRouterFails \/ ReadHttpRequestBodyFails
    BY <1>2, FinishTyped DEF LoadRouterFails, ReadHttpRequestBodyFails
  <1>3. CASE ReadHttpRequestBody
    BY <1>0, <1>3 DEF ReadHttpRequestBody
  <1>4. CASE ReadHttpRequestBodyPanics
    BY <1>4, PanicTyped DEF ReadHttpRequestBodyPanics
  <1>5. CASE ReadHttpRequestHeaders
    BY <1>0, <1>5 DEF ReadHttpRequestHeaders
  <1>6. CASE ReadHttpRequestVars
    <2>1. CASE envp.query = NoQuery
      BY <1>0, <1>6, <2>1 DEF ReadHttpRequestVars
    <2>2. CASE envp.query # NoQuery
      <3>1. envp.query \in Query /\ Len(envp.query) \in Nat
        BY <2>2, QueryAssumption DEF NoEnvp
      <3> QED  BY <1>0, <1>6, <2>2, <3>1 DEF ReadHttpRequestVars
    <2> QED  BY <2>1, <2>2
  <1> QED  BY <1>1, <1>2, <1>3, <1>4, <1>5, <1>6 DEF Read

\* A turn of the loop moves the iterator on inside the string.
LEMMA FieldMoves ==
    ASSUME TypeInv, InLoop
    PROVE  /\ envp.query \in Query
           /\ Moved(envp.query, cur) \in 0 .. Len(envp.query) + 1
  <1>1. envp.query \in Query /\ envp.query \in Seq(0 .. 255)
    BY QueryAssumption DEF InLoop, TypeInv, QueryInv
  <1>2. envp.query # NoQuery
    BY <1>1, QueryAssumption
  <1>3. cur \in 1 .. Len(envp.query)
    BY <1>1, <1>2 DEF InLoop, HasNext, TypeInv, TypeOK, Null
  <1> QED  BY <1>1, <1>3, MovedInside

\* Every value adds one to its name's, and the third leaves the stack without
\* the table on top.
LEMMA ReadQueryTyped == ASSUME TypeInv, SendInv, SendInv', ReadQuery PROVE TypeInv'
  <1>0. Range(stack') \subseteq Types /\ stack \in Seq(Types)
    BY RangeTyped DEF SendInv
  <1>1. CASE FieldHangs
    BY <1>0, <1>1 DEF FieldHangs, InLoop, TypeInv, TypeOK, QueryInv, HeadersInv, Before
  <1>2. CASE FieldPanics \/ QueryDonePanics
    BY <1>2, PanicTyped DEF FieldPanics, QueryDonePanics
  <1>3. CASE QueryDone
    BY <1>0, <1>3 DEF QueryDone, TypeInv, TypeOK, QueryInv, HeadersInv, Before
  <1>4. CASE FirstValue \/ SecondValue \/ LaterValue
    <2>1. /\ InLoop /\ At(-1) = "table" /\ pc = "query"
          /\ NextField
      BY <1>4 DEF FirstValue, SecondValue, LaterValue, Turn, InLoop
    <2>2. cur' \in 0 .. Len(envp.query) + 1 /\ envp.query \in Query /\ envp.query # NoQuery
      BY <2>1, FieldMoves, QueryAssumption DEF NextField
    <2>3. /\ \A key \in DOMAIN query' : IsSequence(query'[key]) /\ Len(query'[key]) \in 1 .. 3
          /\ At(-1)' = "table" => \A key \in DOMAIN query' : Len(query'[key]) < 3
      <3>0. \A key \in DOMAIN query : IsSequence(query[key]) /\ Len(query[key]) \in 1 .. 2
        <4>1. \A key \in DOMAIN query : IsSequence(query[key]) /\ Len(query[key]) \in 1 .. 3
          BY DEF TypeInv, QueryInv
        <4>2. \A key \in DOMAIN query : Len(query[key]) < 3
          BY <2>1 DEF TypeInv, QueryInv
        <4> QED  BY <4>1, <4>2
      <3>1. CASE FirstValue
        <4>1. query' = [k \in DOMAIN query \cup {Key} |-> IF k = Key THEN <<Val>> ELSE query[k]]
          BY <3>1 DEF FirstValue
        <4>2. IsSequence(<<Val>>) /\ Len(<<Val>>) = 1
          BY OneIsSequence
        <4> HIDE DEF Key, Val
        <4> QED  BY <3>0, <4>1, <4>2
      <3>2. CASE SecondValue
        <4>1. /\ query' = [query EXCEPT ![Key] = Append(@, Val)]
              /\ Key \in DOMAIN query /\ Len(query[Key]) = 1
          BY <3>2 DEF SecondValue
        <4>2. IsSequence(Append(query[Key], Val)) /\ Len(Append(query[Key], Val)) = 2
          BY <3>0, <4>1, AppendToSequence
        <4>3. DOMAIN query' = DOMAIN query
          BY <4>1
        <4>4. ASSUME NEW key \in DOMAIN query
              PROVE  IsSequence(query'[key]) /\ Len(query'[key]) \in 1 .. 2
          BY <3>0, <4>1, <4>2
        <4>5. \A key \in DOMAIN query' : Len(query'[key]) < 3
          <5>1. \A n \in 1 .. 2 : n < 3 /\ n \in 1 .. 3
            OBVIOUS
          <5> QED  BY <4>3, <4>4, <5>1, Zenon
        <4>6. \A key \in DOMAIN query' : Len(query'[key]) \in 1 .. 3
          <5>1. \A n \in 1 .. 2 : n \in 1 .. 3
            OBVIOUS
          <5> QED  BY <4>3, <4>4, <5>1, Zenon
        <4> QED  BY <4>3, <4>4, <4>5, <4>6
      <3>3. CASE LaterValue
        <4>1. /\ query' = [query EXCEPT ![Key] = Append(@, Val)]
              /\ Key \in DOMAIN query
              /\ stack' = Append(stack, "string")
          BY <3>3 DEF LaterValue
        <4>2. /\ IsSequence(Append(query[Key], Val))
              /\ Len(Append(query[Key], Val)) = Len(query[Key]) + 1
          BY <3>0, <4>1, AppendToSequence
        <4>3. At(-1)' = "string"
          BY <1>0, <4>1 DEF At
        <4>4. DOMAIN query' = DOMAIN query
          BY <4>1
        <4>5. ASSUME NEW key \in DOMAIN query
              PROVE  IsSequence(query'[key]) /\ Len(query'[key]) \in 1 .. 3
          <5>1. CASE key = Key
            <6>1. query'[key] = Append(query[Key], Val)
              BY <4>1, <5>1
            <6>2. Len(query[Key]) \in 1 .. 2
              BY <3>0, <4>1
            <6>3. \A n \in 1 .. 2 : n + 1 \in 1 .. 3
              OBVIOUS
            <6> QED  BY <4>2, <6>1, <6>2, <6>3, Zenon
          <5>2. CASE key # Key
            BY <3>0, <4>1, <5>2
          <5> QED  BY <5>1, <5>2
        <4> QED  BY <4>3, <4>4, <4>5
      <3> QED  BY <1>4, <3>1, <3>2, <3>3
    <2>4. UNCHANGED <<pc, envp, request, response, headers, sent>>
      BY <2>1 DEF NextField
    <2> QED  BY <1>0, <2>1, <2>2, <2>3, <2>4 DEF TypeInv, TypeOK, QueryInv, HeadersInv, Before
  <1> QED  BY <1>1, <1>2, <1>3, <1>4 DEF ReadQuery

LEMMA RouteTyped == ASSUME TypeInv, SendInv', RouteHttpRequest PROVE TypeInv'
  <1>1. Range(stack') \subseteq Types
    BY RangeTyped DEF SendInv
  <1>2. headers = {}
    BY DEF RouteHttpRequest, TypeInv, HeadersInv, Before
  <1> QED  BY <1>1, <1>2, QueryAssumption
           DEF RouteHttpRequest, TypeInv, TypeOK, QueryInv, HeadersInv, Before, NoEnvp, Null

LEMMA SendTyped == ASSUME TypeInv, SendInv, SendInv', Send PROVE TypeInv'
  <1>0. Range(stack') \subseteq Types
    BY RangeTyped DEF SendInv
  <1> USE DEF TypeInv, TypeOK, QueryInv, HeadersInv, Before
  <1>1. CASE SendHttpResponseStatus
    BY <1>0, <1>1 DEF SendHttpResponseStatus
  <1>2. CASE SendHttpResponseHeaders
    BY <1>0, <1>2 DEF SendHttpResponseHeaders
  <1>3. CASE SendHeader
    BY <1>0, <1>3 DEF SendHeader
  <1>4. CASE SendSeparator
    BY <1>0, <1>4 DEF SendSeparator
  <1>5. CASE SendHttpResponseBody
    BY <1>5, FinishTyped DEF SendHttpResponseBody
  <1>6. CASE SendPanics
    BY <1>6, PanicTyped DEF SendPanics
  <1> QED  BY <1>1, <1>2, <1>3, <1>4, <1>5, <1>6 DEF Send

LEMMA NextTyped == TypeInv /\ SendInv /\ [Next]_vars => TypeInv'
  <1> SUFFICES ASSUME TypeInv, SendInv, [Next]_vars PROVE TypeInv'
    OBVIOUS
  <1>0. SendInv'
    BY NextSends
  <1>1. CASE UNCHANGED vars
    BY <1>1 DEF vars, TypeInv, TypeOK, QueryInv, HeadersInv, At
  <1>2. CASE RouteHttpRequestFails
    BY <1>2, FinishTyped DEF RouteHttpRequestFails, TypeInv, TypeOK
  <1> QED  BY <1>0, <1>1, <1>2, AcceptTyped, ReadTyped, ReadQueryTyped, RouteTyped, SendTyped
           DEF Next, Process

\* Every variable keeps its type, the iterator stays within its string, and no
\* name gets a fourth value (query.c:41-101, fcgi.c:473-533).
THEOREM TypeCorrect == Spec => []TypeOK
  <1>1. TypeInv => TypeOK
    BY DEF TypeInv
  <1>2. SendInv /\ [Next]_vars => SendInv'
    BY NextSends
  <1> QED  BY InitTyped, InitSends, NextTyped, <1>1, <1>2, PTL DEF Spec

-----------------------------------------------------------------------------
\* The recursive functions QueryString counts and collects with are the ones
\* their equations describe.

\* A set of numbers with 0 and every successor has them all.
LEMMA AllNumbers ==
    ASSUME NEW T, 0 \in T, \A n \in Nat : n \in T => n + 1 \in T
    PROVE  \A n \in Nat : n \in T
  <1> DEFINE out == {n \in Nat : n \notin T}
  <1>1. CASE out = {}
    BY <1>1
  <1>2. CASE out # {}
    <2>1. PICK n \in out : \A k \in out : n <= k
      BY <1>2, NatMin, Zenon
    <2>2. n \in Nat /\ n # 0 /\ n - 1 \in Nat /\ ~ (n <= n - 1) /\ (n - 1) + 1 = n
      BY <2>1
    <2>3. n - 1 \in T
      BY <2>1, <2>2
    <2> QED  BY <2>1, <2>2, <2>3
  <1> QED  BY <1>1, <1>2

\* A function of the numbers up to m can be given by its first value and a step.
LEMMA StepsGiveFunction ==
    ASSUME NEW D, NEW b \in D, NEW m \in Nat, NEW step \in [1 .. m -> [D -> D]]
    PROVE  \E f \in [0 .. m -> D] : f[0] = b /\ \A n \in 1 .. m : f[n] = step[n][f[n - 1]]
  <1> DEFINE Steps(f, k) == f \in [0 .. k -> D] /\ f[0] = b /\ \A n \in 1 .. k : f[n] = step[n][f[n - 1]]
             T == {k \in Nat : k <= m => \E f : Steps(f, k)}
  <1>1. 0 \in T
    <2>1. Steps([n \in 0 .. 0 |-> b], 0)
      OBVIOUS
    <2> QED  BY <2>1
  <1>2. ASSUME NEW k \in Nat, k \in T PROVE k + 1 \in T
    <2> SUFFICES ASSUME k + 1 <= m PROVE \E f : Steps(f, k + 1)
      OBVIOUS
    <2>1. PICK f : Steps(f, k)
      BY <1>2
    <2>2. /\ k \in 0 .. k /\ k + 1 \in 1 .. m /\ k + 1 \notin 0 .. k /\ (k + 1) - 1 = k
          /\ 0 .. k + 1 = (0 .. k) \cup {k + 1}
          /\ \A n \in 1 .. k + 1 : n = k + 1 \/ (n \in 1 .. k /\ n \in 0 .. k /\ n - 1 \in 0 .. k)
      OBVIOUS
    <2> DEFINE next == step[k + 1][f[k]]
               g == [n \in 0 .. k + 1 |-> IF n = k + 1 THEN next ELSE f[n]]
    <2>3. next \in D
      BY <2>1, <2>2
    <2> HIDE DEF next
    <2>4. g \in [0 .. k + 1 -> D]
      BY <2>1, <2>2, <2>3
    <2>5. g[0] = b
      BY <2>1
    <2>6. ASSUME NEW n \in 1 .. k + 1 PROVE g[n] = step[n][g[n - 1]]
      <3>1. CASE n = k + 1
        <4>1. g[n] = next /\ g[n - 1] = f[k]
          BY <2>2, <3>1
        <4> QED  BY <3>1, <4>1 DEF next
      <3>2. CASE n # k + 1
        <4>1. n \in 1 .. k /\ g[n] = f[n] /\ g[n - 1] = f[n - 1]
          BY <2>2, <3>2
        <4> QED  BY <2>1, <4>1
      <3> QED  BY <3>1, <3>2
    <2> HIDE DEF g
    <2> QED  BY <2>4, <2>5, <2>6
  <1> HIDE DEF T
  <1>3. m \in T
    BY <1>1, <1>2, AllNumbers
  <1> QED  BY <1>3 DEF T

LEMMA StepsStayIn ==
    ASSUME NEW D, NEW m \in Nat, NEW f, f[0] \in D,
           \A n \in 1 .. m : f[n - 1] \in D => f[n] \in D
    PROVE  \A n \in 0 .. m : f[n] \in D
  <1> DEFINE T == {n \in Nat : n <= m => f[n] \in D}
  <1>1. 0 \in T
    OBVIOUS
  <1>2. ASSUME NEW n \in Nat, n \in T PROVE n + 1 \in T
    <2> SUFFICES ASSUME n + 1 <= m PROVE f[n + 1] \in D
      OBVIOUS
    <2>1. n + 1 \in 1 .. m /\ (n + 1) - 1 = n /\ n <= m
      OBVIOUS
    <2> QED  BY <1>2, <2>1
  <1> HIDE DEF T
  <1>3. \A n \in Nat : n \in T
    BY <1>1, <1>2, AllNumbers
  <1> QED  BY <1>3 DEF T

-----------------------------------------------------------------------------
(* The reference, one byte or one field at a time.                          *)

Byte == 0 .. 255
Text == Seq(Byte)
Texts == Seq(Text)
States == [done : Seq(Text), open : Text]
Decoding == [out : Text, held : Text]

LEMMA CutTyped ==
    ASSUME NEW state \in States, NEW c \in Byte
    PROVE  Cut(state, c) \in States
  <1>1. state.done \in Seq(Text) /\ state.open \in Text
    BY DEF States
  <1>2. Append(state.done, state.open) \in Seq(Text) /\ <<>> \in Text
    BY <1>1 DEF Text
  <1>3. Append(state.open, c) \in Text
    BY <1>1 DEF Text
  <1>4. /\ c \in Separators => Cut(state, c) = [done |-> Append(state.done, state.open), open |-> <<>>]
        /\ c \notin Separators => Cut(state, c) = [done |-> state.done, open |-> Append(state.open, c)]
    BY DEF Cut, States
  <1>5. c \in Separators => Cut(state, c) \in States
    BY <1>2, <1>4 DEF States
  <1>6. c \notin Separators => Cut(state, c) \in States
    <2>1. PICK d \in Seq(Text), o \in Text : d = state.done /\ o = Append(state.open, c)
      BY <1>1, <1>3
    <2>2. [done |-> d, open |-> o] \in States
      BY DEF States
    <2> QED  BY <1>4, <2>1, <2>2
  <1> QED  BY <1>5, <1>6

LEMMA TextIs ==
    ASSUME NEW t \in Text
    PROVE  Len(t) \in Nat /\ DOMAIN t = 1 .. Len(t) /\ \A n \in 1 .. Len(t) : t[n] \in Byte
  BY DEF Text

LEMMA CutUpToIs ==
    ASSUME NEW qs \in Text
    PROVE  /\ \A n \in 0 .. Len(qs) : CutUpTo(qs)[n] \in States
           /\ CutUpTo(qs)[0] = [done |-> <<>>, open |-> <<>>]
           /\ \A n \in 1 .. Len(qs) : CutUpTo(qs)[n] = Cut(CutUpTo(qs)[n - 1], qs[n])
  <1> DEFINE m == Len(qs)
             b == [done |-> <<>>, open |-> <<>>]
             step == [n \in 1 .. m |-> [s \in States |-> Cut(s, qs[n])]]
             Is(f) == f = [n \in 0 .. m |-> IF n = 0 THEN b ELSE Cut(f[n - 1], qs[n])]
             u == CutUpTo(qs)
  <1>1. m \in Nat /\ \A n \in 1 .. m : qs[n] \in Byte
    BY TextIs
  <1>2. b \in States
    BY DEF Text, States
  <1>3. step \in [1 .. m -> [States -> States]]
    BY <1>1, CutTyped
  <1>4. \A n \in 1 .. m, s \in States : step[n][s] = Cut(s, qs[n])
    OBVIOUS
  <1>5. u = CHOOSE f : Is(f)
    BY DEF CutUpTo
  <1> HIDE DEF step, m, b, u
  <1>6. PICK f \in [0 .. m -> States] : f[0] = b /\ \A n \in 1 .. m : f[n] = step[n][f[n - 1]]
    BY <1>1, <1>2, <1>3, StepsGiveFunction
  <1>7. \A n \in 0 .. m : n # 0 => n \in 1 .. m /\ n - 1 \in 0 .. m
    BY <1>1
  <1>8. \A n \in 0 .. m : f[n] = IF n = 0 THEN b ELSE Cut(f[n - 1], qs[n])
    BY <1>4, <1>6, <1>7
  <1>9. Is(f)
    BY <1>6, <1>8
  <1>10. Is(u)
    BY <1>5, <1>9
  <1>11. 0 \in 0 .. m /\ \A n \in 1 .. m : n \in 0 .. m /\ n # 0 /\ n - 1 \in 0 .. m
    BY <1>1
  <1>12. u[0] = b /\ \A n \in 1 .. m : u[n] = Cut(u[n - 1], qs[n])
    BY <1>10, <1>11
  <1>13. \A n \in 0 .. m : u[n] \in States
    <2>1. \A n \in 1 .. m : u[n - 1] \in States => u[n] \in States
      BY <1>1, <1>12, CutTyped
    <2> QED  BY <1>1, <1>2, <1>12, <2>1, StepsStayIn
  <1> QED  BY <1>12, <1>13 DEF u, m, b

LEMMA DigitIs ==
    ASSUME NEW c \in Byte
    PROVE  HexDigitToDecimal(c) \in -1 .. 15
  BY DEF HexDigitToDecimal, Byte

LEMMA EscapeIsByte ==
    ASSUME NEW c \in Byte, NEW d \in Byte
    PROVE  HexToAscii(c, d) \in Byte
  <1>1. \A x, y \in -1 .. 15 : (x * 16 + y) % 256 \in 0 .. 255
    OBVIOUS
  <1> QED  BY <1>1, DigitIs DEF HexToAscii, Byte

LEMMA FeedTyped ==
    ASSUME NEW state \in Decoding, NEW c \in Byte
    PROVE  Feed(state, c) \in Decoding
  <1>1. PICK out, held \in Text : state = [out |-> out, held |-> held]
    BY DEF Decoding
  <1>2. /\ <<>> \in Text /\ <<c>> \in Text /\ Append(held, c) \in Text
        /\ Append(out, c) \in Text
    BY DEF Text
  <1>3. Append(out, Space) \in Text
    BY DEF Text, Byte, Space
  <1>4. \A o, h \in Text : [out |-> o, held |-> h] \in Decoding
    BY DEF Decoding
  <1>5. CASE held # <<>> /\ Len(held) = 2
    <2>1. held[2] \in Byte
      BY <1>5 DEF Text
    <2>2. Append(out, HexToAscii(held[2], c)) \in Text
      BY <2>1, EscapeIsByte DEF Text
    <2>3. Feed(state, c) = [out |-> Append(out, HexToAscii(held[2], c)), held |-> <<>>]
      BY <1>1, <1>5 DEF Feed
    <2> QED  BY <1>2, <1>4, <2>2, <2>3
  <1>6. CASE held # <<>> /\ Len(held) # 2
    <2>1. Feed(state, c) = [out |-> out, held |-> Append(held, c)]
      BY <1>1, <1>6 DEF Feed
    <2> QED  BY <1>1, <1>2, <1>4, <2>1
  <1>7. CASE held = <<>>
    <2>1. CASE c = Percent
      <3>1. Feed(state, c) = [out |-> out, held |-> <<c>>]
        <4>1. Feed(state, c) = [state EXCEPT !.held = <<c>>]
          BY <1>1, <1>7, <2>1 DEF Feed, Plus, Percent
        <4> QED  BY <1>1, <4>1
      <3> QED  BY <1>1, <1>2, <1>4, <3>1
    <2>2. CASE c = Plus
      <3>1. Feed(state, c) = [out |-> Append(out, Space), held |-> held]
        BY <1>1, <1>7, <2>2 DEF Feed, Plus, Percent
      <3> QED  BY <1>1, <1>3, <1>4, <3>1
    <2>3. CASE c # Percent /\ c # Plus
      <3>1. Feed(state, c) = [out |-> Append(out, c), held |-> held]
        BY <1>1, <1>7, <2>3 DEF Feed
      <3> QED  BY <1>1, <1>2, <1>4, <3>1
    <2> QED  BY <2>1, <2>2, <2>3
  <1> QED  BY <1>5, <1>6, <1>7

LEMMA FedUpToIs ==
    ASSUME NEW in \in Text
    PROVE  /\ \A n \in 0 .. Len(in) : FedUpTo(in)[n] \in Decoding
           /\ FedUpTo(in)[0] = [out |-> <<>>, held |-> <<>>]
           /\ \A n \in 1 .. Len(in) : FedUpTo(in)[n] = Feed(FedUpTo(in)[n - 1], in[n])
  <1> DEFINE m == Len(in)
             b == [out |-> <<>>, held |-> <<>>]
             step == [n \in 1 .. m |-> [s \in Decoding |-> Feed(s, in[n])]]
             Is(f) == f = [n \in 0 .. m |-> IF n = 0 THEN b ELSE Feed(f[n - 1], in[n])]
             u == FedUpTo(in)
  <1>1. m \in Nat /\ \A n \in 1 .. m : in[n] \in Byte
    BY TextIs
  <1>2. b \in Decoding
    BY DEF Text, Decoding
  <1>3. step \in [1 .. m -> [Decoding -> Decoding]]
    BY <1>1, FeedTyped
  <1>4. \A n \in 1 .. m, s \in Decoding : step[n][s] = Feed(s, in[n])
    OBVIOUS
  <1>5. u = CHOOSE f : Is(f)
    BY DEF FedUpTo
  <1> HIDE DEF step, m, b, u
  <1>6. PICK f \in [0 .. m -> Decoding] : f[0] = b /\ \A n \in 1 .. m : f[n] = step[n][f[n - 1]]
    BY <1>1, <1>2, <1>3, StepsGiveFunction
  <1>7. \A n \in 0 .. m : n # 0 => n \in 1 .. m /\ n - 1 \in 0 .. m
    BY <1>1
  <1>8. \A n \in 0 .. m : f[n] = IF n = 0 THEN b ELSE Feed(f[n - 1], in[n])
    BY <1>4, <1>6, <1>7
  <1>9. Is(f)
    BY <1>6, <1>8
  <1>10. Is(u)
    BY <1>5, <1>9
  <1>11. 0 \in 0 .. m /\ \A n \in 1 .. m : n \in 0 .. m /\ n # 0 /\ n - 1 \in 0 .. m
    BY <1>1
  <1>12. u[0] = b /\ \A n \in 1 .. m : u[n] = Feed(u[n - 1], in[n])
    BY <1>10, <1>11
  <1>13. \A n \in 0 .. m : u[n] \in Decoding
    <2>1. \A n \in 1 .. m : u[n - 1] \in Decoding => u[n] \in Decoding
      BY <1>1, <1>12, FeedTyped
    <2> QED  BY <1>1, <1>2, <1>12, <2>1, StepsStayIn
  <1> QED  BY <1>12, <1>13 DEF u, m, b

LEMMA DecodedIsText ==
    ASSUME NEW in \in Text
    PROVE  Decoded(in) \in Text
  <1>1. Len(in) \in 0 .. Len(in)
    BY TextIs
  <1> QED  BY <1>1, FedUpToIs DEF Decoded, Decoding

-----------------------------------------------------------------------------
(* A field is cut where the iterator cuts it.                               *)

LEMMA NatMax ==
    ASSUME NEW m \in Nat, NEW T \in SUBSET (1 .. m), T # {}
    PROVE  \E x \in T : \A y \in T : y <= x
  <1> DEFINE from == {m - x : x \in T}
  <1>1. from \in SUBSET Nat /\ from # {}
    <2>1. \A x \in T : x \in 1 .. m
      OBVIOUS
    <2>2. \A x \in 1 .. m : m - x \in Nat
      OBVIOUS
    <2>3. \A x \in T : m - x \in Nat
      BY <2>1, <2>2
    <2>4. from \subseteq Nat
      BY <2>3
    <2>5. PICK x \in T : TRUE
      OBVIOUS
    <2> QED  BY <2>4, <2>5
  <1> HIDE DEF from
  <1>2. PICK d \in from : \A e \in from : d <= e
    BY <1>1, NatMin, Zenon
  <1>3. PICK x \in T : d = m - x
    BY DEF from
  <1>4. \A y \in T : m - x <= m - y
    BY <1>2, <1>3 DEF from
  <1>5. \A y \in T : y \in Nat /\ x \in Nat
    OBVIOUS
  <1>6. \A y \in T : y <= x
    BY <1>4, <1>5
  <1> QED  BY <1>6

LEMMA LastEquals ==
    ASSUME NEW f \in Text, \E i \in DOMAIN f : f[i] = Equals
    PROVE  /\ KeySeparator(f) = Max({i \in DOMAIN f : f[i] = Equals})
           /\ KeySeparator(f) \in 1 .. Len(f)
  <1> DEFINE eqs == {i \in DOMAIN f : f[i] = Equals}
  <1>1. PICK m \in Nat : m = Len(f) /\ DOMAIN f = 1 .. m
    BY TextIs
  <1>2. eqs \in SUBSET (1 .. m) /\ eqs # {}
    BY <1>1
  <1>3. PICK x \in eqs : \A y \in eqs : y <= x
    BY <1>2, NatMax
  <1>4. Max(eqs) = x
    <2>1. \A y \in eqs : (\A z \in eqs : y >= z) => y = x
      BY <1>2, <1>3
    <2>2. \A z \in eqs : x >= z
      BY <1>2, <1>3
    <2> HIDE DEF eqs
    <2> QED  BY <2>1, <2>2 DEF Max
  <1> DEFINE Is(i) == f[i] = Equals /\ \A j \in i + 1 .. Len(f) : f[j] # Equals
  <1>5. KeySeparator(f) = CHOOSE i \in DOMAIN f : Is(i)
    BY DEF KeySeparator
  <1>6. Is(x) /\ x \in DOMAIN f
    <2>1. \A j \in x + 1 .. m : j \in 1 .. m /\ ~ (j <= x)
      BY <1>1
    <2> QED  BY <1>1, <1>3, <2>1
  <1>7. \A y \in DOMAIN f : Is(y) => y = x
    <2>1. \A y \in 1 .. m : y < x => x \in y + 1 .. m
      BY <1>1
    <2> QED  BY <1>1, <1>3, <2>1
  <1> HIDE DEF Is
  <1> QED  BY <1>1, <1>4, <1>5, <1>6, <1>7

LEMMA FieldIsCut ==
    ASSUME NEW f \in Text
    PROVE  /\ SubSeq(f, 1, KeySeparator(f) - 1) = KeyOf(f)
           /\ SubSeq(f, KeySeparator(f) + 1, Len(f)) = ValueOf(f)
           /\ KeyOf(f) \in Text /\ ValueOf(f) \in Text
  <1> DEFINE eqs == {i \in DOMAIN f : f[i] = Equals}
  <1>1. CASE eqs = {}
    <2>1. KeyOf(f) = f /\ ValueOf(f) = <<>>
      BY <1>1 DEF KeyOf, ValueOf
    <2>2. KeySeparator(f) = Len(f) + 1
      BY <1>1 DEF KeySeparator
    <2>3. SubSeq(f, 1, (Len(f) + 1) - 1) = f /\ SubSeq(f, (Len(f) + 1) + 1, Len(f)) = <<>>
      BY DEF Text
    <2>4. <<>> \in Text
      BY DEF Text
    <2> QED  BY <2>1, <2>2, <2>3, <2>4
  <1>2. CASE eqs # {}
    <2>1. KeyOf(f) = SubSeq(f, 1, Max(eqs) - 1) /\ ValueOf(f) = SubSeq(f, Max(eqs) + 1, Len(f))
      BY <1>2 DEF KeyOf, ValueOf
    <2>2. KeySeparator(f) = Max(eqs) /\ KeySeparator(f) \in 1 .. Len(f)
      BY <1>2, LastEquals
    <2>3. \A k \in 1 .. Len(f) : SubSeq(f, 1, k - 1) \in Text /\ SubSeq(f, k + 1, Len(f)) \in Text
      BY DEF Text
    <2> QED  BY <2>1, <2>2, <2>3
  <1> QED  BY <1>1, <1>2

-----------------------------------------------------------------------------
(* The values of a name, field by field.                                    *)

Giving(values, f, name) == IF NameOf(f) = name THEN Append(values, GivenBy(f)) ELSE values

LEMMA GivenIsText ==
    ASSUME NEW f \in Text
    PROVE  NameOf(f) \in Text /\ GivenBy(f) \in Text
  <1>1. <<>> \in Text
    BY DEF Text
  <1> QED  BY <1>1, FieldIsCut, DecodedIsText DEF NameOf, GivenBy

LEMMA GivingTyped ==
    ASSUME NEW values \in Texts, NEW f \in Text, NEW name
    PROVE  Giving(values, f, name) \in Texts
  BY GivenIsText DEF Giving, Texts

LEMMA TextsAre ==
    ASSUME NEW s \in Texts
    PROVE  Len(s) \in Nat /\ DOMAIN s = 1 .. Len(s) /\ \A n \in 1 .. Len(s) : s[n] \in Text
  BY DEF Texts

LEMMA ValuesUpToIs ==
    ASSUME NEW fields \in Texts, NEW name
    PROVE  /\ \A n \in 0 .. Len(fields) : ValuesUpTo(fields, name)[n] \in Texts
           /\ ValuesUpTo(fields, name)[0] = <<>>
           /\ \A n \in 1 .. Len(fields) :
                 ValuesUpTo(fields, name)[n] = Giving(ValuesUpTo(fields, name)[n - 1], fields[n], name)
  <1> DEFINE m == Len(fields)
             b == <<>>
             step == [n \in 1 .. m |-> [s \in Texts |-> Giving(s, fields[n], name)]]
             Is(f) == f = [n \in 0 .. m |-> IF n = 0 THEN b ELSE Giving(f[n - 1], fields[n], name)]
             u == ValuesUpTo(fields, name)
  <1>1. m \in Nat /\ \A n \in 1 .. m : fields[n] \in Text
    BY TextsAre
  <1>2. b \in Texts
    BY DEF Texts
  <1>3. step \in [1 .. m -> [Texts -> Texts]]
    BY <1>1, GivingTyped
  <1>4. \A n \in 1 .. m, s \in Texts : step[n][s] = Giving(s, fields[n], name)
    OBVIOUS
  <1>5. u = CHOOSE f : Is(f)
    BY DEF ValuesUpTo, Giving
  <1> HIDE DEF step, m, u, b
  <1>6. PICK f \in [0 .. m -> Texts] : f[0] = b /\ \A n \in 1 .. m : f[n] = step[n][f[n - 1]]
    BY <1>1, <1>2, <1>3, StepsGiveFunction
  <1>7. \A n \in 0 .. m : n # 0 => n \in 1 .. m /\ n - 1 \in 0 .. m
    BY <1>1
  <1>8. \A n \in 0 .. m : f[n] = IF n = 0 THEN b ELSE Giving(f[n - 1], fields[n], name)
    BY <1>4, <1>6, <1>7
  <1>9. Is(f)
    BY <1>6, <1>8
  <1>10. Is(u)
    BY <1>5, <1>9
  <1>11. 0 \in 0 .. m /\ \A n \in 1 .. m : n \in 0 .. m /\ n # 0 /\ n - 1 \in 0 .. m
    BY <1>1
  <1>12. u[0] = b /\ \A n \in 1 .. m : u[n] = Giving(u[n - 1], fields[n], name)
    BY <1>10, <1>11
  <1>13. \A n \in 0 .. m : u[n] \in Texts
    <2>1. \A n \in 1 .. m : u[n - 1] \in Texts => u[n] \in Texts
      BY <1>1, <1>12, GivingTyped
    <2> QED  BY <1>1, <1>2, <1>12, <2>1, StepsStayIn
  <1> QED  BY <1>12, <1>13 DEF u, m, b

\* Two sequences that start the same give a name the same values so far.
LEMMA ValuesAgree ==
    ASSUME NEW fields \in Texts, NEW more \in Texts, NEW name,
           NEW k \in Nat, k <= Len(fields), k <= Len(more),
           \A n \in 1 .. k : fields[n] = more[n]
    PROVE  ValuesUpTo(fields, name)[k] = ValuesUpTo(more, name)[k]
  <1> DEFINE u == ValuesUpTo(fields, name)
             v == ValuesUpTo(more, name)
             T == {n \in Nat : n <= k => u[n] = v[n]}
  <1>1. Len(fields) \in Nat /\ Len(more) \in Nat
    BY TextsAre
  <1>2. /\ u[0] = <<>> /\ \A n \in 1 .. Len(fields) : u[n] = Giving(u[n - 1], fields[n], name)
        /\ v[0] = <<>> /\ \A n \in 1 .. Len(more) : v[n] = Giving(v[n - 1], more[n], name)
    BY ValuesUpToIs
  <1> HIDE DEF u, v
  <1>3. 0 \in T
    BY <1>2
  <1>4. ASSUME NEW n \in Nat, n \in T PROVE n + 1 \in T
    <2> SUFFICES ASSUME n + 1 <= k PROVE u[n + 1] = v[n + 1]
      OBVIOUS
    <2>1. /\ n + 1 \in 1 .. k /\ n + 1 \in 1 .. Len(fields) /\ n + 1 \in 1 .. Len(more)
          /\ (n + 1) - 1 = n /\ n <= k
      BY <1>1
    <2>2. u[n] = v[n]
      BY <1>4, <2>1
    <2> QED  BY <1>2, <2>1, <2>2
  <1> HIDE DEF T
  <1>5. k \in T
    BY <1>3, <1>4, AllNumbers
  <1> QED  BY <1>5 DEF T, u, v

LEMMA ValuesOfAppend ==
    ASSUME NEW fields \in Texts, NEW f \in Text, NEW name
    PROVE  ValuesOf(Append(fields, f), name) = Giving(ValuesOf(fields, name), f, name)
  <1> DEFINE more == Append(fields, f)
  <1>1. PICK k \in Nat : k = Len(fields)
    BY TextsAre
  <1>2. /\ more \in Texts /\ Len(more) = k + 1 /\ more[k + 1] = f
        /\ \A n \in 1 .. k : fields[n] = more[n]
    BY <1>1 DEF Texts
  <1> HIDE DEF more
  <1>3. k + 1 \in 1 .. k + 1 /\ (k + 1) - 1 = k /\ k <= k /\ k <= k + 1
    OBVIOUS
  <1>4. ValuesUpTo(more, name)[k + 1] = Giving(ValuesUpTo(more, name)[k], f, name)
    BY <1>2, <1>3, ValuesUpToIs
  <1>5. ValuesUpTo(fields, name)[k] = ValuesUpTo(more, name)[k]
    BY <1>1, <1>2, <1>3, ValuesAgree
  <1> QED  BY <1>1, <1>2, <1>4, <1>5 DEF ValuesOf, more

\* Further fields take no value away.
LEMMA ValuesGrow ==
    ASSUME NEW fields \in Texts, NEW more \in Texts, NEW name, Len(fields) <= Len(more),
           \A n \in 1 .. Len(fields) : fields[n] = more[n]
    PROVE  Len(ValuesOf(fields, name)) <= Len(ValuesOf(more, name))
  <1>1. PICK k, m \in Nat : k = Len(fields) /\ m = Len(more)
    BY TextsAre
  <1> DEFINE v == ValuesUpTo(more, name)
             T == {n \in Nat : k <= n /\ n <= m => Len(v[k]) <= Len(v[n])}
  <1>2. /\ \A n \in 0 .. m : v[n] \in Texts /\ Len(v[n]) \in Nat
        /\ \A n \in 1 .. m : v[n] = Giving(v[n - 1], more[n], name) /\ more[n] \in Text
    BY <1>1, ValuesUpToIs, TextsAre
  <1> HIDE DEF v
  <1>3. \A n \in 1 .. m : Len(v[n - 1]) <= Len(v[n])
    <2> TAKE n \in 1 .. m
    <2>1. PICK s \in Texts : s = v[n - 1]
      BY <1>2
    <2>2. Len(s) \in Nat /\ \A x \in Text : Len(Append(s, x)) = Len(s) + 1
      BY DEF Texts
    <2>3. /\ GivenBy(more[n]) \in Text
          /\ v[n] = s \/ v[n] = Append(s, GivenBy(more[n]))
      BY <1>2, <2>1, GivenIsText DEF Giving
    <2>4. Len(s) <= Len(v[n])
      BY <2>2, <2>3
    <2> QED  BY <2>1, <2>4
  <1>4. 0 \in T
    BY <1>1, <1>2
  <1>5. ASSUME NEW n \in Nat, n \in T PROVE n + 1 \in T
    <2> SUFFICES ASSUME k <= n + 1, n + 1 <= m PROVE Len(v[k]) <= Len(v[n + 1])
      OBVIOUS
    <2>1. k \in 0 .. m /\ n \in 0 .. m /\ n + 1 \in 1 .. m /\ n + 1 \in 0 .. m /\ (n + 1) - 1 = n
      BY <1>1
    <2>2. Len(v[n]) <= Len(v[n + 1])
      BY <1>3, <2>1
    <2>3. PICK a, b, c \in Nat : a = Len(v[k]) /\ b = Len(v[n]) /\ c = Len(v[n + 1])
      BY <1>2, <2>1
    <2>4. CASE k = n + 1
      BY <2>3, <2>4
    <2>5. CASE k <= n
      <3>1. a <= b
        BY <1>5, <2>1, <2>3, <2>5
      <3> QED  BY <2>2, <2>3, <3>1
    <2>6. k = n + 1 \/ k <= n
      BY <1>1
    <2> QED  BY <2>4, <2>5, <2>6
  <1> HIDE DEF T
  <1>6. m \in T
    BY <1>4, <1>5, AllNumbers
  <1>7. Len(v[k]) <= Len(v[m])
    BY <1>1, <1>6 DEF T
  <1>8. ValuesUpTo(fields, name)[k] = v[k]
    BY <1>1, ValuesAgree DEF v
  <1> QED  BY <1>1, <1>7, <1>8 DEF ValuesOf, v

LEMMA ValuesOfNone ==
    ASSUME NEW fields \in Texts, NEW name, \A n \in 1 .. Len(fields) : NameOf(fields[n]) # name
    PROVE  ValuesOf(fields, name) = <<>>
  <1>1. PICK m \in Nat : m = Len(fields)
    BY TextsAre
  <1> DEFINE v == ValuesUpTo(fields, name)
             D == {<<>>}
  <1>2. v[0] = <<>> /\ \A n \in 1 .. m : v[n] = Giving(v[n - 1], fields[n], name)
    BY <1>1, ValuesUpToIs
  <1> HIDE DEF v
  <1>3. \A n \in 1 .. m : v[n] = v[n - 1]
    BY <1>1, <1>2 DEF Giving
  <1>4. v[0] \in D /\ \A n \in 1 .. m : v[n - 1] \in D => v[n] \in D
    BY <1>2, <1>3
  <1> HIDE DEF D
  <1>5. \A n \in 0 .. m : v[n] \in D
    BY <1>4, StepsStayIn
  <1>6. v[m] \in D
    BY <1>5
  <1> QED  BY <1>1, <1>6 DEF ValuesOf, v, D

LEMMA EmptyTable == TableOf(<<>>) = <<>>
  BY DEF TableOf, Range

\* One more field: a name of its own, or one more value.
LEMMA TableAppend ==
    ASSUME NEW fields \in Texts, NEW f \in Text
    PROVE  /\ NameOf(f) \notin DOMAIN TableOf(fields) =>
                  TableOf(Append(fields, f)) =
                      [k \in DOMAIN TableOf(fields) \cup {NameOf(f)} |->
                          IF k = NameOf(f) THEN <<GivenBy(f)>> ELSE TableOf(fields)[k]]
           /\ NameOf(f) \in DOMAIN TableOf(fields) =>
                  TableOf(Append(fields, f)) =
                      [TableOf(fields) EXCEPT ![NameOf(f)] = Append(@, GivenBy(f))]
  <1> DEFINE more == Append(fields, f)
             names == {NameOf(g) : g \in Range(fields)}
  <1>1. Range(more) = Range(fields) \cup {f}
    <2>1. PICK k \in Nat : k = Len(fields) /\ DOMAIN fields = 1 .. k
      BY TextsAre
    <2>2. /\ DOMAIN more = 1 .. k + 1 /\ more[k + 1] = f
          /\ \A n \in 1 .. k : fields[n] = more[n]
      BY <2>1 DEF Texts
    <2>3. \A n \in 1 .. k + 1 : n \in 1 .. k \/ n = k + 1
      OBVIOUS
    <2>4. k + 1 \in 1 .. k + 1 /\ \A n \in 1 .. k : n \in 1 .. k + 1
      OBVIOUS
    <2> HIDE DEF more
    <2> QED  BY <2>1, <2>2, <2>3, <2>4 DEF Range
  <1>2. \A name : ValuesOf(more, name) = Giving(ValuesOf(fields, name), f, name)
    BY ValuesOfAppend
  <1> HIDE DEF more
  <1>3. TableOf(more) = [k \in names \cup {NameOf(f)} |-> Giving(ValuesOf(fields, k), f, k)]
    BY <1>1, <1>2 DEF TableOf
  <1>4. TableOf(fields) = [k \in names |-> ValuesOf(fields, k)]
    BY DEF TableOf
  <1>5. CASE NameOf(f) \notin names
    <2>1. ValuesOf(fields, NameOf(f)) = <<>>
      <3>1. \A n \in 1 .. Len(fields) : NameOf(fields[n]) # NameOf(f)
        BY <1>5, TextsAre DEF Range
      <3> QED  BY <3>1, ValuesOfNone
    <2>2. Append(<<>>, GivenBy(f)) = <<GivenBy(f)>>
      OBVIOUS
    <2> HIDE DEF names
    <2> QED  BY <1>3, <1>4, <1>5, <2>1, <2>2 DEF Giving, more
  <1>6. CASE NameOf(f) \in names
    <2> HIDE DEF names
    <2> QED  BY <1>3, <1>4, <1>6 DEF Giving, more
  <1> QED  BY <1>4, <1>5, <1>6

-----------------------------------------------------------------------------
(* The decoder against the reference.                                       *)

\* What the decoder makes of the byte at i and those after it.
DecodedFrom(in, from, i) ==
    IF i > Len(in) THEN <<>>
    ELSE IF in[i] = Percent
         THEN IF i + 2 <= Len(in)
              THEN <<HexToAscii(in[i + 1], in[i + 2])>> \o from[i + 3]
              ELSE <<Stuck>>
         ELSE <<IF in[i] = Plus THEN Space ELSE in[i]>> \o from[i + 1]

LEMMA DecoderIs ==
    ASSUME NEW in \in Text
    PROVE  \E from : /\ QueryStrDecode(in) = from[1]
                     /\ \A i \in 1 .. Len(in) + 3 : from[i] = DecodedFrom(in, from, i)
  <1>1. PICK m \in Nat : m = Len(in)
    BY TextIs
  <1> DEFINE Covers(from, k) == \A i \in 1 .. m + 3 : i + k > m + 3 => from[i] = DecodedFrom(in, from, i)
             T == {k \in Nat : \E from : Covers(from, k)}
             Is(from) == from = [i \in 1 .. m + 3 |-> DecodedFrom(in, from, i)]
  <1>2. 0 \in T
    <2>1. \A i \in 1 .. m + 3 : ~ (i + 0 > m + 3)
      OBVIOUS
    <2>2. Covers(<<>>, 0)
      BY <2>1
    <2> QED  BY <2>2
  <1>3. ASSUME NEW k \in Nat, k \in T PROVE k + 1 \in T
    <2>1. PICK f : Covers(f, k)
      BY <1>3
    <2> DEFINE j == m + 3 - k
               g == [i \in 1 .. m + 3 |-> IF i = j THEN DecodedFrom(in, f, i) ELSE f[i]]
    <2>2. ASSUME NEW i \in 1 .. m + 3, i + (k + 1) > m + 3
          PROVE  g[i] = DecodedFrom(in, g, i)
      <3>1. i >= j /\ (i <= m => i + 1 \in 1 .. m + 3 /\ i + 3 \in 1 .. m + 3 /\ i + 1 # j /\ i + 3 # j)
        BY <2>2
      <3>2. i <= m => g[i + 1] = f[i + 1] /\ g[i + 3] = f[i + 3]
        BY <3>1
      <3>3. DecodedFrom(in, g, i) = DecodedFrom(in, f, i)
        <4> HIDE DEF g
        <4> QED  BY <1>1, <3>2 DEF DecodedFrom
      <3>4. CASE i = j
        BY <3>3, <3>4
      <3>5. CASE i # j
        <4>1. i + k > m + 3
          BY <3>1, <3>5
        <4> QED  BY <2>1, <3>3, <3>5, <4>1
      <3> QED  BY <3>4, <3>5
    <2>3. Covers(g, k + 1)
      BY <2>2
    <2> HIDE DEF g, Covers
    <2> QED  BY <2>3
  <1> HIDE DEF T
  <1>4. m + 3 \in T
    BY <1>2, <1>3, AllNumbers
  <1>5. PICK f : Covers(f, m + 3)
    BY <1>4 DEF T
  <1> DEFINE g == [i \in 1 .. m + 3 |-> f[i]]
  <1>6. Is(g)
    <2>1. ASSUME NEW i \in 1 .. m + 3
          PROVE  f[i] = DecodedFrom(in, g, i)
      <3>1. i + (m + 3) > m + 3 /\ (i <= m => i + 1 \in 1 .. m + 3 /\ i + 3 \in 1 .. m + 3)
        OBVIOUS
      <3>2. i <= m => g[i + 1] = f[i + 1] /\ g[i + 3] = f[i + 3]
        BY <3>1
      <3>3. DecodedFrom(in, g, i) = DecodedFrom(in, f, i)
        <4> HIDE DEF g
        <4> QED  BY <1>1, <3>2 DEF DecodedFrom
      <3> QED  BY <1>5, <3>1, <3>3
    <2> QED  BY <2>1
  <1> DEFINE d == CHOOSE from : Is(from)
  <1>7. Is(d)
    BY <1>6
  <1>8. QueryStrDecode(in) = d[1]
    BY <1>1 DEF QueryStrDecode, DecodedFrom
  <1> HIDE DEF d
  <1>9. \A i \in 1 .. m + 3 : d[i] = DecodedFrom(in, d, i)
    BY <1>7
  <1> QED  BY <1>1, <1>8, <1>9

\* Three ways the reference takes a byte when it holds none back.
LEMMA FeedPlain ==
    ASSUME NEW out \in Text, NEW c \in Byte, c # Percent
    PROVE  Feed([out |-> out, held |-> <<>>], c) =
               [out |-> Append(out, IF c = Plus THEN Space ELSE c), held |-> <<>>]
  <1>1. CASE c = Plus
    BY <1>1 DEF Feed, Plus, Percent
  <1>2. CASE c # Plus
    BY <1>2 DEF Feed
  <1> QED  BY <1>1, <1>2

LEMMA OneIs ==
    ASSUME NEW a, NEW b
    PROVE  /\ <<a>> # <<>> /\ Len(<<a>>) = 1
           /\ Append(<<a>>, b) # <<>> /\ Len(Append(<<a>>, b)) = 2 /\ Append(<<a>>, b)[2] = b
  <1>1. Len(<<a>>) = 1 /\ Len(<<>>) = 0
    OBVIOUS
  <1>2. <<a>> \in Seq({a, b})
    OBVIOUS
  <1>3. Len(Append(<<a>>, b)) = 2 /\ Append(<<a>>, b)[2] = b
    BY <1>1, <1>2
  <1> QED  BY <1>1, <1>3

LEMMA FeedHolds ==
    ASSUME NEW out \in Text, NEW c \in Byte, NEW d \in Byte
    PROVE  /\ Feed([out |-> out, held |-> <<>>], Percent) = [out |-> out, held |-> <<Percent>>]
           /\ Feed([out |-> out, held |-> <<Percent>>], c) =
                  [out |-> out, held |-> Append(<<Percent>>, c)]
           /\ Feed([out |-> out, held |-> Append(<<Percent>>, c)], d) =
                  [out |-> Append(out, HexToAscii(c, d)), held |-> <<>>]
  <1>1. Feed([out |-> out, held |-> <<>>], Percent) = [out |-> out, held |-> <<Percent>>]
    BY DEF Feed, Plus, Percent
  <1> DEFINE one == <<Percent>>
             two == Append(one, c)
  <1>2. /\ one # <<>> /\ Len(one) = 1
        /\ two # <<>> /\ Len(two) = 2 /\ two[2] = c
    BY OneIs
  <1> HIDE DEF one
  <1>3. Feed([out |-> out, held |-> one], c) = [out |-> out, held |-> two]
    BY <1>2 DEF Feed
  <1> HIDE DEF two
  <1>4. Feed([out |-> out, held |-> two], d) = [out |-> Append(out, HexToAscii(c, d)), held |-> <<>>]
    BY <1>2 DEF Feed
  <1> QED  BY <1>1, <1>3, <1>4 DEF one, two

\* Bytes, or where the decoder stays.
Code == Byte \cup {Stuck}

LEMMA Joined ==
    ASSUME NEW out \in Text, NEW c \in Byte, NEW rest \in Seq(Code)
    PROVE  /\ <<c>> \o rest \in Seq(Code)
           /\ Append(out, c) \o rest = out \o (<<c>> \o rest)
           /\ Stuck \in Range(<<c>> \o rest) <=> Stuck \in Range(rest)
  <1>1. c \in Code /\ c # Stuck /\ <<c>> \in Seq(Code)
    BY DEF Code, Byte, Stuck
  <1>2. <<c>> \o rest \in Seq(Code)
    BY <1>1
  <1>3. PICK m, n \in Nat : m = Len(out) /\ DOMAIN out = 1 .. m /\ n = Len(rest) /\ DOMAIN rest = 1 .. n
    BY TextIs
  <1> DEFINE t == <<c>> \o rest
  <1>4. /\ Len(t) = n + 1 /\ DOMAIN t = 1 .. n + 1
        /\ t[1] = c /\ \A i \in 1 .. n : t[i + 1] = rest[i]
    BY <1>1, <1>3
  <1> HIDE DEF t
  <1>5. Stuck \in Range(t) <=> Stuck \in Range(rest)
    <2>1. \A i \in 1 .. n + 1 : i = 1 \/ (i - 1 \in 1 .. n /\ (i - 1) + 1 = i)
      OBVIOUS
    <2>2. \A i \in 1 .. n : i + 1 \in 1 .. n + 1
      OBVIOUS
    <2>3. c # Stuck
      BY <1>1
    <2>4. ASSUME NEW i \in 1 .. n + 1, t[i] = Stuck PROVE Stuck \in Range(rest)
      <3>1. i - 1 \in 1 .. n /\ rest[i - 1] = Stuck
        BY <1>4, <2>1, <2>3, <2>4
      <3> QED  BY <1>3, <3>1 DEF Range
    <2>5. ASSUME NEW i \in 1 .. n, rest[i] = Stuck PROVE Stuck \in Range(t)
      <3>1. i + 1 \in 1 .. n + 1 /\ t[i + 1] = Stuck
        BY <1>4, <2>2, <2>5
      <3> QED  BY <1>4, <3>1 DEF Range
    <2> QED  BY <1>3, <1>4, <2>4, <2>5 DEF Range
  <1>6. Append(out, c) \o rest = out \o t
    <2>1. out \in Seq(Code) /\ t \in Seq(Code) /\ rest \in Seq(Code)
      BY <1>2 DEF t, Text, Code
    <2>2. Append(out, c) = out \o <<c>>
      BY <1>1, <2>1
    <2>3. (out \o <<c>>) \o rest = out \o (<<c>> \o rest)
      BY <1>1, <2>1
    <2> QED  BY <2>2, <2>3 DEF t
  <1> QED  BY <1>2, <1>5, <1>6 DEF t

\* The decoder gives what the reference does, or stays where an escape is cut
\* short.
LEMMA DecoderCorrect ==
    ASSUME NEW in \in Text
    PROVE  /\ Hangs(in) <=> Truncated(in)
           /\ ~ Truncated(in) => QueryStrDecode(in) = Decoded(in)
  <1>1. PICK m \in Nat : m = Len(in) /\ \A i \in 1 .. m : in[i] \in Byte
    BY TextIs
  <1>2. PICK f : /\ QueryStrDecode(in) = f[1]
                 /\ \A i \in 1 .. m + 3 : f[i] = DecodedFrom(in, f, i)
    BY <1>1, DecoderIs
  <1> DEFINE u == FedUpTo(in)
             Good(n) ==
                 u[n].held = <<>> =>
                     /\ f[n + 1] \in Seq(Code)
                     /\ Stuck \in Range(f[n + 1]) <=> u[m].held # <<>>
                     /\ u[m].held = <<>> => u[m].out = u[n].out \o f[n + 1]
             Bad == {k \in 0 .. m : ~ Good(m - k)}
  <1>3. /\ \A n \in 0 .. m : u[n] \in Decoding
        /\ u[0] = [out |-> <<>>, held |-> <<>>]
        /\ \A n \in 1 .. m : u[n] = Feed(u[n - 1], in[n])
    BY <1>1, FedUpToIs
  <1> HIDE DEF u
  <1>4. \A n \in 0 .. m : (\A l \in n + 1 .. m : Good(l)) => Good(n)
    <2> HIDE DEF Good
    <2> SUFFICES ASSUME NEW n \in 0 .. m, \A l \in n + 1 .. m : Good(l), u[n].held = <<>>
                 PROVE  /\ f[n + 1] \in Seq(Code)
                        /\ Stuck \in Range(f[n + 1]) <=> u[m].held # <<>>
                        /\ u[m].held = <<>> => u[m].out = u[n].out \o f[n + 1]
      BY DEF Good
    <2>1. PICK out \in Text : u[n] = [out |-> out, held |-> <<>>]
      BY <1>3 DEF Decoding
    <2>2. f[n + 1] = DecodedFrom(in, f, n + 1)
      <3>1. n + 1 \in 1 .. m + 3
        OBVIOUS
      <3> QED  BY <1>2, <3>1
    <2>3. CASE n = m
      <3>1. f[n + 1] = <<>>
        BY <1>1, <2>2, <2>3 DEF DecodedFrom
      <3>2. <<>> \in Seq(Code) /\ Stuck \notin Range(<<>>) /\ out \o <<>> = out
        BY DEF Range, Text
      <3> QED  BY <2>1, <2>3, <3>1, <3>2
    <2>4. CASE n # m /\ in[n + 1] # Percent
      <3>1. n + 1 \in 1 .. m /\ n + 1 \in n + 1 .. m /\ n + 1 \in 0 .. m /\ (n + 1) - 1 = n /\ ~ (n + 1 > m)
        BY <2>4
      <3>2. PICK c \in Byte : c = IF in[n + 1] = Plus THEN Space ELSE in[n + 1]
        BY <1>1, <3>1 DEF Byte, Space
      <3>3. u[n + 1] = [out |-> Append(out, c), held |-> <<>>]
        <4>1. u[n + 1] = Feed(u[n], in[n + 1]) /\ in[n + 1] \in Byte
          BY <1>1, <1>3, <3>1
        <4> QED  BY <2>1, <2>4, <3>2, <4>1, FeedPlain
      <3>4. f[n + 1] = <<c>> \o f[(n + 1) + 1]
        BY <1>1, <2>2, <2>4, <3>1, <3>2 DEF DecodedFrom
      <3>5. /\ f[(n + 1) + 1] \in Seq(Code)
            /\ Stuck \in Range(f[(n + 1) + 1]) <=> u[m].held # <<>>
            /\ u[m].held = <<>> => u[m].out = Append(out, c) \o f[(n + 1) + 1]
        <4>1. Good(n + 1)
          BY <3>1
        <4>2. u[n + 1].held = <<>> /\ u[n + 1].out = Append(out, c)
          BY <3>3
        <4> QED  BY <4>1, <4>2 DEF Good
      <3>6. /\ f[n + 1] \in Seq(Code)
            /\ Stuck \in Range(f[n + 1]) <=> u[m].held # <<>>
            /\ u[m].held = <<>> => u[m].out = u[n].out \o f[n + 1]
        <4>1. PICK rest \in Seq(Code) : rest = f[(n + 1) + 1]
          BY <3>5
        <4>2. /\ <<c>> \o rest \in Seq(Code)
              /\ Append(out, c) \o rest = out \o (<<c>> \o rest)
              /\ Stuck \in Range(<<c>> \o rest) <=> Stuck \in Range(rest)
          BY Joined
        <4> DEFINE t == <<c>> \o rest
        <4>3. f[n + 1] = t /\ u[n].out = out
          BY <2>1, <3>4, <4>1
        <4> HIDE DEF t
        <4> QED  BY <3>5, <4>1, <4>2, <4>3 DEF t
      <3> QED  BY <3>6
    <2>5. CASE n # m /\ in[n + 1] = Percent /\ n + 3 <= m
      <3>1. /\ n + 1 \in 1 .. m /\ n + 2 \in 1 .. m /\ n + 3 \in 1 .. m /\ n + 3 \in n + 1 .. m
            /\ (n + 1) - 1 = n /\ (n + 2) - 1 = n + 1 /\ (n + 3) - 1 = n + 2
            /\ (n + 1) + 1 = n + 2 /\ (n + 1) + 2 = n + 3 /\ (n + 1) + 3 = (n + 3) + 1
            /\ ~ (n + 1 > m)
        BY <2>5
      <3>2. in[n + 2] \in Byte /\ in[n + 3] \in Byte
        BY <1>1, <3>1
      <3>3. PICK c \in Byte : c = HexToAscii(in[n + 2], in[n + 3])
        BY <3>2, EscapeIsByte
      <3>4. u[n + 1] = [out |-> out, held |-> <<Percent>>]
        <4>1. u[n + 1] = Feed(u[n], Percent)
          BY <1>3, <2>5, <3>1
        <4> QED  BY <2>1, <3>2, <4>1, FeedHolds
      <3>5. u[n + 2] = [out |-> out, held |-> Append(<<Percent>>, in[n + 2])]
        <4>1. u[n + 2] = Feed(u[n + 1], in[n + 2])
          BY <1>3, <3>1
        <4> QED  BY <3>2, <3>4, <4>1, FeedHolds
      <3>6. u[n + 3] = [out |-> Append(out, c), held |-> <<>>]
        <4>1. u[n + 3] = Feed(u[n + 2], in[n + 3])
          BY <1>3, <3>1
        <4>2. PICK x, y \in Byte : x = in[n + 2] /\ y = in[n + 3]
          BY <3>2
        <4>3. Feed([out |-> out, held |-> Append(<<Percent>>, x)], y) =
                  [out |-> Append(out, HexToAscii(x, y)), held |-> <<>>]
          BY FeedHolds
        <4> QED  BY <3>3, <3>5, <4>1, <4>2, <4>3
      <3>7. f[n + 1] = <<c>> \o f[(n + 3) + 1]
        BY <1>1, <2>2, <2>5, <3>1, <3>3 DEF DecodedFrom
      <3>8. /\ f[(n + 3) + 1] \in Seq(Code)
            /\ Stuck \in Range(f[(n + 3) + 1]) <=> u[m].held # <<>>
            /\ u[m].held = <<>> => u[m].out = Append(out, c) \o f[(n + 3) + 1]
        <4>1. Good(n + 3)
          BY <3>1
        <4>2. u[n + 3].held = <<>> /\ u[n + 3].out = Append(out, c)
          BY <3>6
        <4> QED  BY <4>1, <4>2 DEF Good
      <3>9. /\ f[n + 1] \in Seq(Code)
            /\ Stuck \in Range(f[n + 1]) <=> u[m].held # <<>>
            /\ u[m].held = <<>> => u[m].out = u[n].out \o f[n + 1]
        <4>1. PICK rest \in Seq(Code) : rest = f[(n + 3) + 1]
          BY <3>8
        <4>2. /\ <<c>> \o rest \in Seq(Code)
              /\ Append(out, c) \o rest = out \o (<<c>> \o rest)
              /\ Stuck \in Range(<<c>> \o rest) <=> Stuck \in Range(rest)
          BY Joined
        <4> DEFINE t == <<c>> \o rest
        <4>3. f[n + 1] = t /\ u[n].out = out
          BY <2>1, <3>7, <4>1
        <4> HIDE DEF t
        <4> QED  BY <3>8, <4>1, <4>2, <4>3 DEF t
      <3> QED  BY <3>9
    <2>6. CASE n # m /\ in[n + 1] = Percent /\ n + 3 > m
      <3>1. /\ n + 1 \in 1 .. m /\ (n + 1) - 1 = n /\ ~ (n + 1 > m) /\ ~ ((n + 1) + 2 <= m)
            /\ m = n + 1 \/ (m = n + 2 /\ n + 2 \in 1 .. m /\ (n + 2) - 1 = n + 1)
        BY <2>6
      <3>2. f[n + 1] = <<Stuck>>
        BY <1>1, <2>2, <2>6, <3>1 DEF DecodedFrom
      <3>3. <<Stuck>> \in Seq(Code) /\ Stuck \in Range(<<Stuck>>)
        BY DEF Range, Code
      <3>4. u[n + 1] = [out |-> out, held |-> <<Percent>>]
        <4>1. Percent \in Byte
          BY DEF Percent, Byte
        <4>2. u[n + 1] = Feed(u[n], Percent)
          BY <1>3, <2>6, <3>1
        <4> QED  BY <2>1, <4>1, <4>2, FeedHolds
      <3>5. u[m].held # <<>>
        <4>1. CASE m = n + 1
          BY <3>4, <4>1, OneIs
        <4>2. CASE m = n + 2
          <5>1. in[n + 2] \in Byte
            BY <1>1, <3>1, <4>2
          <5>2. u[n + 2] = [out |-> out, held |-> Append(<<Percent>>, in[n + 2])]
            <6>1. u[n + 2] = Feed(u[n + 1], in[n + 2])
              BY <1>3, <3>1, <4>2
            <6> QED  BY <3>4, <5>1, <6>1, FeedHolds
          <5> QED  BY <4>2, <5>2, OneIs
        <4> QED  BY <3>1, <4>1, <4>2
      <3> QED  BY <3>2, <3>3, <3>5
    <2>7. n + 3 <= m \/ n + 3 > m
      OBVIOUS
    <2> QED  BY <2>3, <2>4, <2>5, <2>6, <2>7
  <1>5. Good(0)
    <2> HIDE DEF Good
    <2>1. CASE Bad = {}
      <3>1. m \in 0 .. m /\ m - m = 0
        OBVIOUS
      <3> QED  BY <2>1, <3>1
    <2>2. CASE Bad # {}
      <3>1. Bad \in SUBSET Nat
        OBVIOUS
      <3>2. PICK k \in Bad : \A l \in Bad : k <= l
        BY <2>2, <3>1, NatMin, Zenon
      <3>3. k \in 0 .. m /\ m - k \in 0 .. m /\ ~ Good(m - k)
        BY <3>2
      <3>4. ASSUME NEW l \in (m - k) + 1 .. m PROVE Good(l)
        <4>1. m - l \in 0 .. m /\ m - (m - l) = l /\ ~ (k <= m - l)
          BY <3>3
        <4> QED  BY <3>2, <4>1
      <3> QED  BY <1>4, <3>3, <3>4
    <2> QED  BY <2>1, <2>2
  <1>6. u[0].held = <<>> /\ u[0].out = <<>>
    BY <1>3
  <1>7. 0 + 1 = 1
    OBVIOUS
  <1>8. <<>> \o f[1] = f[1]
    BY <1>5, <1>6, <1>7
  <1>9. /\ Stuck \in Range(f[1]) <=> u[m].held # <<>>
        /\ u[m].held = <<>> => u[m].out = f[1]
    BY <1>5, <1>6, <1>7, <1>8
  <1> QED  BY <1>1, <1>2, <1>9 DEF Hangs, Truncated, Decoded, u

-----------------------------------------------------------------------------
(* The iterator against the reference.                                      *)

\* The fields before the position of the iterator.
HandledAt(qs, c) == IF c = Null THEN Fields(qs) ELSE CutUpTo(qs)[c - 1].done

Starts(s, t) == Len(s) <= Len(t) /\ \A n \in 1 .. Len(s) : s[n] = t[n]

LEMMA AppendIsTexts ==
    ASSUME NEW s \in Texts, NEW x \in Text
    PROVE  /\ Append(s, x) \in Texts
           /\ Len(Append(s, x)) = Len(s) + 1 /\ Append(s, x)[Len(s) + 1] = x
           /\ \A n \in 1 .. Len(s) : Append(s, x)[n] = s[n]
  BY DEF Texts

LEMMA StartsItself ==
    ASSUME NEW s \in Texts
    PROVE  Starts(s, s)
  BY TextsAre DEF Starts

LEMMA StartsLonger ==
    ASSUME NEW s \in Texts, NEW t \in Texts, NEW x \in Text, Starts(s, t)
    PROVE  Starts(s, Append(t, x))
  <1>1. PICK k, m \in Nat : k = Len(s) /\ m = Len(t)
    BY TextsAre
  <1> DEFINE r == Append(t, x)
  <1>2. Len(r) = m + 1 /\ \A n \in 1 .. m : r[n] = t[n]
    BY <1>1, AppendIsTexts
  <1> HIDE DEF r
  <1>3. k <= m /\ \A n \in 1 .. k : s[n] = t[n]
    BY <1>1 DEF Starts
  <1>4. k <= m + 1 /\ \A n \in 1 .. k : n \in 1 .. m
    BY <1>1, <1>3
  <1>5. \A n \in 1 .. k : s[n] = r[n]
    BY <1>2, <1>3, <1>4
  <1> QED  BY <1>1, <1>2, <1>4, <1>5 DEF Starts, r

LEMMA FieldEndIs ==
    ASSUME NEW qs \in Text, NEW c \in 1 .. Len(qs)
    PROVE  /\ FieldEnd(qs, c) \in c .. Len(qs) + 1
           /\ \A j \in c .. FieldEnd(qs, c) - 1 : qs[j] \notin Separators
           /\ FieldEnd(qs, c) <= Len(qs) => qs[FieldEnd(qs, c)] \in Separators
  <1>0. PICK m \in Nat : m = Len(qs)
    BY TextIs
  <1> DEFINE seps == {i \in c .. m : qs[i] \in Separators}
  <1>1. CASE seps = {}
    <2>1. FieldEnd(qs, c) = m + 1
      BY <1>0, <1>1 DEF FieldEnd
    <2>2. \A j \in c .. (m + 1) - 1 : j \in c .. m
      BY <1>0
    <2>3. c <= m + 1 /\ ~ (m + 1 <= m)
      BY <1>0
    <2> QED  BY <1>0, <1>1, <2>1, <2>2, <2>3
  <1>2. CASE seps # {}
    <2>0. seps \in SUBSET Nat
      OBVIOUS
    <2>1. PICK i \in seps : \A j \in seps : i <= j
      BY <1>2, <2>0, NatMin, Zenon
    <2>2. i \in c .. m /\ qs[i] \in Separators /\ \A j \in c .. i - 1 : qs[j] \notin Separators
      BY <1>0, <2>0, <2>1
    <2> DEFINE Is(k) == qs[k] \in Separators /\ \A j \in c .. k - 1 : qs[j] \notin Separators
    <2>3. FieldEnd(qs, c) = CHOOSE k \in c .. m : Is(k)
      BY <1>0, <2>2 DEF FieldEnd
    <2>4. i \in c .. m /\ Is(i)
      BY <2>2
    <2>5. FieldEnd(qs, c) \in c .. m /\ Is(FieldEnd(qs, c))
      <3> HIDE DEF Is
      <3> QED  BY <2>3, <2>4
    <2>6. \A e \in c .. m : e \in c .. m + 1
      BY <1>0
    <2> QED  BY <1>0, <2>5, <2>6
  <1> QED  BY <1>1, <1>2

LEMMA SubSeqGrows ==
    ASSUME NEW qs \in Text, NEW c \in 1 .. Len(qs), NEW j \in Nat, c <= j + 1, j + 1 <= Len(qs)
    PROVE  SubSeq(qs, c, j + 1) = Append(SubSeq(qs, c, j), qs[j + 1])
  BY DEF Text

LEMMA SubSeqIsText ==
    ASSUME NEW qs \in Text, NEW c \in 1 .. Len(qs), NEW j \in Nat, c <= j + 1, j <= Len(qs)
    PROVE  /\ SubSeq(qs, c, j) \in Text
           /\ j + 1 = c => SubSeq(qs, c, j) = <<>>
           /\ c <= j => SubSeq(qs, c, j) # <<>>
  BY DEF Text

LEMMA CutGathers ==
    ASSUME NEW done, NEW open, NEW c, c \notin Separators
    PROVE  Cut([done |-> done, open |-> open], c) = [done |-> done, open |-> Append(open, c)]
  BY DEF Cut

\* Up to the next separator the reference gathers the field.
LEMMA FieldGathered ==
    ASSUME NEW qs \in Text, NEW c \in 1 .. Len(qs), CutUpTo(qs)[c - 1].open = <<>>,
           NEW j \in Nat, c <= j + 1, j < FieldEnd(qs, c)
    PROVE  CutUpTo(qs)[j] = [done |-> CutUpTo(qs)[c - 1].done, open |-> SubSeq(qs, c, j)]
  <1> DEFINE u == CutUpTo(qs)
             e == FieldEnd(qs, c)
             d == u[c - 1].done
             T == {k \in Nat : c <= k + 1 /\ k < e => u[k] = [done |-> d, open |-> SubSeq(qs, c, k)]}
  <1>1. PICK m \in Nat : m = Len(qs)
    BY TextIs
  <1>2. /\ \A n \in 0 .. m : u[n] \in States
        /\ \A n \in 1 .. m : u[n] = Cut(u[n - 1], qs[n])
    BY <1>1, CutUpToIs
  <1>3. e \in c .. m + 1 /\ \A k \in c .. e - 1 : qs[k] \notin Separators
    BY <1>1, FieldEndIs
  <1>4. c \in 1 .. m /\ c - 1 \in 0 .. m /\ c - 1 \in Nat /\ (c - 1) + 1 = c
    BY <1>1
  <1> HIDE DEF u, e
  <1>5. u[c - 1] = [done |-> d, open |-> SubSeq(qs, c, c - 1)]
    <2>1. u[c - 1] \in States
      BY <1>2, <1>4
    <2>2. u[c - 1] = [done |-> d, open |-> u[c - 1].open]
      BY <2>1 DEF States
    <2>3. SubSeq(qs, c, c - 1) = <<>>
      BY <1>1, <1>4, SubSeqIsText
    <2> QED  BY <2>2, <2>3 DEF u
  <1> HIDE DEF d
  <1>6. 0 \in T
    <2>1. c <= 0 + 1 => c - 1 = 0
      BY <1>4
    <2> QED  BY <1>5, <2>1
  <1>7. ASSUME NEW k \in Nat, k \in T PROVE k + 1 \in T
    <2> SUFFICES ASSUME c <= (k + 1) + 1, k + 1 < e
                 PROVE  u[k + 1] = [done |-> d, open |-> SubSeq(qs, c, k + 1)]
      OBVIOUS
    <2>1. CASE c = (k + 1) + 1
      <3>1. c - 1 = k + 1
        BY <2>1
      <3> QED  BY <1>5, <3>1
    <2>2. CASE c # (k + 1) + 1
      <3>1. c <= k + 1 /\ k < e /\ k + 1 \in c .. e - 1 /\ k + 1 \in 1 .. m /\ (k + 1) - 1 = k
        BY <1>3, <1>4, <2>2
      <3>2. u[k] = [done |-> d, open |-> SubSeq(qs, c, k)]
        BY <1>7, <3>1
      <3>3. u[k + 1] = [done |-> d, open |-> Append(SubSeq(qs, c, k), qs[k + 1])]
        <4>1. u[k + 1] = Cut(u[k], qs[k + 1]) /\ qs[k + 1] \notin Separators
          BY <1>2, <1>3, <3>1
        <4> QED  BY <3>2, <4>1, CutGathers
      <3>4. SubSeq(qs, c, k + 1) = Append(SubSeq(qs, c, k), qs[k + 1])
        BY <1>1, <1>4, <3>1, SubSeqGrows
      <3> QED  BY <3>3, <3>4
    <2> QED  BY <2>1, <2>2
  <1> HIDE DEF T
  <1>8. j \in T
    BY <1>6, <1>7, AllNumbers
  <1> QED  BY <1>8 DEF T, u, d, e

\* A turn of the loop handles the next field of the reference.
LEMMA FieldHandled ==
    ASSUME NEW qs \in Text, NEW c \in 1 .. Len(qs), CutUpTo(qs)[c - 1].open = <<>>
    PROVE  /\ Field(qs, c) \in Text
           /\ HandledAt(qs, Moved(qs, c)) = Append(HandledAt(qs, c), Field(qs, c))
           /\ Moved(qs, c) # Null => CutUpTo(qs)[Moved(qs, c) - 1].open = <<>>
  <1> DEFINE u == CutUpTo(qs)
             d == u[c - 1].done
  <1>1. PICK m \in Nat : m = Len(qs)
    BY TextIs
  <1>2. PICK e \in c .. m + 1 : e = FieldEnd(qs, c) /\ (e <= m => qs[e] \in Separators)
    BY <1>1, FieldEndIs
  <1>3. c \in 1 .. m /\ c # 0 /\ e - 1 \in Nat /\ c <= (e - 1) + 1 /\ e - 1 < e /\ e - 1 <= m
    BY <1>1, <1>2
  <1>4. PICK f \in Text : f = Field(qs, c) /\ f = SubSeq(qs, c, e - 1)
    BY <1>1, <1>2, <1>3, SubSeqIsText DEF Field
  <1>5. u[e - 1] = [done |-> d, open |-> f]
    BY <1>1, <1>2, <1>3, <1>4, FieldGathered
  <1>6. \A n \in 1 .. m : u[n] = Cut(u[n - 1], qs[n])
    BY <1>1, CutUpToIs
  <1>7. HandledAt(qs, c) = d
    BY <1>3 DEF HandledAt, Null
  <1> HIDE DEF u, d
  <1>8. CASE e <= m
    <2>1. Moved(qs, c) = e + 1 /\ e + 1 # 0 /\ (e + 1) - 1 = e /\ e \in 1 .. m
      BY <1>1, <1>2, <1>3, <1>8 DEF Moved
    <2>2. u[e] = [done |-> Append(d, f), open |-> <<>>]
      <3>1. u[e] = Cut(u[e - 1], qs[e]) /\ qs[e] \in Separators
        BY <1>2, <1>6, <1>8, <2>1
      <3> QED  BY <1>5, <3>1 DEF Cut
    <2>3. HandledAt(qs, Moved(qs, c)) = u[e].done
      BY <2>1 DEF HandledAt, Null, u
    <2>4. CutUpTo(qs)[Moved(qs, c) - 1].open = u[e].open
      BY <2>1 DEF u
    <2> QED  BY <1>4, <1>7, <2>2, <2>3, <2>4
  <1>9. CASE e > m
    <2>1. Moved(qs, c) = Null /\ e - 1 = m /\ c <= m
      BY <1>1, <1>2, <1>3, <1>9 DEF Moved
    <2>2. f # <<>>
      BY <1>1, <1>3, <1>4, <2>1, SubSeqIsText
    <2>3. u[m] = [done |-> d, open |-> f]
      BY <1>5, <2>1
    <2>4. Fields(qs) = Append(d, f)
      BY <1>1, <2>2, <2>3 DEF Fields, u
    <2> QED  BY <1>4, <1>7, <2>1, <2>4 DEF HandledAt
  <1> QED  BY <1>2, <1>8, <1>9

\* No field is lost that was complete.
LEMMA DoneGrows ==
    ASSUME NEW qs \in Text, NEW i \in 0 .. Len(qs)
    PROVE  Starts(CutUpTo(qs)[i].done, Fields(qs)) /\ CutUpTo(qs)[i].done \in Texts /\ Fields(qs) \in Texts
  <1> DEFINE u == CutUpTo(qs)
  <1>1. PICK m \in Nat : m = Len(qs) /\ i \in 0 .. m
    BY TextIs
  <1>2. /\ \A n \in 0 .. m : u[n] \in States
        /\ \A n \in 1 .. m : u[n] = Cut(u[n - 1], qs[n])
    BY <1>1, CutUpToIs
  <1> HIDE DEF u
  <1>3. \A n \in 0 .. m : u[n].done \in Texts /\ u[n].open \in Text
    BY <1>2 DEF States, Texts
  <1>4. \A n \in 1 .. m : u[n].done = u[n - 1].done \/ u[n].done = Append(u[n - 1].done, u[n - 1].open)
    <2> TAKE n \in 1 .. m
    <2>1. n - 1 \in 0 .. m
      BY <1>1
    <2>2. u[n - 1] \in States /\ u[n] = Cut(u[n - 1], qs[n])
      BY <1>2, <2>1
    <2> QED  BY <2>2 DEF Cut, States
  <1> DEFINE T == {n \in Nat : i <= n /\ n <= m => Starts(u[i].done, u[n].done)}
  <1>5. 0 \in T
    BY <1>1 DEF Starts
  <1>6. ASSUME NEW n \in Nat, n \in T PROVE n + 1 \in T
    <2> SUFFICES ASSUME i <= n + 1, n + 1 <= m PROVE Starts(u[i].done, u[n + 1].done)
      OBVIOUS
    <2>1. CASE i = n + 1
      <3>1. u[i].done \in Texts
        BY <1>1, <1>3
      <3> QED  BY <2>1, <3>1, StartsItself
    <2>2. CASE i # n + 1
      <3>1. i <= n /\ n <= m /\ n \in 0 .. m /\ n + 1 \in 1 .. m /\ (n + 1) - 1 = n
        BY <1>1, <2>2
      <3>2. Starts(u[i].done, u[n].done) /\ u[i].done \in Texts /\ u[n].done \in Texts
        BY <1>1, <1>3, <1>6, <3>1
      <3>3. u[n + 1].done = u[n].done \/ u[n + 1].done = Append(u[n].done, u[n].open)
        BY <1>4, <3>1
      <3> QED  BY <1>3, <3>1, <3>2, <3>3, StartsLonger
    <2> QED  BY <2>1, <2>2
  <1> HIDE DEF T
  <1>7. m \in T
    BY <1>5, <1>6, AllNumbers
  <1>8. Starts(u[i].done, u[m].done) /\ u[i].done \in Texts /\ u[m].done \in Texts /\ u[m].open \in Text
    BY <1>1, <1>3, <1>7 DEF T
  <1>9. Fields(qs) = u[m].done \/ Fields(qs) = Append(u[m].done, u[m].open)
    BY <1>1 DEF Fields, u
  <1>10. Append(u[m].done, u[m].open) \in Texts
    BY <1>8, AppendIsTexts
  <1> QED  BY <1>8, <1>9, <1>10, StartsLonger DEF u

LEMMA EmptyTexts ==
    /\ <<>> \in Texts /\ Len(<<>>) = 0 /\ Range(<<>>) = {}
  BY DEF Texts, Range

LEMMA HandledIs ==
    ASSUME NEW qs \in Text, NEW c \in 0 .. Len(qs) + 1
    PROVE  /\ HandledAt(qs, c) \in Texts /\ Fields(qs) \in Texts
           /\ Starts(HandledAt(qs, c), Fields(qs))
  <1>1. PICK m \in Nat : m = Len(qs)
    BY TextIs
  <1>2. CASE c = 0
    <2>1. 0 \in 0 .. m
      BY <1>1
    <2>2. Fields(qs) \in Texts
      BY <1>1, <2>1, DoneGrows
    <2> QED  BY <1>2, <2>2, StartsItself DEF HandledAt, Null
  <1>3. CASE c # 0
    <2>1. c - 1 \in 0 .. m
      BY <1>1, <1>3
    <2> QED  BY <1>1, <1>3, <2>1, DoneGrows DEF HandledAt, Null
  <1> QED  BY <1>2, <1>3

\* At the end all fields are handled.
LEMMA AllHandled ==
    ASSUME NEW qs \in Text, NEW c \in 0 .. Len(qs) + 1, ~ HasNext(qs, c),
           c # Null => CutUpTo(qs)[c - 1].open = <<>>
    PROVE  HandledAt(qs, c) = Fields(qs)
  <1>1. PICK m \in Nat : m = Len(qs)
    BY TextIs
  <1>2. c # Null => c - 1 = m
    BY <1>1 DEF HasNext, Null
  <1> QED  BY <1>1, <1>2 DEF HandledAt, Fields

LEMMA StartsRange ==
    ASSUME NEW s \in Texts, NEW t \in Texts, Starts(s, t)
    PROVE  Range(s) \subseteq Range(t)
  <1>1. PICK k, m \in Nat : k = Len(s) /\ m = Len(t) /\ DOMAIN s = 1 .. k /\ DOMAIN t = 1 .. m
    BY TextsAre
  <1>2. k <= m /\ \A n \in 1 .. k : s[n] = t[n]
    BY <1>1 DEF Starts
  <1>3. \A n \in 1 .. k : n \in 1 .. m
    BY <1>1, <1>2
  <1> QED  BY <1>1, <1>2, <1>3 DEF Range

\* A name with three values keeps them.
LEMMA RepeatedStays ==
    ASSUME NEW qs \in Text, NEW s \in Texts, Fields(qs) \in Texts, Starts(s, Fields(qs)),
           NEW name \in DOMAIN TableOf(s), Len(TableOf(s)[name]) > 2
    PROVE  HasRepeated(qs)
  <1> DEFINE t == Fields(qs)
  <1>1. name \in DOMAIN TableOf(t) /\ TableOf(s)[name] = ValuesOf(s, name)
        /\ TableOf(t)[name] = ValuesOf(t, name)
    <2>1. Range(s) \subseteq Range(t)
      BY StartsRange
    <2> QED  BY <2>1 DEF TableOf
  <1>2. Len(ValuesOf(s, name)) <= Len(ValuesOf(t, name))
    BY ValuesGrow DEF Starts
  <1>3. Len(ValuesOf(s, name)) \in Nat /\ Len(ValuesOf(t, name)) \in Nat
    <2>1. Len(s) \in 0 .. Len(s) /\ Len(t) \in 0 .. Len(t)
      BY TextsAre
    <2> HIDE DEF t
    <2>2. ValuesOf(s, name) \in Texts /\ ValuesOf(t, name) \in Texts
      BY <2>1, ValuesUpToIs DEF ValuesOf, t
    <2> QED  BY <2>2, TextsAre
  <1>4. Len(ValuesOf(t, name)) > 2
    BY <1>1, <1>2, <1>3
  <1> QED  BY <1>1, <1>4 DEF HasRepeated, Table

-----------------------------------------------------------------------------
(* The worker.                                                              *)

Called == <<"function", "table">>
Reading == Called \o <<"string", "table">>
Spoilt == Append(Reading, "string")

RequestInv ==
    /\ pc \in {"accept", "router", "body"} => request = {}
    /\ pc = "headers" => request = {"body"}
    /\ pc = "vars" => request = {"body", "headers"}
    /\ pc = "query" => request = {"body", "headers", "vars"}

StackInv ==
    /\ pc = "body" => stack = <<"function">>
    /\ pc \in {"headers", "vars"} => stack = Called
    /\ pc = "query" =>
          \/ stack = Reading /\ \A name \in DOMAIN query : Len(query[name]) <= 2
          \/ stack = Spoilt /\ \E name \in DOMAIN query : Len(query[name]) > 2

FieldInv ==
    pc = "query" =>
        /\ cur # Null => CutUpTo(envp.query)[cur - 1].open = <<>>
        /\ query = TableOf(HandledAt(envp.query, cur))
        /\ \A f \in Range(HandledAt(envp.query, cur)) :
              ~ Truncated(KeyOf(f)) /\ ~ Truncated(ValueOf(f))

AnswerInv ==
    /\ pc \in {"send_status", "send_headers", "send_header", "send_body"} => response \in Response
    /\ pc \in {"send_status", "send_headers"} => stack = <<response.type>>
    /\ pc = "send_header" =>
          /\ response.type = "table" /\ response.headers = "table"
          /\ stack = Append(<<response.type>>, "table")
    /\ pc = "send_body" => (At(-1) \in Unindexable => ~ Sendable(response))

FateInv ==
    /\ RequestInv /\ StackInv /\ FieldInv /\ AnswerInv
    /\ QueryRead /\ QueryFate /\ DeathJustified

LEMMA PairMade ==
    ASSUME NEW a, NEW b
    PROVE  Append(<<a>>, b) = <<a, b>>
  <1> DEFINE S == {a, b}
             s == Append(<<a>>, b)
             r == <<a, b>>
  <1>1. s \in Seq(S) /\ Len(s) = 2 /\ s[1] = a /\ s[2] = b
    OBVIOUS
  <1>2. r \in Seq(S) /\ Len(r) = 2 /\ r[1] = a /\ r[2] = b
    OBVIOUS
  <1> HIDE DEF s, r, S
  <1>3. s = [i \in 1 .. 2 |-> s[i]] /\ r = [i \in 1 .. 2 |-> r[i]]
    BY <1>1, <1>2
  <1>4. \A i \in 1 .. 2 : s[i] = r[i]
    BY <1>1, <1>2
  <1> QED  BY <1>3, <1>4 DEF s, r

LEMMA JoinedIs ==
    ASSUME NEW S, NEW s \in Seq(S), NEW t \in Seq(S)
    PROVE  /\ s \o t \in Seq(S) /\ Len(s \o t) = Len(s) + Len(t)
           /\ \A i \in 1 .. Len(s) : (s \o t)[i] = s[i]
           /\ \A i \in 1 .. Len(t) : (s \o t)[Len(s) + i] = t[i]
  OBVIOUS

LEMMA AppendedIs ==
    ASSUME NEW S, NEW s \in Seq(S), NEW x \in S
    PROVE  /\ Append(s, x) \in Seq(S) /\ Len(Append(s, x)) = Len(s) + 1
           /\ Append(s, x)[Len(s) + 1] = x
           /\ \A i \in 1 .. Len(s) : Append(s, x)[i] = s[i]
  OBVIOUS

\* What the C code finds on these stacks.
LEMMA StacksAre ==
    /\ Len(Reading) = 4 /\ Reading[4] = "table" /\ Reading[2] = "table"
    /\ SubSeq(Reading, 1, 2) = Called
    /\ Len(Spoilt) = 5 /\ Spoilt[5] = "string" /\ Spoilt[3] = "string"
  <1>1. Called \in Seq(Types) /\ Len(Called) = 2 /\ Called[2] = "table"
    BY DEF Called, Types
  <1> DEFINE rest == <<"string", "table">>
  <1>2. rest \in Seq(Types) /\ Len(rest) = 2 /\ rest[1] = "string" /\ rest[2] = "table"
    BY DEF Types
  <1> HIDE DEF rest
  <1>3. /\ Reading \in Seq(Types) /\ Len(Reading) = 4
        /\ Reading[4] = "table" /\ Reading[3] = "string" /\ Reading[2] = "table"
    <2>1. /\ Called \o rest \in Seq(Types) /\ Len(Called \o rest) = 4
          /\ (Called \o rest)[4] = rest[2] /\ (Called \o rest)[3] = rest[1]
          /\ (Called \o rest)[2] = Called[2]
      <3>1. 2 + 2 = 4 /\ 2 + 1 = 3 /\ 1 \in 1 .. 2 /\ 2 \in 1 .. 2
        OBVIOUS
      <3> QED  BY ONLY <1>1, <1>2, <3>1, JoinedIs
    <2>2. Reading = Called \o rest
      BY DEF Reading, rest
    <2> QED  BY <1>1, <1>2, <2>1, <2>2
  <1>4. SubSeq(Reading, 1, 2) = Called
    <2>1. SubSeq(Called \o rest, 1, 2) = Called
      BY <1>1, <1>2
    <2> QED  BY <2>1 DEF Reading, rest
  <1>5. Len(Spoilt) = 5 /\ Spoilt[5] = "string" /\ Spoilt[3] = "string"
    <2>1. "string" \in Types
      BY DEF Types
    <2>2. /\ Len(Append(Reading, "string")) = 5 /\ Append(Reading, "string")[5] = "string"
          /\ Append(Reading, "string")[3] = Reading[3]
      <3>1. 4 + 1 = 5 /\ 3 \in 1 .. 4
        OBVIOUS
      <3>2. PICK x \in Types : x = "string"
        BY <2>1
      <3>3. /\ Len(Append(Reading, x)) = Len(Reading) + 1
            /\ Append(Reading, x)[Len(Reading) + 1] = x
            /\ \A i \in 1 .. Len(Reading) : Append(Reading, x)[i] = Reading[i]
        <4>1. Reading \in Seq(Types)
          BY ONLY <1>3
        <4>2. x \in Types
          BY ONLY <3>2
        <4> QED  BY ONLY <4>1, <4>2, AppendedIs
      <3>4. Len(Reading) = 4
        BY ONLY <1>3
      <3>5. Len(Append(Reading, x)) = 5
        BY ONLY <3>1, <3>3, <3>4
      <3>6. Append(Reading, x)[5] = x
        BY ONLY <3>1, <3>3, <3>4
      <3>7. Append(Reading, x)[3] = Reading[3]
        BY ONLY <3>1, <3>3, <3>4
      <3> QED  BY ONLY <3>2, <3>5, <3>6, <3>7
    <2> QED  BY <1>3, <2>2 DEF Spoilt
  <1> QED  BY <1>3, <1>4, <1>5

LEMMA InitFate == Init => FateInv
  BY DEF Init, FateInv, RequestInv, StackInv, FieldInv, AnswerInv, QueryRead, QueryFate, DeathJustified

LEMMA FinishFate == ASSUME Finish PROVE FateInv'
  BY DEF Finish, FateInv, RequestInv, StackInv, FieldInv, AnswerInv, QueryRead, QueryFate, DeathJustified

LEMMA PanicFate ==
    ASSUME Panic,
           \/ request = {} /\ response = NoResponse /\ envp.length # "fits"
           \/ "vars" \in request /\ HasRepeated(envp.query)
           \/ response # NoResponse /\ ~Sendable(response)
    PROVE  FateInv'
  BY DEF Panic, FateInv, RequestInv, StackInv, FieldInv, AnswerInv, QueryRead, QueryFate, DeathJustified

LEMMA AcceptFate == ASSUME FateInv, FCGX_Accept_r PROVE FateInv'
  BY DEF FCGX_Accept_r, FateInv, RequestInv, StackInv, FieldInv, AnswerInv, QueryRead, QueryFate, DeathJustified

LEMMA LoadFate == ASSUME FateInv, LoadRouter PROVE FateInv'
  BY DEF LoadRouter, FateInv, RequestInv, StackInv, FieldInv, AnswerInv, QueryRead, QueryFate, DeathJustified

LEMMA ReadBodyFate == ASSUME FateInv, ReadHttpRequestBody PROVE FateInv'
  <1>1. stack' = Called
    BY PairMade DEF FateInv, StackInv, ReadHttpRequestBody, Called
  <1> QED  BY <1>1 DEF ReadHttpRequestBody, FateInv, RequestInv, StackInv, FieldInv, AnswerInv,
                       QueryRead, QueryFate, DeathJustified

LEMMA BodyPanicFate == ASSUME FateInv, TypeInv, ReadHttpRequestBodyPanics PROVE FateInv'
  <1>1. pc = "body" /\ request = {} /\ response = NoResponse
    BY DEF FateInv, RequestInv, TypeInv, HeadersInv, Before, ReadHttpRequestBodyPanics
  <1>2. envp.length # "fits"
    BY DEF ReadHttpRequestBodyPanics, BodyLength
  <1> QED  BY <1>1, <1>2, PanicFate DEF ReadHttpRequestBodyPanics

LEMMA ReadHeadersFate == ASSUME FateInv, ReadHttpRequestHeaders PROVE FateInv'
  BY DEF ReadHttpRequestHeaders, FateInv, RequestInv, StackInv, FieldInv, AnswerInv,
         QueryRead, QueryFate, DeathJustified

\* The loop begins with nothing handled.
LEMMA ReadVarsFate == ASSUME FateInv, TypeInv, ReadHttpRequestVars PROVE FateInv'
  <1>1. /\ pc = "vars" /\ stack = Called /\ request' = {"body", "headers", "vars"}
        /\ query' = <<>> /\ envp' = envp
    BY DEF FateInv, RequestInv, StackInv, TypeInv, QueryInv, ReadHttpRequestVars
  <1>2. CASE envp.query = NoQuery
    BY <1>1, <1>2 DEF ReadHttpRequestVars, FateInv, RequestInv, StackInv, FieldInv, AnswerInv,
                      QueryRead, QueryFate, DeathJustified, Called
  <1>3. CASE envp.query # NoQuery
    <2>1. envp.query \in Text
      BY <1>3, QueryAssumption DEF TypeInv, TypeOK, NoEnvp, Text, Byte
    <2>2. pc' = "query" /\ stack' = Reading /\ cur' = 1
      BY <1>1, <1>3 DEF ReadHttpRequestVars, Reading
    <2>3. CutUpTo(envp.query)[0] = [done |-> <<>>, open |-> <<>>]
      BY <2>1, CutUpToIs
    <2>4. HandledAt(envp.query, 1) = <<>> /\ CutUpTo(envp.query)[1 - 1].open = <<>>
      BY <2>3 DEF HandledAt, Null
    <2>5. FieldInv'
      BY <1>1, <2>2, <2>4, EmptyTable, EmptyTexts DEF FieldInv
    <2> QED  BY <1>1, <2>2, <2>5 DEF FateInv, RequestInv, StackInv, AnswerInv,
                                     QueryRead, QueryFate, DeathJustified
  <1> QED  BY <1>2, <1>3

-----------------------------------------------------------------------------
(* One turn of the loop over the query string.                              *)

\* The field at hand, and what the decoder makes of it.
LEMMA TurnIs ==
    ASSUME FateInv, TypeInv, InLoop
    PROVE  /\ envp.query \in Text /\ cur \in 1 .. Len(envp.query) /\ cur # Null
           /\ CutUpTo(envp.query)[cur - 1].open = <<>>
           /\ Field(envp.query, cur) \in Text
           /\ RawKey = KeyOf(Field(envp.query, cur)) /\ RawVal = ValueOf(Field(envp.query, cur))
           /\ Hangs(RawKey) <=> Truncated(RawKey)
           /\ Hangs(RawVal) <=> Truncated(RawVal)
           /\ ~ Hangs(RawKey) /\ ~ Hangs(RawVal) =>
                  /\ Key = NameOf(Field(envp.query, cur))
                  /\ Val = GivenBy(Field(envp.query, cur))
  <1> DEFINE f == Field(envp.query, cur)
  <1>1. envp.query \in Query /\ envp.query \in Text /\ envp.query # NoQuery
    BY QueryAssumption DEF InLoop, TypeInv, QueryInv, Text, Byte
  <1>2. cur \in 1 .. Len(envp.query) /\ cur # Null
    BY <1>1, TextIs DEF InLoop, HasNext, TypeInv, TypeOK, Null
  <1>3. CutUpTo(envp.query)[cur - 1].open = <<>>
    BY <1>2 DEF FateInv, FieldInv, InLoop
  <1>4. f \in Text
    BY <1>1, <1>2, <1>3, FieldHandled
  <1>5. RawKey = SubSeq(f, 1, KeySeparator(f) - 1) /\ RawVal = SubSeq(f, KeySeparator(f) + 1, Len(f))
    BY DEF RawKey, RawVal, QueryIterKey, QueryIterVal
  <1> HIDE DEF f
  <1>6. /\ RawKey = KeyOf(f) /\ RawVal = ValueOf(f)
        /\ KeyOf(f) \in Text /\ ValueOf(f) \in Text
    BY <1>4, <1>5, FieldIsCut
  <1>7. /\ Hangs(RawKey) <=> Truncated(RawKey)
        /\ Hangs(RawVal) <=> Truncated(RawVal)
        /\ ~ Hangs(RawKey) => QueryStrDecode(RawKey) = Decoded(RawKey)
        /\ ~ Hangs(RawVal) => QueryStrDecode(RawVal) = Decoded(RawVal)
    BY <1>6, DecoderCorrect
  <1>8. ASSUME ~ Hangs(RawKey), ~ Hangs(RawVal)
        PROVE  Key = NameOf(f) /\ Val = GivenBy(f)
    <2>1. Key = NameOf(f)
      BY <1>6, <1>7, <1>8 DEF Key, NameOf
    <2>2. NameOf(f) \in Text
      BY <1>4, GivenIsText
    <2>3. Len(NameOf(f)) > 0 <=> NameOf(f) # <<>>
      BY <2>2 DEF Text
    <2> QED  BY <1>6, <1>7, <1>8, <2>1, <2>3 DEF Val, GivenBy
  <1> QED  BY <1>1, <1>2, <1>3, <1>4, <1>6, <1>7, <1>8 DEF f

LEMMA AppendRange ==
    ASSUME NEW s \in Texts, NEW x \in Text
    PROVE  Range(Append(s, x)) = Range(s) \cup {x}
  <1>1. PICK k \in Nat : k = Len(s) /\ DOMAIN s = 1 .. k
    BY TextsAre
  <1> DEFINE t == Append(s, x)
  <1>2. t \in Texts /\ Len(t) = k + 1 /\ t[k + 1] = x /\ \A n \in 1 .. k : t[n] = s[n]
    BY <1>1, AppendIsTexts
  <1>3. DOMAIN t = 1 .. k + 1
    BY <1>2, TextsAre
  <1>4. /\ \A n \in 1 .. k + 1 : n \in 1 .. k \/ n = k + 1
        /\ \A n \in 1 .. k : n \in 1 .. k + 1
        /\ k + 1 \in 1 .. k + 1
    BY <1>1
  <1> HIDE DEF t
  <1> QED  BY <1>1, <1>2, <1>3, <1>4 DEF Range, t

\* The field at hand is one of the reference, right after those handled.
LEMMA FieldTaken ==
    ASSUME FateInv, TypeInv, InLoop
    PROVE  LET qs == envp.query
               h == HandledAt(qs, cur)
               f == Field(qs, cur)
           IN  /\ h \in Texts /\ Fields(qs) \in Texts /\ Starts(h, Fields(qs))
               /\ HandledAt(qs, Moved(qs, cur)) = Append(h, f)
               /\ Moved(qs, cur) # Null => CutUpTo(qs)[Moved(qs, cur) - 1].open = <<>>
               /\ f \in Range(Fields(qs))
  <1> DEFINE qs == envp.query
             h == HandledAt(qs, cur)
             f == Field(qs, cur)
             c == Moved(qs, cur)
  <1>1. qs \in Text /\ cur \in 1 .. Len(qs) /\ CutUpTo(qs)[cur - 1].open = <<>> /\ f \in Text
    BY TurnIs
  <1>2. HandledAt(qs, c) = Append(h, f) /\ (c # Null => CutUpTo(qs)[c - 1].open = <<>>)
    BY <1>1, FieldHandled
  <1>3. cur \in 0 .. Len(qs) + 1 /\ c \in 0 .. Len(qs) + 1
    BY <1>1, TextIs, MovedInside DEF Text, Byte
  <1> HIDE DEF c, f
  <1>4. /\ h \in Texts /\ Fields(qs) \in Texts /\ Starts(h, Fields(qs))
        /\ HandledAt(qs, c) \in Texts /\ Starts(HandledAt(qs, c), Fields(qs))
    BY <1>1, <1>3, HandledIs
  <1> HIDE DEF h, qs
  <1>5. f \in Range(Fields(qs))
    <2>1. f \in Range(Append(h, f))
      BY <1>1, <1>4, AppendRange
    <2> QED  BY <1>2, <1>4, <2>1, StartsRange
  <1> QED  BY <1>2, <1>4, <1>5 DEF qs, h, f, c

LEMMA HangFate == ASSUME FateInv, TypeInv, FieldHangs PROVE FateInv'
  <1>1. InLoop /\ (Hangs(RawKey) \/ Hangs(RawVal)) /\ pc' = "hung" /\ envp' = envp
    BY DEF FieldHangs
  <1>2. Field(envp.query, cur) \in Range(Fields(envp.query))
    BY <1>1, FieldTaken
  <1>3. \/ Truncated(KeyOf(Field(envp.query, cur)))
        \/ Truncated(ValueOf(Field(envp.query, cur)))
    BY <1>1, TurnIs
  <1>4. HasTruncated(envp.query)
    BY <1>2, <1>3 DEF HasTruncated
  <1> QED  BY <1>1, <1>4 DEF FateInv, RequestInv, StackInv, FieldInv, AnswerInv,
                             QueryRead, QueryFate, DeathJustified

\* A value goes to its name, and the field counts as handled.
LEMMA ValueTaken ==
    ASSUME FateInv, TypeInv, InLoop, ~ Hangs(RawKey), ~ Hangs(RawVal), NextField,
           \/ /\ Key \notin DOMAIN query
              /\ query' = [k \in DOMAIN query \cup {Key} |-> IF k = Key THEN <<Val>> ELSE query[k]]
           \/ /\ Key \in DOMAIN query
              /\ query' = [query EXCEPT ![Key] = Append(@, Val)]
    PROVE  FieldInv'
  <1> DEFINE qs == envp.query
             h == HandledAt(qs, cur)
             f == Field(qs, cur)
             c == Moved(qs, cur)
  <1>1. pc = "query" /\ pc' = "query" /\ cur' = c /\ envp' = envp
    BY DEF InLoop, NextField
  <1>2. /\ f \in Text /\ Key = NameOf(f) /\ Val = GivenBy(f)
        /\ ~ Truncated(KeyOf(f)) /\ ~ Truncated(ValueOf(f))
    BY TurnIs
  <1>3. /\ h \in Texts /\ HandledAt(qs, c) = Append(h, f)
        /\ c # Null => CutUpTo(qs)[c - 1].open = <<>>
    BY FieldTaken
  <1>4. /\ query = TableOf(h)
        /\ \A g \in Range(h) : ~ Truncated(KeyOf(g)) /\ ~ Truncated(ValueOf(g))
    BY <1>1 DEF FateInv, FieldInv
  <1> HIDE DEF qs, h, f, c
  <1>5. query' = TableOf(Append(h, f))
    <2>1. CASE Key \notin DOMAIN query
      <3>1. NameOf(f) \notin DOMAIN TableOf(h)
        BY <1>2, <1>4, <2>1
      <3>2. TableOf(Append(h, f)) =
                [k \in DOMAIN TableOf(h) \cup {NameOf(f)} |->
                    IF k = NameOf(f) THEN <<GivenBy(f)>> ELSE TableOf(h)[k]]
        BY <1>2, <1>3, <3>1, TableAppend
      <3>3. query' = [k \in DOMAIN query \cup {Key} |-> IF k = Key THEN <<Val>> ELSE query[k]]
        BY <2>1
      <3> HIDE DEF Key, Val
      <3> QED  BY <1>2, <1>4, <3>2, <3>3
    <2>2. CASE Key \in DOMAIN query
      BY <1>2, <1>3, <1>4, <2>2, TableAppend
    <2> QED  BY <2>1, <2>2
  <1>6. \A g \in Range(Append(h, f)) : ~ Truncated(KeyOf(g)) /\ ~ Truncated(ValueOf(g))
    BY <1>2, <1>3, <1>4, AppendRange
  <1>7. qs' = qs
    BY <1>1 DEF qs
  <1> QED  BY <1>1, <1>3, <1>5, <1>6 DEF FieldInv, qs

\* With the table on top no name has three values yet.
LEMMA TableOnTop ==
    ASSUME FateInv, TypeInv, Turn("table")
    PROVE  /\ stack = Reading /\ pc = "query" /\ InLoop /\ ~ Hangs(RawKey) /\ ~ Hangs(RawVal)
           /\ \A name \in DOMAIN query :
                 IsSequence(query[name]) /\ Len(query[name]) \in 1 .. 2
  <1>1. InLoop /\ pc = "query" /\ At(-1) = "table" /\ ~ Hangs(RawKey) /\ ~ Hangs(RawVal)
    BY DEF Turn, InLoop
  <1>2. stack = Reading \/ stack = Spoilt
    BY <1>1 DEF FateInv, StackInv
  <1>3. stack # Spoilt
    <2>1. ASSUME stack = Spoilt PROVE At(-1) = "string"
      <3>1. Len(stack) + 1 + (-1) = 5
        BY <2>1, StacksAre
      <3> QED  BY <2>1, <3>1, StacksAre DEF At
    <2> QED  BY <1>1, <2>1
  <1>4. \A name \in DOMAIN query : IsSequence(query[name]) /\ Len(query[name]) \in 1 .. 3
    BY DEF TypeInv, QueryInv
  <1>5. \A name \in DOMAIN query : Len(query[name]) < 3
    BY <1>1 DEF TypeInv, QueryInv
  <1>6. \A n \in 1 .. 3 : n < 3 => n \in 1 .. 2
    OBVIOUS
  <1>7. \A name \in DOMAIN query : Len(query[name]) \in 1 .. 2
    BY <1>4, <1>5, <1>6, Zenon
  <1> QED  BY <1>1, <1>2, <1>3, <1>4, <1>7

LEMMA FirstFate == ASSUME FateInv, TypeInv, FirstValue PROVE FateInv'
  <1>1. /\ Turn("table") /\ Key \notin DOMAIN query /\ NextField /\ stack' = stack
        /\ query' = [k \in DOMAIN query \cup {Key} |-> IF k = Key THEN <<Val>> ELSE query[k]]
    BY DEF FirstValue
  <1>2. FieldInv'
    BY <1>1, TableOnTop, ValueTaken
  <1>3. \A name \in DOMAIN query' : Len(query'[name]) <= 2
    <2> HIDE DEF Key, Val
    <2>1. \A name \in DOMAIN query : Len(query[name]) <= 2
      <3>1. \A n \in 1 .. 2 : n <= 2
        OBVIOUS
      <3> QED  BY <1>1, <3>1, TableOnTop, Zenon
    <2>2. Len(<<Val>>) <= 2
      OBVIOUS
    <2> QED  BY <1>1, <2>1, <2>2
  <1> QED  BY <1>1, <1>2, <1>3, TableOnTop
           DEF NextField, FateInv, RequestInv, StackInv, AnswerInv, QueryRead, QueryFate, DeathJustified

LEMMA SecondFate == ASSUME FateInv, TypeInv, SecondValue PROVE FateInv'
  <1>1. /\ Turn("table") /\ Key \in DOMAIN query /\ Len(query[Key]) = 1 /\ NextField /\ stack' = stack
        /\ query' = [query EXCEPT ![Key] = Append(@, Val)]
    BY DEF SecondValue
  <1>2. FieldInv'
    BY <1>1, TableOnTop, ValueTaken
  <1>3. \A name \in DOMAIN query' : Len(query'[name]) <= 2
    <2>1. \A name \in DOMAIN query : IsSequence(query[name]) /\ Len(query[name]) <= 2
      <3>1. \A n \in 1 .. 2 : n <= 2
        OBVIOUS
      <3> QED  BY <1>1, <3>1, TableOnTop, Zenon
    <2>2. Len(Append(query[Key], Val)) = 2
      <3>1. IsSequence(query[Key])
        BY <1>1, <2>1
      <3>2. Len(Append(query[Key], Val)) = Len(query[Key]) + 1
        BY <3>1, AppendToSequence
      <3> QED  BY <1>1, <3>2
    <2> QED  BY <1>1, <2>1, <2>2
  <1> QED  BY <1>1, <1>2, <1>3, TableOnTop
           DEF NextField, FateInv, RequestInv, StackInv, AnswerInv, QueryRead, QueryFate, DeathJustified

LEMMA LaterFate == ASSUME FateInv, TypeInv, LaterValue PROVE FateInv'
  <1>1. /\ Turn("table") /\ Key \in DOMAIN query /\ Len(query[Key]) > 1 /\ NextField
        /\ stack' = Append(stack, "string")
        /\ query' = [query EXCEPT ![Key] = Append(@, Val)]
    BY DEF LaterValue
  <1>2. FieldInv'
    BY <1>1, TableOnTop, ValueTaken
  <1>3. stack' = Spoilt
    BY <1>1, TableOnTop DEF Spoilt
  <1>4. \E name \in DOMAIN query' : Len(query'[name]) > 2
    <2>1. IsSequence(query[Key]) /\ Len(query[Key]) \in 1 .. 2
      BY <1>1, TableOnTop
    <2>2. Len(Append(query[Key], Val)) = Len(query[Key]) + 1
      BY <2>1, AppendToSequence
    <2>3. Key \in DOMAIN query' /\ query'[Key] = Append(query[Key], Val)
      BY <1>1
    <2>4. Len(query'[Key]) > 2
      BY <1>1, <2>1, <2>2, <2>3
    <2> QED  BY <2>3, <2>4
  <1> QED  BY <1>1, <1>2, <1>3, <1>4, TableOnTop
           DEF NextField, FateInv, RequestInv, StackInv, AnswerInv, QueryRead, QueryFate, DeathJustified

LEMMA FieldPanicFate == ASSUME FateInv, TypeInv, FieldPanics PROVE FateInv'
  <1>1. InLoop /\ pc = "query" /\ At(-1) = "string" /\ Panic
    BY DEF FieldPanics, Turn, InLoop
  <1>2. stack = Reading => At(-1) = "table"
    <2>1. ASSUME stack = Reading PROVE At(-1) = "table"
      <3>1. Len(stack) + 1 + (-1) = 4
        BY <2>1, StacksAre
      <3> QED  BY <2>1, <3>1, StacksAre DEF At
    <2> QED  BY <2>1
  <1>3. PICK name \in DOMAIN query : Len(query[name]) > 2
    BY <1>1, <1>2 DEF FateInv, StackInv
  <1>4. query = TableOf(HandledAt(envp.query, cur)) /\ "vars" \in request
    BY <1>1 DEF FateInv, FieldInv, RequestInv
  <1>5. HasRepeated(envp.query)
    <2>1. /\ envp.query \in Text /\ HandledAt(envp.query, cur) \in Texts
          /\ Fields(envp.query) \in Texts
          /\ Starts(HandledAt(envp.query, cur), Fields(envp.query))
      BY <1>1, TurnIs, FieldTaken
    <2> QED  BY <1>3, <1>4, <2>1, RepeatedStays
  <1> QED  BY <1>1, <1>4, <1>5, PanicFate

\* The loop ends with the whole string read.
LEMMA LoopEnds ==
    ASSUME FateInv, TypeInv, pc = "query", ~ HasNext(envp.query, cur)
    PROVE  /\ envp.query # NoQuery
           /\ query = Table(envp.query) /\ ~ HasTruncated(envp.query)
           /\ request = {"body", "headers", "vars"}
           /\ HasRepeated(envp.query) <=> \E name \in DOMAIN query : Len(query[name]) > 2
  <1>1. envp.query \in Text /\ envp.query # NoQuery /\ cur \in 0 .. Len(envp.query) + 1
    BY QueryAssumption DEF TypeInv, TypeOK, QueryInv, Text, Byte
  <1>2. /\ cur # Null => CutUpTo(envp.query)[cur - 1].open = <<>>
        /\ query = TableOf(HandledAt(envp.query, cur))
        /\ \A f \in Range(HandledAt(envp.query, cur)) :
              ~ Truncated(KeyOf(f)) /\ ~ Truncated(ValueOf(f))
    BY DEF FateInv, FieldInv
  <1>3. HandledAt(envp.query, cur) = Fields(envp.query)
    BY <1>1, <1>2, AllHandled
  <1>4. query = Table(envp.query) /\ ~ HasTruncated(envp.query)
    BY <1>2, <1>3 DEF Table, HasTruncated
  <1> QED  BY <1>1, <1>4 DEF HasRepeated, FateInv, RequestInv

LEMMA DoneFate == ASSUME FateInv, TypeInv, QueryDone PROVE FateInv'
  <1>1. /\ pc = "query" /\ ~ HasNext(envp.query, cur) /\ At(-3) = "table"
        /\ request' = request \cup {"query"} /\ stack' = SubSeq(stack, 1, Len(stack) - 2)
        /\ pc' = "route" /\ UNCHANGED <<envp, query, cur, response, headers, sent>>
    BY DEF QueryDone, Pop
  <1>2. stack # Spoilt
    <2>1. ASSUME stack = Spoilt PROVE At(-3) = "string"
      <3>1. Len(stack) + 1 + (-3) = 3
        BY <2>1, StacksAre
      <3> QED  BY <2>1, <3>1, StacksAre DEF At
    <2> QED  BY <1>1, <2>1
  <1>3. stack = Reading /\ \A name \in DOMAIN query : Len(query[name]) <= 2
    BY <1>1, <1>2 DEF FateInv, StackInv
  <1>4. stack' = Called
    <2>1. Len(stack) - 2 = 2
      BY <1>3, StacksAre
    <2> QED  BY <1>1, <1>3, <2>1, StacksAre
  <1>5. /\ envp.query # NoQuery
        /\ query = Table(envp.query) /\ ~ HasTruncated(envp.query)
        /\ request = {"body", "headers", "vars"}
        /\ HasRepeated(envp.query) <=> \E name \in DOMAIN query : Len(query[name]) > 2
    BY <1>1, LoopEnds
  <1>6. ~ HasRepeated(envp.query)
    <2>1. ASSUME NEW name \in DOMAIN query PROVE ~ (Len(query[name]) > 2)
      <3>1. Len(query[name]) \in 1 .. 3 /\ Len(query[name]) <= 2
        BY <1>3 DEF TypeInv, QueryInv
      <3> QED  BY <3>1
    <2> QED  BY <1>5, <2>1
  <1> QED  BY <1>1, <1>4, <1>5, <1>6
           DEF FateInv, RequestInv, StackInv, FieldInv, AnswerInv, QueryRead, QueryFate, DeathJustified,
               Called

LEMMA DonePanicFate == ASSUME FateInv, TypeInv, QueryDonePanics PROVE FateInv'
  <1>1. pc = "query" /\ ~ HasNext(envp.query, cur) /\ At(-3) # "table" /\ Panic
    BY DEF QueryDonePanics
  <1>2. stack # Reading
    <2>1. ASSUME stack = Reading PROVE At(-3) = "table"
      <3>1. Len(stack) + 1 + (-3) = 2
        BY <2>1, StacksAre
      <3> QED  BY <2>1, <3>1, StacksAre DEF At
    <2> QED  BY <1>1, <2>1
  <1>3. \E name \in DOMAIN query : Len(query[name]) > 2
    BY <1>1, <1>2 DEF FateInv, StackInv
  <1>4. HasRepeated(envp.query) /\ "vars" \in request
    BY <1>1, <1>3, LoopEnds
  <1> QED  BY <1>1, <1>4, PanicFate

-----------------------------------------------------------------------------
(* The response.                                                            *)

LEMMA RouteFate == ASSUME FateInv, RouteHttpRequest PROVE FateInv'
  BY DEF RouteHttpRequest, FateInv, RequestInv, StackInv, FieldInv, AnswerInv, QueryRead, QueryFate,
         DeathJustified

LEMMA StatusFate == ASSUME FateInv, SendHttpResponseStatus PROVE FateInv'
  BY DEF SendHttpResponseStatus, FateInv, RequestInv, StackInv, FieldInv, AnswerInv, QueryRead, QueryFate,
         DeathJustified

\* The value of the headers goes on top of the response.
LEMMA HeadersFate == ASSUME FateInv, SendInv, SendHttpResponseHeaders PROVE FateInv'
  <1> DEFINE found == IF At(-1) = "table" THEN response.headers ELSE "nil"
  <1>1. /\ pc = "send_headers" /\ stack = <<response.type>> /\ response \in Response
        /\ response' = response
    BY DEF FateInv, AnswerInv, SendInv, SendHttpResponseHeaders
  <1>2. At(-1) = response.type
    BY <1>1 DEF At
  <1>3. found \in Types /\ response.type \in Types
    BY <1>1, ResponseAssumption DEF Types
  <1>4. stack' = Append(stack, found)
    BY DEF SendHttpResponseHeaders
  <1> HIDE DEF found
  <1>5. At(-1)' = found
    <2>1. Len(stack') = 2 /\ stack'[2] = found
      BY <1>1, <1>3, <1>4, OneIs
    <2>2. Len(stack') + 1 + (-1) = 2
      BY <2>1
    <2> QED  BY <2>1, <2>2 DEF At
  <1>6. CASE At(-1) = "table" /\ response.headers = "table"
    <2>1. pc' = "send_header" /\ found = "table"
      BY <1>6 DEF SendHttpResponseHeaders, found
    <2> QED  BY <1>1, <1>2, <1>4, <1>6, <2>1
             DEF FateInv, RequestInv, StackInv, FieldInv, AnswerInv, QueryRead, QueryFate, DeathJustified
  <1>7. CASE ~ (At(-1) = "table" /\ response.headers = "table")
    <2>1. pc' = "send_body"
      BY <1>7 DEF SendHttpResponseHeaders
    <2>2. found \in Unindexable => ~ Sendable(response)
      BY <1>2, <1>7 DEF found, Sendable, Unindexable
    <2> QED  BY <1>1, <1>5, <2>1, <2>2
             DEF FateInv, RequestInv, StackInv, FieldInv, AnswerInv, QueryRead, QueryFate, DeathJustified
  <1> QED  BY <1>6, <1>7

LEMMA HeaderFate == ASSUME FateInv, SendHeader PROVE FateInv'
  BY DEF SendHeader, FateInv, RequestInv, StackInv, FieldInv, AnswerInv, QueryRead, QueryFate,
         DeathJustified

LEMMA SeparatorFate == ASSUME FateInv, SendSeparator PROVE FateInv'
  <1>1. /\ pc = "send_header" /\ stack = Append(<<"table">>, "table")
        /\ stack' = SubSeq(stack, 1, Len(stack) - 1)
        /\ pc' = "send_body" /\ response' = response
    BY DEF SendSeparator, FateInv, AnswerInv, Pop
  <1>2. Len(stack') = 1 /\ stack'[1] = "table"
    BY <1>1, OneIs
  <1>3. At(-1)' = "table"
    BY <1>2 DEF At
  <1>4. "table" \notin Unindexable
    BY DEF Unindexable
  <1> QED  BY <1>1, <1>3, <1>4
           DEF FateInv, RequestInv, StackInv, FieldInv, AnswerInv, QueryRead, QueryFate, DeathJustified

LEMMA SendPanicFate == ASSUME FateInv, TypeInv, SendInv, SendPanics PROVE FateInv'
  <1>1. Panic /\ pc \in {"send_status", "send_header", "send_body"}
    BY DEF SendPanics
  <1>2. response \in Response /\ response # NoResponse
    BY <1>1, QueryAssumption DEF FateInv, AnswerInv
  <1>3. ~ Sendable(response)
    <2>1. CASE pc = "send_status" /\ At(-1) \in Unindexable
      <3>1. At(-1) = response.type
        <4>1. stack = <<response.type>>
          BY <2>1 DEF FateInv, AnswerInv
        <4> QED  BY <4>1 DEF At
      <3> QED  BY <2>1, <3>1 DEF Sendable, Unindexable
    <2>2. CASE pc = "send_body" /\ At(-1) \in Unindexable
      BY <2>2 DEF FateInv, AnswerInv
    <2>3. CASE pc = "send_header" /\ \E h \in headers : h.type # "string"
      <3>1. headers \subseteq response.entries /\ response.headers = "table"
        BY <1>2, <2>3 DEF TypeInv, TypeOK, FateInv, AnswerInv
      <3> QED  BY <2>3, <3>1 DEF Sendable
    <2> QED  BY <2>1, <2>2, <2>3 DEF SendPanics
  <1> QED  BY <1>1, <1>2, <1>3, PanicFate

LEMMA NextFate == FateInv /\ TypeInv /\ SendInv /\ [Next]_vars => FateInv'
  <1> SUFFICES ASSUME FateInv, TypeInv, SendInv, [Next]_vars PROVE FateInv'
    OBVIOUS
  <1>1. CASE UNCHANGED vars
    BY <1>1 DEF vars, FateInv, RequestInv, StackInv, FieldInv, AnswerInv, At,
                QueryRead, QueryFate, DeathJustified
  <1>2. CASE Read
    BY <1>2, LoadFate, FinishFate, ReadBodyFate, BodyPanicFate, ReadHeadersFate, ReadVarsFate
       DEF Read, LoadRouterFails, ReadHttpRequestBodyFails
  <1>3. CASE ReadQuery
    BY <1>3, HangFate, FirstFate, SecondFate, LaterFate, FieldPanicFate, DoneFate, DonePanicFate
       DEF ReadQuery
  <1>4. CASE Send
    BY <1>4, StatusFate, HeadersFate, HeaderFate, SeparatorFate, SendPanicFate, FinishFate
       DEF Send, SendHttpResponseBody
  <1>5. CASE RouteHttpRequest \/ RouteHttpRequestFails
    BY <1>5, RouteFate, FinishFate DEF RouteHttpRequestFails
  <1> QED  BY <1>1, <1>2, <1>3, <1>4, <1>5, AcceptFate DEF Next, Process

LEMMA FateAlways == Spec => []FateInv
  <1>1. SendInv /\ [Next]_vars => SendInv'
    BY NextSends
  <1> QED  BY InitSends, InitTyped, InitFate, NextTyped, NextFate, <1>1, PTL DEF Spec

\* A script finds request.query to hold every name of the query string with its
\* values, in their order, and nothing else on the stack but the request
\* (fcgi.c:473-533 with query.c:41-149).
THEOREM QueryAsGiven == Spec => []QueryRead
  <1>1. FateInv => QueryRead
    BY DEF FateInv
  <1> QED  BY FateAlways, <1>1, PTL

\* The worker hangs only on an escape that is cut short, and never gets past
\* one (query.c:124-134).
THEOREM HangsAsSaid == Spec => []QueryFate
  <1>1. FateInv => QueryFate
    BY DEF FateInv
  <1> QED  BY FateAlways, <1>1, PTL

\* The worker dies of nothing but a length it cannot use, a third value of a
\* name, or a response it cannot send (fcgi.c:436-463, 501-510, 203-267).
THEOREM DiesAsSaid == Spec => []DeathJustified
  <1>1. FateInv => DeathJustified
    BY DEF FateInv
  <1> QED  BY FateAlways, <1>1, PTL
=============================================================================
