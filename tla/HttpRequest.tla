----------------------------- MODULE HttpRequest ----------------------------
(* The requests of one connection as lib/http_request.c puts them together   *)
(* and lib/httpd.c takes them: what recv returns goes to the parser, which   *)
(* calls back with pieces of the url, of the fields and values of headers    *)
(* and of the body, cut wherever the received data ends; then the connection *)
(* is given up if the parser found an error, and otherwise a complete        *)
(* request is handled and destroyed (module HttpConnection has the answer).  *)
(*                                                                           *)
(* A message is a sequence of spans, each of a kind and a length; a          *)
(* character is known by message, span and position.  The parser (llhttp,    *)
(* vendored) is modelled by its callbacks: it gives a span in pieces, the    *)
(* last of them empty when the data ended just before the span did, and an   *)
(* empty value as one empty piece.  Behind a message that keeps the          *)
(* connection it goes on: two messages in one receive become one request.    *)
(* Behind any other it is closed, and passes over the rest of the receive.   *)
EXTENDS FiniteSets, Integers, Sequences

CONSTANTS Shapes,        \* the messages: sequences of [kind, length]
          MaxMessages    \* bound on the messages

\* A message is its url, headers of a field and a value each, and maybe a body;
\* only a value may be empty.
IsShape(shape) ==
  /\ shape \in Seq([kind : {"url", "field", "value", "body"}, length : Nat])
  /\ Len(shape) > 0
  /\ \A s \in 1 .. Len(shape) :
       /\ shape[s].kind = "url" <=> s = 1
       /\ shape[s].kind = "field" <=> s % 2 = 0 /\ s < Len(shape)
       /\ shape[s].kind = "value" <=> s % 2 = 1 /\ s > 1
       /\ shape[s].length = 0 => shape[s].kind = "value"

ASSUME RequestAssumption == MaxMessages \in Nat /\ \A shape \in Shapes : IsShape(shape)

VARIABLES sent,          \* the messages of the sender, each a shape
          at,            \* where the parser is: message, span, position
          place,         \* "idle", "execute" or "executed"
          url, headers, headers_index, headers_size, data,
          completed,     \* the message that set complete last; 0 while it is 0
          closed,        \* whether the parser is
          pipelined,     \* whether the request holds a second message
          handled,       \* the messages conn_request was called for
          cut,           \* messages that ended with their connection
          spoiled        \* messages with another before or behind them in a receive,
                         \* or with an error behind them

request     == <<url, headers, headers_index, headers_size, data, completed, closed,
                 pipelined>>
requestvars == <<sent, at, place, request, handled, cut, spoiled>>

\* Not a text: no span has a position 0.
NULL == <<<<0, 0, 0>>>>

Start(m) == [message |-> m, span |-> 1, position |-> 0]

NoRequest == /\ url = <<>>
             /\ headers = [i \in {} |-> NULL]
             /\ headers_index = 0 /\ headers_size = 0
             /\ data = <<>>
             /\ completed = 0 /\ closed = FALSE
             /\ pipelined = FALSE

Init == /\ sent \in [1 .. MaxMessages -> Shapes]
        /\ at = Start(1)
        /\ place = "idle"
        /\ NoRequest
        /\ handled = <<>>
        /\ cut = {} /\ spoiled = {}

\* http_request_destroy, and http_request_init before the next receive.
ForgetRequest == /\ url' = <<>>
                 /\ headers' = [i \in {} |-> NULL]
                 /\ headers_index' = 0 /\ headers_size' = 0
                 /\ data' = <<>>
                 /\ completed' = 0 /\ closed' = FALSE
                 /\ pipelined' = FALSE

-----------------------------------------------------------------------------
(* The callbacks of the parser.                                             *)

Spans == sent[at.message]
Span  == Spans[at.span]

\* The next n characters of the span.
Text(n) == [i \in 1 .. n |-> <<at.message, at.span, at.position + i>>]

Extended(cell, text) == IF cell = NULL THEN text ELSE cell \o text

on_url(text) ==
  /\ url' = url \o text
  /\ UNCHANGED <<headers, headers_index, headers_size, data>>

\* Mutant: each piece begins a header.
FieldAfter(index) == IF index % 2 = 0 /\ headers_size > 0 THEN index + 2 ELSE index

\* A field after a value begins the next header.
FieldIndex(index) == IF index % 2 = 1 THEN index + 1 ELSE index

\* Room for a field and its value when the array is full.
Grown(index) == [i \in 0 .. headers_size + 1 |->
                   IF i < headers_size THEN headers[i] ELSE NULL]

on_header_field(text) ==
  LET index == FieldIndex(headers_index)
      room  == IF index = headers_size THEN Grown(index) ELSE headers
  IN  /\ headers_index' = index
      /\ headers_size' = IF index = headers_size THEN headers_size + 2 ELSE headers_size
      /\ headers' = [room EXCEPT ![index] = Extended(@, text)]
      /\ UNCHANGED <<url, data>>

ValueIndex(index) == IF index % 2 = 0 THEN index + 1 ELSE index

on_header_value(text) ==
  /\ headers_index' = ValueIndex(headers_index)
  /\ headers' = [headers EXCEPT ![ValueIndex(headers_index)] = Extended(@, text)]
  /\ UNCHANGED <<url, headers_size, data>>

on_body(text) ==
  /\ data' = data \o text
  /\ UNCHANGED <<url, headers, headers_index, headers_size>>

on_piece(text) ==
  CASE Span.kind = "url"   -> on_url(text)
    [] Span.kind = "field" -> on_header_field(text)
    [] Span.kind = "value" -> on_header_value(text)
    [] Span.kind = "body"  -> on_body(text)

\* A piece of the span.  One that does not end the span is the end of the data.
Parse(n, ends) ==
  /\ place = "execute"
  /\ at.position + n <= Span.length
  /\ IF ends THEN at.position + n = Span.length ELSE n > 0
  /\ IF closed THEN UNCHANGED <<url, headers, headers_index, headers_size, data>>
               ELSE on_piece(Text(n))
  /\ at' = IF ends THEN [at EXCEPT !.span = @ + 1, !.position = 0]
           ELSE [at EXCEPT !.position = @ + n]
  /\ place' = IF ends THEN "execute" ELSE "executed"
  /\ pipelined' = (pipelined \/ (completed # 0 /\ ~closed))
  /\ spoiled' = IF completed = 0 THEN spoiled
                ELSE spoiled \cup {at.message} \cup IF closed THEN {} ELSE {completed}
  /\ UNCHANGED <<sent, completed, closed, handled, cut>>

\* Then the parser goes on, when the message keeps the connection, or is closed.
on_message_complete ==
  /\ place = "execute"
  /\ at.span > Len(Spans)
  /\ IF closed THEN UNCHANGED <<completed, closed>>
               ELSE completed' = at.message /\ closed' \in BOOLEAN
  /\ at' = Start(at.message + 1)
  /\ UNCHANGED <<sent, place, url, headers, headers_index, headers_size, data, pipelined,
                 handled, cut, spoiled>>

-----------------------------------------------------------------------------
(* The connection, httpd_thread.                                            *)

More == at.message <= MaxMessages

\* A new request starts where a message does; otherwise what comes is no HTTP.
InStep == NoRequest => at = Start(at.message)

\* recv returns something; how much of it is decided as it is parsed.
Receive ==
  /\ place = "idle"
  /\ More /\ InStep
  /\ place' = "execute"
  /\ UNCHANGED <<sent, at, request, handled, cut, spoiled>>

\* The data ends between two spans, or behind the last message.
DataEnds ==
  /\ place = "execute"
  /\ ~More \/ at.span > 1 \/ completed # 0
  /\ place' = "executed"
  /\ UNCHANGED <<sent, at, request, handled, cut, spoiled>>

\* Mutant: the request is handled as soon as there is a header.
SomeHeader == headers_size > 0

http_request_is_complete == completed # 0

\* An incomplete request waits for more data.
Wait ==
  /\ place = "executed"
  /\ ~http_request_is_complete
  /\ place' = "idle"
  /\ UNCHANGED <<sent, at, request, handled, cut, spoiled>>

\* conn_request, and the end of the request.
Handle ==
  /\ place = "executed"
  /\ http_request_is_complete
  /\ handled' = Append(handled, completed)
  /\ place' = "idle"
  /\ ForgetRequest
  /\ UNCHANGED <<sent, at, cut, spoiled>>

\* recv returns 0, or the parser finds an error in a message, or in what it reads on
\* behind a complete one, which is tested before completeness: it is not handled.
\* A closed parser finds none.  httpd_remove_connection; the sender goes on with a
\* message of a new connection.
Begun == at # Start(at.message)

ConnectionEnds ==
  /\ place = "idle" \/ (place = "executed" /\ (completed = 0 \/ ~closed))
  /\ IF Begun
     THEN /\ cut' = cut \cup {at.message}
          /\ at' = Start(at.message + 1)
     ELSE UNCHANGED <<at, cut>>
  /\ spoiled' = IF completed = 0 THEN spoiled ELSE spoiled \cup {completed}
  /\ place' = "idle"
  /\ ForgetRequest
  /\ UNCHANGED <<sent, handled>>

Next == \/ Receive \/ DataEnds \/ Wait \/ Handle \/ ConnectionEnds
        \/ /\ More /\ at.span <= Len(Spans)
           /\ \E n \in 0 .. Span.length, ends \in BOOLEAN : Parse(n, ends)
        \/ More /\ on_message_complete
-----------------------------------------------------------------------------
(* What the handlers read, and properties.                                  *)

Whole(m, s) == [i \in 1 .. sent[m][s].length |-> <<m, s, i>>]

Fields(m)      == {s \in DOMAIN sent[m] : sent[m][s].kind = "field"}
BodySpans(m)   == {s \in DOMAIN sent[m] : sent[m][s].kind = "body"}

http_request_get_header(name) ==
  LET found == {i \in 0 .. headers_size - 1 : i % 2 = 0 /\ headers[i] = name}
  IN  IF found = {} THEN NULL
      ELSE headers[(CHOOSE i \in found : \A j \in found : i <= j) + 1]

\* However the network cuts a message, the request the handlers are given has its
\* url, its body, and under each field the value that followed it, also when that
\* is empty; nothing of an earlier request or connection is in it.  A sender that
\* waits for each answer never has two messages in one request.
RequestAsSent ==
  completed # 0 /\ ~pipelined =>
    LET m == completed
    IN  /\ url = Whole(m, 1)
        /\ headers_size = 2 * Cardinality(Fields(m))
        /\ \A s \in Fields(m) : http_request_get_header(Whole(m, s)) = Whole(m, s + 1)
        /\ IF BodySpans(m) = {} THEN data = <<>>
           ELSE \A s \in BodySpans(m) : data = Whole(m, s)

\* Messages are handled in order, each at most once, when it is complete and before
\* the next receive.  None is passed over but those that ended with their connection
\* and those with another message, or an error, in the same receive behind them; a
\* message behind which the parser is closed is always handled.
HandledOnce ==
  /\ \A i, j \in DOMAIN handled : i < j => handled[i] < handled[j]
  /\ \A i \in DOMAIN handled : handled[i] \in 1 .. at.message - 1 /\ handled[i] \notin cut
  /\ place = "idle" =>
       \A m \in 1 .. at.message - 1 :
         m \in cut \/ m \in spoiled \/ \E i \in DOMAIN handled : handled[i] = m
=============================================================================
