--------------------------- MODULE HttpConnection ---------------------------
(* One connection of the server, lib/httpd.c: requests are put together as   *)
(* in HttpRequest, and conn_request, lib/raop.c, answers a complete one with *)
(* a response as in HttpResponse, or with none if it has no CSeq.  Then the  *)
(* request is destroyed, the response is sent and destroyed, and only then   *)
(* is received again.                                                        *)
EXTENDS HttpRequest, HttpResponse

connectionvars == <<requestvars, responsevars>>

ConnectionInit == Init /\ ResponseInit

\* A step of conn_request on the response.
Answer ==
  /\ place = "executed"
  /\ http_request_is_complete
  /\ \/ http_response_init
     \/ \E header \in Headers : http_response_add_header(header.name, header.value)
     \/ \E body \in Bodies : http_response_finish(body)
     \/ http_response_add_data
  /\ UNCHANGED requestvars

\* conn_request returns with a response.
HandleAnswered ==
  /\ Returned /\ finishing
  /\ Handle
  /\ UNCHANGED responsevars

\* The response has been sent.
Answered ==
  /\ place = "idle"
  /\ http_response_destroy
  /\ UNCHANGED requestvars

\* Without a response: the steps of the request, handling among them.
Unanswered == allocated = 0 /\ Next /\ UNCHANGED responsevars

ConnectionNext == Unanswered \/ Answer \/ HandleAnswered \/ Answered

ConnectionSpec == ConnectionInit /\ [][ConnectionNext]_connectionvars
=============================================================================
