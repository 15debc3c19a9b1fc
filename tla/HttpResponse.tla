---------------------------- MODULE HttpResponse ----------------------------
(* The buffer of a response, lib/http_response.c, as conn_request fills it:  *)
(* the status line, headers, and maybe a body, each added in pieces.  The    *)
(* buffer is made larger from the length of the piece and from data_size,    *)
(* which stays what it was at first, and not from how much is in it: nearly  *)
(* every addition allocates anew, and may make the buffer smaller.           *)
EXTENDS FiniteSets, Integers, Sequences

CONSTANTS DataSize,      \* data_size, 1024 in the code
          Headers,       \* lengths of a name and a value; a client's CSeq is echoed
          Bodies,        \* lengths of bodies; 0 is none
          MaxHeaders     \* bound on the headers; the program adds four at most

ASSUME ResponseAssumption ==
  /\ DataSize \in Nat \ {0}
  /\ Headers \subseteq [name : Nat, value : Nat]
  /\ Bodies \subseteq Nat
  /\ MaxHeaders \in Nat

VARIABLES data_length,   \* how much has been written
          allocated,     \* how much the buffer holds; 0 without a response
          offset,        \* where the last piece was written
          pending,       \* lengths of the pieces the call at hand has still to add
          added,         \* the headers
          finishing      \* http_response_finish has been called

responsevars == <<data_length, allocated, offset, pending, added, finishing>>

ResponseInit == /\ data_length = 0 /\ allocated = 0 /\ offset = 0
                /\ pending = <<>>
                /\ added = 0
                /\ finishing = FALSE

\* newdatasize after k passes of the loop.
Doubled[k \in Nat] == IF k = 0 THEN DataSize ELSE 2 * Doubled[k - 1]

\* Mutant: the size is doubled once.
DoubledOnce(n) == IF n = 0 THEN DataSize ELSE Doubled[1]

\* Doubled until the piece would fit behind data_size bytes.
NewDataSize(n) ==
  Doubled[CHOOSE k \in 0 .. n :
            /\ DataSize + n <= Doubled[k]
            /\ \A fewer \in 0 .. k - 1 : Doubled[fewer] < DataSize + n]

\* The next piece of the call, written where the buffer ends as far as it knows.
http_response_add_data ==
  /\ pending # <<>>
  /\ LET n == Head(pending)
     IN  /\ allocated' = IF NewDataSize(n) # DataSize THEN NewDataSize(n) ELSE allocated
         /\ data_length' = data_length + n
  /\ offset' = data_length
  /\ pending' = Tail(pending)
  /\ UNCHANGED <<added, finishing>>

\* Nothing is left of the call before.
Returned == allocated > 0 /\ pending = <<>>

\* "RTSP/1.0 200 OK" and the end of the line.
http_response_init ==
  /\ allocated = 0
  /\ allocated' = DataSize
  /\ pending' = <<8, 1, 3, 1, 2, 2>>
  /\ UNCHANGED <<data_length, offset, added, finishing>>

http_response_add_header(name, value) ==
  /\ Returned /\ ~finishing
  /\ added < MaxHeaders
  /\ pending' = <<name, 2, value, 2>>
  /\ added' = added + 1
  /\ UNCHANGED <<data_length, allocated, offset, finishing>>

Digits(n) == Cardinality({k \in 0 .. 9 : 10 ^ k <= n})

\* Content-Length, the end of the headers and the body; or the end alone.
http_response_finish(body) ==
  /\ Returned /\ ~finishing
  /\ finishing' = TRUE
  /\ pending' = IF body > 0 THEN <<14, 2, Digits(body), 4, body>> ELSE <<2>>
  /\ UNCHANGED <<data_length, allocated, offset, added>>

\* When it has been sent.
http_response_destroy ==
  /\ Returned /\ finishing
  /\ data_length' = 0 /\ allocated' = 0 /\ offset' = 0
  /\ added' = 0
  /\ finishing' = FALSE
  /\ UNCHANGED pending

ResponseNext == \/ http_response_init
                \/ \E header \in Headers : http_response_add_header(header.name, header.value)
                \/ \E body \in Bodies : http_response_finish(body)
                \/ http_response_add_data
                \/ http_response_destroy
-----------------------------------------------------------------------------
(* Properties.                                                              *)

\* Though the buffer shrinks, no piece is written beyond it or cut off by it in a
\* response whose last piece begins within data_size, whatever the length of that
\* piece, or that is not longer than twice data_size.  Beyond that it is false: a
\* header longer than twice data_size, as an echoed CSeq may be, is cut off when the
\* end of its line is added, and that is written beyond the buffer.
ResponseFits ==
  offset <= DataSize \/ data_length <= 2 * DataSize => data_length <= allocated
=============================================================================
