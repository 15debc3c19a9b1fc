-------------------------- MODULE HttpRequestProofs -------------------------
(* Proofs about the requests and the responses of a connection: however a    *)
(* message is cut, the request the handlers get is the message that was      *)
(* sent; none is handled twice, and which are passed over is known; and how  *)
(* much of a response fits its buffer.                                       *)
(*                                                                           *)
(* The parser's place in a message determines the whole request.  The url    *)
(* and the body are what has been read of their spans; of the headers, which *)
(* are the spans from the second on, as many are in the array as have begun, *)
(* and its size is that number made even.                                    *)
EXTENDS HttpConnection, FiniteSetTheorems, FunctionTheorems, SequenceTheorems,
        WellFoundedInduction, TLAPS

-----------------------------------------------------------------------------
(* The invariant of the request.                                            *)

\* The first n characters of a span.
Part(m, t, n) == [i \in 1 .. n |-> <<m, t, i>>]

\* With the parser at position p of span s of a message: how much has been read of
\* span t, how many spans of headers there are, and how many of them have begun.
Read(message, s, p, t) ==
  IF t < s THEN message[t].length ELSE IF t = s THEN p ELSE 0

HasBody(message) == Len(message) % 2 = 0

HeaderSpans(message) == IF HasBody(message) THEN Len(message) - 2 ELSE Len(message) - 1

HeadersBegun(message, s, p) ==
  LET begun == IF p > 0 THEN s - 1 ELSE s - 2
  IN  IF s = 1 THEN 0
      ELSE IF begun <= HeaderSpans(message) THEN begun ELSE HeaderSpans(message)

\* The request holds what has been read of message m, and nothing else.
Holds(m, s, p) ==
  LET message == sent[m]
      begun   == HeadersBegun(message, s, p)
      part(t) == Part(m, t, Read(message, s, p, t))
  IN  /\ url = part(1)
      /\ data = IF HasBody(message) THEN part(Len(message)) ELSE <<>>
      /\ headers_index = IF begun = 0 THEN 0 ELSE begun - 1
      /\ headers_size = begun + (begun % 2)
      /\ headers = [i \in 0 .. headers_size - 1 |-> IF i < begun THEN part(i + 2) ELSE NULL]

RequestTypes ==
  /\ sent \in [1 .. MaxMessages -> Shapes]
  /\ at \in [message : 1 .. MaxMessages + 1, span : Nat \ {0}, position : Nat]
  /\ place \in {"idle", "execute", "executed"}
  /\ completed \in 0 .. MaxMessages
  /\ closed \in BOOLEAN /\ pipelined \in BOOLEAN

\* The parser is inside of a message, or in front of one.
Placed ==
  /\ More => /\ at.span <= Len(Spans) + 1
             /\ IF at.span > Len(Spans) THEN at.position = 0
                ELSE at.position <= Span.length
  /\ ~More => at = Start(at.message)

AtStart == at = Start(at.message)

\* A request that begins inside of a message is never parsed; behind a complete one
\* nothing is added that a closed parser passes over.
HeldSoFar ==
  /\ completed = 0 => \/ NoRequest /\ (AtStart \/ place = "idle")
                      \/ More /\ Holds(at.message, at.span, at.position)
  /\ completed # 0 /\ ~pipelined =>
       /\ closed \/ AtStart
       /\ Holds(completed, Len(sent[completed]) + 1, 0)

RequestInv == RequestTypes /\ Placed /\ HeldSoFar

-----------------------------------------------------------------------------
(* The invariant of what has been handled.                                  *)

\* What has become of every message the parser is through with; the one that is
\* complete is still to be handled.
Accounted ==
  \A m \in 1 .. at.message - 1 :
    \/ m = completed \/ m \in cut \/ m \in spoiled
    \/ \E i \in DOMAIN handled : handled[i] = m

HandledSoFar ==
  /\ handled \in Seq(Int)
  /\ \A i, j \in DOMAIN handled : i < j => handled[i] < handled[j]
  /\ \A i \in DOMAIN handled : handled[i] \in 1 .. at.message - 1 /\ handled[i] \notin cut
  /\ cut \subseteq 1 .. at.message - 1

\* A complete message, and what comes behind it in its receive.
CompleteSoFar ==
  /\ completed # 0 => /\ completed \in 1 .. at.message - 1 /\ completed \notin cut
                      /\ \A i \in DOMAIN handled : handled[i] < completed
  /\ completed # 0 /\ ~AtStart => /\ at.message \in spoiled
                                  /\ closed \/ completed \in spoiled
  /\ pipelined \/ closed => completed # 0
  /\ place = "idle" => completed = 0

HandledInv == HandledSoFar /\ CompleteSoFar /\ Accounted

ConnectionInv == RequestInv /\ HandledInv

-----------------------------------------------------------------------------
(* How large the buffer of a response gets.  The size after each pass of the *)
(* loop is a recursive function; that there is one, and what it is at least, *)
(* follows from the least number that would be an exception.                 *)

\* Every set of numbers that is not empty has a least element.
LEMMA Least ==
  ASSUME NEW S, S \subseteq Nat, S # {}
  PROVE  \E x \in S : \A y \in S : x <= y
<1> DEFINE R == OpToRel(<, Nat)
<1>1. IsWellFoundedOn(R, Nat)
  BY NatLessThanWellFounded, Zenon DEF OpToRel
<1>2. PICK x \in S : \A y \in S : ~ (<<y, x>> \in R)
  <2> HIDE DEF R
  <2> QED
    BY <1>1, WFMin, Zenon
<1>3. ASSUME NEW y \in S PROVE x <= y
  <2>1. ~ (y < x)
    BY <1>2, Zenon DEF OpToRel
  <2> QED
    BY <2>1, SMT
<1> QED
  BY <1>3

\* What newdatasize is after up to n passes of the loop.
Passes(n, g) == /\ g \in [0 .. n -> Nat]
                /\ g[0] = DataSize
                /\ \A k \in 1 .. n : g[k] = 2 * g[k - 1]

\* The loop can be followed for any number of passes ...
LEMMA PassesExist == ASSUME NEW n \in Nat PROVE \E g : Passes(n, g)
<1> DEFINE S == {k \in Nat : ~ \E g : Passes(k, g)}
<1>1. SUFFICES ASSUME S # {} PROVE FALSE
  OBVIOUS
<1>2. PICK k \in S : \A j \in S : k <= j
  <2> HIDE DEF S
  <2>1. S \subseteq Nat
    BY DEF S
  <2> QED
    BY <1>1, <2>1, Least, Zenon
<1>3. CASE k = 0
  <2> DEFINE g == [i \in 0 .. 0 |-> DataSize]
  <2>1. Passes(0, g)
    BY ResponseAssumption, SMT DEF Passes
  <2> QED
    BY <1>2, <1>3, <2>1
<1>4. CASE k > 0
  <2>1. k - 1 \in Nat /\ k - 1 \notin S
    BY <1>2, <1>4
  <2>2. PICK h : Passes(k - 1, h)
    BY <2>1
  <2> DEFINE g == [i \in 0 .. k |-> IF i < k THEN h[i] ELSE 2 * h[k - 1]]
  <2>3. h \in [0 .. k - 1 -> Nat] /\ h[0] = DataSize /\ \A i \in 1 .. k - 1 : h[i] = 2 * h[i - 1]
    BY <2>2 DEF Passes
  <2>4. g \in [0 .. k -> Nat] /\ g[0] = DataSize
    BY <1>4, <2>1, <2>3, SMT
  <2>5. ASSUME NEW i \in 1 .. k PROVE g[i] = 2 * g[i - 1]
    BY <1>4, <2>1, <2>3, SMT
  <2>6. Passes(k, g)
    BY <2>4, <2>5, Zenon DEF Passes
  <2> QED
    BY <1>2, <2>6
<1> QED
  BY <1>2, <1>3, <1>4

\* ... in one way ...
LEMMA PassesAgree ==
  ASSUME NEW n \in Nat, NEW m \in 0 .. n, NEW g, NEW h, Passes(n, g), Passes(m, h)
  PROVE  \A k \in 0 .. m : g[k] = h[k]
<1> DEFINE S == {k \in 0 .. m : g[k] # h[k]}
<1>1. SUFFICES ASSUME S # {} PROVE FALSE
  OBVIOUS
<1>2. PICK k \in S : \A j \in S : k <= j
  <2> HIDE DEF S
  <2>1. S \subseteq Nat
    BY DEF S
  <2> QED
    BY <1>1, <2>1, Least, Zenon
<1>3. k # 0
  BY <1>2 DEF Passes
<1>4. k - 1 \in 0 .. m /\ k \in 1 .. n /\ k \in 1 .. m /\ k - 1 \notin S
  BY <1>2, <1>3
<1>5. g[k - 1] = h[k - 1]
  BY <1>4
<1>6. g[k] = 2 * g[k - 1] /\ h[k] = 2 * h[k - 1]
  BY <1>4 DEF Passes
<1> QED
  BY <1>2, <1>5, <1>6

\* ... so the function is what its definition says.
LEMMA DoubledByPass == Doubled = [k \in Nat |-> IF k = 0 THEN DataSize ELSE 2 * Doubled[k - 1]]
<1> DEFINE run(n) == CHOOSE g : Passes(n, g)
           F == [n \in Nat |-> run(n)[n]]
<1>1. ASSUME NEW n \in Nat PROVE Passes(n, run(n))
  BY PassesExist
<1> HIDE DEF run
<1>2. ASSUME NEW k \in Nat PROVE F[k] = IF k = 0 THEN DataSize ELSE 2 * F[k - 1]
  <2>1. CASE k = 0
    BY <1>1, <2>1 DEF Passes
  <2>2. CASE k > 0
    <3>1. k - 1 \in Nat /\ k - 1 \in 0 .. k /\ k \in 1 .. k /\ k - 1 \in 0 .. k - 1
      BY <2>2
    <3>2. run(k)[k - 1] = run(k - 1)[k - 1]
      <4>1. Passes(k, run(k)) /\ Passes(k - 1, run(k - 1))
        BY <1>1, <3>1
      <4> QED
        BY <3>1, <4>1, PassesAgree
    <3>3. run(k)[k] = 2 * run(k)[k - 1]
      BY <1>1, <3>1 DEF Passes
    <3> QED
      BY <2>2, <3>1, <3>2, <3>3
  <2> QED
    BY <2>1, <2>2
<1>3. F = [k \in Nat |-> IF k = 0 THEN DataSize ELSE 2 * F[k - 1]]
  BY <1>2
<1> HIDE DEF F
<1> QED
  BY <1>3, Zenon DEF Doubled

\* A pass adds one byte at the least.
LEMMA DoubledGrows == ASSUME NEW n \in Nat PROVE Doubled[n] \in Nat /\ Doubled[n] >= DataSize + n
<1> DEFINE Grows(k) == Doubled[k] \in Nat /\ Doubled[k] >= DataSize + k
           S == {k \in Nat : ~Grows(k)}
<1>1. SUFFICES ASSUME S # {} PROVE FALSE
  OBVIOUS
<1>2. PICK k \in S : \A j \in S : k <= j
  <2> HIDE DEF S
  <2>1. S \subseteq Nat
    BY DEF S
  <2> QED
    BY <1>1, <2>1, Least, Zenon
<1>3. Doubled[k] = IF k = 0 THEN DataSize ELSE 2 * Doubled[k - 1]
  BY <1>2, DoubledByPass, Zenon
<1>4. CASE k = 0
  BY <1>2, <1>3, <1>4, ResponseAssumption, SMT
<1>5. CASE k > 0
  <2>1. k - 1 \in Nat /\ Grows(k - 1)
    BY <1>2, <1>5
  <2> QED
    BY <1>2, <1>3, <1>5, <2>1, ResponseAssumption, SMT
<1> QED
  BY <1>2, <1>4, <1>5

\* After the first pass that makes room the loop ends.
LEMMA LeastPasses ==
  ASSUME NEW n \in Nat
  PROVE  \E j \in 0 .. n : /\ DataSize + n <= Doubled[j]
                           /\ \A fewer \in 0 .. j - 1 : Doubled[fewer] < DataSize + n
<1> DEFINE S == {k \in Nat : DataSize + n <= Doubled[k]}
<1>1. n \in S
  BY DoubledGrows, ResponseAssumption, SMT
<1>2. PICK k \in S : \A j \in S : k <= j
  <2> HIDE DEF S
  <2>1. S \subseteq Nat
    BY DEF S
  <2> QED
    BY <1>1, <2>1, Least, Zenon
<1>3. k \in 0 .. n
  BY <1>1, <1>2
<1>4. \A fewer \in 0 .. k - 1 : Doubled[fewer] < DataSize + n
  <2> SUFFICES ASSUME NEW fewer \in 0 .. k - 1 PROVE Doubled[fewer] < DataSize + n
    OBVIOUS
  <2>1. fewer \in Nat /\ fewer \notin S
    BY <1>2
  <2>2. Doubled[fewer] \in Nat
    BY <2>1, DoubledGrows
  <2> QED
    BY <2>1, <2>2, ResponseAssumption, SMT
<1> QED
  BY <1>2, <1>3, <1>4

\* The loop ends, with a size for data_size bytes and the piece.
LEMMA NewDataSizeFits ==
  ASSUME NEW n \in Nat PROVE NewDataSize(n) \in Nat /\ DataSize + n <= NewDataSize(n)
<1> DEFINE Stops(j) == /\ DataSize + n <= Doubled[j]
                       /\ \A fewer \in 0 .. j - 1 : Doubled[fewer] < DataSize + n
           passes == CHOOSE j \in 0 .. n : Stops(j)
<1>1. \E j \in 0 .. n : Stops(j)
  BY LeastPasses
<1>2. NewDataSize(n) = Doubled[passes]
  BY DEF NewDataSize
<1> HIDE DEF Stops
<1>3. passes \in 0 .. n /\ Stops(passes)
  BY <1>1
<1>4. Doubled[passes] \in Nat
  BY <1>3, DoubledGrows
<1> QED
  BY <1>2, <1>3, <1>4 DEF Stops

\* No pass for an empty piece, and one at the least for any other.
LEMMA NewDataSizeDoubles ==
  ASSUME NEW n \in Nat
  PROVE  IF n = 0 THEN NewDataSize(n) = DataSize ELSE NewDataSize(n) >= 2 * DataSize
<1> DEFINE Stops(j) == /\ DataSize + n <= Doubled[j]
                       /\ \A fewer \in 0 .. j - 1 : Doubled[fewer] < DataSize + n
           passes == CHOOSE j \in 0 .. n : Stops(j)
<1>1. NewDataSize(n) = Doubled[passes]
  BY DEF NewDataSize
<1>2. DataSize + n <= Doubled[passes]
  BY <1>1, NewDataSizeFits
<1>3. Doubled[0] = DataSize
  BY DoubledByPass, Zenon
<1>4. \E j \in 0 .. n : Stops(j)
  BY LeastPasses
<1> HIDE DEF Stops
<1>5. passes \in 0 .. n
  BY <1>4
<1> HIDE DEF passes
<1>6. CASE n = 0
  BY <1>1, <1>3, <1>5, <1>6
<1>7. CASE n # 0
  <2>1. passes # 0
    BY <1>2, <1>3, <1>7, ResponseAssumption, SMT
  <2>2. passes \in Nat /\ passes - 1 \in Nat
    BY <1>5, <2>1
  <2>3. Doubled[passes] = 2 * Doubled[passes - 1]
    <3>1. Doubled[passes] = IF passes = 0 THEN DataSize ELSE 2 * Doubled[passes - 1]
      BY <2>2, DoubledByPass, Zenon
    <3> QED
      BY <2>1, <3>1
  <2>4. Doubled[passes - 1] \in Nat /\ Doubled[passes - 1] >= DataSize + (passes - 1)
    BY <2>2, DoubledGrows
  <2> QED
    BY <1>1, <1>7, <2>2, <2>3, <2>4, ResponseAssumption, SMT
<1> QED
  BY <1>6, <1>7

ResponseTypes ==
  /\ data_length \in Nat /\ allocated \in Nat /\ offset \in Nat
  /\ pending \in Seq(Nat)

\* A response has room for data_size bytes at the least.
ResponseInv ==
  /\ ResponseTypes
  /\ IF allocated = 0 THEN data_length = 0 /\ offset = 0 /\ pending = <<>>
     ELSE DataSize <= allocated
  /\ ResponseFits

LEMMA PieceFits ==
  ASSUME ResponseInv, http_response_add_data
  PROVE  ResponseInv'
<1> DEFINE n == Head(pending)
<1>1. n \in Nat /\ Tail(pending) \in Seq(Nat)
  BY DEF ResponseInv, ResponseTypes, http_response_add_data
<1>2. /\ NewDataSize(n) \in Nat /\ DataSize + n <= NewDataSize(n)
      /\ IF n = 0 THEN NewDataSize(n) = DataSize ELSE NewDataSize(n) >= 2 * DataSize
  BY <1>1, NewDataSizeFits, NewDataSizeDoubles
<1>3. /\ allocated' = IF NewDataSize(n) # DataSize THEN NewDataSize(n) ELSE allocated
      /\ data_length' = data_length + n
      /\ offset' = data_length
      /\ pending' = Tail(pending)
  BY DEF http_response_add_data
<1>4. data_length \in Nat /\ allocated \in Nat /\ allocated # 0 /\ DataSize <= allocated
  BY DEF ResponseInv, ResponseTypes, http_response_add_data
<1>5. DataSize \in Nat /\ DataSize # 0
  BY ResponseAssumption
<1> HIDE DEF n
<1>6. /\ data_length' \in Nat /\ allocated' \in Nat /\ offset' \in Nat
      /\ allocated' # 0 /\ DataSize <= allocated'
  BY <1>1, <1>2, <1>3, <1>4, <1>5, SMT
<1>7. ResponseFits'
  <2>1. CASE n = 0
    <3>1. data_length' = data_length /\ allocated' = allocated /\ offset' = data_length
      BY <1>2, <1>3, <1>4, <2>1, SMT
    <3>2. data_length <= 2 * DataSize => data_length <= allocated
      BY DEF ResponseInv, ResponseFits
    <3> QED
      BY <1>4, <1>5, <3>1, <3>2, SMT DEF ResponseFits
  <2>2. CASE n # 0
    <3>1. /\ allocated' = NewDataSize(n) /\ allocated' \in Nat
          /\ DataSize + n <= allocated' /\ 2 * DataSize <= allocated'
      BY <1>1, <1>2, <1>3, <1>5, <2>2, SMT
    <3> QED
      BY <1>1, <1>3, <1>4, <1>5, <3>1, SMT DEF ResponseFits
  <2> QED
    BY <2>1, <2>2
<1> QED
  BY <1>1, <1>3, <1>6, <1>7 DEF ResponseInv, ResponseTypes

\* What the calls add is told by lengths.
LEMMA PiecesOfCalls ==
  ASSUME ResponseInv,
         \/ http_response_init
         \/ \E header \in Headers : http_response_add_header(header.name, header.value)
         \/ \E body \in Bodies : http_response_finish(body)
  PROVE  pending' \in Seq(Nat)
<1>1. CASE http_response_init
  BY <1>1 DEF http_response_init
<1>2. ASSUME NEW header \in Headers, http_response_add_header(header.name, header.value)
      PROVE  pending' \in Seq(Nat)
  <2>1. header.name \in Nat /\ header.value \in Nat
    BY ResponseAssumption
  <2> QED
    BY <1>2, <2>1 DEF http_response_add_header
<1>3. ASSUME NEW body \in Bodies, http_response_finish(body)
      PROVE  pending' \in Seq(Nat)
  <2>1. body \in Nat
    BY ResponseAssumption
  <2>2. Digits(body) \in Nat
    <3>1. IsFiniteSet(0 .. 9)
      <4>1. 0 \in Int /\ 9 \in Int
        OBVIOUS
      <4> QED
        BY <4>1, FS_Interval
    <3>2. IsFiniteSet({k \in 0 .. 9 : 10 ^ k <= body})
      BY <3>1, FS_Subset
    <3> QED
      BY <3>2, FS_CardinalityType DEF Digits
  <2>3. pending' = IF body > 0 THEN <<14, 2, Digits(body), 4, body>> ELSE <<2>>
    BY <1>3 DEF http_response_finish
  <2> HIDE DEF Digits
  <2> QED
    BY <2>1, <2>2, <2>3
<1> QED
  BY <1>1, <1>2, <1>3

LEMMA ResponseStep == ASSUME ResponseInv, [ResponseNext]_responsevars PROVE ResponseInv'
<1>1. CASE http_response_init
  BY <1>1, PiecesOfCalls, ResponseAssumption, SMT
     DEF http_response_init, ResponseInv, ResponseTypes, ResponseFits
<1>2. CASE \/ \E header \in Headers : http_response_add_header(header.name, header.value)
           \/ \E body \in Bodies : http_response_finish(body)
  <2>1. pending' \in Seq(Nat)
    BY <1>2, PiecesOfCalls
  <2>2. UNCHANGED <<data_length, allocated, offset>> /\ allocated # 0
    BY <1>2, SMT DEF http_response_add_header, http_response_finish, Returned, ResponseInv, ResponseTypes
  <2> QED
    BY <2>1, <2>2 DEF ResponseInv, ResponseTypes, ResponseFits
<1>3. CASE http_response_add_data
  BY <1>3, PieceFits
<1>4. CASE http_response_destroy
  BY <1>4, ResponseAssumption, SMT
     DEF http_response_destroy, Returned, ResponseInv, ResponseTypes, ResponseFits
<1>5. CASE UNCHANGED responsevars
  BY <1>5 DEF responsevars, ResponseInv, ResponseTypes, ResponseFits
<1> QED
  BY <1>1, <1>2, <1>3, <1>4, <1>5 DEF ResponseNext

-----------------------------------------------------------------------------
(* Reading on in a message.                                                 *)

\* The piece behind what has been read of a span.
Piece(m, t, p, n) == [i \in 1 .. n |-> <<m, t, p + i>>]

LEMMA PartExtends ==
  ASSUME NEW m, NEW t, NEW p \in Nat, NEW n \in Nat
  PROVE  Part(m, t, p) \o Piece(m, t, p, n) = Part(m, t, p + n)
<1> DEFINE read == Part(m, t, p)
           piece == Piece(m, t, p, n)
           Any == {<<m, t, i>> : i \in Nat}
<1>1. read \in Seq(Any) /\ Len(read) = p /\ \A i \in 1 .. p : read[i] = <<m, t, i>>
  BY DEF Part
<1>2. piece \in Seq(Any) /\ Len(piece) = n /\ \A i \in 1 .. n : piece[i] = <<m, t, p + i>>
  BY DEF Piece
<1>3. Part(m, t, p + n) \in Seq(Any) /\ Len(Part(m, t, p + n)) = p + n
  BY DEF Part
<1>4. \A i \in 1 .. p + n : Part(m, t, p + n)[i] = <<m, t, i>>
  BY DEF Part
<1> HIDE DEF read, piece, Any
<1>5. /\ read \o piece \in Seq(Any)
      /\ Len(read \o piece) = p + n
      /\ \A i \in 1 .. p + n : (read \o piece)[i] = IF i <= p THEN read[i] ELSE piece[i - p]
  BY <1>1, <1>2, ConcatProperties
<1>6. ASSUME NEW i \in 1 .. p + n PROVE (read \o piece)[i] = Part(m, t, p + n)[i]
  <2>1. CASE i <= p
    <3>1. i \in 1 .. p
      BY <2>1
    <3> QED
      BY <1>1, <1>4, <1>5, <2>1, <3>1
  <2>2. CASE ~(i <= p)
    <3>1. i - p \in 1 .. n /\ p + (i - p) = i
      BY <2>2
    <3>2. piece[i - p] = <<m, t, i>>
      BY <1>2, <3>1
    <3> QED
      BY <1>4, <1>5, <2>2, <3>2
  <2> QED
    BY <2>1, <2>2
<1>7. read \o piece = Part(m, t, p + n)
  BY <1>3, <1>5, <1>6, SeqEqual
<1> QED
  BY <1>7 DEF read, piece

LEMMA PartOfNothing == ASSUME NEW m, NEW t PROVE Part(m, t, 0) = <<>>
BY DEF Part

\* A part is not NULL, and tells which span it is of.
LEMMA PartTells ==
  ASSUME NEW m \in Nat, NEW t \in Nat, NEW n \in Nat, NEW u \in Nat, NEW k \in Nat
  PROVE  /\ Part(m, t, n) # NULL
         /\ n > 0 /\ Part(m, t, n) = Part(m, u, k) => t = u
<1>1. Part(m, t, n) # NULL
  <2>1. SUFFICES ASSUME Part(m, t, n) = NULL PROVE FALSE
    OBVIOUS
  <2>2. Len(Part(m, t, n)) = n /\ Len(NULL) = 1
    BY DEF Part, NULL
  <2>3. Part(m, t, n)[1] = <<m, t, 1>> /\ NULL[1] = <<0, 0, 0>>
    BY <2>1, <2>2 DEF Part, NULL
  <2> QED
    BY <2>1, <2>3
<1>2. ASSUME n > 0, Part(m, t, n) = Part(m, u, k) PROVE t = u
  <2>1. Len(Part(m, t, n)) = n /\ Len(Part(m, u, k)) = k
    BY DEF Part
  <2>2. Part(m, t, n)[1] = <<m, t, 1>> /\ Part(m, u, k)[1] = <<m, u, 1>>
    BY <1>2, <2>1 DEF Part
  <2> QED
    BY <1>2, <2>2
<1> QED
  BY <1>1, <1>2

\* The spans of a message and what kind they are.
LEMMA ShapeFacts ==
  ASSUME NEW message \in Shapes
  PROVE  /\ Len(message) \in Nat \ {0}
         /\ HeaderSpans(message) \in Nat /\ HeaderSpans(message) % 2 = 0
         /\ \A t \in 1 .. Len(message) :
              /\ message[t].kind \in {"url", "field", "value", "body"}
              /\ message[t].length \in Nat
              /\ message[t].kind = "url" => t = 1
              /\ message[t].kind = "field" =>
                   t % 2 = 0 /\ t >= 2 /\ t + 1 <= Len(message) /\ t - 1 < HeaderSpans(message)
              /\ message[t].kind = "value" =>
                   t % 2 = 1 /\ t >= 3 /\ t - 1 <= HeaderSpans(message)
              /\ message[t].kind = "body" => t = Len(message) /\ HasBody(message) /\ t > 1
              /\ message[t].length = 0 => message[t].kind = "value"
<1>1. IsShape(message)
  BY RequestAssumption
<1>2. Len(message) \in Nat \ {0} /\ (Len(message) = 1 => ~HasBody(message))
  BY <1>1 DEF IsShape, HasBody
<1>3. HeaderSpans(message) \in Nat /\ HeaderSpans(message) % 2 = 0
  <2>1. \A n \in Nat \ {0} : n % 2 = 0 => n - 2 \in Nat /\ (n - 2) % 2 = 0
    BY SMT
  <2>2. \A n \in Nat \ {0} : n % 2 # 0 => n - 1 \in Nat /\ (n - 1) % 2 = 0
    BY SMT
  <2> QED
    BY <1>2, <2>1, <2>2 DEF HeaderSpans, HasBody
<1>4. ASSUME NEW t \in 1 .. Len(message)
      PROVE  /\ message[t].kind \in {"url", "field", "value", "body"}
             /\ message[t].length \in Nat
             /\ message[t].kind = "url" <=> t = 1
             /\ message[t].kind = "field" <=> t % 2 = 0 /\ t < Len(message)
             /\ message[t].kind = "value" <=> t % 2 = 1 /\ t > 1
             /\ message[t].length = 0 => message[t].kind = "value"
  <2>1. message \in Seq([kind : {"url", "field", "value", "body"}, length : Nat])
    BY <1>1 DEF IsShape
  <2>2. message[t] \in [kind : {"url", "field", "value", "body"}, length : Nat]
    BY <2>1, LenProperties
  <2>3. message[t].kind \in {"url", "field", "value", "body"} /\ message[t].length \in Nat
    BY <2>2
  <2> QED
    BY <1>1, <2>3 DEF IsShape
<1>5. ASSUME NEW t \in 1 .. Len(message)
      PROVE  /\ t % 2 = 0 /\ t < Len(message) =>
                  t >= 2 /\ t + 1 <= Len(message) /\ t - 1 < HeaderSpans(message)
             /\ t % 2 = 1 /\ t > 1 => t >= 3 /\ t - 1 <= HeaderSpans(message)
             /\ t > 1 /\ ~(t % 2 = 0 /\ t < Len(message)) /\ ~(t % 2 = 1) =>
                  t = Len(message) /\ HasBody(message)
  BY <1>2, SMT DEF HeaderSpans, HasBody
<1>6. ASSUME NEW t \in 1 .. Len(message), message[t].kind = "body"
      PROVE  t = Len(message) /\ HasBody(message) /\ t > 1
  <2>1. t # 1 /\ ~(t % 2 = 0 /\ t < Len(message)) /\ ~(t % 2 = 1 /\ t > 1)
    BY <1>4, <1>6
  <2>2. t > 1
    BY <2>1, <1>2
  <2> QED
    BY <1>5, <2>1, <2>2
<1> QED
  BY <1>2, <1>3, <1>4, <1>5, <1>6

LEMMA BodyIsNotFirst ==
  ASSUME NEW message \in Shapes, HasBody(message)
  PROVE  Len(message) > 1
<1>1. Len(message) \in Nat \ {0}
  BY ShapeFacts
<1>2. ~ (1 % 2 = 0)
  BY SMT
<1>3. Len(message) # 1
  BY <1>2, Zenon DEF HasBody
<1>4. \A n \in Nat \ {0} : n # 1 => n > 1
  OBVIOUS
<1> QED
  BY <1>1, <1>3, <1>4, Zenon

\* After a piece of span s, that ends it or not, the parser is at position p2 of
\* span s2.
NextPlace(message, s, p, n, s2, p2) ==
  \/ s2 = s + 1 /\ p2 = 0 /\ p + n = message[s].length
  \/ s2 = s /\ p2 = p + n /\ n > 0

\* A piece of a span adds to what has been read of that span, and to no other.
LEMMA PieceIsRead ==
  ASSUME NEW message \in Shapes, NEW s \in 1 .. Len(message), NEW p \in Nat, NEW n \in Nat,
         NEW s2, NEW p2, NextPlace(message, s, p, n, s2, p2)
  PROVE  /\ Read(message, s, p, s) = p /\ Read(message, s2, p2, s) = p + n
         /\ \A t \in 1 .. Len(message) : Read(message, s, p, t) \in Nat
         /\ \A t \in 1 .. Len(message) :
              t # s => Read(message, s2, p2, t) = Read(message, s, p, t)
<1>1. Len(message) \in Nat /\ \A t \in 1 .. Len(message) : message[t].length \in Nat
  BY ShapeFacts
<1> QED
  BY <1>1 DEF Read, NextPlace

\* A piece of a field or a value begins it; others leave the headers alone.
LEMMA PieceBegins ==
  ASSUME NEW message \in Shapes, NEW s \in 1 .. Len(message), NEW p \in Nat, NEW n \in Nat,
         NEW s2, NEW p2, NextPlace(message, s, p, n, s2, p2)
  PROVE  LET begun  == HeadersBegun(message, s, p)
             begun2 == HeadersBegun(message, s2, p2)
         IN  /\ begun \in Nat /\ begun <= HeaderSpans(message)
             /\ message[s].kind \in {"url", "body"} => begun2 = begun
             /\ message[s].kind \in {"field", "value"} =>
                  begun2 = s - 1 /\ begun = IF p > 0 THEN s - 1 ELSE s - 2
<1> DEFINE begun == HeadersBegun(message, s, p)
           begun2 == HeadersBegun(message, s2, p2)
<1>1. /\ Len(message) \in Nat /\ HeaderSpans(message) \in Nat
      /\ message[s].kind = "url" => s = 1
      /\ message[s].kind \in {"field", "value"} => s > 1 /\ s - 1 <= HeaderSpans(message)
      /\ message[s].kind = "body" => s > 1 /\ HeaderSpans(message) = s - 2
  <2>1. /\ Len(message) \in Nat /\ HeaderSpans(message) \in Nat
        /\ message[s].kind = "url" => s = 1
        /\ message[s].kind = "field" => s >= 2 /\ s - 1 < HeaderSpans(message)
        /\ message[s].kind = "value" => s >= 3 /\ s - 1 <= HeaderSpans(message)
        /\ message[s].kind = "body" => s = Len(message) /\ HasBody(message) /\ s > 1
    BY ShapeFacts
  <2>2. message[s].kind = "body" => HeaderSpans(message) = s - 2
    BY <2>1 DEF HeaderSpans
  <2> QED
    BY <2>1, <2>2
<1>2. \/ s2 = s + 1 /\ p2 = 0
      \/ s2 = s /\ p2 = p + n /\ n > 0
  BY DEF NextPlace
<1>3. begun \in Nat /\ begun <= HeaderSpans(message)
  BY <1>1, SMT DEF HeadersBegun
<1>4. CASE message[s].kind = "url"
  BY <1>1, <1>2, <1>3, <1>4, SMT DEF HeadersBegun
<1>5. CASE message[s].kind = "body"
  BY <1>1, <1>2, <1>3, <1>5, SMT DEF HeadersBegun
<1>6. CASE message[s].kind \in {"field", "value"}
  BY <1>1, <1>2, <1>3, <1>6, SMT DEF HeadersBegun
<1> QED
  BY <1>3, <1>4, <1>5, <1>6

LEMMA EvenAndOdd ==
  ASSUME NEW k \in Int
  PROVE  /\ k % 2 = 0 => (k - 1) % 2 = 1 /\ (k - 2) % 2 = 0 /\ (k - 3) % 2 = 1
         /\ k % 2 = 1 => (k - 1) % 2 = 0 /\ (k - 2) % 2 = 1 /\ (k - 3) % 2 = 0
BY SMT

\* The callbacks store a piece where it belongs.
CallbackOf(kind, text) ==
  \/ kind = "url" /\ on_url(text)
  \/ kind = "field" /\ on_header_field(text)
  \/ kind = "value" /\ on_header_value(text)
  \/ kind = "body" /\ on_body(text)

LEMMA PieceIsStored ==
  ASSUME NEW m \in Nat, sent[m] \in Shapes, sent' = sent,
         NEW s \in 1 .. Len(sent[m]), NEW p \in Nat, NEW n \in Nat, NEW s2, NEW p2,
         NextPlace(sent[m], s, p, n, s2, p2),
         Holds(m, s, p),
         CallbackOf(sent[m][s].kind, Piece(m, s, p, n))
  PROVE  Holds(m, s2, p2)'
<1> DEFINE message == sent[m]
           text == Piece(m, s, p, n)
           part(t) == Part(m, t, Read(message, s, p, t))
           part2(t) == Part(m, t, Read(message, s2, p2, t))
           begun  == HeadersBegun(message, s, p)
           begun2 == HeadersBegun(message, s2, p2)
           Array(size) == [i \in 0 .. size - 1 |-> IF i < begun THEN part(i + 2) ELSE NULL]
           Array2(size) == [i \in 0 .. size - 1 |-> IF i < begun2 THEN part2(i + 2) ELSE NULL]
<1>1. /\ url = part(1)
      /\ data = IF HasBody(message) THEN part(Len(message)) ELSE <<>>
      /\ headers_index = IF begun = 0 THEN 0 ELSE begun - 1
      /\ headers_size = begun + (begun % 2)
      /\ headers = Array(headers_size)
  BY DEF Holds
<1>2. /\ url' = part2(1)
      /\ data' = IF HasBody(message) THEN part2(Len(message)) ELSE <<>>
      /\ headers_index' = IF begun2 = 0 THEN 0 ELSE begun2 - 1
      /\ headers_size' = begun2 + (begun2 % 2)
      /\ headers' = Array2(headers_size')
      => Holds(m, s2, p2)'
  BY DEF Holds
<1>19. headers_index = IF begun = 0 THEN 0 ELSE begun - 1
  BY <1>1
<1>20. headers_size = begun + (begun % 2)
  BY <1>1
<1>21. headers = Array(headers_size)
  BY <1>1
<1>0. /\ message \in Shapes /\ s \in 1 .. Len(message) /\ s \in Nat
      /\ NextPlace(message, s, p, n, s2, p2)
      /\ CallbackOf(message[s].kind, text)
  BY ShapeFacts
<1> HIDE DEF message
<1>17. /\ Read(message, s, p, s) = p /\ Read(message, s2, p2, s) = p + n
       /\ \A t \in 1 .. Len(message) :
            t # s => Read(message, s2, p2, t) = Read(message, s, p, t)
  BY <1>0, PieceIsRead
<1>3. part(s) \o text = part2(s)
  <2>1. part(s) = Part(m, s, p) /\ part2(s) = Part(m, s, p + n)
    BY <1>17
  <2>2. Part(m, s, p) \o text = Part(m, s, p + n)
    BY PartExtends
  <2> HIDE DEF text, part, part2
  <2> QED
    BY <2>1, <2>2
<1>4. p = 0 => text = part2(s)
  BY <1>17 DEF Part, Piece
<1>5. part(s) # NULL
  BY <1>0, <1>17, PartTells
<1>6. \A t \in 1 .. Len(message) : t # s => part2(t) = part(t)
  BY <1>17
<1>7. /\ begun \in Nat /\ begun <= HeaderSpans(message)
      /\ message[s].kind \in {"url", "body"} => begun2 = begun
      /\ message[s].kind \in {"field", "value"} =>
           begun2 = s - 1 /\ begun = IF p > 0 THEN s - 1 ELSE s - 2
  BY <1>0, PieceBegins
<1>8. /\ Len(message) \in Nat \ {0} /\ HeaderSpans(message) \in Nat
      /\ HeaderSpans(message) < Len(message)
      /\ HasBody(message) => Len(message) > 1 /\ HeaderSpans(message) = Len(message) - 2
  <2>1. Len(message) \in Nat \ {0} /\ HeaderSpans(message) \in Nat
    BY <1>0, ShapeFacts
  <2>2. HasBody(message) => Len(message) > 1
    BY <1>0, BodyIsNotFirst
  <2> QED
    BY <2>1, <2>2 DEF HeaderSpans
<1>9. /\ message[s].kind = "url" => s = 1
      /\ message[s].kind = "field" => s % 2 = 0 /\ s >= 2 /\ s - 1 < HeaderSpans(message)
      /\ message[s].kind = "value" => s % 2 = 1 /\ s >= 3 /\ s - 1 <= HeaderSpans(message)
      /\ message[s].kind = "body" => s = Len(message) /\ HasBody(message)
  BY <1>0, ShapeFacts
<1> HIDE DEF text, part, part2, begun, begun2, Array, Array2
<1>10. ASSUME message[s].kind \in {"url", "body"},
              UNCHANGED <<headers, headers_index, headers_size>>
       PROVE  /\ headers_index' = IF begun2 = 0 THEN 0 ELSE begun2 - 1
              /\ headers_size' = begun2 + (begun2 % 2)
              /\ headers' = Array2(headers_size')
  <2>1. begun2 = begun
    BY <1>7, <1>10
  <2>2. ASSUME NEW i \in Nat, i < begun PROVE part2(i + 2) = part(i + 2)
    <3>1. i + 2 \in 1 .. Len(message) /\ i + 2 # s
      BY <1>7, <1>8, <1>9, <1>10, <2>2
    <3> QED
      BY <1>6, <3>1
  <2>3. headers_size = begun + (begun % 2) /\ headers_size \in Nat
    BY <1>1, <1>7
  <2>4. Array2(headers_size) = Array(headers_size)
    BY <2>1, <2>2, <2>3 DEF Array, Array2
  <2> QED
    BY <1>1, <1>10, <2>1, <2>4
<1>11. CASE message[s].kind = "url"
  <2>1. on_url(text)
    BY <1>0, <1>11 DEF CallbackOf
  <2>2. url' = part2(1) /\ data' = data /\ UNCHANGED <<headers, headers_index, headers_size>>
    BY <1>1, <1>3, <1>9, <1>11, <2>1 DEF on_url
  <2>3. data' = IF HasBody(message) THEN part2(Len(message)) ELSE <<>>
    BY <1>1, <1>6, <1>8, <1>9, <1>11, <2>2
  <2> QED
    BY <1>2, <1>10, <1>11, <2>2, <2>3
<1>12. CASE message[s].kind = "body"
  <2>1. on_body(text)
    BY <1>0, <1>12 DEF CallbackOf
  <2>2. data' = data \o text /\ url' = url /\ UNCHANGED <<headers, headers_index, headers_size>>
    BY <2>1 DEF on_body
  <2>3. data' = IF HasBody(message) THEN part2(Len(message)) ELSE <<>>
    BY <1>1, <1>3, <1>9, <1>12, <2>2
  <2>4. url' = part2(1)
    BY <1>1, <1>6, <1>8, <1>9, <1>12, <2>2
  <2> QED
    BY <1>2, <1>10, <1>12, <2>2, <2>3, <2>4
\* From here on the piece is of a header.
<1>13. ASSUME message[s].kind \in {"field", "value"}, UNCHANGED <<url, data>>
       PROVE  /\ url' = part2(1)
              /\ data' = IF HasBody(message) THEN part2(Len(message)) ELSE <<>>
  <2>1. 1 # s /\ (HasBody(message) => Len(message) # s) /\ 1 \in 1 .. Len(message)
    BY <1>8, <1>9, <1>13
  <2>2. part2(1) = part(1) /\ (HasBody(message) => part2(Len(message)) = part(Len(message)))
    BY <1>6, <1>8, <2>1
  <2> QED
    BY <1>1, <1>13, <2>2
<1>14. ASSUME NEW i \in Nat, i < s - 2, message[s].kind \in {"field", "value"}
       PROVE  part2(i + 2) = part(i + 2)
  <2>1. i + 2 \in 1 .. Len(message) /\ i + 2 # s
    BY <1>0, <1>8, <1>14
  <2> QED
    BY <1>6, <2>1
<1>15. CASE message[s].kind = "field"
  <2>1. on_header_field(text)
    BY <1>0, <1>15 DEF CallbackOf
  <2>10. /\ (s - 1) % 2 = 1 /\ (s - 2) % 2 = 0 /\ (s - 3) % 2 = 1 /\ s >= 2
         /\ begun2 = s - 1 /\ begun = IF p > 0 THEN s - 1 ELSE s - 2
    BY <1>0, <1>7, <1>9, <1>15, EvenAndOdd
  <2>11. headers_index = IF p > 0 \/ s = 2 THEN s - 2 ELSE s - 3
    <3>1. s \in Nat /\ s >= 2
      BY <1>0, <2>10
    <3>2. CASE p > 0
      <4>1. begun = s - 1
        BY <2>10, <3>2
      <4> QED
        BY <1>19, <3>1, <3>2, <4>1
    <3>3. CASE ~(p > 0)
      <4>1. begun = s - 2
        BY <2>10, <3>3
      <4> QED
        BY <1>19, <3>1, <3>3, <4>1
    <3> QED
      BY <3>2, <3>3
  <2>2. FieldIndex(headers_index) = s - 2
    BY <1>0, <2>10, <2>11 DEF FieldIndex
  <2>12. begun % 2 = (IF p > 0 THEN 1 ELSE 0) /\ begun2 % 2 = 1
    BY <2>10, Zenon
  <2>3. headers_size = IF p > 0 THEN s ELSE s - 2
    BY <1>0, <1>20, <2>10, <2>12
  <2> DEFINE room == IF s - 2 = headers_size THEN Grown(s - 2) ELSE headers
  <2>4. /\ headers_index' = s - 2
        /\ headers_size' = IF s - 2 = headers_size THEN headers_size + 2 ELSE headers_size
        /\ headers' = [room EXCEPT ![s - 2] = Extended(@, text)]
        /\ UNCHANGED <<url, data>>
    BY <2>1, <2>2 DEF on_header_field
  <2>5. headers_size' = s
    BY <2>3, <2>4
  <2>6. /\ room = [i \in 0 .. s - 1 |-> room[i]]
        /\ \A i \in 0 .. s - 1 : i < s - 2 => room[i] = part(i + 2)
        /\ room[s - 2] = IF p > 0 THEN part(s) ELSE NULL
        /\ room[s - 1] = NULL
    <3>1. CASE p > 0
      <4>1. begun = s - 1 /\ headers_size = s /\ room = headers
        BY <1>0, <2>3, <2>10, <3>1
      <4>2. room = [i \in 0 .. s - 1 |-> IF i < s - 1 THEN part(i + 2) ELSE NULL]
        BY <1>21, <4>1 DEF Array
      <4> HIDE DEF room
      <4>3. (s - 2) + 2 = s /\ s - 2 \in 0 .. s - 1 /\ s - 1 \in 0 .. s - 1
        BY <1>0, <2>10
      <4>4. room[s - 2] = part(s) /\ room[s - 1] = NULL
        BY <1>0, <4>2, <4>3
      <4>5. \A i \in 0 .. s - 1 : i < s - 2 => room[i] = part(i + 2)
        BY <1>0, <4>2
      <4>6. room = [i \in 0 .. s - 1 |-> room[i]]
        BY <4>2
      <4> QED
        BY <3>1, <4>4, <4>5, <4>6
    <3>2. CASE ~(p > 0)
      <4>1. begun = s - 2 /\ headers_size = s - 2 /\ room = Grown(s - 2)
        BY <1>0, <2>3, <2>10, <3>2
      <4>2. headers = [i \in 0 .. s - 3 |-> IF i < s - 2 THEN part(i + 2) ELSE NULL]
        BY <1>0, <1>21, <4>1 DEF Array
      <4>3. room = [i \in 0 .. s - 1 |-> IF i < s - 2 THEN headers[i] ELSE NULL]
        BY <1>0, <4>1 DEF Grown
      <4> HIDE DEF room
      <4>4. s - 2 \in 0 .. s - 1 /\ s - 1 \in 0 .. s - 1 /\ ~(s - 2 < s - 2) /\ ~(s - 1 < s - 2)
        BY <1>0, <2>10
      <4>5. room[s - 2] = NULL /\ room[s - 1] = NULL
        BY <4>3, <4>4
      <4>6. ASSUME NEW i \in 0 .. s - 1, i < s - 2
            PROVE  room[i] = part(i + 2)
        <5>1. i \in 0 .. s - 3
          BY <1>0, <4>6
        <5>2. room[i] = headers[i]
          BY <4>3, <4>6
        <5> QED
          BY <4>2, <4>6, <5>1, <5>2
      <4>7. room = [i \in 0 .. s - 1 |-> room[i]]
        BY <4>3
      <4> QED
        BY <3>2, <4>5, <4>6, <4>7
    <3> QED
      BY <3>1, <3>2
  <2>7. Extended(room[s - 2], text) = part2(s)
    <3> HIDE DEF room
    <3>1. CASE p > 0
      BY <1>3, <1>5, <2>6, <3>1, Zenon DEF Extended
    <3>2. CASE ~(p > 0)
      <4>1. p = 0
        BY <3>2
      <4> QED
        BY <1>4, <2>6, <3>2, <4>1, Zenon DEF Extended
    <3> QED
      BY <3>1, <3>2
  <2>8. headers' = Array2(headers_size')
    <3>1. begun2 = s - 1
      BY <2>10
    <3>2. headers' = [i \in 0 .. s - 1 |-> IF i = s - 2 THEN part2(s) ELSE room[i]]
      BY <2>4, <2>6, <2>7
    <3>3. ASSUME NEW i \in 0 .. s - 1
          PROVE  (IF i = s - 2 THEN part2(s) ELSE room[i])
                   = IF i < begun2 THEN part2(i + 2) ELSE NULL
      <4> HIDE DEF room
      <4>1. CASE i < s - 2
        <5>1. room[i] = part(i + 2) /\ part2(i + 2) = part(i + 2)
          BY <1>14, <1>15, <2>6, <4>1
        <5> QED
          BY <1>0, <3>1, <4>1, <5>1
      <4>2. CASE i = s - 2
        BY <1>0, <3>1, <4>2
      <4>3. CASE i = s - 1
        BY <1>0, <2>6, <3>1, <4>3
      <4> QED
        BY <1>0, <4>1, <4>2, <4>3
    <3>4. headers' = [i \in 0 .. s - 1 |-> IF i < begun2 THEN part2(i + 2) ELSE NULL]
      BY <3>2, <3>3, Zenon
    <3> QED
      BY <2>5, <3>4, Zenon DEF Array2
  <2>9. /\ headers_index' = IF begun2 = 0 THEN 0 ELSE begun2 - 1
        /\ headers_size' = begun2 + (begun2 % 2)
    BY <1>0, <2>4, <2>5, <2>10, <2>12
  <2> QED
    BY <1>2, <1>13, <1>15, <2>4, <2>8, <2>9
<1>16. CASE message[s].kind = "value"
  <2>1. on_header_value(text)
    BY <1>0, <1>16 DEF CallbackOf
  <2>10. /\ (s - 1) % 2 = 0 /\ (s - 2) % 2 = 1 /\ (s - 3) % 2 = 0 /\ s >= 3
         /\ begun2 = s - 1 /\ begun = IF p > 0 THEN s - 1 ELSE s - 2
    BY <1>0, <1>7, <1>9, <1>16, EvenAndOdd
  <2>11. headers_index = IF p > 0 THEN s - 2 ELSE s - 3
    <3>1. s \in Nat /\ s >= 3
      BY <1>0, <2>10
    <3>2. CASE p > 0
      <4>1. begun = s - 1
        BY <2>10, <3>2
      <4> QED
        BY <1>19, <3>1, <3>2, <4>1
    <3>3. CASE ~(p > 0)
      <4>1. begun = s - 2
        BY <2>10, <3>3
      <4> QED
        BY <1>19, <3>1, <3>3, <4>1
    <3> QED
      BY <3>2, <3>3
  <2>2. ValueIndex(headers_index) = s - 2
    BY <1>0, <2>10, <2>11 DEF ValueIndex
  <2>12. begun % 2 = (IF p > 0 THEN 0 ELSE 1) /\ begun2 % 2 = 0
    BY <2>10, Zenon
  <2>3. headers_size = s - 1
    BY <1>0, <1>20, <2>10, <2>12
  <2>4. /\ headers_index' = s - 2
        /\ headers_size' = s - 1
        /\ headers' = [headers EXCEPT ![s - 2] = Extended(@, text)]
        /\ UNCHANGED <<url, data>>
    BY <2>1, <2>2, <2>3 DEF on_header_value
  <2>5. /\ headers = [i \in 0 .. s - 2 |-> headers[i]]
        /\ \A i \in 0 .. s - 2 : i < s - 2 => headers[i] = part(i + 2)
        /\ headers[s - 2] = IF p > 0 THEN part(s) ELSE NULL
    <3>1. CASE p > 0
      BY <1>0, <1>21, <2>3, <2>10, <3>1 DEF Array
    <3>2. CASE ~(p > 0)
      BY <1>0, <1>21, <2>3, <2>10, <3>2 DEF Array
    <3> QED
      BY <3>1, <3>2
  <2>6. Extended(headers[s - 2], text) = part2(s)
    <3>1. CASE p > 0
      BY <1>3, <1>5, <2>5, <3>1, Zenon DEF Extended
    <3>2. CASE ~(p > 0)
      <4>1. p = 0
        BY <3>2
      <4> QED
        BY <1>4, <2>5, <3>2, <4>1, Zenon DEF Extended
    <3> QED
      BY <3>1, <3>2
  <2>7. headers' = Array2(headers_size')
    <3>1. begun2 = s - 1
      BY <2>10
    <3>2. headers' = [i \in 0 .. s - 2 |-> IF i = s - 2 THEN part2(s) ELSE headers[i]]
      BY <2>4, <2>5, <2>6
    <3>3. ASSUME NEW i \in 0 .. s - 2
          PROVE  (IF i = s - 2 THEN part2(s) ELSE headers[i])
                   = IF i < begun2 THEN part2(i + 2) ELSE NULL
      <4>1. CASE i < s - 2
        <5>1. headers[i] = part(i + 2) /\ part2(i + 2) = part(i + 2)
          BY <1>14, <1>16, <2>5, <4>1
        <5> QED
          BY <1>0, <3>1, <4>1, <5>1
      <4>2. CASE i = s - 2
        BY <1>0, <3>1, <4>2
      <4> QED
        BY <1>0, <4>1, <4>2
    <3>4. headers' = [i \in 0 .. s - 2 |-> IF i < begun2 THEN part2(i + 2) ELSE NULL]
      BY <3>2, <3>3, Zenon
    <3>5. (s - 1) - 1 = s - 2
      BY <1>0
    <3> QED
      BY <2>4, <3>4, <3>5, Zenon DEF Array2
  <2>8. /\ headers_index' = IF begun2 = 0 THEN 0 ELSE begun2 - 1
        /\ headers_size' = begun2 + (begun2 % 2)
    BY <1>0, <2>4, <2>10, <2>12
  <2> QED
    BY <1>2, <1>13, <1>16, <2>4, <2>7, <2>8
<1>18. message[s].kind \in {"url", "field", "value", "body"}
  BY <1>0, ShapeFacts
<1> QED
  BY <1>11, <1>12, <1>15, <1>16, <1>18

\* Nothing is held when a message begins; all of it is when it ends.
LEMMA NothingIsHeld ==
  ASSUME NEW m \in Nat, sent[m] \in Shapes, NoRequest
  PROVE  Holds(m, 1, 0)
<1> DEFINE message == sent[m]
<1>1. message \in Shapes /\ Len(message) \in Nat \ {0} /\ HeaderSpans(message) \in Nat
  BY ShapeFacts
<1>2. HeadersBegun(message, 1, 0) = 0 /\ 0 % 2 = 0 /\ ~ (1 % 2 = 0)
  BY SMT DEF HeadersBegun
<1>3. HasBody(message) => Len(message) > 1
  BY <1>1, BodyIsNotFirst
<1>4. Read(message, 1, 0, 1) = 0 /\ (HasBody(message) => Read(message, 1, 0, Len(message)) = 0)
  BY <1>1, <1>3 DEF Read
<1>5. headers = [i \in 0 .. -1 |-> IF i < 0 THEN Part(m, i + 2, Read(message, 1, 0, i + 2)) ELSE NULL]
  BY DEF NoRequest
<1> QED
  BY <1>2, <1>4, <1>5, PartOfNothing DEF NoRequest, Holds

\* There are half as many fields as there are spans of headers.
LEMMA FieldsCounted ==
  ASSUME NEW m \in Nat, sent[m] \in Shapes
  PROVE  2 * Cardinality(Fields(m)) = HeaderSpans(sent[m])
<1> DEFINE message == sent[m]
           half == HeaderSpans(message) \div 2
           f == [j \in 1 .. half |-> 2 * j]
<1>1. /\ Len(message) \in Nat \ {0} /\ DOMAIN message = 1 .. Len(message)
      /\ HeaderSpans(message) \in Nat /\ HeaderSpans(message) % 2 = 0
  <2>1. IsShape(message)
    BY RequestAssumption
  <2>2. message \in Seq([kind : {"url", "field", "value", "body"}, length : Nat])
    BY <2>1 DEF IsShape
  <2> QED
    BY <2>2, LenProperties, ShapeFacts
<1>2. half \in Nat /\ HeaderSpans(message) = 2 * half
  BY <1>1, SMT
<1>3. \A t \in 1 .. Len(message) : message[t].kind = "field" <=> t % 2 = 0 /\ t < Len(message)
  BY RequestAssumption DEF IsShape
<1>4. \A t \in 1 .. Len(message) :
        t % 2 = 0 /\ t < Len(message) <=> t % 2 = 0 /\ t <= HeaderSpans(message)
  <2>1. \A n \in Nat \ {0}, t \in Nat :
          /\ n % 2 = 0 => (t % 2 = 0 /\ t < n <=> t % 2 = 0 /\ t <= n - 2)
          /\ t < n <=> t <= n - 1
    BY SMT
  <2>2. SUFFICES ASSUME NEW t \in 1 .. Len(message)
                 PROVE  t % 2 = 0 /\ t < Len(message) <=> t % 2 = 0 /\ t <= HeaderSpans(message)
    OBVIOUS
  <2>3. t \in Nat
    BY <1>1
  <2>4. CASE HasBody(message)
    BY <1>1, <2>1, <2>3, <2>4, Zenon DEF HeaderSpans, HasBody
  <2>5. CASE ~HasBody(message)
    BY <1>1, <2>1, <2>3, <2>5, Zenon DEF HeaderSpans
  <2> QED
    BY <2>4, <2>5
<1>5. Fields(m) = {t \in 1 .. 2 * half : t % 2 = 0}
  <2>1. HeaderSpans(message) < Len(message)
    BY <1>1 DEF HeaderSpans
  <2>2. Fields(m) = {t \in 1 .. Len(message) : message[t].kind = "field"}
    BY <1>1 DEF Fields
  <2> HIDE DEF half, message
  <2> QED
    BY <1>1, <1>2, <1>3, <1>4, <2>1, <2>2
<1> HIDE DEF half
<1>6. f \in Bijection(1 .. half, Fields(m))
  <2>1. \A j \in 1 .. half : 2 * j \in 1 .. 2 * half /\ (2 * j) % 2 = 0
    BY <1>2, SMT
  <2>2. f \in [1 .. half -> Fields(m)]
    BY <1>5, <2>1
  <2>3. \A j, k \in 1 .. half : f[j] = f[k] => j = k
    BY <1>2, SMT
  <2>4. ASSUME NEW t \in Fields(m) PROVE \E j \in 1 .. half : f[j] = t
    <3>1. t \in 1 .. 2 * half /\ t % 2 = 0
      BY <1>5
    <3>2. t \div 2 \in 1 .. half /\ t = 2 * (t \div 2)
      BY <1>2, <3>1, SMT
    <3> QED
      BY <3>2
  <2> QED
    BY <2>2, <2>3, <2>4 DEF Bijection, Injection, Surjection, IsInjective
<1>7. Cardinality(Fields(m)) = half
  <2>1. IsFiniteSet(1 .. half) /\ Cardinality(1 .. half) = half
    BY <1>2, FS_Interval
  <2> QED
    BY <1>6, <2>1, FS_Bijection DEF ExistsBijection
<1> QED
  BY <1>2, <1>7

\* The span of the body, if there is one.
LEMMA BodyIsLast ==
  ASSUME NEW m \in Nat, sent[m] \in Shapes
  PROVE  BodySpans(m) = IF HasBody(sent[m]) THEN {Len(sent[m])} ELSE {}
<1> DEFINE message == sent[m]
<1>1. IsShape(message) /\ Len(message) \in Nat \ {0} /\ DOMAIN message = 1 .. Len(message)
  <2>1. IsShape(message)
    BY RequestAssumption
  <2>2. message \in Seq([kind : {"url", "field", "value", "body"}, length : Nat])
    BY <2>1 DEF IsShape
  <2> QED
    BY <2>1, <2>2, LenProperties, ShapeFacts
<1>2. \A t \in 1 .. Len(message) :
        /\ message[t].kind \in {"url", "field", "value", "body"}
        /\ message[t].kind = "body" => t = Len(message) /\ HasBody(message)
  BY ShapeFacts
<1>3. HasBody(message) => message[Len(message)].kind = "body"
  <2>1. SUFFICES ASSUME HasBody(message) PROVE message[Len(message)].kind = "body"
    OBVIOUS
  <2>2. Len(message) % 2 = 0
    BY <2>1, Zenon DEF HasBody
  <2>3. Len(message) % 2 # 1
    <3>1. 0 # 1
      OBVIOUS
    <3> QED
      BY <2>2, <3>1, Zenon
  <2>4. Len(message) # 1 /\ ~(Len(message) < Len(message)) /\ Len(message) \in 1 .. Len(message)
    <3>1. Len(message) > 1
      BY <2>1, BodyIsNotFirst
    <3>2. \A n \in Nat : n > 1 => n # 1 /\ ~(n < n) /\ n \in 1 .. n
      OBVIOUS
    <3> QED
      BY <1>1, <3>1, <3>2
  <2>5. LET kind == message[Len(message)].kind
        IN  kind # "url" /\ kind # "field" /\ kind # "value"
    BY <1>1, <2>3, <2>4, Zenon DEF IsShape
  <2> QED
    BY <1>2, <2>4, <2>5
<1>4. BodySpans(m) = {t \in 1 .. Len(message) : message[t].kind = "body"}
  BY <1>1 DEF BodySpans
<1> HIDE DEF message
<1>5. CASE HasBody(message)
  <2>1. Len(message) \in 1 .. Len(message)
    BY <1>1
  <2>2. BodySpans(m) = {Len(message)}
    BY <1>2, <1>3, <1>4, <1>5, <2>1
  <2> QED
    BY <1>5, <2>2 DEF message
<1>6. CASE ~HasBody(message)
  <2>1. BodySpans(m) = {}
    BY <1>2, <1>4, <1>6
  <2> QED
    BY <1>6, <2>1 DEF message
<1> QED
  BY <1>5, <1>6

\* What the handlers read of a request that holds all of a message.
LEMMA WholeIsHeld ==
  ASSUME NEW m \in Nat, sent[m] \in Shapes, Holds(m, Len(sent[m]) + 1, 0)
  PROVE  /\ url = Whole(m, 1)
         /\ headers_size = 2 * Cardinality(Fields(m))
         /\ \A s \in Fields(m) : http_request_get_header(Whole(m, s)) = Whole(m, s + 1)
         /\ IF BodySpans(m) = {} THEN data = <<>>
            ELSE \A s \in BodySpans(m) : data = Whole(m, s)
<1> DEFINE message == sent[m]
           end == Len(message) + 1
           count == HeaderSpans(message)
<1>1. /\ message \in Shapes /\ Len(message) \in Nat \ {0}
      /\ count \in Nat /\ count % 2 = 0 /\ count < Len(message)
      /\ DOMAIN message = 1 .. Len(message)
  <2>1. IsShape(message)
    BY RequestAssumption
  <2>2. message \in Seq([kind : {"url", "field", "value", "body"}, length : Nat])
    BY <2>1 DEF IsShape
  <2>3. /\ Len(message) \in Nat \ {0} /\ DOMAIN message = 1 .. Len(message)
        /\ count \in Nat /\ count % 2 = 0
    BY <2>2, LenProperties, ShapeFacts
  <2>4. \A n \in Nat \ {0} : n - 1 < n /\ n - 2 < n
    OBVIOUS
  <2>5. count < Len(message)
    BY <2>3, <2>4, Zenon DEF HeaderSpans
  <2> QED
    BY <2>3, <2>5
<1>2. HeadersBegun(message, end, 0) = count
  BY <1>1 DEF HeadersBegun, HeaderSpans
<1>3. ASSUME NEW t \in 1 .. Len(message)
      PROVE  Part(m, t, Read(message, end, 0, t)) = Whole(m, t)
  <2>1. Read(message, end, 0, t) = message[t].length
    BY <1>1 DEF Read
  <2> QED
    BY <2>1 DEF Part, Whole
<1>4. /\ url = Part(m, 1, Read(message, end, 0, 1))
      /\ data = IF HasBody(message)
                THEN Part(m, Len(message), Read(message, end, 0, Len(message))) ELSE <<>>
      /\ headers_size = count + (count % 2)
      /\ headers = [i \in 0 .. headers_size - 1 |->
                      IF i < count THEN Part(m, i + 2, Read(message, end, 0, i + 2)) ELSE NULL]
  BY <1>2 DEF Holds
<1>5. headers_size = count
  BY <1>1, <1>4
<1>6. url = Whole(m, 1)
  BY <1>1, <1>3, <1>4
<1>7. ASSUME NEW i \in 0 .. count - 1 PROVE headers[i] = Whole(m, i + 2)
  <2>1. i + 2 \in 1 .. Len(message) /\ i < count /\ i \in 0 .. headers_size - 1
    <3>1. i + 2 <= count + 1
      BY <1>1
    <3> QED
      BY <1>1, <1>5, <3>1
  <2>2. headers[i] = Part(m, i + 2, Read(message, end, 0, i + 2))
    BY <1>4, <2>1
  <2> QED
    BY <1>3, <2>1, <2>2
<1>8. ASSUME NEW s \in Fields(m)
      PROVE  http_request_get_header(Whole(m, s)) = Whole(m, s + 1)
  <2>1. /\ s \in 1 .. Len(message) /\ s % 2 = 0 /\ s >= 2 /\ s - 1 < count
        /\ message[s].length \in Nat /\ message[s].length > 0
    <3>1. s \in 1 .. Len(message) /\ message[s].kind = "field"
      BY <1>1 DEF Fields
    <3>2. message[s].length \in Nat /\ (message[s].length = 0 => message[s].kind = "value")
      BY <3>1, ShapeFacts
    <3>3. s % 2 = 0 /\ s >= 2 /\ s - 1 < count
      BY <3>1, ShapeFacts
    <3>4. message[s].length > 0
      BY <3>1, <3>2
    <3> QED
      BY <3>1, <3>2, <3>3, <3>4
  <2> DEFINE found == {i \in 0 .. headers_size - 1 : i % 2 = 0 /\ headers[i] = Whole(m, s)}
  <2>2. s - 2 \in found
    <3>1. s - 2 \in 0 .. count - 1 /\ (s - 2) % 2 = 0 /\ (s - 2) + 2 = s
      BY <1>1, <2>1, EvenAndOdd
    <3> QED
      BY <1>5, <1>7, <3>1
  <2>3. ASSUME NEW i \in found PROVE i = s - 2
    <3>1. i \in 0 .. count - 1 /\ headers[i] = Whole(m, s) /\ i \in Nat
      BY <1>1, <1>5
    <3>2. i + 2 \in 1 .. Len(message) /\ i + 2 \in Nat
      <4>1. i + 2 <= count + 1
        BY <1>1, <3>1
      <4> QED
        BY <1>1, <3>1, <4>1
    <3>3. Whole(m, i + 2) = Whole(m, s)
      BY <1>7, <3>1
    <3>4. Part(m, s, message[s].length) = Part(m, i + 2, message[i + 2].length)
      BY <3>3 DEF Part, Whole
    <3>5. message[i + 2].length \in Nat /\ s \in Nat
      BY <1>1, <2>1, <3>2, ShapeFacts
    <3>6. s = i + 2
      BY <2>1, <3>2, <3>4, <3>5, PartTells
    <3> QED
      BY <2>1, <3>1, <3>6
  <2>4. found = {s - 2}
    BY <2>2, <2>3
  <2> DEFINE first == CHOOSE i \in found : \A j \in found : i <= j
  <2>5. s - 2 \in Int
    BY <1>1, <2>1
  <2>6. first = s - 2
    <3>1. \E i \in found : \A j \in found : i <= j
      BY <2>4, <2>5
    <3>2. first \in found
      BY <3>1
    <3> QED
      BY <2>3, <3>2
  <2>7. http_request_get_header(Whole(m, s)) = headers[first + 1]
    BY <2>2 DEF http_request_get_header
  <2> HIDE DEF first, found, count
  <2>8. first + 1 \in 0 .. count - 1 /\ (first + 1) + 2 = s + 1
    BY <1>1, <2>1, <2>6
  <2> QED
    BY <1>7, <2>7, <2>8
<1>9. IF BodySpans(m) = {} THEN data = <<>> ELSE \A s \in BodySpans(m) : data = Whole(m, s)
  <2>1. BodySpans(m) = IF HasBody(message) THEN {Len(message)} ELSE {}
    BY BodyIsLast
  <2>2. Len(message) \in 1 .. Len(message)
    BY <1>1
  <2>3. data = IF HasBody(message) THEN Whole(m, Len(message)) ELSE <<>>
    BY <1>3, <1>4, <2>2
  <2> QED
    BY <2>1, <2>3
<1>10. headers_size = 2 * Cardinality(Fields(m))
  BY <1>5, FieldsCounted
<1> QED
  BY <1>6, <1>8, <1>9, <1>10

-----------------------------------------------------------------------------
(* The steps, and the request.                                              *)

LEMMA SentTypes ==
  ASSUME RequestTypes
  PROVE  /\ MaxMessages \in Nat
         /\ at.message \in 1 .. MaxMessages + 1 /\ at.message \in Nat
         /\ at.span \in Nat \ {0} /\ at.position \in Nat
         /\ More => at.message \in 1 .. MaxMessages /\ Spans \in Shapes
BY RequestAssumption DEF RequestTypes, More, Spans

\* The front of a message is a place the parser can be at.
LEMMA StartIsPlaced ==
  ASSUME RequestTypes, sent' = sent, NEW k \in 1 .. MaxMessages + 1, at' = Start(k)
  PROVE  Placed'
<1>1. at'.message = k /\ at'.span = 1 /\ at'.position = 0 /\ MaxMessages \in Nat
  BY RequestAssumption DEF Start
<1>2. ASSUME k <= MaxMessages
      PROVE  1 <= Len(sent[k]) /\ 0 <= sent[k][1].length
  <2>1. sent[k] \in Shapes
    BY <1>1, <1>2 DEF RequestTypes
  <2>2. Len(sent[k]) \in Nat \ {0}
    BY <2>1, ShapeFacts
  <2>3. 1 \in 1 .. Len(sent[k])
    BY <2>2
  <2>4. sent[k][1].length \in Nat
    BY <2>1, <2>3, ShapeFacts
  <2> QED
    BY <2>2, <2>4
<1>3. CASE k <= MaxMessages
  <2>1. More' /\ Spans' = sent[k] /\ Span' = sent[k][1]
    BY <1>1, <1>3 DEF More, Spans, Span
  <2>2. Len(sent[k]) \in Nat
    BY <1>1, <1>3, ShapeFacts DEF RequestTypes
  <2> QED
    BY <1>1, <1>2, <1>3, <2>1, <2>2 DEF Placed
<1>4. CASE ~(k <= MaxMessages)
  BY <1>1, <1>4 DEF Placed, More
<1> QED
  BY <1>3, <1>4

\* A piece is parsed.
LEMMA ParseKeepsRequest ==
  ASSUME ConnectionInv, More, at.span <= Len(Spans),
         NEW n \in 0 .. Span.length, NEW ends \in BOOLEAN, Parse(n, ends)
  PROVE  RequestInv'
<1>1. PICK m, s, p : m = at.message /\ s = at.span /\ p = at.position
  OBVIOUS
<1>2. PICK s2, p2 : s2 = at'.span /\ p2 = at'.position
  OBVIOUS
<1>3. /\ MaxMessages \in Nat /\ m \in 1 .. MaxMessages /\ m \in Nat /\ sent[m] \in Shapes
      /\ s \in 1 .. Len(sent[m]) /\ Len(sent[m]) \in Nat /\ p \in Nat
      /\ sent[m][s].length \in Nat /\ n \in Nat
      /\ Spans = sent[m] /\ Span = sent[m][s]
  <2>1. /\ MaxMessages \in Nat /\ m \in 1 .. MaxMessages /\ m \in Nat /\ sent[m] \in Shapes
        /\ Spans = sent[m] /\ Span = sent[m][s] /\ s \in Nat \ {0} /\ p \in Nat
    BY <1>1, SentTypes DEF ConnectionInv, RequestInv, Spans, Span
  <2>2. Len(sent[m]) \in Nat
    BY <2>1, ShapeFacts
  <2>3. s \in 1 .. Len(sent[m])
    BY <1>1, <2>1, <2>2
  <2>4. sent[m][s].length \in Nat
    BY <2>1, <2>3, ShapeFacts
  <2> QED
    BY <2>1, <2>2, <2>3, <2>4
<1>4. /\ place = "execute" /\ p + n <= sent[m][s].length
      /\ IF ends THEN p + n = sent[m][s].length ELSE n > 0
      /\ UNCHANGED <<sent, completed, closed>>
      /\ pipelined' = (pipelined \/ (completed # 0 /\ ~closed))
      /\ place' \in {"execute", "executed"}
  BY <1>1, <1>3 DEF Parse
<1>5. /\ at'.message = m
      /\ s2 = IF ends THEN s + 1 ELSE s
      /\ p2 = IF ends THEN 0 ELSE p + n
      /\ at' = [message |-> m, span |-> s2, position |-> p2]
  <2>1. at = [message |-> m, span |-> s, position |-> p]
    BY <1>1 DEF ConnectionInv, RequestInv, RequestTypes
  <2>2. at' = IF ends THEN [at EXCEPT !.span = @ + 1, !.position = 0]
              ELSE [at EXCEPT !.position = @ + n]
    BY DEF Parse
  <2> QED
    BY <1>2, <2>1, <2>2
<1>6. NextPlace(sent[m], s, p, n, s2, p2)
  BY <1>4, <1>5 DEF NextPlace
<1>7. RequestTypes'
  <2>1. at' \in [message : 1 .. MaxMessages + 1, span : Nat \ {0}, position : Nat]
    BY <1>3, <1>5
  <2> QED
    BY <1>4, <2>1 DEF ConnectionInv, RequestInv, RequestTypes
<1>8. Placed'
  <2>1. More' /\ Spans' = sent[m] /\ Span' = sent[m][s2]
    BY <1>2, <1>3, <1>4, <1>5 DEF More, Spans, Span
  <2>2. s2 <= Len(sent[m]) + 1
    BY <1>3, <1>5
  <2>3. IF s2 > Len(sent[m]) THEN p2 = 0 ELSE p2 <= sent[m][s2].length
    <3>1. CASE ends
      <4>1. s2 <= Len(sent[m]) => s2 \in 1 .. Len(sent[m])
        BY <1>3, <1>5, <3>1
      <4>2. s2 <= Len(sent[m]) => sent[m][s2].length \in Nat
        BY <1>3, <4>1, ShapeFacts
      <4> QED
        BY <1>3, <1>5, <3>1, <4>2
    <3>2. CASE ~ends
      BY <1>3, <1>4, <1>5, <3>2
    <3> QED
      BY <3>1, <3>2
  <2> QED
    BY <1>2, <2>1, <2>2, <2>3 DEF Placed
<1>9. HeldSoFar'
  <2>1. CASE completed # 0
    <3>1. CASE ~closed
      BY <1>4, <2>1, <3>1 DEF HeldSoFar
    <3>2. CASE closed
      <4>1. UNCHANGED <<url, headers, headers_index, headers_size, data>>
        BY <3>2 DEF Parse
      <4>2. pipelined' = pipelined
        BY <1>4, <3>2 DEF ConnectionInv, RequestInv, RequestTypes
      <4>3. Holds(completed, Len(sent[completed]) + 1, 0)'
              <=> Holds(completed, Len(sent[completed]) + 1, 0)
        BY <1>4, <4>1 DEF Holds
      <4> QED
        BY <1>4, <2>1, <3>2, <4>2, <4>3 DEF ConnectionInv, RequestInv, HeldSoFar
    <3> QED
      BY <3>1, <3>2
  <2>2. CASE completed = 0
    <3>1. Holds(m, s, p)
      <4>1. CASE Holds(at.message, at.span, at.position)
        BY <1>1, <4>1
      <4>2. CASE NoRequest /\ AtStart
        <5>1. s = 1 /\ p = 0
          BY <1>1, <4>2 DEF AtStart, Start
        <5> QED
          BY <1>3, <4>2, <5>1, NothingIsHeld
      <4> QED
        BY <1>4, <2>2, <4>1, <4>2 DEF ConnectionInv, RequestInv, HeldSoFar
    <3>2. Text(n) = Piece(m, s, p, n)
      BY <1>1 DEF Text, Piece
    <3>3. CallbackOf(sent[m][s].kind, Piece(m, s, p, n))
      <4>1. sent[m][s].kind \in {"url", "field", "value", "body"}
        BY <1>3, ShapeFacts
      <4>2. ~closed
        BY <2>2 DEF ConnectionInv, HandledInv, CompleteSoFar
      <4>3. on_piece(Piece(m, s, p, n))
        BY <3>2, <4>2 DEF Parse
      <4>4. CASE Span.kind \in {"url", "field"}
        BY <1>3, <4>3, <4>4 DEF on_piece, CallbackOf
      <4>5. CASE Span.kind \in {"value", "body"}
        BY <1>3, <4>3, <4>5 DEF on_piece, CallbackOf
      <4> QED
        BY <1>3, <4>1, <4>4, <4>5
    <3>4. Holds(m, s2, p2)'
      BY <1>3, <1>4, <1>6, <3>1, <3>3, PieceIsStored
    <3>5. More' /\ Holds(at.message, at.span, at.position)'
      BY <1>2, <1>3, <1>5, <3>4 DEF Holds, More
    <3> QED
      BY <1>4, <2>2, <3>5 DEF HeldSoFar
  <2> QED
    BY <2>1, <2>2
<1> QED
  BY <1>7, <1>8, <1>9 DEF RequestInv

\* A message ends: the request holds all of it.
LEMMA CompleteKeepsRequest ==
  ASSUME ConnectionInv, More, on_message_complete
  PROVE  RequestInv'
<1>1. PICK m : m = at.message
  OBVIOUS
<1>2. /\ MaxMessages \in Nat /\ m \in 1 .. MaxMessages /\ sent[m] \in Shapes
      /\ Spans = sent[m] /\ Len(sent[m]) \in Nat \ {0} /\ m + 1 \in 1 .. MaxMessages + 1
  <2>1. MaxMessages \in Nat /\ m \in 1 .. MaxMessages /\ sent[m] \in Shapes /\ Spans = sent[m]
    BY <1>1, SentTypes DEF ConnectionInv, RequestInv, Spans
  <2> QED
    BY <2>1, ShapeFacts
<1>3. /\ at.span > Len(sent[m]) /\ at' = Start(m + 1)
      /\ IF closed THEN UNCHANGED <<completed, closed>>
                   ELSE completed' = m /\ closed' \in BOOLEAN
      /\ UNCHANGED <<sent, place, url, headers, headers_index, headers_size, data, pipelined>>
  BY <1>1, <1>2 DEF on_message_complete
<1>4. ~AtStart
  BY <1>2, <1>3 DEF AtStart, Start
<1>5. RequestTypes'
  <2>1. completed' \in 0 .. MaxMessages /\ closed' \in BOOLEAN
    BY <1>2, <1>3 DEF ConnectionInv, RequestInv, RequestTypes
  <2> QED
    BY <1>2, <1>3, <2>1 DEF ConnectionInv, RequestInv, RequestTypes, Start
<1>6. Placed'
  BY <1>2, <1>3, StartIsPlaced DEF ConnectionInv, RequestInv
<1>7. CASE closed
  <2>1. completed # 0 /\ completed' = completed /\ closed'
    BY <1>3, <1>7 DEF ConnectionInv, HandledInv, CompleteSoFar
  <2>2. Holds(completed, Len(sent[completed]) + 1, 0)'
          <=> Holds(completed, Len(sent[completed]) + 1, 0)
    BY <1>3, <2>1 DEF Holds
  <2>3. HeldSoFar'
    BY <1>3, <2>1, <2>2 DEF ConnectionInv, RequestInv, HeldSoFar
  <2> QED
    BY <1>5, <1>6, <2>3 DEF RequestInv
<1>8. CASE ~closed
  <2>1. completed' = m /\ completed' # 0
    BY <1>2, <1>3, <1>8
  <2>2. SUFFICES ASSUME ~pipelined
                 PROVE  AtStart' /\ Holds(completed, Len(sent[completed]) + 1, 0)'
    BY <1>3, <1>5, <1>6, <2>1 DEF RequestInv, HeldSoFar
  <2>3. completed = 0
    BY <1>4, <1>8, <2>2 DEF ConnectionInv, RequestInv, HeldSoFar
  <2>4. Holds(at.message, at.span, at.position)
    BY <1>4, <2>3 DEF ConnectionInv, RequestInv, HeldSoFar, on_message_complete
  <2>5. at.span = Len(sent[m]) + 1 /\ at.position = 0
    <3>1. at.span \in Nat /\ at.span <= Len(sent[m]) + 1 /\ at.position = 0
      BY <1>2, <1>3, SentTypes DEF ConnectionInv, RequestInv, Placed
    <3> QED
      BY <1>2, <1>3, <3>1
  <2>6. Holds(m, Len(sent[m]) + 1, 0)
    BY <1>1, <2>4, <2>5
  <2>7. AtStart'
    BY <1>2, <1>3 DEF AtStart, Start
  <2>8. Holds(m, Len(sent[m]) + 1, 0)'
    BY <1>3, <2>6 DEF Holds
  <2> QED
    BY <2>1, <2>7, <2>8 DEF Holds
<1> QED
  BY <1>7, <1>8

\* Steps of the connection that leave the request, and steps that forget it.
LEMMA SameRequest ==
  ASSUME RequestInv, UNCHANGED <<sent, at, request>>,
         place' \in {"idle", "execute", "executed"},
         place = "idle" /\ place' # "idle" => InStep
  PROVE  RequestInv'
<1>1. UNCHANGED <<url, headers, headers_index, headers_size, data, completed, closed,
                pipelined>>
  BY DEF request
<1>2. RequestTypes' /\ Placed'
  BY <1>1 DEF RequestInv, RequestTypes, Placed, More, Spans, Span, Start
<1>3. /\ NoRequest' <=> NoRequest
      /\ AtStart' <=> AtStart
      /\ More' <=> More
      /\ Holds(at.message, at.span, at.position)' <=> Holds(at.message, at.span, at.position)
      /\ Holds(completed, Len(sent[completed]) + 1, 0)'
           <=> Holds(completed, Len(sent[completed]) + 1, 0)
  BY <1>1 DEF NoRequest, AtStart, More, Holds, Start
<1>4. NoRequest /\ place' # "idle" => AtStart \/ place # "idle"
  BY DEF InStep, AtStart
<1>5. HeldSoFar'
  BY <1>1, <1>3, <1>4 DEF RequestInv, HeldSoFar
<1> QED
  BY <1>2, <1>5 DEF RequestInv

LEMMA ForgottenRequest ==
  ASSUME RequestTypes, sent' = sent, ForgetRequest, place' = "idle", Placed',
         at' = at \/ \E k \in 1 .. MaxMessages + 1 : at' = Start(k)
  PROVE  RequestInv'
<1>1. at' \in [message : 1 .. MaxMessages + 1, span : Nat \ {0}, position : Nat]
  BY DEF RequestTypes, Start
<1>2. RequestTypes'
  <2>1. completed' \in 0 .. MaxMessages
    BY RequestAssumption, SMT DEF ForgetRequest
  <2>2. closed' \in BOOLEAN /\ pipelined' \in BOOLEAN
    BY DEF ForgetRequest
  <2> QED
    BY <1>1, <2>1, <2>2 DEF RequestTypes
<1>3. HeldSoFar'
  BY DEF HeldSoFar, ForgetRequest, NoRequest
<1> QED
  BY <1>2, <1>3 DEF RequestInv

LEMMA RequestStep == ConnectionInv /\ [Next]_requestvars => RequestInv'
<1> SUFFICES ASSUME ConnectionInv, [Next]_requestvars PROVE RequestInv'
  OBVIOUS
<1>1. RequestInv /\ RequestTypes /\ Placed
  BY DEF ConnectionInv, RequestInv
<1>2. place \in {"idle", "execute", "executed"}
  BY <1>1 DEF RequestTypes
<1>3. CASE Receive \/ DataEnds \/ Wait \/ UNCHANGED requestvars
  <2>1. UNCHANGED <<sent, at, request>>
    BY <1>3 DEF Receive, DataEnds, Wait, requestvars
  <2>2. /\ place' \in {"idle", "execute", "executed"}
        /\ place = "idle" /\ place' # "idle" => InStep
    BY <1>2, <1>3 DEF Receive, DataEnds, Wait, requestvars
  <2> QED
    BY <1>1, <2>1, <2>2, SameRequest
<1>4. CASE Handle
  <2>1. sent' = sent /\ at' = at /\ ForgetRequest /\ place' = "idle"
    BY <1>4 DEF Handle
  <2>2. Placed'
    BY <1>1, <2>1 DEF Placed, More, Spans, Span, Start
  <2> QED
    BY <1>1, <2>1, <2>2, ForgottenRequest
<1>5. CASE ConnectionEnds
  <2>1. sent' = sent /\ ForgetRequest /\ place' = "idle"
    BY <1>5 DEF ConnectionEnds
  <2>2. CASE Begun
    <3>1. More /\ MaxMessages \in Nat /\ at.message \in 1 .. MaxMessages + 1
      BY <1>1, <2>2, SentTypes DEF Placed, Begun
    <3>2. PICK k \in 1 .. MaxMessages + 1 : k = at.message + 1
      BY <3>1 DEF More
    <3>3. at' = Start(k)
      BY <1>5, <2>2, <3>2 DEF ConnectionEnds
    <3>4. Placed'
      BY <1>1, <2>1, <3>3, StartIsPlaced
    <3> QED
      BY <1>1, <2>1, <3>3, <3>4, ForgottenRequest
  <2>3. CASE ~Begun
    <3>1. at' = at
      BY <1>5, <2>3 DEF ConnectionEnds
    <3>2. Placed'
      BY <1>1, <2>1, <3>1 DEF Placed, More, Spans, Span, Start
    <3> QED
      BY <1>1, <2>1, <3>1, <3>2, ForgottenRequest
  <2> QED
    BY <2>2, <2>3
<1>6. CASE /\ More /\ at.span <= Len(Spans)
           /\ \E n \in 0 .. Span.length, ends \in BOOLEAN : Parse(n, ends)
  <2>1. PICK n \in 0 .. Span.length, ends \in BOOLEAN : Parse(n, ends)
    BY <1>6
  <2> QED
    BY <1>6, <2>1, ParseKeepsRequest
<1>7. CASE More /\ on_message_complete
  BY <1>7, CompleteKeepsRequest
<1> QED
  BY <1>3, <1>4, <1>5, <1>6, <1>7 DEF Next

-----------------------------------------------------------------------------
(* What has been handled.                                                   *)

\* Steps that neither complete a message nor end a request.
LEMMA SameHandled ==
  ASSUME ConnectionInv, UNCHANGED <<handled, cut, completed, closed>>,
         at'.message = at.message,
         spoiled \subseteq spoiled',
         completed # 0 /\ ~AtStart' => at.message \in spoiled' /\ (closed \/ completed \in spoiled'),
         pipelined' => completed # 0,
         place' = "idle" => completed = 0
  PROVE  HandledInv'
<1>1. HandledSoFar'
  BY DEF ConnectionInv, HandledInv, HandledSoFar
<1>2. CompleteSoFar'
  BY DEF ConnectionInv, HandledInv, CompleteSoFar
<1>3. Accounted'
  BY DEF ConnectionInv, HandledInv, Accounted
<1> QED
  BY <1>1, <1>2, <1>3 DEF HandledInv

\* A piece behind a complete message spoils it, unless the parser is closed.
LEMMA ParseKeepsHandled ==
  ASSUME ConnectionInv, NEW n \in 0 .. Span.length, NEW ends \in BOOLEAN, Parse(n, ends)
  PROVE  HandledInv'
<1>1. /\ UNCHANGED <<handled, cut, completed, closed>>
      /\ pipelined' = (pipelined \/ (completed # 0 /\ ~closed))
      /\ spoiled' = IF completed = 0 THEN spoiled
                    ELSE spoiled \cup {at.message} \cup IF closed THEN {} ELSE {completed}
      /\ at' = IF ends THEN [at EXCEPT !.span = @ + 1, !.position = 0]
               ELSE [at EXCEPT !.position = @ + n]
  BY DEF Parse
<1>2. place' # "idle"
  BY DEF Parse
<1>3. at'.message = at.message
  BY <1>1 DEF ConnectionInv, RequestInv, RequestTypes
<1>4. pipelined' => completed # 0
  <2>1. pipelined => completed # 0
    BY DEF ConnectionInv, HandledInv, CompleteSoFar
  <2>2. pipelined' => pipelined \/ completed # 0
    BY <1>1
  <2> QED
    BY <2>1, <2>2
<1>5. spoiled \subseteq spoiled'
  BY <1>1
<1>6. completed # 0 => at.message \in spoiled' /\ (closed \/ completed \in spoiled')
  BY <1>1
<1> QED
  BY <1>1, <1>2, <1>3, <1>4, <1>5, <1>6, SameHandled

\* A message ends behind those it is accounted for with.
LEMMA CompleteKeepsHandled ==
  ASSUME ConnectionInv, More, on_message_complete
  PROVE  HandledInv'
<1>1. PICK m : m = at.message
  OBVIOUS
<1>2. /\ m \in Nat \ {0} /\ Len(Spans) \in Nat \ {0}
  <2>1. Spans \in Shapes /\ m \in Nat \ {0}
    BY <1>1, SentTypes DEF ConnectionInv, RequestInv
  <2> QED
    BY <2>1, ShapeFacts
<1>3. /\ at.span > Len(Spans) /\ place = "execute" /\ at' = Start(m + 1)
      /\ IF closed THEN UNCHANGED <<completed, closed>>
                   ELSE completed' = m /\ closed' \in BOOLEAN
      /\ UNCHANGED <<place, handled, cut, spoiled, pipelined>>
  BY <1>1 DEF on_message_complete
<1>4. ~AtStart
  BY <1>2, <1>3 DEF AtStart, Start
<1>5. at'.message = m + 1 /\ AtStart' /\ (m + 1) - 1 = m
  BY <1>2, <1>3 DEF AtStart, Start
<1>6. /\ handled \in Seq(Int)
      /\ \A i, j \in DOMAIN handled : i < j => handled[i] < handled[j]
      /\ \A i \in DOMAIN handled : handled[i] \in 1 .. m - 1 /\ handled[i] \notin cut
      /\ cut \subseteq 1 .. m - 1
  BY <1>1 DEF ConnectionInv, HandledInv, HandledSoFar
<1>7. HandledSoFar'
  <2>1. \A i \in DOMAIN handled : handled[i] \in 1 .. m
    BY <1>2, <1>6
  <2>2. cut \subseteq 1 .. m
    BY <1>2, <1>6
  <2> QED
    BY <1>3, <1>5, <1>6, <2>1, <2>2 DEF HandledSoFar
<1>8. /\ completed # 0 => /\ completed \in 1 .. m - 1 /\ completed \notin cut
                          /\ \A i \in DOMAIN handled : handled[i] < completed
      /\ completed # 0 => m \in spoiled /\ (closed \/ completed \in spoiled)
      /\ pipelined \/ closed => completed # 0
  BY <1>1, <1>4 DEF ConnectionInv, HandledInv, CompleteSoFar
<1>9. CompleteSoFar'
  <2>1. CASE closed
    <3>1. completed' = completed /\ completed # 0 /\ completed \in 1 .. m
      BY <1>2, <1>3, <1>8, <2>1
    <3> QED
      BY <1>3, <1>5, <1>8, <3>1 DEF CompleteSoFar
  <2>2. CASE ~closed
    <3>1. completed' = m /\ m # 0 /\ m \in 1 .. m /\ m \notin cut
      BY <1>2, <1>3, <1>6, <2>2
    <3>2. \A i \in DOMAIN handled : handled[i] < m
      BY <1>2, <1>6
    <3> QED
      BY <1>3, <1>5, <3>1, <3>2 DEF CompleteSoFar
  <2> QED
    BY <2>1, <2>2
<1>10. Accounted'
  <2>1. SUFFICES ASSUME NEW k \in 1 .. m
                 PROVE  \/ k = completed' \/ k \in cut \/ k \in spoiled
                        \/ \E i \in DOMAIN handled : handled[i] = k
    BY <1>3, <1>5 DEF Accounted
  <2>2. CASE k = m
    BY <1>3, <1>8, <2>2
  <2>3. CASE k # m
    <3>1. k \in 1 .. m - 1
      BY <1>2, <2>3
    <3>2. \/ k = completed \/ k \in cut \/ k \in spoiled
          \/ \E i \in DOMAIN handled : handled[i] = k
      BY <1>1, <3>1 DEF ConnectionInv, HandledInv, Accounted
    <3>3. k = completed => k = completed' \/ k \in spoiled
      BY <1>3, <1>8, <3>1
    <3> QED
      BY <3>2, <3>3
  <2> QED
    BY <2>2, <2>3
<1> QED
  BY <1>7, <1>9, <1>10 DEF HandledInv

\* The complete message is handled behind all that were before it.
LEMMA HandleKeepsHandled ==
  ASSUME ConnectionInv, Handle
  PROVE  HandledInv'
<1>1. /\ completed # 0 /\ place' = "idle"
      /\ handled' = Append(handled, completed)
      /\ completed' = 0 /\ ~closed' /\ ~pipelined'
      /\ UNCHANGED <<at, cut, spoiled>>
  BY DEF Handle, http_request_is_complete, ForgetRequest
<1>2. /\ handled \in Seq(Int)
      /\ \A i, j \in DOMAIN handled : i < j => handled[i] < handled[j]
      /\ \A i \in DOMAIN handled : handled[i] \in 1 .. at.message - 1 /\ handled[i] \notin cut
      /\ cut \subseteq 1 .. at.message - 1
  BY DEF ConnectionInv, HandledInv, HandledSoFar
<1>3. /\ completed \in 1 .. at.message - 1 /\ completed \notin cut
      /\ \A i \in DOMAIN handled : handled[i] < completed
  BY <1>1 DEF ConnectionInv, HandledInv, CompleteSoFar
<1>4. /\ Len(handled) \in Nat /\ DOMAIN handled = 1 .. Len(handled)
      /\ at.message \in Nat /\ completed \in Int
  <2>1. at.message \in Nat
    BY SentTypes DEF ConnectionInv, RequestInv
  <2> QED
    BY <1>2, <1>3, <2>1, LenProperties
<1>5. /\ handled' \in Seq(Int) /\ Len(handled') = Len(handled) + 1
      /\ DOMAIN handled' = 1 .. Len(handled) + 1
      /\ \A i \in 1 .. Len(handled) : handled'[i] = handled[i]
      /\ handled'[Len(handled) + 1] = completed
  <2>1. Append(handled, completed) \in Seq(Int)
    BY <1>2, <1>4, AppendProperties
  <2> QED
    BY <1>1, <1>2, <1>4, <2>1, AppendProperties, LenProperties
<1>6. \A i \in DOMAIN handled' : handled'[i] \in 1 .. at.message - 1 /\ handled'[i] \notin cut
  <2>1. SUFFICES ASSUME NEW i \in DOMAIN handled'
                 PROVE  handled'[i] \in 1 .. at.message - 1 /\ handled'[i] \notin cut
    OBVIOUS
  <2>2. CASE i \in 1 .. Len(handled)
    BY <1>2, <1>4, <1>5, <2>2
  <2>3. CASE i = Len(handled) + 1
    BY <1>3, <1>5, <2>3
  <2> QED
    BY <1>4, <1>5, <2>2, <2>3
<1>7. ASSUME NEW i \in DOMAIN handled', NEW j \in DOMAIN handled', i < j
      PROVE  handled'[i] < handled'[j]
  <2>1. i \in 1 .. Len(handled)
    BY <1>4, <1>5, <1>7
  <2>2. CASE j \in 1 .. Len(handled)
    BY <1>2, <1>4, <1>5, <1>7, <2>1, <2>2
  <2>3. CASE j = Len(handled) + 1
    BY <1>3, <1>4, <1>5, <2>1, <2>3
  <2> QED
    BY <1>4, <1>5, <2>2, <2>3
<1>8. HandledSoFar'
  BY <1>1, <1>2, <1>5, <1>6, <1>7 DEF HandledSoFar
<1>9. CompleteSoFar'
  BY <1>1 DEF CompleteSoFar
<1>10. Accounted'
  <2>1. SUFFICES ASSUME NEW k \in 1 .. at.message - 1
                 PROVE  \/ k \in cut \/ k \in spoiled
                        \/ \E i \in DOMAIN handled' : handled'[i] = k
    BY <1>1 DEF Accounted
  <2>2. \/ k = completed \/ k \in cut \/ k \in spoiled
        \/ \E i \in DOMAIN handled : handled[i] = k
    BY DEF ConnectionInv, HandledInv, Accounted
  <2>3. CASE k = completed
    <3>1. Len(handled) + 1 \in DOMAIN handled'
      BY <1>4, <1>5
    <3> QED
      BY <1>5, <2>3, <3>1
  <2>4. \A i \in DOMAIN handled : i \in DOMAIN handled' /\ handled'[i] = handled[i]
    BY <1>4, <1>5
  <2> QED
    BY <2>2, <2>3, <2>4
<1> QED
  BY <1>8, <1>9, <1>10 DEF HandledInv

\* What ends with the connection has not been handled, and is not handled later.
LEMMA EndKeepsHandled ==
  ASSUME ConnectionInv, ConnectionEnds
  PROVE  HandledInv'
<1>1. PICK m : m = at.message
  OBVIOUS
<1>2. m \in Nat \ {0}
  BY <1>1, SentTypes DEF ConnectionInv, RequestInv
<1>3. /\ completed' = 0 /\ ~closed' /\ ~pipelined' /\ place' = "idle" /\ handled' = handled
      /\ spoiled' = IF completed = 0 THEN spoiled ELSE spoiled \cup {completed}
  BY DEF ConnectionEnds, ForgetRequest
<1>4. /\ handled \in Seq(Int)
      /\ \A i, j \in DOMAIN handled : i < j => handled[i] < handled[j]
      /\ \A i \in DOMAIN handled : handled[i] \in 1 .. m - 1 /\ handled[i] \notin cut
      /\ cut \subseteq 1 .. m - 1
  BY <1>1 DEF ConnectionInv, HandledInv, HandledSoFar
<1>5. \A k \in 1 .. m - 1 : \/ k \in cut \/ k \in spoiled'
                            \/ \E i \in DOMAIN handled : handled[i] = k
  <2>1. SUFFICES ASSUME NEW k \in 1 .. m - 1
                 PROVE  \/ k \in cut \/ k \in spoiled'
                        \/ \E i \in DOMAIN handled : handled[i] = k
    OBVIOUS
  <2>2. \/ k = completed \/ k \in cut \/ k \in spoiled
        \/ \E i \in DOMAIN handled : handled[i] = k
    BY <1>1 DEF ConnectionInv, HandledInv, Accounted
  <2>3. k = completed => k \in spoiled'
    BY <1>2, <1>3
  <2>4. spoiled \subseteq spoiled'
    BY <1>3
  <2> QED
    BY <2>2, <2>3, <2>4
<1>6. CompleteSoFar'
  BY <1>3 DEF CompleteSoFar
<1>7. CASE Begun
  <2>1. at'.message = m + 1 /\ cut' = cut \cup {m} /\ (m + 1) - 1 = m
    BY <1>1, <1>2, <1>7 DEF ConnectionEnds, Start
  <2>2. \A i \in DOMAIN handled : handled[i] \in 1 .. m /\ handled[i] \notin cut'
    BY <1>2, <1>4, <2>1
  <2>3. cut' \subseteq 1 .. m
    BY <1>2, <1>4, <2>1
  <2>4. HandledSoFar'
    BY <1>3, <1>4, <2>1, <2>2, <2>3 DEF HandledSoFar
  <2>5. Accounted'
    <3>1. SUFFICES ASSUME NEW k \in 1 .. m
                   PROVE  \/ k \in cut' \/ k \in spoiled'
                          \/ \E i \in DOMAIN handled : handled[i] = k
      BY <1>3, <2>1 DEF Accounted
    <3>2. k = m \/ k \in 1 .. m - 1
      BY <1>2
    <3> QED
      BY <1>5, <2>1, <3>2
  <2> QED
    BY <1>6, <2>4, <2>5 DEF HandledInv
<1>8. CASE ~Begun
  <2>1. at'.message = m /\ cut' = cut
    BY <1>1, <1>8 DEF ConnectionEnds
  <2>2. HandledSoFar'
    BY <1>3, <1>4, <2>1 DEF HandledSoFar
  <2>3. Accounted'
    BY <1>3, <1>5, <2>1 DEF Accounted
  <2> QED
    BY <1>6, <2>2, <2>3 DEF HandledInv
<1> QED
  BY <1>7, <1>8

LEMMA HandledStep == ConnectionInv /\ [Next]_requestvars => HandledInv'
<1> SUFFICES ASSUME ConnectionInv, [Next]_requestvars PROVE HandledInv'
  OBVIOUS
<1>1. CASE Receive \/ DataEnds \/ Wait \/ UNCHANGED requestvars
  <2>1. UNCHANGED <<handled, cut, spoiled, completed, closed, pipelined, at>>
    BY <1>1 DEF Receive, DataEnds, Wait, requestvars, request
  <2>2. place' = "idle" => completed = 0
    BY <1>1 DEF Receive, DataEnds, Wait, requestvars, http_request_is_complete,
       ConnectionInv, HandledInv, CompleteSoFar
  <2>3. AtStart' <=> AtStart
    BY <2>1 DEF AtStart
  <2>4. /\ completed # 0 /\ ~AtStart' => at.message \in spoiled' /\ (closed \/ completed \in spoiled')
        /\ pipelined' => completed # 0
    BY <2>1, <2>3 DEF ConnectionInv, HandledInv, CompleteSoFar
  <2> QED
    BY <2>1, <2>2, <2>4, SameHandled
<1>2. CASE \E n \in 0 .. Span.length, ends \in BOOLEAN : Parse(n, ends)
  BY <1>2, ParseKeepsHandled
<1>3. CASE More /\ on_message_complete
  BY <1>3, CompleteKeepsHandled
<1>4. CASE Handle
  BY <1>4, HandleKeepsHandled
<1>5. CASE ConnectionEnds
  BY <1>5, EndKeepsHandled
<1> QED
  BY <1>1, <1>2, <1>3, <1>4, <1>5 DEF Next

-----------------------------------------------------------------------------
(* The theorems.                                                            *)

\* A connection begins in front of the first message.
LEMMA InitiallyNothing == Init => ConnectionInv
<1> SUFFICES ASSUME Init PROVE ConnectionInv
  OBVIOUS
<1>1. MaxMessages \in Nat /\ at = Start(1) /\ 1 \in 1 .. MaxMessages + 1
  BY RequestAssumption DEF Init
<1>2. RequestTypes
  <2>1. at \in [message : 1 .. MaxMessages + 1, span : Nat \ {0}, position : Nat]
    BY <1>1 DEF Start
  <2>2. completed \in 0 .. MaxMessages /\ closed = FALSE /\ pipelined = FALSE
    BY <1>1 DEF Init, NoRequest
  <2>3. sent \in [1 .. MaxMessages -> Shapes] /\ place = "idle"
    BY DEF Init
  <2> QED
    BY <2>1, <2>2, <2>3 DEF RequestTypes
<1>3. Placed
  <2>1. CASE More
    <3>1. Spans \in Shapes /\ at.span = 1 /\ at.position = 0
      BY <1>1, <1>2, <2>1, SentTypes DEF Start
    <3>2. Len(Spans) \in Nat \ {0}
      BY <3>1, ShapeFacts
    <3>3. 1 \in 1 .. Len(Spans)
      BY <3>2
    <3>4. Spans[1].length \in Nat
      BY <3>1, <3>3, ShapeFacts
    <3> QED
      BY <2>1, <3>1, <3>2, <3>4 DEF Placed, Span
  <2>2. CASE ~More
    BY <1>1, <2>2 DEF Placed, Start
  <2> QED
    BY <2>1, <2>2
<1>4. HeldSoFar
  BY <1>1 DEF Init, HeldSoFar, NoRequest, AtStart, Start
<1>5. HandledInv
  <2>1. handled = <<>> /\ DOMAIN handled = {} /\ handled \in Seq(Int) /\ cut = {}
    BY DEF Init
  <2>2. at.message = 1 /\ completed = 0 /\ ~closed /\ ~pipelined
    BY <1>1 DEF Init, NoRequest, Start
  <2> QED
    BY <2>1, <2>2 DEF HandledInv, HandledSoFar, CompleteSoFar, Accounted
<1> QED
  BY <1>2, <1>3, <1>4, <1>5 DEF ConnectionInv, RequestInv

\* The connection interleaves a request and a response: each of its steps is one of
\* the request or leaves that alone, and one of the response or leaves that alone.
LEMMA StepsOfConnection ==
  [ConnectionNext]_connectionvars => [Next]_requestvars /\ [ResponseNext]_responsevars
<1> SUFFICES ASSUME [ConnectionNext]_connectionvars
             PROVE  [Next]_requestvars /\ [ResponseNext]_responsevars
  OBVIOUS
<1>1. CASE Unanswered
  BY <1>1 DEF Unanswered
<1>2. CASE Answer
  BY <1>2 DEF Answer, ResponseNext
<1>3. CASE HandleAnswered
  BY <1>3 DEF HandleAnswered, Next
<1>4. CASE Answered
  BY <1>4 DEF Answered, ResponseNext
<1>5. CASE UNCHANGED connectionvars
  BY <1>5 DEF connectionvars
<1> QED
  BY <1>1, <1>2, <1>3, <1>4, <1>5 DEF ConnectionNext

\* For headers and bodies of any lengths: what is written of a response stays inside
\* of its buffer, as it grows and shrinks (http_response_add_data), when the last
\* piece begins within data_size or the whole is not longer than twice that.
THEOREM ResponsesFit == ConnectionSpec => []ResponseFits
<1>1. ConnectionInit => ResponseInv
  BY ResponseAssumption
  DEF ConnectionInit, ResponseInit, ResponseInv, ResponseTypes, ResponseFits
<1>2. ResponseInv /\ [ConnectionNext]_connectionvars => ResponseInv'
  BY ResponseStep, StepsOfConnection
<1>3. ResponseInv => ResponseFits
  BY DEF ResponseInv
<1> QED
  BY <1>1, <1>2, <1>3, PTL DEF ConnectionSpec

\* The request belongs to the place of the parser, and what has been handled to the
\* messages before it: the invariant the two theorems below rest on.
THEOREM ConnectionCorrect == ConnectionSpec => []ConnectionInv
<1>1. ConnectionInv /\ [Next]_requestvars => ConnectionInv'
  BY RequestStep, HandledStep DEF ConnectionInv
<1>2. ConnectionInv /\ [ConnectionNext]_connectionvars => ConnectionInv'
  BY <1>1, StepsOfConnection
<1>3. ConnectionInit => ConnectionInv
  BY InitiallyNothing DEF ConnectionInit
<1> QED
  BY <1>2, <1>3, PTL DEF ConnectionSpec

\* For messages of any number of headers and any lengths, cut anywhere: what the
\* handlers read of a complete request is the message that was sent.
THEOREM RequestIsAsSent == ConnectionSpec => []RequestAsSent
<1>1. ConnectionInv => RequestAsSent
  <2>1. SUFFICES ASSUME ConnectionInv, completed # 0, ~pipelined PROVE RequestAsSent
    BY DEF RequestAsSent
  <2>2. /\ MaxMessages \in Nat /\ completed \in 0 .. MaxMessages
        /\ sent \in [1 .. MaxMessages -> Shapes]
        /\ Holds(completed, Len(sent[completed]) + 1, 0)
    BY <2>1, SentTypes DEF ConnectionInv, RequestInv, RequestTypes, HeldSoFar
  <2>3. completed \in Nat /\ completed \in 1 .. MaxMessages /\ sent[completed] \in Shapes
    BY <2>1, <2>2
  <2> QED
    BY <2>2, <2>3, WholeIsHeld DEF RequestAsSent
<1> QED
  BY ConnectionCorrect, <1>1, PTL

\* Messages are handled in order and each at most once, for any number of them and
\* wherever connections end; none is passed over but those cut off by the end of the
\* connection and those with another message, or an error, behind them in a receive.
THEOREM EachIsHandledOnce == ConnectionSpec => []HandledOnce
<1>1. ConnectionInv => HandledOnce
  <2>1. SUFFICES ASSUME ConnectionInv PROVE HandledOnce
    OBVIOUS
  <2>2. place = "idle" =>
          \A m \in 1 .. at.message - 1 :
            m \in cut \/ m \in spoiled \/ \E i \in DOMAIN handled : handled[i] = m
    <3>1. SUFFICES ASSUME place = "idle", NEW m \in 1 .. at.message - 1
                   PROVE  m \in cut \/ m \in spoiled \/ \E i \in DOMAIN handled : handled[i] = m
      OBVIOUS
    <3>2. completed = 0 /\ m # 0
      BY <2>1, <3>1 DEF ConnectionInv, HandledInv, CompleteSoFar
    <3> QED
      BY <2>1, <3>2 DEF ConnectionInv, HandledInv, Accounted
  <2> QED
    BY <2>1, <2>2 DEF ConnectionInv, HandledInv, HandledSoFar, HandledOnce
<1> QED
  BY ConnectionCorrect, <1>1, PTL
=============================================================================
