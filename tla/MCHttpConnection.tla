-------------------------- MODULE MCHttpConnection --------------------------
(* A message with two headers, the second of them empty, and a body; one     *)
(* with an empty header in front; and one with neither headers nor body.     *)
(* The answers have a CSeq of the client that is empty, longer than          *)
(* data_size or longer than twice data_size, and a header of the program.    *)
EXTENDS HttpConnection

Of(kind, length) == [kind |-> kind, length |-> length]

MCShapes ==
  {<<Of("url", 2), Of("field", 2), Of("value", 2), Of("field", 1), Of("value", 0),
     Of("body", 2)>>,
   <<Of("url", 1), Of("field", 1), Of("value", 0), Of("field", 2), Of("value", 1)>>,
   <<Of("url", 2)>>}

Header(name, value) == [name |-> name, value |-> value]

MCHeaders == {Header(4, 0), Header(4, 1100), Header(4, 3000), Header(6, 15)}
=============================================================================
