------------------------- MODULE MCConnectionInput -------------------------
(* What clients send, for TLC: requests with and without a body, good and    *)
(* malformed, and frames at the limits of the three forms of their length.   *)
EXTENDS ConnectionInput, TLC, SequencesExt

\* Put the elements one behind the other.
Layout(elements) ==
  FoldLeft(LAMBDA laid, e :
             Append(laid, [at |-> IF laid = <<>> THEN 0
                                  ELSE Last(laid).at + SizeOf(Last(laid))] @@ e),
           <<>>, elements)

RequestLine(spaces) == [kind |-> "request", size |-> 16, spaces |-> spaces]
Header(name, length, colon) ==
  [kind |-> "header", size |-> 8, spaces |-> {2, 4}, name |-> name, length |-> length,
   colon |-> colon]
Blank == [kind |-> "blank", size |-> 2]
Body(n) == [kind |-> "body", size |-> n]
Frame(opcode, form, payload) ==
  [kind |-> "frame", opcode |-> opcode, form |-> form, payload |-> payload, fin |-> TRUE,
   rsv |-> FALSE, masked |-> TRUE, utf8 |-> TRUE]

GoodLine == RequestLine({3, 5})
Upgrade == <<GoodLine, Header("Upgrade", 0, TRUE), Blank>>
Post(n, size) == <<GoodLine, Header("Content-Length", n, TRUE), Blank, Body(size)>>
Text(n) == Frame("Text", 7, n)

MCStreams == {
  Layout(Post(5, 5) \o <<Text(0)>>),
  Layout(Post(-1, 5)),
  Layout(<<GoodLine, Header("Content-Length", 5, TRUE), Header("Content-Length", 1, TRUE),
            Blank, Body(1), Text(0)>>),
  Layout(<<RequestLine({}), Header("other", 0, TRUE), Blank>>),
  Layout(<<GoodLine, Header("other", 0, FALSE), Blank>>),
  Layout(Upgrade \o <<Text(3), Frame("Binary", 7, 125), Frame("Close", 7, 2), Text(1)>>),
  Layout(Upgrade \o <<Frame("Text", 16, 126), Frame("Ping", 7, 125)>>),
  Layout(Upgrade \o <<Frame("Text", 16, 65535), Frame("Text", 64, 65536)>>),
  Layout(Upgrade \o <<Text(1), Frame("Text", 64, 1048576), Frame("Text", 64, 1048577)>>),
  Layout(Upgrade \o <<Text(1), Frame("Text", 16, 125)>>),
  Layout(Upgrade \o <<Text(1), [Text(2) EXCEPT !.fin = FALSE], Text(1)>>),
  Layout(Upgrade \o <<Text(1), [Text(2) EXCEPT !.utf8 = FALSE], Text(1)>>),
  Layout(Upgrade \o <<Text(1), [Text(1) EXCEPT !.masked = FALSE]>>),
  Layout(<<GoodLine, Header("Upgrade", 0, TRUE), Header("Content-Length", 4, TRUE),
            Blank, Body(4), Text(1)>>)}
=============================================================================
