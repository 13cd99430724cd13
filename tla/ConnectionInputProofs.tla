----------------------- MODULE ConnectionInputProofs -----------------------
(***************************************************************************)
(* Proofs about ConnectionInput, for every stream a client may send and    *)
(* every way the network may cut it: a well-formed request is parsed to    *)
(* its last byte and no further, and frames are read as they were sent.    *)
(*                                                                         *)
(* Both rest on one invariant.  It says where in the stream the parser     *)
(* stands in each of its states, that the frame numbers in the three       *)
(* queues a frame passes (parsed, ready, delivered) ascend and lie behind  *)
(* one another, and that no message the parser has passed is missing.      *)
(***************************************************************************)
EXTENDS ConnectionInput, FiniteSetTheorems, WellFoundedInduction, TLAPS

\* The stream is fixed; these name its parts apart from the state.
At(s, i) == s[i].at
Behind(s, i) == s[i].at + SizeOf(s[i])
Numbers(s, kind) == {i \in 1..Len(s) : s[i].kind = kind}
BlankOf(s) == CHOOSE i \in Numbers(s, "blank") : TRUE
HeadersValid(s) == \A i \in 2..(BlankOf(s) - 1) : HeaderValid(s[i])
EndsOf(s) == {i \in Numbers(s, "frame") : ~LegalFrame(s[i]) \/ s[i].opcode = "Close"
                                            \/ ~s[i].utf8}
ExpectedOf(s) == {i \in Numbers(s, "frame") : /\ s[i].opcode \in {"Text", "Binary"}
                                              /\ \A j \in EndsOf(s) : i < j}

\* Where the HTTP parser stands, and what it has learnt.
Parsing ==
  /\ state_ = "RequestLine" => consumed = 0 /\ content_length = 0 /\ ~garbled
  /\ state_ = "Header" =>
       \E i \in 2..BlankOf(stream) :
         /\ consumed = At(stream, i) /\ content_length = Announced(stream, i)
         /\ \A j \in 2..(i - 1) : HeaderValid(stream[j])
  /\ state_ = "Body" =>
       /\ consumed = Behind(stream, BlankOf(stream))
       /\ content_length = Announced(stream, BlankOf(stream)) /\ content_length # 0
       /\ HeadersValid(stream)
  /\ state_ = "Complete" /\ where \in {"http", "parse", "handed"} =>
       /\ consumed = Behind(stream, BlankOf(stream)) + Announced(stream, BlankOf(stream))
       /\ HeadersValid(stream)
  /\ state_ = "Error" \/ garbled => ~WellFormedRequest

\* The states of a connection that was handed over.
Upgraded == {"poll", "reading", "framing", "handling", "dispatching"}

\* The WebSocket parser stands in front of a frame or behind the last one; the
\* queues are empty where the code has no such variable.
Framing ==
  /\ where \in {"handed"} \union Upgraded => state_ = "Complete"
  /\ where \in Upgraded =>
       \/ consumed = Behind(stream, Len(stream))
       \/ \E i \in Numbers(stream, "frame") : consumed = At(stream, i)
  /\ where \notin {"framing", "handling"} => parsed = <<>>
  /\ where \in {"http", "parse", "handed", "poll"} => ready = <<>>
  /\ where \in {"http", "parse", "handed"} => delivered = <<>>
  /\ where \notin {"dispatching", "gone"} => status = "NeedMoreData"

Held(q) == {q[k] : k \in 1..Len(q)}
\* Apart from the numbers 0 of the heartbeat's Pong, each is greater than those before.
Ascending(q) == \A j, k \in 1..Len(q) : j < k => q[k] = 0 \/ q[j] < q[k]

Ordered ==
  /\ Ascending(delivered) /\ Ascending(ready) /\ Ascending(parsed)
  /\ \A x \in Held(delivered) : \A y \in Held(ready) : x < y
  /\ \A x \in Held(delivered) \union Held(ready) : \A y \in Held(parsed) : y = 0 \/ x < y
  /\ \A x \in Held(delivered) \union Held(ready) \union Held(parsed) :
       x = 0 \/ (x \in Numbers(stream, "frame") /\ Behind(stream, x) <= consumed)

\* No message the parser has passed is missing, ...
Kept ==
  where \in Upgraded /\ status # "ProtocolError" =>
    \A i \in ExpectedOf(stream) : Behind(stream, i) <= consumed =>
      i \in Held(delivered) \union Held(ready) \union Held(parsed)

\* ... and none is missing in front of one that was read, whatever was dropped since.
NoGap ==
  \A i \in ExpectedOf(stream) : \A x \in Held(delivered) \union Held(ready) :
    i < x => i \in Held(delivered) \union Held(ready)

Blamed ==
  status = "ProtocolError" => \E i \in Numbers(stream, "frame") : ~LegalFrame(stream[i])

Inv == TypeOK /\ Parsing /\ Framing /\ Ordered /\ Kept /\ NoGap /\ Blamed

-----------------------------------------------------------------------------
(* The layout of a stream.                                                  *)

\* Every element takes at least a byte.
LEMMA SizePositive ==
    ASSUME NEW e \in Elements
    PROVE  /\ e.kind \in {"request", "header", "blank", "body", "frame"}
           /\ e.at \in Nat
           /\ SizeOf(e) \in Nat \ {0}
           /\ e.kind = "frame" => e \in Frames
           /\ e.kind # "frame" => SizeOf(e) = e.size
           /\ e.kind = "header" => e \in HeaderLine
           /\ e.kind = "request" => e \in Line
  <1>1. CASE e \in Frames
    <2>1. e.kind = "frame" /\ e.at \in Nat /\ e.form \in {7, 16, 64} /\ e.payload \in Nat
      BY <1>1 DEF Frames
    <2>2. HeaderSize(e) \in {2, 4, 10}
      BY <2>1 DEF HeaderSize
    <2> QED
      BY <1>1, <2>1, <2>2 DEF SizeOf, MaskSize
  <1>2. CASE e \in HeaderLine
    BY <1>2 DEF HeaderLine, SizeOf
  <1>3. CASE e \in Line
    BY <1>3 DEF Line, SizeOf
  <1>4. CASE e \in [kind : {"blank"}, at : Nat, size : {2}]
    BY <1>4 DEF SizeOf
  <1>5. CASE e \in [kind : {"body"}, at : Nat, size : Nat \ {0}]
    BY <1>5 DEF SizeOf
  <1> QED
    BY <1>1, <1>2, <1>3, <1>4, <1>5 DEF Elements

\* Where an element begins and ends.
LEMMA ElementLayout ==
    ASSUME NEW s \in Streams, NEW i \in 1..Len(s)
    PROVE  /\ Len(s) \in Nat
           /\ s[i] \in Elements
           /\ At(s, i) \in Nat /\ Behind(s, i) \in Nat
           /\ At(s, i) < Behind(s, i)
           /\ At(s, i) = IF i = 1 THEN 0 ELSE Behind(s, i - 1)
  <1>1. s \in Seq(Elements) /\ s[i].at = IF i = 1 THEN 0 ELSE s[i - 1].at + SizeOf(s[i - 1])
    BY LayoutAssumption
  <1>2. Len(s) \in Nat /\ s[i] \in Elements
    BY <1>1
  <1>3. s[i].at \in Nat /\ SizeOf(s[i]) \in Nat \ {0}
    BY <1>2, SizePositive
  <1> QED
    BY <1>1, <1>2, <1>3 DEF At, Behind

\* An element ends before a later one begins: the first that did not would begin
\* where the one before it ends.
LEMMA LaterBegins ==
    ASSUME NEW s \in Streams, NEW i \in 1..Len(s), NEW j \in 1..Len(s), i < j
    PROVE  Behind(s, i) <= At(s, j)
  <1> SUFFICES ASSUME At(s, j) < Behind(s, i) PROVE FALSE
    BY ElementLayout
  <1> DEFINE T == {m \in Nat : i < m /\ m <= Len(s) /\ At(s, m) < Behind(s, i)}
  <1>1. Len(s) \in Nat
    BY ElementLayout
  <1>2. T # {} /\ T \subseteq Nat
    BY <1>1
  <1>3. PICK m \in T : \A y \in T : <<y, m>> \notin OpToRel(<, Nat)
    BY <1>2, NatLessThanWellFounded, WFMin, Zenon
  <1>4. m - 1 \notin T /\ m \in 2..Len(s) /\ i < m /\ At(s, m) < Behind(s, i)
    <2>0. m \in Nat /\ i < m /\ m <= Len(s) /\ At(s, m) < Behind(s, i)
      OBVIOUS
    <2>1. m \in 2..Len(s) /\ i < m /\ At(s, m) < Behind(s, i)
      BY <1>1, <2>0
    <2>2. m - 1 \in T => m - 1 < m /\ m - 1 \in Nat
      BY <2>1
    <2> QED
      BY <1>3, <2>1, <2>2 DEF OpToRel
  <1>5. At(s, m) = Behind(s, m - 1) /\ At(s, m - 1) < Behind(s, m - 1)
        /\ At(s, m - 1) \in Nat /\ Behind(s, m - 1) \in Nat
    <2>1. m \in 1..Len(s) /\ m - 1 \in 1..Len(s) /\ m # 1
      BY <1>1, <1>4
    <2> QED
      BY <2>1, ElementLayout
  <1>6. Behind(s, i) \in Nat
    BY ElementLayout
  <1>7. CASE m - 1 = i
    BY <1>4, <1>5, <1>6, <1>7
  <1>8. CASE m - 1 # i
    <2>1. m - 1 \in Nat /\ i < m - 1 /\ m - 1 <= Len(s)
      BY <1>1, <1>4, <1>8
    <2>2. ~(At(s, m - 1) < Behind(s, i))
      BY <1>4, <2>1
    <2> QED
      BY <2>2, <1>4, <1>5, <1>6
  <1> QED
    BY <1>7, <1>8

\* Positions order the elements.
LEMMA PositionsOrder ==
    ASSUME NEW s \in Streams, NEW i \in 1..Len(s), NEW j \in 1..Len(s)
    PROVE  /\ At(s, i) = At(s, j) => i = j
           /\ Behind(s, i) <= At(s, j) <=> i < j
           /\ Behind(s, i) <= Behind(s, j) <=> i <= j
  <1>1. /\ At(s, i) \in Nat /\ Behind(s, i) \in Nat /\ At(s, i) < Behind(s, i)
        /\ At(s, j) \in Nat /\ Behind(s, j) \in Nat /\ At(s, j) < Behind(s, j)
        /\ i \in Nat /\ j \in Nat
    BY ElementLayout
  <1>2. CASE i < j
    BY <1>1, <1>2, LaterBegins
  <1>3. CASE j < i
    BY <1>1, <1>3, LaterBegins
  <1>4. CASE i = j
    BY <1>1, <1>4
  <1> QED
    BY <1>1, <1>2, <1>3, <1>4

\* What stands where in a stream.
LEMMA Shape ==
    ASSUME NEW s \in Streams
    PROVE  /\ Len(s) \in Nat /\ BlankOf(s) \in 2..Len(s)
           /\ s[1].kind = "request" /\ s[BlankOf(s)].kind = "blank"
           /\ \A i \in 2..(BlankOf(s) - 1) : s[i].kind = "header"
           /\ \A i \in (BlankOf(s) + 1)..Len(s) :
                s[i].kind = "frame" \/ (i = BlankOf(s) + 1 /\ s[i].kind = "body")
           /\ HeadersValid(s) =>
                IF Announced(s, BlankOf(s)) = 0
                THEN BlankOf(s) < Len(s) => s[BlankOf(s) + 1].kind = "frame"
                ELSE /\ BlankOf(s) < Len(s) /\ s[BlankOf(s) + 1].kind = "body"
                     /\ s[BlankOf(s) + 1].size = Announced(s, BlankOf(s))
  <1>1. PICK b \in 2..Len(s) :
          /\ s[1].kind = "request" /\ s[b].kind = "blank"
          /\ \A i \in 2..(b - 1) : s[i].kind = "header"
          /\ \A i \in (b + 1)..Len(s) : s[i].kind = "frame" \/ (i = b + 1 /\ s[i].kind = "body")
          /\ (\A i \in 2..(b - 1) : HeaderValid(s[i])) =>
               IF Announced(s, b) = 0 THEN b < Len(s) => s[b + 1].kind = "frame"
               ELSE b < Len(s) /\ s[b + 1].kind = "body" /\ s[b + 1].size = Announced(s, b)
    BY StreamAssumption
  <1>2. Len(s) \in Nat
    BY LayoutAssumption
  <1>3. \A i \in 1..Len(s) : s[i].kind = "blank" => i = b
    BY <1>1, <1>2
  <1>4. BlankOf(s) = b
    BY <1>1, <1>2, <1>3 DEF BlankOf, Numbers
  <1> QED
    BY <1>1, <1>2, <1>4 DEF HeadersValid

\* Frames stand behind the blank line, each in front of another or of the end.
LEMMA FramesBehind ==
    ASSUME NEW s \in Streams, NEW i \in Numbers(s, "frame")
    PROVE  /\ i \in 1..Len(s) /\ s[i] \in Frames /\ i > BlankOf(s)
           /\ i # Len(s) => i + 1 \in Numbers(s, "frame") /\ At(s, i + 1) = Behind(s, i)
  <1>1. i \in 1..Len(s) /\ s[i].kind = "frame"
    BY DEF Numbers
  <1>2. s[i] \in Frames
    BY <1>1, ElementLayout, SizePositive
  <1>3. i > BlankOf(s)
    BY <1>1, Shape
  <1>4. ASSUME i # Len(s) PROVE i + 1 \in Numbers(s, "frame") /\ At(s, i + 1) = Behind(s, i)
    <2>1. Len(s) \in Nat /\ BlankOf(s) \in Nat
      BY Shape
    <2>2. i + 1 \in 1..Len(s) /\ i + 1 \in (BlankOf(s) + 1)..Len(s) /\ i + 1 # BlankOf(s) + 1
      BY <1>1, <1>3, <1>4, <2>1
    <2>3. s[i + 1].kind = "frame"
      BY <2>2, Shape
    <2>4. At(s, i + 1) = Behind(s, (i + 1) - 1)
      BY <2>2, <1>1, ElementLayout
    <2> QED
      BY <1>1, <2>2, <2>3, <2>4 DEF Numbers
  <1> QED
    BY <1>1, <1>2, <1>3, <1>4

\* A complete request ends where a frame begins or where the stream ends, and no
\* frame stands in front of it.
LEMMA RequestEnds ==
    ASSUME NEW s \in Streams, HeadersValid(s),
           NEW c, c = Behind(s, BlankOf(s)) + Announced(s, BlankOf(s))
    PROVE  /\ c = Behind(s, Len(s)) \/ \E i \in Numbers(s, "frame") : c = At(s, i)
           /\ \A i \in Numbers(s, "frame") : c < Behind(s, i)
  <1> DEFINE b == BlankOf(s)
  <1> DEFINE last == IF Announced(s, b) = 0 THEN b ELSE b + 1
  <1>1. Len(s) \in Nat /\ b \in 2..Len(s)
    BY Shape
  <1>2. last \in 1..Len(s) /\ Behind(s, last) = c
    <2>1. CASE Announced(s, b) = 0
      <3>1. Behind(s, b) \in Nat
        BY <1>1, ElementLayout
      <3> QED
        BY <1>1, <2>1, <3>1
    <2>2. CASE Announced(s, b) # 0
      <3>1. b < Len(s) /\ s[b + 1].kind = "body" /\ s[b + 1].size = Announced(s, b)
        BY <2>2, Shape
      <3>2. b + 1 \in 1..Len(s) /\ (b + 1) - 1 = b /\ b + 1 # 1
        BY <1>1, <3>1
      <3>3. s[b + 1] \in Elements /\ At(s, b + 1) = Behind(s, b)
        BY <3>2, ElementLayout
      <3>4. SizeOf(s[b + 1]) = Announced(s, b)
        BY <3>1, <3>3, SizePositive
      <3>5. Behind(s, b + 1) = At(s, b + 1) + SizeOf(s[b + 1])
        BY DEF At, Behind
      <3> QED
        BY <2>2, <3>2, <3>3, <3>4, <3>5
    <2> QED
      BY <2>1, <2>2
  <1>3. last < Len(s) => last + 1 \in Numbers(s, "frame")
    <2> SUFFICES ASSUME last < Len(s) PROVE last + 1 \in 1..Len(s) /\ s[last + 1].kind = "frame"
      BY DEF Numbers
    <2>1. CASE Announced(s, b) = 0
      BY <1>1, <2>1, Shape
    <2>2. CASE Announced(s, b) # 0
      <3>1. b + 2 \in (b + 1)..Len(s) /\ b + 2 # b + 1 /\ last + 1 = b + 2
        BY <1>1, <2>2
      <3> QED
        BY <1>1, <3>1, Shape
    <2> QED
      BY <2>1, <2>2
  <1>4. \A i \in Numbers(s, "frame") : i > last
    <2> SUFFICES ASSUME NEW i \in Numbers(s, "frame") PROVE i > last
      OBVIOUS
    <2>1. i > b /\ i \in 1..Len(s) /\ s[i].kind = "frame"
      BY FramesBehind DEF Numbers
    <2>2. CASE Announced(s, b) = 0
      BY <2>1, <2>2
    <2>3. CASE Announced(s, b) # 0
      <3>1. s[b + 1].kind = "body"
        BY <2>3, Shape
      <3> QED
        BY <1>1, <2>1, <2>3, <3>1
    <2> QED
      BY <2>2, <2>3
  <1> HIDE DEF last
  <1>5. c = Behind(s, Len(s)) \/ \E i \in Numbers(s, "frame") : c = At(s, i)
    <2>1. CASE last = Len(s)
      BY <1>2, <2>1
    <2>2. CASE last # Len(s)
      <3>1. last + 1 \in Numbers(s, "frame") /\ last + 1 \in 1..Len(s) /\ (last + 1) - 1 = last
            /\ last + 1 # 1
        BY <1>1, <1>2, <1>3, <2>2 DEF Numbers
      <3>2. At(s, last + 1) = Behind(s, last)
        BY <3>1, ElementLayout
      <3> QED
        BY <1>2, <3>1, <3>2
    <2> QED
      BY <2>1, <2>2
  <1>6. \A i \in Numbers(s, "frame") : c < Behind(s, i)
    <2> SUFFICES ASSUME NEW i \in Numbers(s, "frame") PROVE c < Behind(s, i)
      OBVIOUS
    <2>1. i > last /\ i \in 1..Len(s)
      BY <1>4 DEF Numbers
    <2>2. Behind(s, last) <= At(s, i) /\ At(s, i) < Behind(s, i) /\ At(s, i) \in Nat
          /\ Behind(s, i) \in Nat /\ Behind(s, last) \in Nat
      BY <1>2, <2>1, LaterBegins, ElementLayout
    <2> QED
      BY <1>2, <2>2
  <1> QED
    BY <1>5, <1>6

\* The end of the stream bounds every element.
LEMMA TotalBounds ==
    ASSUME NEW s \in Streams
    PROVE  /\ Behind(s, Len(s)) \in Nat
           /\ \A i \in 1..Len(s) : Behind(s, i) <= Behind(s, Len(s))
  <1>1. Len(s) \in Nat /\ Len(s) \in 1..Len(s)
    BY Shape
  <1>2. Behind(s, Len(s)) \in Nat
    BY <1>1, ElementLayout
  <1>3. \A i \in 1..Len(s) : Behind(s, i) <= Behind(s, Len(s))
    BY <1>1, PositionsOrder
  <1> QED
    BY <1>2, <1>3

\* The headers in front of a line are those in front of the line before it and that line.
LEMMA AnnouncedNext ==
    ASSUME NEW s \in Streams, NEW i \in 1..Len(s)
    PROVE  Announced(s, i + 1) =
             IF s[i].kind = "header" /\ s[i].name = "Content-Length" THEN s[i].length
             ELSE Announced(s, i)
  <1> DEFINE Hs(n) == {j \in 1..(n - 1) : s[j].kind = "header" /\ s[j].name = "Content-Length"}
  <1> DEFINE Top(n) == CHOOSE j \in Hs(n) : \A k \in Hs(n) : k <= j
  <1>1. \A n : Announced(s, n) = IF Hs(n) = {} THEN 0 ELSE s[Top(n)].length
    BY DEF Announced
  <1>2. i \in Nat
    BY Shape
  <1>3. CASE s[i].kind = "header" /\ s[i].name = "Content-Length"
    <2>1. i \in Hs(i + 1) /\ \A k \in Hs(i + 1) : k <= i /\ k \in Nat
      BY <1>2, <1>3
    <2>2. Top(i + 1) = i
      BY <1>2, <2>1
    <2> QED
      BY <1>1, <1>3, <2>1, <2>2
  <1>4. CASE ~(s[i].kind = "header" /\ s[i].name = "Content-Length")
    <2>1. Hs(i + 1) = Hs(i)
      BY <1>2, <1>4
    <2>2. Top(i + 1) = Top(i)
      BY <2>1
    <2> HIDE DEF Hs, Top
    <2> QED
      BY <1>1, <1>4, <2>1, <2>2
  <1> QED
    BY <1>3, <1>4

\* The first line announces nothing.
LEMMA AnnouncedFirst ==
    ASSUME NEW s \in Streams
    PROVE  Announced(s, 2) = 0
  <1> DEFINE Hs == {j \in 1..(2 - 1) : s[j].kind = "header" /\ s[j].name = "Content-Length"}
  <1>1. s[1].kind = "request"
    BY Shape
  <1>2. Hs = {}
    BY <1>1
  <1> QED
    BY <1>2 DEF Announced

-----------------------------------------------------------------------------
(* The names of the model are those of the parts of its stream.              *)

\* The state operators of the model are those parts of its stream.
LEMMA Names ==
    /\ \A i : Start(i) = At(stream, i)
    /\ \A i : End(i) = Behind(stream, i)
    /\ \A k : Kind(k) = Numbers(stream, k)
    /\ Total = Behind(stream, Len(stream))
    /\ RequestEnd = BlankOf(stream)
    /\ BodySize = Announced(stream, BlankOf(stream))
    /\ Ends = EndsOf(stream)
    /\ Expected = ExpectedOf(stream)
  <1>1. (\A i : Start(i) = At(stream, i)) /\ (\A i : End(i) = Behind(stream, i))
    BY DEF Start, End, At, Behind
  <1>2. \A k : Kind(k) = Numbers(stream, k)
    BY Zenon DEF Kind, Numbers
  <1>3. Total = Behind(stream, Len(stream))
    BY <1>1, Zenon DEF Total
  <1>4. RequestEnd = BlankOf(stream)
    BY <1>2, Zenon DEF RequestEnd, BlankOf
  <1>5. BodySize = Announced(stream, BlankOf(stream))
    BY <1>4, Zenon DEF BodySize
  <1>6. Ends = EndsOf(stream)
    BY Zenon DEF Ends, EndsOf, Kind, Numbers
  <1>7. Expected = ExpectedOf(stream)
    BY <1>6, Zenon DEF Expected, ExpectedOf, Kind, Numbers
  <1> QED
    BY <1>1, <1>2, <1>3, <1>4, <1>5, <1>6, <1>7

\* Only one element begins where the parsers are.
LEMMA HereIs ==
    ASSUME stream \in Streams, NEW i \in 1..Len(stream), consumed = At(stream, i)
    PROVE  Here = i
  <1>1. \A j \in 1..Len(stream) : Start(j) = consumed <=> j = i
    BY Names, PositionsOrder
  <1> QED
    BY <1>1 DEF Here

\* The request line and the headers are well-formed in the stream's own terms.
LEMMA WellFormedIs ==
    ASSUME stream \in Streams
    PROVE  /\ WellFormedRequest => Cardinality(stream[1].spaces) = 2 /\ HeadersValid(stream)
           /\ WellFormedRequest => \A i \in 1..Len(stream) :
                                      stream[i].kind = "header" => HeaderValid(stream[i])
  <1>1. WellFormedRequest => \A i \in 1..Len(stream) :
                                      stream[i].kind = "header" => HeaderValid(stream[i])
    BY DEF WellFormedRequest, Kind
  <1>2. /\ Len(stream) \in Nat /\ BlankOf(stream) \in 2..Len(stream)
        /\ stream[1].kind = "request"
        /\ \A i \in 2..(BlankOf(stream) - 1) : stream[i].kind = "header"
    BY Shape
  <1>3. WellFormedRequest => HeadersValid(stream)
    BY <1>1, <1>2 DEF HeadersValid
  <1>4. WellFormedRequest => Cardinality(stream[1].spaces) = 2
    BY <1>2 DEF WellFormedRequest, Kind
  <1> QED
    BY <1>1, <1>3, <1>4

-----------------------------------------------------------------------------
(* The parts of the state that an action leaves alone.                       *)

\* No step changes what the client sends.
LEMMA StreamFixed ==
    ASSUME [Next]_vars
    PROVE  stream' = stream
  <1>1. ASSUME Client PROVE stream' = stream
    BY <1>1 DEF Client, Arrive, ClientFin, ClientDies, ClientPong, client
  <1>2. ASSUME Http PROVE stream' = stream
    BY <1>2 DEF Http, HttpRead, HttpGivesUp, ParseNeedsMore, ParseRequestLine, ParseHeader,
                ParseBody, HttpAnswers, HandOver, Handshake, client
  <1>3. ASSUME Handler PROVE stream' = stream
    BY <1>3 DEF Handler, ReadEvent, Read, ReadEnds, ParseFrame, ParseStops, ParseFails,
                HandlesAll, HandleMessage, HandlePing, HandlePong, HandleClose, HandleFragment,
                DispatchFrame, DispatchThrows, ReadHandled, client
  <1>4. ASSUME Flush \/ ConnectionFails \/ ReadFails \/ HandleTimer PROVE stream' = stream
    BY <1>4 DEF Flush, ConnectionFails, ReadFails, HandleTimer, client
  <1>5. ASSUME UNCHANGED vars PROVE stream' = stream
    BY <1>5 DEF vars, client
  <1> QED
    BY <1>1, <1>2, <1>3, <1>4, <1>5 DEF Next

\* What is defined from the stream alone stays.
LEMMA FixedNames ==
    ASSUME stream' = stream
    PROVE  /\ Total' = Total
           /\ WellFormedRequest' = WellFormedRequest
  <1>1. Total' = Total
    BY DEF Total, End, Start
  <1>2. WellFormedRequest' = WellFormedRequest
    BY DEF WellFormedRequest, Kind
  <1> QED
    BY <1>1, <1>2

\* The network cuts inside the stream.
LEMMA CutsInside ==
    ASSUME stream \in Streams, NEW c \in Cuts
    PROVE  c \in 0..Total
  <1>1. PICK i \in 1..Len(stream) :
          \/ \E k \in CutOffsets : k < SizeOf(stream[i]) /\ c = Start(i) + k
          \/ c = End(i) - 1 \/ c = End(i)
    BY DEF Cuts
  <1>2. /\ At(stream, i) \in Nat /\ Behind(stream, i) \in Nat
        /\ At(stream, i) < Behind(stream, i) /\ Behind(stream, i) <= Total /\ Total \in Nat
        /\ stream[i] \in Elements
    BY ElementLayout, TotalBounds, Names
  <1>3. Start(i) = At(stream, i) /\ End(i) = Behind(stream, i)
        /\ End(i) = Start(i) + SizeOf(stream[i])
    BY Names DEF End
  <1>4. SizeOf(stream[i]) \in Nat
    BY <1>2, SizePositive
  <1>5. CASE \E k \in CutOffsets : k < SizeOf(stream[i]) /\ c = Start(i) + k
    BY <1>2, <1>3, <1>4, <1>5, CutAssumption
  <1>6. CASE c = End(i) - 1 \/ c = End(i)
    BY <1>2, <1>3, <1>6
  <1> QED
    BY <1>1, <1>5, <1>6

-----------------------------------------------------------------------------
(* Queues of frame numbers.                                                  *)

\* A queue without frames.
LEMMA EmptyQueue == Held(<<>>) = {} /\ Ascending(<<>>)
  BY DEF Held, Ascending

\* A number behind all others keeps a queue ascending.
LEMMA QueueAppend ==
    ASSUME NEW q \in Seq(Nat), NEW x \in Nat
    PROVE  /\ Held(Append(q, x)) = Held(q) \union {x}
           /\ Ascending(q) /\ (\A y \in Held(q) : x = 0 \/ y < x) => Ascending(Append(q, x))
  <1> DEFINE r == Append(q, x)
  <1>1. Len(r) = Len(q) + 1 /\ Len(q) \in Nat /\ r[Len(q) + 1] = x
        /\ \A k \in 1..Len(q) : r[k] = q[k]
    OBVIOUS
  <1> HIDE DEF r
  <1>2. Held(r) = Held(q) \union {x}
    BY <1>1 DEF Held
  <1>3. ASSUME Ascending(q), \A y \in Held(q) : x = 0 \/ y < x PROVE Ascending(r)
    BY <1>1, <1>3 DEF Held, Ascending
  <1> QED
    BY <1>2, <1>3 DEF r

\* The first number of a queue is less than the rest.
LEMMA QueueTail ==
    ASSUME NEW q \in Seq(Nat), q # <<>>
    PROVE  /\ Head(q) \in Nat /\ Tail(q) \in Seq(Nat)
           /\ Held(q) = {Head(q)} \union Held(Tail(q))
           /\ Ascending(q) => /\ Ascending(Tail(q))
                              /\ \A y \in Held(Tail(q)) : y = 0 \/ Head(q) < y
  <1> DEFINE r == Tail(q)
  <1>1. Len(r) = Len(q) - 1 /\ Len(q) \in Nat \ {0} /\ Head(q) = q[1] /\ q[1] \in Nat
        /\ r \in Seq(Nat) /\ \A k \in 1..Len(r) : r[k] = q[k + 1]
    OBVIOUS
  <1> HIDE DEF r
  <1>2. Held(q) = {q[1]} \union Held(r)
    <2>1. \A k \in 1..Len(q) : q[k] \in {q[1]} \union Held(r)
      <3> SUFFICES ASSUME NEW k \in 1..Len(q), k # 1 PROVE q[k] \in Held(r)
        OBVIOUS
      <3>1. k - 1 \in 1..Len(r) /\ r[k - 1] = q[k]
        BY <1>1
      <3> QED
        BY <3>1 DEF Held
    <2>2. 1 \in 1..Len(q) /\ \A k \in 1..Len(r) : k + 1 \in 1..Len(q)
      BY <1>1
    <2>3. q[1] \in Held(q) /\ \A k \in 1..Len(r) : r[k] \in Held(q)
      BY <1>1, <2>2 DEF Held
    <2> QED
      BY <2>1, <2>3 DEF Held
  <1>3. ASSUME Ascending(q)
        PROVE  Ascending(r) /\ \A y \in Held(r) : y = 0 \/ q[1] < y
    <2>1. \A j, k \in 1..Len(r) : j < k => r[k] = 0 \/ r[j] < r[k]
      <3> SUFFICES ASSUME NEW j \in 1..Len(r), NEW k \in 1..Len(r), j < k
                   PROVE  r[k] = 0 \/ r[j] < r[k]
        OBVIOUS
      <3>1. j + 1 \in 1..Len(q) /\ k + 1 \in 1..Len(q) /\ j + 1 < k + 1
        BY <1>1
      <3> QED
        BY <1>1, <1>3, <3>1 DEF Ascending
    <2>2. \A k \in 1..Len(r) : r[k] = 0 \/ q[1] < r[k]
      <3> SUFFICES ASSUME NEW k \in 1..Len(r) PROVE r[k] = 0 \/ q[1] < r[k]
        OBVIOUS
      <3>1. 1 \in 1..Len(q) /\ k + 1 \in 1..Len(q) /\ 1 < k + 1
        BY <1>1
      <3> QED
        BY <1>1, <1>3, <3>1 DEF Ascending
    <2> QED
      BY <2>1, <2>2 DEF Held, Ascending
  <1> QED
    BY <1>1, <1>2, <1>3 DEF r

\* The numbers in a queue.
LEMMA QueueTyped ==
    ASSUME NEW n \in Nat, NEW q \in Seq(0..n)
    PROVE  q \in Seq(Nat) /\ Held(q) \subseteq 0..n
  BY DEF Held

\* The numbers in a queue that holds no Pong of the heartbeat.
LEMMA QueueTyped1 ==
    ASSUME NEW n \in Nat, NEW q \in Seq(1..n)
    PROVE  q \in Seq(Nat) /\ Held(q) \subseteq 1..n
  BY DEF Held

-----------------------------------------------------------------------------
(* Types.                                                                    *)

\* What the parser finds where it stands.
LEMMA AtLine ==
    ASSUME Inv, state_ \in {"RequestLine", "Header"}, ~NeedsMore
    PROVE  /\ Here \in 1..BlankOf(stream) /\ Here \in 1..Len(stream)
           /\ consumed = At(stream, Here)
           /\ End(Here) = Behind(stream, Here) /\ End(Here) \in (consumed + 1)..got
           /\ state_ = "RequestLine" => Here = 1 /\ consumed = 0
           /\ state_ = "Header" => /\ Here # 1 /\ content_length = Announced(stream, Here)
                                   /\ \A j \in 2..(Here - 1) : HeaderValid(stream[j])
  <1>1. stream \in Streams /\ consumed \in Nat /\ got \in Nat
    BY DEF Inv, TypeOK
  <1>2. Len(stream) \in Nat /\ BlankOf(stream) \in 2..Len(stream)
    BY <1>1, Shape
  <1>3. PICK i \in 1..BlankOf(stream) :
          /\ consumed = At(stream, i)
          /\ state_ = "RequestLine" => i = 1 /\ consumed = 0
          /\ state_ = "Header" => /\ i # 1 /\ content_length = Announced(stream, i)
                                  /\ \A j \in 2..(i - 1) : HeaderValid(stream[j])
    <2>1. CASE state_ = "RequestLine"
      <3>1. 1 \in 1..Len(stream) /\ 1 \in 1..BlankOf(stream)
        BY <1>2
      <3>2. At(stream, 1) = 0
        BY <1>1, <3>1, ElementLayout
      <3> QED
        BY <2>1, <3>1, <3>2 DEF Inv, Parsing
    <2>2. CASE state_ = "Header"
      <3>1. PICK i \in 2..BlankOf(stream) :
              /\ consumed = At(stream, i) /\ content_length = Announced(stream, i)
              /\ \A j \in 2..(i - 1) : HeaderValid(stream[j])
        BY <2>2 DEF Inv, Parsing
      <3>2. i \in 1..BlankOf(stream) /\ i # 1
        BY <1>2
      <3> QED
        BY <2>2, <3>1, <3>2
    <2> QED
      BY <2>1, <2>2
  <1>4. i \in 1..Len(stream)
    BY <1>2
  <1>5. Here = i
    BY <1>1, <1>3, <1>4, HereIs
  <1>6. End(i) = Behind(stream, i) /\ Behind(stream, i) \in Nat /\ consumed < Behind(stream, i)
    BY <1>1, <1>3, <1>4, Names, ElementLayout
  <1>7. got >= End(i)
    BY <1>5 DEF NeedsMore, Complete
  <1> QED
    BY <1>1, <1>3, <1>4, <1>5, <1>6, <1>7

\* The frame the WebSocket parser stands in front of.
LEMMA AtFrame ==
    ASSUME Inv, where \in Upgraded, ~AtEnd
    PROVE  /\ Here \in Numbers(stream, "frame") /\ Here \in 1..Len(stream)
           /\ stream[Here] \in Frames
           /\ consumed = At(stream, Here) /\ End(Here) = Behind(stream, Here)
           /\ SizeOf(stream[Here]) \in Nat
           /\ End(Here) = consumed + SizeOf(stream[Here])
  <1>1. stream \in Streams
    BY DEF Inv, TypeOK
  <1>2. PICK i \in Numbers(stream, "frame") : consumed = At(stream, i)
    BY Names DEF Inv, Framing, AtEnd
  <1>3. i \in 1..Len(stream) /\ stream[i] \in Frames
    BY <1>1, FramesBehind
  <1>4. Here = i
    BY <1>1, <1>2, <1>3, HereIs
  <1>5. SizeOf(stream[i]) \in Nat
    BY <1>1, <1>3, ElementLayout, SizePositive
  <1>6. End(i) = Behind(stream, i) /\ Behind(stream, i) = At(stream, i) + SizeOf(stream[i])
    BY Names DEF At, Behind
  <1> QED
    BY <1>2, <1>3, <1>4, <1>5, <1>6

\* FrameParse returns a frame only when all of its bytes are in the buffer.
LEMMA FrameStepIsComplete ==
    ASSUME NEW f \in Frames, NEW n \in Int, FrameStep(f, n) = "frame"
    PROVE  n >= SizeOf(f)
  <1>1. SizeOf(f) \in Nat
    BY SizePositive DEF Elements
  <1> QED
    BY <1>1, SMT DEF FrameStep

\* The limits are numbers (their definitions stay folded elsewhere).
LEMMA Limits == MaxBodySize \in Nat /\ MaxPayloadSize \in Nat
  BY SMT DEF MaxBodySize, MaxPayloadSize

\* Every step keeps the types: consumed <= got <= arrived <= Total.
LEMMA TypeStep ==
    ASSUME Inv, [Next]_vars
    PROVE  TypeOK'
  <1>0. stream' = stream /\ Total' = Total
    BY StreamFixed, FixedNames
  <1>t. TypeOK
    BY DEF Inv
  <1>s. stream \in Streams /\ Len(stream) \in Nat /\ Total \in Nat
    BY <1>t, Shape, Names, TotalBounds DEF TypeOK
  <1>k. TickBound \in Nat /\ PingTicks \in Nat /\ PongTicks \in Nat
    BY TicksAssumption DEF TickBound
  <1> USE <1>0, <1>t, <1>s DEF TypeOK, client, input, parser, result, output, heartbeat
  <1>1. CASE Arrive
    <2>1. PICK c \in Cuts : c > arrived /\ arrived' = c
      BY <1>1 DEF Arrive
    <2>2. c \in 0..Total
      BY CutsInside
    <2>3. arrived' \in 0..Total' /\ got' \in 0..arrived' /\ consumed' \in 0..got'
      BY <1>1, <2>1, <2>2 DEF Arrive
    <2> QED
      BY <1>1, <2>3 DEF Arrive
  <1>2a. CASE ClientFin
    BY <1>2a DEF ClientFin
  <1>2b. CASE ClientDies
    <2>1. alive' \in BOOLEAN
      BY <1>2b, Zenon DEF ClientDies
    <2> QED
      BY <1>2b, <2>1 DEF ClientDies
  <1>2c. CASE ClientPong
    BY <1>2c DEF ClientPong
  <1>3a. CASE HttpRead
    BY <1>3a DEF HttpRead
  <1>3b. CASE HttpGivesUp
    BY <1>3b DEF HttpGivesUp
  <1>3c. CASE ParseNeedsMore
    BY <1>3c DEF ParseNeedsMore
  <1>4. CASE ParseRequestLine
    <2>1. state_ = "RequestLine" /\ ~NeedsMore
      BY <1>4 DEF ParseRequestLine
    <2>2. End(Here) \in (consumed + 1)..got
      BY <2>1, AtLine
    <2>3. consumed' \in 0..got /\ state_' \in {"Error", "Header"}
      BY <1>4, <2>2 DEF ParseRequestLine
    <2>4. garbled' \in BOOLEAN
      <3>1. CASE Cardinality(Spaces) < 2
        BY <1>4, <3>1, Zenon DEF ParseRequestLine
      <3>2. CASE ~(Cardinality(Spaces) < 2)
        <4>1. garbled' = (Cardinality({p \in Spaces : p < End(Here)}) < 2)
          BY <1>4, <3>2, Zenon DEF ParseRequestLine
        <4>2. (Cardinality({p \in Spaces : p < End(Here)}) < 2) \in BOOLEAN
          BY SMT
        <4> QED
          BY <4>1, <4>2, Zenon
      <3> QED
        BY <3>1, <3>2
    <2> QED
      BY <1>4, <2>3, <2>4 DEF ParseRequestLine
  <1>5. CASE ParseHeader
    <2>1. state_ = "Header" /\ ~NeedsMore
      BY <1>5 DEF ParseHeader
    <2>2. End(Here) \in (consumed + 1)..got
      BY <2>1, AtLine
    <2>3. /\ consumed' \in 0..got /\ state_' \in {"Error", "Header", "Complete", "Body"}
          /\ content_length' \in 0..MaxBodySize
      BY <1>5, <2>2 DEF ParseHeader, HeaderValid, ContentLengthValid
    <2> QED
      BY <1>5, <2>3 DEF ParseHeader
  <1>6. CASE ParseBody
    <2>1. content_length \in Nat /\ got - consumed >= content_length
      BY <1>6, Limits DEF ParseBody, NeedsMore
    <2>2. consumed' \in 0..got
      BY <1>6, <2>1 DEF ParseBody, BodyConsumed
    <2> QED
      BY <1>6, <2>2 DEF ParseBody
  <1>7a. CASE HttpAnswers
    BY <1>7a DEF HttpAnswers
  <1>7b. CASE HandOver
    BY <1>7b DEF HandOver
  <1>8. CASE Handshake
    BY <1>8, <1>k DEF Handshake
  <1>9a. CASE ReadEvent
    BY <1>9a DEF ReadEvent
  <1>9b. CASE ReadEnds
    BY <1>9b DEF ReadEnds
  <1>9c. CASE ParseStops
    BY <1>9c DEF ParseStops
  <1>9d. CASE HandlesAll
    BY <1>9d DEF HandlesAll
  <1>10. CASE Read
    <2>1. ticks' \in 0..TickBound /\ pong' \in {"none", "asked", "sent", "read"}
      BY <1>10, <1>k DEF Read
    <2>2. parsed' \in Seq(0..Len(stream)) /\ got' \in 0..arrived /\ consumed \in 0..got'
      BY <1>10 DEF Read
    <2> QED
      BY <1>10, <2>1, <2>2 DEF Read
  <1>11. CASE ParseFrame
    <2>1. where = "framing" /\ Step = "frame"
      BY <1>11 DEF ParseFrame
    <2>2. CASE AtEnd
      <3>1. parsed' = Append(parsed, 0) /\ pong' = "none" /\ consumed' = consumed
        BY <1>11, <2>2 DEF ParseFrame
      <3>2. parsed' \in Seq(0..Len(stream))
        BY <3>1
      <3> QED
        BY <1>11, <3>1, <3>2 DEF ParseFrame
    <2>3. CASE ~AtEnd
      <3>1. parsed' = Append(parsed, Here) /\ pong' = pong /\ consumed' = End(Here)
        BY <1>11, <2>3 DEF ParseFrame
      <3>2. Here \in 1..Len(stream) /\ stream[Here] \in Frames /\ SizeOf(stream[Here]) \in Nat
            /\ End(Here) = consumed + SizeOf(stream[Here])
        BY <2>1, <2>3, AtFrame DEF Upgraded
      <3>3. FrameStep(stream[Here], got - consumed) = "frame"
        BY <2>1, <2>3 DEF Step, Element
      <3>4. got - consumed >= SizeOf(stream[Here])
        BY <3>2, <3>3, FrameStepIsComplete
      <3>5. consumed' \in 0..got
        BY <3>1, <3>2, <3>4
      <3>6. parsed' \in Seq(0..Len(stream))
        BY <3>1, <3>2
      <3> QED
        BY <1>11, <3>1, <3>5, <3>6 DEF ParseFrame
    <2> QED
      BY <2>2, <2>3
  <1>12a. CASE ParseFails
    <2>1. parsed' \in Seq(0..Len(stream))
      BY <1>12a DEF ParseFails
    <2> QED
      BY <1>12a, <2>1 DEF ParseFails
  <1>12b. CASE HandleClose
    <2>1. parsed' \in Seq(0..Len(stream))
      BY <1>12b DEF HandleClose
    <2> QED
      BY <1>12b, <2>1 DEF HandleClose
  <1>12c. CASE HandleFragment
    <2>1. parsed' \in Seq(0..Len(stream))
      BY <1>12c DEF HandleFragment
    <2> QED
      BY <1>12c, <2>1 DEF HandleFragment
  <1>13. CASE HandleMessage
    <2>1. parsed # <<>> /\ Head(parsed) # 0
      <3>1. CASE Head(parsed) = 0
        BY <1>13, <3>1 DEF HandleMessage, Handles
      <3> QED
        BY <1>13, <3>1 DEF HandleMessage, Handles
    <2>2. Head(parsed) \in 1..Len(stream) /\ Tail(parsed) \in Seq(0..Len(stream))
      BY <2>1
    <2>3. ready' \in Seq(1..Len(stream)) /\ parsed' \in Seq(0..Len(stream))
      BY <1>13, <2>2 DEF HandleMessage
    <2> QED
      BY <1>13, <2>3 DEF HandleMessage
  <1>14a. CASE HandlePing
    <2>1. parsed # <<>>
      BY <1>14a DEF HandlePing, Handles
    <2>2. parsed' \in Seq(0..Len(stream))
      BY <1>14a, <2>1 DEF HandlePing
    <2> QED
      BY <1>14a, <1>k, <2>2 DEF HandlePing
  <1>14b. CASE HandlePong
    <2>1. parsed # <<>>
      BY <1>14b DEF HandlePong, Handles
    <2>2. parsed' \in Seq(0..Len(stream))
      BY <1>14b, <2>1 DEF HandlePong
    <2>3. waiting_for_pong_' \in BOOLEAN
      BY <1>14b, Zenon DEF HandlePong
    <2>4. ticks' \in 0..TickBound
      BY <1>14b, <1>k DEF HandlePong
    <2> QED
      BY <1>14b, <2>2, <2>3, <2>4 DEF HandlePong
  <1>15. CASE DispatchFrame
    <2>1. ready # <<>> /\ Head(ready) \in 1..Len(stream) /\ Tail(ready) \in Seq(1..Len(stream))
      BY <1>15 DEF DispatchFrame
    <2>2. ready' \in Seq(1..Len(stream)) /\ delivered' \in Seq(1..Len(stream))
      BY <1>15, <2>1 DEF DispatchFrame
    <2> QED
      BY <1>15, <2>2 DEF DispatchFrame
  <1>16a. CASE DispatchThrows
    <2>1. ready' \in Seq(1..Len(stream))
      BY <1>16a DEF DispatchThrows, NoResult
    <2> QED
      BY <1>16a, <2>1 DEF DispatchThrows, NoResult
  <1>16b. CASE ReadHandled
    <2>1. ready' \in Seq(1..Len(stream))
      BY <1>16b DEF ReadHandled, NoResult
    <2>2. closing' \in BOOLEAN /\ output_queued' \in BOOLEAN
      BY <1>16b, Zenon DEF ReadHandled, NoResult
    <2> QED
      BY <1>16b, <2>1, <2>2 DEF ReadHandled, NoResult
  <1>17a. CASE Flush
    BY <1>17a DEF Flush
  <1>17b. CASE ConnectionFails
    BY <1>17b DEF ConnectionFails
  <1>17c. CASE ReadFails
    BY <1>17c DEF ReadFails
  <1>18. CASE HandleTimer
    <2>1. ticks' \in 0..TickBound
      BY <1>18, <1>k DEF HandleTimer, MarkPingSent
    <2>2. waiting_for_pong_' \in BOOLEAN
      BY <1>18, Zenon DEF HandleTimer, MarkPingSent
    <2>3. where' \in {where, "gone"} /\ out' \subseteq {"ping", "pong", "close"}
      BY <1>18 DEF HandleTimer, MarkPingSent
    <2>4. UNCHANGED <<client, input, parser, parsed, result, delivered, closing, pong>>
      BY <1>18 DEF HandleTimer
    <2>5. where' \in {"http", "parse", "handed", "poll", "reading", "framing", "handling",
                      "dispatching", "gone"}
      BY <2>3
    <2> QED
      BY <2>1, <2>2, <2>3, <2>4, <2>5
  <1>19. CASE UNCHANGED vars
    BY <1>19 DEF vars
  <1> QED
    BY <1>1, <1>2a, <1>2b, <1>2c, <1>3a, <1>3b, <1>3c, <1>4, <1>5, <1>6, <1>7a, <1>7b,
       <1>8, <1>9a, <1>9b, <1>9c, <1>9d, <1>10, <1>11, <1>12a, <1>12b, <1>12c, <1>13,
       <1>14a, <1>14b, <1>15, <1>16a, <1>16b, <1>17a, <1>17b, <1>17c, <1>18, <1>19
       DEF Next, Client, Http, Handler

-----------------------------------------------------------------------------
(* The HTTP parser.                                                          *)

\* A step that leaves the HTTP parser alone.
LEMMA ParsingKept ==
    ASSUME Parsing, UNCHANGED <<stream, state_, content_length, garbled>>,
           where' \in {"http", "parse", "handed"} => where \in {"http", "parse", "handed"},
           \/ consumed' = consumed
           \/ state_ = "Complete" /\ where' \notin {"http", "parse", "handed"}
    PROVE  Parsing'
  <1>1. WellFormedRequest' = WellFormedRequest
    BY FixedNames
  <1>2. (state_' = "Error" \/ garbled') => ~WellFormedRequest'
    BY <1>1, Zenon DEF Parsing
  <1>3. state_' = "RequestLine" => consumed' = 0 /\ content_length' = 0 /\ ~garbled'
    <2>1. state_' = "RequestLine" => consumed' = 0 /\ content_length' = 0
      BY DEF Parsing
    <2>2. state_' = "RequestLine" => ~garbled'
      BY Zenon DEF Parsing
    <2> QED
      BY <2>1, <2>2
  <1>4. (state_ = "Header" => consumed' = consumed) /\ (state_ = "Body" => consumed' = consumed)
    OBVIOUS
  <1>5. state_' = "Header" =>
          \E i \in 2..BlankOf(stream') :
            /\ consumed' = At(stream', i) /\ content_length' = Announced(stream', i)
            /\ \A j \in 2..(i - 1) : HeaderValid(stream'[j])
    BY <1>4 DEF Parsing
  <1>6. state_' = "Body" =>
          /\ consumed' = Behind(stream', BlankOf(stream'))
          /\ content_length' = Announced(stream', BlankOf(stream')) /\ content_length' # 0
          /\ HeadersValid(stream')
    BY <1>4 DEF Parsing
  <1>7. state_' = "Complete" /\ where' \in {"http", "parse", "handed"} =>
          /\ consumed' = Behind(stream', BlankOf(stream')) + Announced(stream', BlankOf(stream'))
          /\ HeadersValid(stream')
    BY DEF Parsing
  <1> QED
    BY <1>2, <1>3, <1>5, <1>6, <1>7 DEF Parsing

\* A complete line with two spaces has them in the buffer.
LEMMA SpacesFound ==
    ASSUME Inv, state_ = "RequestLine", ~NeedsMore, WellFormedRequest
    PROVE  /\ ~(Cardinality(Spaces) < 2)
           /\ ~(Cardinality({p \in Spaces : p < End(Here)}) < 2)
  <1>1. stream \in Streams /\ got \in Nat /\ consumed \in Nat
    BY DEF Inv, TypeOK
  <1>2. Here = 1 /\ consumed = 0 /\ 1 \in 1..Len(stream) /\ End(1) = Behind(stream, 1)
        /\ End(1) \in 1..got /\ At(stream, 1) = 0
    BY AtLine
  <1>3. stream[1] \in Elements /\ stream[1].kind = "request"
    BY <1>1, <1>2, Shape, ElementLayout
  <1>4. stream[1] \in Line /\ SizeOf(stream[1]) = stream[1].size
    BY <1>3, SizePositive
  <1>5. stream[1].spaces \subseteq Nat /\ \A k \in stream[1].spaces : k < stream[1].size
    BY <1>1, <1>2, <1>3, <1>4, LayoutAssumption DEF Line
  <1>6. End(1) = stream[1].size /\ Start(1) = 0
    BY <1>2, <1>4, Names DEF At, Behind, Line
  <1> DEFINE All == UNION {{Start(i) + k : k \in stream[i].spaces} :
                           i \in Kind("request") \union Kind("header")}
  <1>7. \A k \in stream[1].spaces : k \in {p \in Spaces : p < End(Here)}
    <2> SUFFICES ASSUME NEW k \in stream[1].spaces
                 PROVE  k \in All /\ consumed <= k /\ k < got /\ k < End(Here)
      BY DEF Spaces
    <2>1. k \in Nat /\ k < End(1)
      BY <1>5, <1>6
    <2>2. 1 \in Kind("request")
      BY <1>2, <1>3 DEF Kind
    <2>3. Start(1) + k = k
      BY <1>6, <2>1
    <2>4. k \in {Start(1) + j : j \in stream[1].spaces}
      BY <2>3
    <2>5. k \in All
      BY <2>2, <2>4
    <2> QED
      BY <1>1, <1>2, <2>1, <2>5
  <1>8. Spaces \subseteq 0..got
    <2> SUFFICES ASSUME NEW p \in Spaces PROVE p \in 0..got
      OBVIOUS
    <2>1. consumed <= p /\ p < got /\ p \in All
      BY DEF Spaces
    <2>2. PICK i \in Kind("request") \union Kind("header") :
            p \in {Start(i) + k : k \in stream[i].spaces}
      BY <2>1
    <2>3. i \in 1..Len(stream) /\ stream[i].kind \in {"request", "header"}
      BY DEF Kind
    <2>4. stream[i] \in Line \/ stream[i] \in HeaderLine
      BY <1>1, <2>3, ElementLayout, SizePositive
    <2>5. stream[i].spaces \subseteq Nat /\ Start(i) \in Nat
      BY <2>4, Names DEF Line, HeaderLine, At
    <2>6. p \in Nat
      BY <2>2, <2>5
    <2> QED
      BY <1>1, <1>2, <2>1, <2>6
  <1>9. IsFiniteSet(Spaces) /\ IsFiniteSet({p \in Spaces : p < End(Here)})
    <2>1. IsFiniteSet(0..got)
      BY <1>1, FS_Interval
    <2>2. IsFiniteSet(Spaces)
      BY <1>8, <2>1, FS_Subset
    <2>3. {p \in Spaces : p < End(Here)} \subseteq Spaces
      OBVIOUS
    <2> QED
      BY <2>2, <2>3, FS_Subset
  <1>10. Cardinality(stream[1].spaces) = 2
    BY <1>1, WellFormedIs
  <1> DEFINE Here2 == {p \in Spaces : p < End(Here)}
  <1>11. stream[1].spaces \subseteq Here2 /\ Here2 \subseteq Spaces
    BY <1>7
  <1> HIDE DEF Here2
  <1>12. IsFiniteSet(Spaces) /\ IsFiniteSet(Here2)
    BY <1>9 DEF Here2
  <1>13. Cardinality(stream[1].spaces) <= Cardinality(Here2)
         /\ Cardinality(Here2) <= Cardinality(Spaces)
         /\ Cardinality(Here2) \in Nat /\ Cardinality(Spaces) \in Nat
    BY <1>11, <1>12, FS_Subset, FS_CardinalityType
  <1> QED
    BY <1>10, <1>13 DEF Here2

\* Every step keeps where the HTTP parser stands.
LEMMA ParsingStep ==
    ASSUME Inv, [Next]_vars
    PROVE  Parsing'
  <1>0. stream' = stream /\ WellFormedRequest' = WellFormedRequest
    BY StreamFixed, FixedNames
  <1>p. Parsing
    BY DEF Inv
  <1>s. stream \in Streams /\ Len(stream) \in Nat /\ BlankOf(stream) \in 2..Len(stream)
    BY Shape DEF Inv, TypeOK
  <1>1. CASE ParseRequestLine
    <2>1. where = "parse" /\ state_ = "RequestLine" /\ ~NeedsMore
      BY <1>1 DEF ParseRequestLine
    <2>2. Here = 1 /\ consumed = 0 /\ End(Here) = Behind(stream, 1) /\ ~garbled
          /\ content_length = 0
      BY <1>p, <2>1, AtLine DEF Parsing
    <2>3. CASE Cardinality(Spaces) < 2
      <3>1. ~WellFormedRequest
        BY <2>1, <2>3, SpacesFound
      <3>2. state_' = "Error"
        BY <1>1, <2>3 DEF ParseRequestLine
      <3> QED
        BY <1>0, <3>1, <3>2 DEF Parsing
    <2>4. CASE ~(Cardinality(Spaces) < 2)
      <3>1. state_' = "Header" /\ consumed' = Behind(stream, 1) /\ content_length' = 0
        BY <1>1, <2>2, <2>4 DEF ParseRequestLine
      <3>2. garbled' => ~WellFormedRequest
        <4>1. garbled' = (Cardinality({p \in Spaces : p < End(Here)}) < 2)
          BY <1>1, <2>4, Zenon DEF ParseRequestLine
        <4> QED
          BY <2>1, <4>1, SpacesFound, Zenon
      <3>3. At(stream, 2) = Behind(stream, 1)
        <4>1. 2 \in 1..Len(stream)
          BY <1>s
        <4> QED
          BY <1>s, <4>1, ElementLayout
      <3>4. Announced(stream, 2) = 0
        BY <1>s, AnnouncedFirst
      <3>5. 2 \in 2..BlankOf(stream) /\ \A j \in 2..(2 - 1) : FALSE
        BY <1>s
      <3>6. \E i \in 2..BlankOf(stream') :
              /\ consumed' = At(stream', i) /\ content_length' = Announced(stream', i)
              /\ \A j \in 2..(i - 1) : HeaderValid(stream'[j])
        BY <1>0, <3>1, <3>3, <3>4, <3>5
      <3> QED
        BY <1>0, <3>1, <3>2, <3>6 DEF Parsing
    <2> QED
      BY <2>3, <2>4
  <1>2. CASE ParseHeader
    <2> DEFINE i == Here
    <2> DEFINE b == BlankOf(stream)
    <2>1. where = "parse" /\ state_ = "Header" /\ ~NeedsMore /\ where' = "parse"
          /\ garbled' = garbled
      BY <1>2 DEF ParseHeader
    <2>2. /\ i \in 1..b /\ i \in 1..Len(stream) /\ i # 1
          /\ consumed = At(stream, i) /\ End(i) = Behind(stream, i)
          /\ content_length = Announced(stream, i)
          /\ \A j \in 2..(i - 1) : HeaderValid(stream[j])
      BY <2>1, AtLine
    <2>3. garbled' => ~WellFormedRequest'
      BY <1>0, <1>p, <2>1, Zenon DEF Parsing
    <2>4. /\ i = b => stream[i].kind = "blank"
          /\ i # b => stream[i].kind = "header"
      BY <1>s, <2>2, Shape
    <2> HIDE DEF i
    <2>5. CASE stream[i].kind = "blank"
      <3>1. i = b
        BY <2>4, <2>5
      <3>2. state_' = (IF content_length = 0 THEN "Complete" ELSE "Body")
            /\ consumed' = Behind(stream, b) /\ content_length' = content_length
        BY <1>2, <2>2, <2>5, <3>1 DEF ParseHeader, Element, i
      <3>3. HeadersValid(stream)
        BY <2>2, <3>1 DEF HeadersValid
      <3>4. Behind(stream, b) \in Nat
        BY <1>s, <2>2, <3>1, ElementLayout
      <3>5. CASE content_length = 0
        <4>1. Behind(stream, b) + Announced(stream, b) = Behind(stream, b)
          BY <2>2, <3>1, <3>4, <3>5
        <4> QED
          BY <1>0, <2>3, <3>2, <3>3, <3>5, <4>1 DEF Parsing
      <3>6. CASE content_length # 0
        BY <1>0, <2>2, <2>3, <3>1, <3>2, <3>3, <3>6 DEF Parsing
      <3> QED
        BY <3>5, <3>6
    <2>6. CASE stream[i].kind = "header" /\ HeaderValid(stream[i])
      <3>1. state_' = "Header" /\ consumed' = Behind(stream, i)
            /\ content_length' = IF stream[i].name = "Content-Length" THEN stream[i].length
                                 ELSE content_length
        BY <1>2, <2>1, <2>2, <2>6 DEF ParseHeader, Element, i
      <3>2. i + 1 \in 2..b /\ i + 1 \in 1..Len(stream) /\ (i + 1) - 1 = i /\ i + 1 # 1
        BY <1>s, <2>2, <2>4, <2>6, Shape
      <3>3. At(stream, i + 1) = Behind(stream, i)
        BY <1>s, <3>2, ElementLayout
      <3>4. content_length' = Announced(stream, i + 1)
        BY <1>s, <2>2, <2>6, <3>1, AnnouncedNext
      <3>5. \A j \in 2..((i + 1) - 1) : HeaderValid(stream[j])
        BY <2>2, <2>6, <3>2
      <3>6. \E k \in 2..BlankOf(stream') :
              /\ consumed' = At(stream', k) /\ content_length' = Announced(stream', k)
              /\ \A j \in 2..(k - 1) : HeaderValid(stream'[j])
        BY <1>0, <3>1, <3>2, <3>3, <3>4, <3>5
      <3> QED
        BY <2>3, <3>1, <3>6 DEF Parsing
    <2>7. CASE stream[i].kind = "header" /\ ~HeaderValid(stream[i])
      <3>1. state_' = "Error"
        BY <1>2, <2>7 DEF ParseHeader, Element, i
      <3>2. ~WellFormedRequest
        BY <1>s, <2>2, <2>7, WellFormedIs
      <3> QED
        BY <1>0, <3>1, <3>2 DEF Parsing
    <2> QED
      BY <2>4, <2>5, <2>6, <2>7
  <1>3. CASE ParseBody
    <2>1. state_ = "Body" /\ state_' = "Complete" /\ garbled' = garbled
          /\ consumed' = consumed + content_length
      BY <1>3 DEF ParseBody, BodyConsumed
    <2>2. /\ consumed = Behind(stream, BlankOf(stream))
          /\ content_length = Announced(stream, BlankOf(stream))
          /\ HeadersValid(stream)
      BY <1>p, <2>1 DEF Parsing
    <2>3. garbled' => ~WellFormedRequest'
      BY <1>0, <1>p, <2>1, Zenon DEF Parsing
    <2> QED
      BY <1>0, <2>1, <2>2, <2>3 DEF Parsing
  <1>4. CASE ParseFrame
    <2>1. where = "framing" /\ where' = "framing"
          /\ UNCHANGED <<stream, state_, content_length, garbled>>
      BY <1>4 DEF ParseFrame, client, parser
    <2>2. state_ = "Complete"
      BY <2>1 DEF Inv, Framing, Upgraded
    <2> QED
      BY <1>p, <2>1, <2>2, ParsingKept
  <1>5. ASSUME ~ParseRequestLine, ~ParseHeader, ~ParseBody, ~ParseFrame
        PROVE  /\ UNCHANGED <<stream, state_, content_length, garbled, consumed>>
               /\ where' \in {"http", "parse", "handed"} => where \in {"http", "parse", "handed"}
    <2>1. CASE Client
      BY <2>1 DEF Client, Arrive, ClientFin, ClientDies, ClientPong, client, parser, input
    <2>2. CASE Http
      BY <1>5, <2>2 DEF Http, HttpRead, HttpGivesUp, ParseNeedsMore, HttpAnswers, HandOver,
                        Handshake, client, parser, input
    <2>3. CASE Handler
      BY <1>5, <2>3 DEF Handler, ReadEvent, Read, ReadEnds, ParseStops, ParseFails, HandlesAll,
                        Handles, HandleMessage, HandlePing, HandlePong, HandleClose,
                        HandleFragment, DispatchFrame, DispatchThrows, ReadHandled,
                        client, parser, input
    <2>4. CASE Flush \/ ConnectionFails \/ ReadFails \/ HandleTimer
      BY <2>4 DEF Flush, ConnectionFails, ReadFails, HandleTimer, client, parser, input
    <2>5. CASE UNCHANGED vars
      BY <2>5 DEF vars, client, parser, input
    <2> QED
      BY <2>1, <2>2, <2>3, <2>4, <2>5 DEF Next
  <1> QED
    BY <1>p, <1>1, <1>2, <1>3, <1>4, <1>5, ParsingKept

-----------------------------------------------------------------------------
(* The WebSocket parser.                                                     *)

\* Every step keeps where the WebSocket parser stands.
LEMMA FramingStep ==
    ASSUME Inv, [Next]_vars
    PROVE  Framing'
  <1>0. stream' = stream
    BY StreamFixed
  <1>f. Framing
    BY DEF Inv
  <1>s. stream \in Streams /\ Len(stream) \in Nat
    BY Shape DEF Inv, TypeOK
  <1> USE <1>0 DEF client, input, parser, result
  <1>1. CASE Client
    BY <1>f, <1>1 DEF Client, Arrive, ClientFin, ClientDies, ClientPong, Framing
  <1>2. CASE HttpRead \/ HttpGivesUp \/ ParseNeedsMore \/ HttpAnswers \/ HandOver
    BY <1>f, <1>2 DEF HttpRead, HttpGivesUp, ParseNeedsMore, HttpAnswers, HandOver, Framing,
                      Upgraded
  <1>3. CASE ParseRequestLine \/ ParseHeader \/ ParseBody
    <2>1. where = "parse" /\ UNCHANGED <<where, parsed, ready, delivered, status>>
      BY <1>3 DEF ParseRequestLine, ParseHeader, ParseBody
    <2> QED
      BY <1>f, <2>1 DEF Framing, Upgraded
  <1>4. CASE Handshake
    <2>1. where = "handed" /\ where' \in {"poll", "gone"}
          /\ UNCHANGED <<stream, consumed, state_, parsed, ready, delivered, status>>
      BY <1>4 DEF Handshake
    <2>2. state_ = "Complete"
      BY <1>f, <2>1 DEF Framing
    <2>3. /\ consumed = Behind(stream, BlankOf(stream)) + Announced(stream, BlankOf(stream))
          /\ HeadersValid(stream)
      BY <2>1, <2>2 DEF Inv, Parsing
    <2>4. consumed = Behind(stream, Len(stream))
          \/ \E i \in Numbers(stream, "frame") : consumed = At(stream, i)
      BY <1>s, <2>3, RequestEnds
    <2> QED
      BY <1>f, <2>1, <2>2, <2>4 DEF Framing, Upgraded
  <1>5. CASE ParseFrame
    <2>1. where = "framing" /\ UNCHANGED <<where, state_, ready, delivered, status>>
      BY <1>5 DEF ParseFrame
    <2>2. \/ consumed' = Behind(stream, Len(stream))
          \/ \E i \in Numbers(stream, "frame") : consumed' = At(stream, i)
      <3>1. CASE AtEnd
        BY <1>5, <3>1, Names DEF ParseFrame, AtEnd
      <3>2. CASE ~AtEnd
        <4>1. consumed' = Behind(stream, Here) /\ Here \in Numbers(stream, "frame")
          BY <1>5, <2>1, <3>2, AtFrame DEF ParseFrame, Upgraded
        <4> QED
          BY <1>s, <4>1, FramesBehind
      <3> QED
        BY <3>1, <3>2
    <2> QED
      BY <1>f, <2>1, <2>2 DEF Framing, Upgraded
  <1>6. CASE ReadEvent \/ Read \/ ReadEnds \/ ParseStops \/ ParseFails \/ HandlesAll
    BY <1>f, <1>6 DEF ReadEvent, Read, ReadEnds, ParseStops, ParseFails, HandlesAll, Framing,
                      Upgraded
  <1>7. CASE HandleMessage \/ HandlePing \/ HandlePong \/ HandleClose \/ HandleFragment
    BY <1>f, <1>7 DEF HandleMessage, HandlePing, HandlePong, HandleClose, HandleFragment,
                      Handles, Framing, Upgraded
  <1>8. CASE DispatchFrame \/ DispatchThrows \/ ReadHandled
    BY <1>f, <1>8 DEF DispatchFrame, DispatchThrows, ReadHandled, NoResult, Framing, Upgraded
  <1>9. CASE Flush \/ ConnectionFails \/ ReadFails \/ HandleTimer
    BY <1>f, <1>9 DEF Flush, ConnectionFails, ReadFails, HandleTimer, Framing, Upgraded
  <1>10. CASE UNCHANGED vars
    BY <1>f, <1>10 DEF vars, Framing
  <1> QED
    BY <1>1, <1>2, <1>3, <1>4, <1>5, <1>6, <1>7, <1>8, <1>9, <1>10
       DEF Next, Client, Http, Handler

\* FrameParse refuses only what a client may not send.
LEMMA ErrorIsIllegal ==
    ASSUME NEW f \in Frames, NEW n \in Int, FrameStep(f, n) = "error"
    PROVE  ~LegalFrame(f)
  <1>1. f.form \in {7, 16, 64} /\ f.payload \in Nat
    BY DEF Frames
  <1>2. \/ f.rsv \/ ~f.masked \/ f.opcode \notin Opcodes
        \/ TooShort(f)
        \/ f.opcode \in Control /\ (~f.fin \/ f.payload > 125)
        \/ f.opcode = "Close" /\ f.payload = 1
        \/ f.payload > MaxPayloadSize
    BY SMT DEF FrameStep
  <1>3. CASE TooShort(f)
    BY <1>1, <1>3, SMT DEF TooShort, LegalFrame
  <1>4. CASE f.rsv \/ ~f.masked \/ f.opcode \notin Opcodes
    BY <1>4, SMT DEF LegalFrame
  <1>5. CASE f.opcode \in Control /\ (~f.fin \/ f.payload > 125)
    BY <1>1, <1>5, SMT DEF LegalFrame
  <1>6. CASE f.opcode = "Close" /\ f.payload = 1
    BY <1>6, SMT DEF LegalFrame
  <1>7. CASE f.payload > MaxPayloadSize
    <2>1. MaxPayloadSize \in Nat /\ 125 <= MaxPayloadSize
      BY SMT DEF MaxPayloadSize
    <2> QED
      BY <1>1, <1>7, <2>1, SMT DEF LegalFrame
  <1> QED
    BY <1>2, <1>3, <1>4, <1>5, <1>6, <1>7, Zenon

\* The frame whose turn it is in handleReadable is one the parser has passed.
LEMMA HeadIsFrame ==
    ASSUME Inv, parsed # <<>>
    PROVE  /\ parsed \in Seq(Nat) /\ Head(parsed) \in Held(parsed) /\ Head(parsed) \in Nat
           /\ Head(parsed) # 0 => Head(parsed) \in Numbers(stream, "frame")
  <1>1. stream \in Streams /\ parsed \in Seq(0..Len(stream)) /\ Len(stream) \in Nat
    BY Shape DEF Inv, TypeOK
  <1>2. parsed \in Seq(Nat)
    BY <1>1, QueueTyped
  <1>3. Head(parsed) \in Held(parsed) /\ Head(parsed) \in Nat
    BY <1>2, QueueTail
  <1> QED
    BY <1>2, <1>3 DEF Inv, Ordered

\* Only a malformed or fragmented frame makes a protocol error.
LEMMA BlamedStep ==
    ASSUME Inv, [Next]_vars
    PROVE  Blamed'
  <1>0. stream' = stream
    BY StreamFixed
  <1>b. Blamed
    BY DEF Inv
  <1>1. CASE ParseFails
    <2>1. where = "framing" /\ Step = "error"
      BY <1>1 DEF ParseFails
    <2>2. ~AtEnd /\ FrameStep(stream[Here], got - consumed) = "error"
      BY <2>1 DEF Step, Element
    <2>3. Here \in Numbers(stream, "frame") /\ stream[Here] \in Frames
      BY <2>1, <2>2, AtFrame DEF Upgraded
    <2>4. got - consumed \in Int
      BY DEF Inv, TypeOK
    <2>5. ~LegalFrame(stream[Here])
      BY <2>2, <2>3, <2>4, ErrorIsIllegal
    <2> QED
      BY <1>0, <2>3, <2>5 DEF Blamed
  <1>2. CASE HandleFragment
    <2>1. parsed # <<>> /\ Head(parsed) # 0
          /\ (stream[Head(parsed)].opcode = "Continuation" \/ ~stream[Head(parsed)].fin)
      BY <1>2, SMT DEF HandleFragment, Handles
    <2>2. Head(parsed) \in Numbers(stream, "frame")
      BY <2>1, HeadIsFrame
    <2>3. ~LegalFrame(stream[Head(parsed)])
      BY <2>1, SMT DEF LegalFrame
    <2> QED
      BY <1>0, <2>2, <2>3 DEF Blamed
  <1>3. ASSUME ~ParseFails, ~HandleFragment
        PROVE  status' = "ProtocolError" => status = "ProtocolError"
    <2> USE DEF result
    <2>1. CASE Client
      BY <2>1 DEF Client, Arrive, ClientFin, ClientDies, ClientPong
    <2>2. CASE Http
      BY <2>2 DEF Http, HttpRead, HttpGivesUp, ParseNeedsMore, ParseRequestLine, ParseHeader,
                  ParseBody, HttpAnswers, HandOver, Handshake
    <2>3. CASE Handler
      BY <1>3, <2>3 DEF Handler, ReadEvent, Read, ReadEnds, ParseFrame, ParseStops, HandlesAll,
                        HandleMessage, HandlePing, HandlePong, HandleClose, DispatchFrame,
                        DispatchThrows, ReadHandled, NoResult
    <2>4. CASE Flush \/ ConnectionFails \/ ReadFails \/ HandleTimer
      BY <2>4 DEF Flush, ConnectionFails, ReadFails, HandleTimer
    <2>5. CASE UNCHANGED vars
      BY <2>5 DEF vars
    <2> QED
      BY <2>1, <2>2, <2>3, <2>4, <2>5 DEF Next
  <1> QED
    BY <1>0, <1>b, <1>1, <1>2, <1>3 DEF Blamed

-----------------------------------------------------------------------------
(* The way of a frame: parsed, ready, delivered.                             *)

\* The queues hold numbers.
LEMMA QueuesTyped ==
    ASSUME TypeOK
    PROVE  /\ parsed \in Seq(Nat) /\ ready \in Seq(Nat) /\ delivered \in Seq(Nat)
           /\ Held(parsed) \subseteq Nat /\ Held(ready) \subseteq Nat \ {0}
           /\ Held(delivered) \subseteq Nat \ {0}
  <1>1. /\ stream \in Streams /\ Len(stream) \in Nat /\ parsed \in Seq(0..Len(stream))
        /\ ready \in Seq(1..Len(stream)) /\ delivered \in Seq(1..Len(stream))
    BY Shape DEF TypeOK
  <1>2. parsed \in Seq(Nat) /\ Held(parsed) \subseteq 0..Len(stream)
    BY <1>1, QueueTyped
  <1>3. ready \in Seq(Nat) /\ Held(ready) \subseteq 1..Len(stream)
    BY <1>1, QueueTyped1
  <1>4. delivered \in Seq(Nat) /\ Held(delivered) \subseteq 1..Len(stream)
    BY <1>1, QueueTyped1
  <1> QED
    BY <1>1, <1>2, <1>3, <1>4

\* A step that moves no frame.
LEMMA QueuesKept ==
    ASSUME Inv, UNCHANGED <<stream, consumed, parsed, ready, delivered>>,
           where' \in Upgraded /\ status' # "ProtocolError" =>
             where \in Upgraded /\ status # "ProtocolError"
    PROVE  Ordered' /\ Kept' /\ NoGap'
  <1>1. Ordered'
    BY DEF Inv, Ordered
  <1>2. Kept'
    BY DEF Inv, Kept
  <1>3. NoGap'
    BY DEF Inv, NoGap
  <1> QED
    BY <1>1, <1>2, <1>3

\* A frame that is read: behind all that were read before.
LEMMA ParseFrameStep ==
    ASSUME Inv, ParseFrame, stream' = stream
    PROVE  Ordered' /\ Kept' /\ NoGap'
  <1> USE DEF client, result
  <1>1. where = "framing" /\ UNCHANGED <<where, ready, delivered, status>>
    BY DEF ParseFrame
  <1>2. /\ parsed \in Seq(Nat) /\ Held(parsed) \subseteq Nat /\ Held(ready) \subseteq Nat
        /\ Held(delivered) \subseteq Nat /\ stream \in Streams /\ consumed \in Nat
    BY QueuesTyped DEF Inv, TypeOK
  <1>3. Ordered /\ Kept /\ NoGap
    BY DEF Inv
  <1>4. NoGap'
    BY <1>1, <1>3 DEF NoGap
  <1>5. CASE AtEnd
    <2>1. parsed' = Append(parsed, 0) /\ consumed' = consumed
      BY <1>5 DEF ParseFrame
    <2>2. Held(parsed') = Held(parsed) \union {0} /\ Ascending(parsed')
      BY <1>2, <1>3, <2>1, QueueAppend DEF Ordered
    <2>3. Ordered'
      BY <1>1, <1>3, <2>1, <2>2 DEF Ordered
    <2>4. Kept'
      BY <1>1, <1>3, <2>1, <2>2 DEF Kept
    <2> QED
      BY <1>4, <2>3, <2>4
  <1>6. CASE ~AtEnd
    <2>1. PICK i : i = Here
      OBVIOUS
    <2>2. parsed' = Append(parsed, i) /\ consumed' = Behind(stream, i)
          /\ i \in Numbers(stream, "frame") /\ consumed = At(stream, i) /\ i \in 1..Len(stream)
      BY <1>1, <1>6, <2>1, AtFrame DEF ParseFrame, Upgraded
    <2>3. At(stream, i) < Behind(stream, i) /\ At(stream, i) \in Nat /\ i \in Nat
          /\ Behind(stream, i) \in Nat
      BY <1>2, <2>2, ElementLayout
    <2>4. \A x \in Numbers(stream, "frame") : Behind(stream, x) <= consumed => x < i
      BY <1>2, <2>2, PositionsOrder DEF Numbers
    <2>5. \A x \in Numbers(stream, "frame") : Behind(stream, x) <= Behind(stream, i) =>
            x = i \/ Behind(stream, x) <= consumed
      <3> SUFFICES ASSUME NEW x \in Numbers(stream, "frame"), x # i,
                          Behind(stream, x) <= Behind(stream, i)
                   PROVE  Behind(stream, x) <= consumed
        OBVIOUS
      <3>1. x \in 1..Len(stream) /\ x \in Nat
        BY DEF Numbers
      <3>2. x <= i
        BY <1>2, <2>2, <3>1, PositionsOrder
      <3>3. x < i
        BY <2>3, <3>1, <3>2
      <3> QED
        BY <1>2, <2>2, <3>1, <3>3, PositionsOrder
    <2>6. \A x \in Numbers(stream, "frame") : Behind(stream, x) \in Nat
      BY <1>2, ElementLayout DEF Numbers
    <2>7. \A x \in Held(delivered) \union Held(ready) \union Held(parsed) : x = 0 \/ x < i
      BY <1>3, <2>4 DEF Ordered
    <2>8. i # 0
      BY <2>2
    <2>9. Held(parsed') = Held(parsed) \union {i} /\ Ascending(parsed')
      <3>1. Ascending(parsed) /\ \A y \in Held(parsed) : i = 0 \/ y < i
        BY <1>2, <1>3, <2>3, <2>7, <2>8 DEF Ordered
      <3> QED
        BY <1>2, <2>2, <2>3, <3>1, QueueAppend
    <2>10. Ordered'
      <3>1. Ascending(delivered') /\ Ascending(ready') /\ Ascending(parsed')
        BY <1>1, <1>3, <2>9 DEF Ordered
      <3>2. \A x \in Held(delivered') : \A y \in Held(ready') : x < y
        BY <1>1, <1>3 DEF Ordered
      <3>3. \A x \in Held(delivered') \union Held(ready') : \A y \in Held(parsed') : y = 0 \/ x < y
        BY <1>1, <1>2, <1>3, <2>3, <2>7, <2>8, <2>9 DEF Ordered
      <3>4. \A x \in Held(delivered') \union Held(ready') \union Held(parsed') :
              x = 0 \/ (x \in Numbers(stream', "frame") /\ Behind(stream', x) <= consumed')
        BY <1>1, <1>2, <1>3, <2>2, <2>3, <2>6, <2>9 DEF Ordered
      <3> QED
        BY <3>1, <3>2, <3>3, <3>4 DEF Ordered
    <2>11. Kept'
      <3>1. \A x \in ExpectedOf(stream) : x \in Numbers(stream, "frame")
        BY DEF ExpectedOf
      <3> QED
        BY <1>1, <1>3, <2>2, <2>5, <2>9, <3>1 DEF Kept
    <2> QED
      BY <1>4, <2>10, <2>11
  <1> QED
    BY <1>5, <1>6

\* The first frame of those parsed leaves its queue, and is no message.
LEMMA HeadDropped ==
    ASSUME Inv, parsed # <<>>, parsed' = Tail(parsed),
           UNCHANGED <<stream, consumed, where, ready, delivered, status>>,
           Head(parsed) \notin ExpectedOf(stream)
    PROVE  Ordered' /\ Kept' /\ NoGap'
  <1>1. parsed \in Seq(Nat) /\ Ordered /\ Kept /\ NoGap
    BY QueuesTyped DEF Inv
  <1>2. Held(parsed) = {Head(parsed)} \union Held(parsed') /\ Ascending(parsed')
    BY <1>1, QueueTail DEF Ordered
  <1>3. Ordered'
    BY <1>1, <1>2 DEF Ordered
  <1>4. Kept'
    BY <1>1, <1>2 DEF Kept
  <1>5. NoGap'
    BY <1>1 DEF NoGap
  <1> QED
    BY <1>3, <1>4, <1>5

\* The frames behind the one that ends the call are dropped: no message that is
\* expected is among them.
LEMMA RestDropped ==
    ASSUME Inv, parsed' = <<>>,
           UNCHANGED <<stream, consumed, ready, delivered>>,
           \/ status' = "ProtocolError"
           \/ /\ where \in Upgraded /\ status # "ProtocolError"
              /\ parsed # <<>> /\ Head(parsed) \in EndsOf(stream)
    PROVE  Ordered' /\ Kept' /\ NoGap'
  <1>1. parsed \in Seq(Nat) /\ Ordered /\ Kept /\ NoGap /\ Held(parsed) \subseteq Nat
        /\ stream \in Streams
    BY QueuesTyped DEF Inv, TypeOK
  <1>2. Held(parsed') = {} /\ Ascending(parsed')
    BY EmptyQueue
  <1>3. Ordered'
    BY <1>1, <1>2 DEF Ordered
  <1>4. Kept'
    <2>1. CASE status' = "ProtocolError"
      BY <2>1 DEF Kept
    <2>2. CASE /\ where \in Upgraded /\ status # "ProtocolError"
               /\ parsed # <<>> /\ Head(parsed) \in EndsOf(stream)
      <3>1. /\ Held(parsed) = {Head(parsed)} \union Held(Tail(parsed)) /\ Head(parsed) \in Nat
            /\ \A y \in Held(Tail(parsed)) : y = 0 \/ Head(parsed) < y
        BY <1>1, <2>2, QueueTail DEF Ordered
      <3>2. \A i \in ExpectedOf(stream) : i < Head(parsed) /\ i \in Nat \ {0}
        <4>1. \A i \in ExpectedOf(stream) : i \in 1..Len(stream)
          BY DEF ExpectedOf, Numbers
        <4>2. Len(stream) \in Nat
          BY <1>1, Shape
        <4> QED
          BY <2>2, <4>1, <4>2 DEF ExpectedOf
      <3>3. \A i \in ExpectedOf(stream) : i \notin Held(parsed)
        BY <1>1, <3>1, <3>2
      <3> QED
        BY <1>1, <2>2, <3>3 DEF Kept
    <2> QED
      BY <2>1, <2>2
  <1>5. NoGap'
    BY <1>1 DEF NoGap
  <1> QED
    BY <1>3, <1>4, <1>5

\* A message moves from the frames parsed to those ready.
LEMMA MessageReady ==
    ASSUME Inv, parsed # <<>>, parsed' = Tail(parsed), ready' = Append(ready, Head(parsed)),
           Head(parsed) # 0, where \in Upgraded, status # "ProtocolError",
           UNCHANGED <<stream, consumed, where, delivered, status>>
    PROVE  Ordered' /\ Kept' /\ NoGap'
  <1>1. PICK h : h = Head(parsed)
    OBVIOUS
  <1>2. /\ parsed \in Seq(Nat) /\ ready \in Seq(Nat) /\ Ordered /\ Kept /\ NoGap
        /\ Held(parsed) \subseteq Nat /\ Held(ready) \subseteq Nat /\ Held(delivered) \subseteq Nat
        /\ stream \in Streams
    BY QueuesTyped DEF Inv, TypeOK
  <1>3. /\ Held(parsed) = {h} \union Held(parsed') /\ Ascending(parsed') /\ h \in Nat \ {0}
        /\ \A y \in Held(parsed') : y = 0 \/ h < y
    BY <1>1, <1>2, QueueTail DEF Ordered
  <1>4. \A x \in Held(delivered) \union Held(ready) : x < h
    BY <1>2, <1>3 DEF Ordered
  <1>5. Held(ready') = Held(ready) \union {h} /\ Ascending(ready')
    BY <1>1, <1>2, <1>3, <1>4, QueueAppend DEF Ordered
  <1>6. Ordered'
    <2>1. Ascending(delivered') /\ Ascending(ready') /\ Ascending(parsed')
      BY <1>2, <1>3, <1>5 DEF Ordered
    <2>2. \A x \in Held(delivered') : \A y \in Held(ready') : x < y
      BY <1>2, <1>4, <1>5 DEF Ordered
    <2>3. \A x \in Held(delivered') \union Held(ready') : \A y \in Held(parsed') : y = 0 \/ x < y
      BY <1>2, <1>3, <1>5 DEF Ordered
    <2>4. \A x \in Held(delivered') \union Held(ready') \union Held(parsed') :
            x = 0 \/ (x \in Numbers(stream', "frame") /\ Behind(stream', x) <= consumed')
      BY <1>2, <1>3, <1>5 DEF Ordered
    <2> QED
      BY <2>1, <2>2, <2>3, <2>4 DEF Ordered
  <1>7. Kept'
    BY <1>2, <1>3, <1>5 DEF Kept
  <1>8. NoGap'
    <2> SUFFICES ASSUME NEW i \in ExpectedOf(stream),
                        NEW x \in Held(delivered) \union Held(ready'), i < x
                 PROVE  i \in Held(delivered) \union Held(ready')
      BY DEF NoGap
    <2>1. CASE x # h
      BY <1>2, <1>5, <2>1 DEF NoGap
    <2>2. CASE x = h
      <3>1. h \in Numbers(stream, "frame") /\ Behind(stream, h) <= consumed
        BY <1>2, <1>3 DEF Ordered
      <3>2. i \in 1..Len(stream) /\ h \in 1..Len(stream) /\ Len(stream) \in Nat
        BY <1>2, <3>1, Shape DEF ExpectedOf, Numbers
      <3>3. Behind(stream, i) <= Behind(stream, h) /\ Behind(stream, i) \in Nat
            /\ Behind(stream, h) \in Nat
        BY <1>2, <2>2, <3>2, PositionsOrder, ElementLayout
      <3>4. Behind(stream, i) <= consumed
        BY <3>1, <3>3 DEF Inv, TypeOK
      <3>5. i \in Held(delivered) \union Held(ready) \union Held(parsed)
        BY <1>2, <3>4 DEF Kept
      <3>6. i \notin Held(parsed')
        BY <1>2, <1>3, <2>2, <3>2
      <3> QED
        BY <1>3, <1>5, <3>5, <3>6
    <2> QED
      BY <2>1, <2>2
  <1> QED
    BY <1>6, <1>7, <1>8

\* The first message that is ready is dispatched.
LEMMA MessageDelivered ==
    ASSUME Inv, ready # <<>>, ready' = Tail(ready), delivered' = Append(delivered, Head(ready)),
           UNCHANGED <<stream, consumed, where, parsed, status>>
    PROVE  Ordered' /\ Kept' /\ NoGap'
  <1>1. PICK h : h = Head(ready)
    OBVIOUS
  <1>2. /\ parsed \in Seq(Nat) /\ ready \in Seq(Nat) /\ delivered \in Seq(Nat)
        /\ Ordered /\ Kept /\ NoGap
        /\ Held(parsed) \subseteq Nat /\ Held(ready) \subseteq Nat \ {0}
        /\ Held(delivered) \subseteq Nat
    BY QueuesTyped DEF Inv
  <1>3. /\ Held(ready) = {h} \union Held(ready') /\ Ascending(ready') /\ h \in Nat
        /\ \A y \in Held(ready') : y = 0 \/ h < y
    BY <1>1, <1>2, QueueTail DEF Ordered
  <1>4. h # 0 /\ (\A y \in Held(ready') : h < y) /\ \A x \in Held(delivered) : x < h
    BY <1>2, <1>3 DEF Ordered
  <1>5. Held(delivered') = Held(delivered) \union {h} /\ Ascending(delivered')
    BY <1>1, <1>2, <1>3, <1>4, QueueAppend DEF Ordered
  <1>6. Held(delivered') \union Held(ready') = Held(delivered) \union Held(ready)
    BY <1>3, <1>5
  <1>7. Ordered'
    <2>1. Ascending(delivered') /\ Ascending(ready') /\ Ascending(parsed')
      BY <1>2, <1>3, <1>5 DEF Ordered
    <2>2. \A x \in Held(delivered') : \A y \in Held(ready') : x < y
      BY <1>2, <1>3, <1>4, <1>5 DEF Ordered
    <2>3. \A x \in Held(delivered') \union Held(ready') : \A y \in Held(parsed') : y = 0 \/ x < y
      BY <1>2, <1>6 DEF Ordered
    <2>4. \A x \in Held(delivered') \union Held(ready') \union Held(parsed') :
            x = 0 \/ (x \in Numbers(stream', "frame") /\ Behind(stream', x) <= consumed')
      BY <1>2, <1>6 DEF Ordered
    <2> QED
      BY <2>1, <2>2, <2>3, <2>4 DEF Ordered
  <1>8. Kept'
    BY <1>2, <1>6 DEF Kept
  <1>9. NoGap'
    BY <1>2, <1>6 DEF NoGap
  <1> QED
    BY <1>7, <1>8, <1>9

\* The result of a read is forgotten: either nothing was ready, or the dispatch of a
\* text that is not UTF-8 threw, and the messages behind it are not expected.
LEMMA ResultForgotten ==
    ASSUME Inv, where = "dispatching", ready' = <<>>,
           UNCHANGED <<stream, consumed, delivered, parsed>>,
           \/ ready = <<>> /\ (status # "ProtocolError" \/ where' = "gone")
           \/ ready # <<>> /\ Head(ready) \in EndsOf(stream)
    PROVE  Ordered' /\ Kept' /\ NoGap'
  <1>1. /\ ready \in Seq(Nat) /\ Ordered /\ Kept /\ NoGap /\ stream \in Streams
        /\ Held(ready) \subseteq Nat \ {0} /\ Held(delivered) \subseteq Nat
        /\ Len(stream) \in Nat
    BY QueuesTyped, Shape DEF Inv, TypeOK
  <1>2. parsed = <<>> /\ Held(parsed) = {} /\ Held(ready') = {} /\ Ascending(ready')
    BY EmptyQueue DEF Inv, Framing
  <1>3. Ordered'
    BY <1>1, <1>2 DEF Ordered
  <1>e. \A i \in ExpectedOf(stream) : i \in Nat
    BY <1>1 DEF ExpectedOf, Numbers
  <1>4. NoGap'
    <2> SUFFICES ASSUME NEW i \in ExpectedOf(stream), NEW x \in Held(delivered), i < x
                 PROVE  i \in Held(delivered)
      BY <1>2 DEF NoGap
    <2>1. i \in Held(delivered) \union Held(ready)
      BY <1>1 DEF NoGap
    <2>2. i \in Held(ready) => x < i
      BY <1>1 DEF Ordered
    <2>3. i \in Nat /\ x \in Nat
      BY <1>1, <1>e
    <2> QED
      BY <2>1, <2>2, <2>3
  <1>5. Kept'
    <2>1. CASE ready = <<>> /\ (status # "ProtocolError" \/ where' = "gone")
      <3>1. Held(ready) = {}
        BY <2>1, EmptyQueue
      <3> QED
        BY <1>1, <1>2, <2>1, <3>1 DEF Kept, Upgraded
    <2>2. CASE ready # <<>> /\ Head(ready) \in EndsOf(stream)
      <3> SUFFICES ASSUME NEW i \in ExpectedOf(stream) PROVE i \in Held(delivered)
        BY DEF Kept
      <3>1. PICK h : h = Head(ready)
        OBVIOUS
      <3>2. /\ Held(ready) = {h} \union Held(Tail(ready)) /\ h \in Nat
            /\ \A y \in Held(Tail(ready)) : y = 0 \/ h < y
        BY <1>1, <2>2, <3>1, QueueTail DEF Ordered
      <3>3. i < h /\ i \in Nat
        BY <1>e, <2>2, <3>1 DEF ExpectedOf
      <3>4. i \in Held(delivered) \union Held(ready)
        BY <1>1, <3>2, <3>3 DEF NoGap
      <3>5. i \notin Held(ready)
        BY <1>1, <3>2, <3>3
      <3> QED
        BY <3>4, <3>5
    <2> QED
      BY <2>1, <2>2
  <1> QED
    BY <1>3, <1>4, <1>5

\* Every step keeps the order of the queues and loses no expected message.
LEMMA QueueStep ==
    ASSUME Inv, [Next]_vars
    PROVE  Ordered' /\ Kept' /\ NoGap'
  <1>0. stream' = stream
    BY StreamFixed
  <1>s. stream \in Streams /\ Framing
    BY DEF Inv, TypeOK
  <1> USE <1>0 DEF client, input, parser, result
  <1>1. CASE Client
    <2>1. UNCHANGED <<stream, consumed, parsed, ready, delivered, where, status>>
      BY <1>1 DEF Client, Arrive, ClientFin, ClientDies, ClientPong
    <2> QED
      BY <2>1, QueuesKept
  <1>2. CASE HttpRead \/ HttpGivesUp \/ ParseNeedsMore \/ HttpAnswers \/ HandOver
    <2>1. /\ UNCHANGED <<stream, consumed, parsed, ready, delivered, status>>
          /\ where' \notin Upgraded
      BY <1>2 DEF HttpRead, HttpGivesUp, ParseNeedsMore, HttpAnswers, HandOver, Upgraded
    <2> QED
      BY <2>1, QueuesKept
  <1>3. CASE ParseRequestLine \/ ParseHeader \/ ParseBody
    <2>1. where = "parse" /\ UNCHANGED <<where, parsed, ready, delivered, status>>
      BY <1>3 DEF ParseRequestLine, ParseHeader, ParseBody
    <2>2. parsed' = <<>> /\ ready' = <<>> /\ delivered' = <<>> /\ where' \notin Upgraded
      BY <1>s, <2>1 DEF Framing, Upgraded
    <2>3. /\ Held(parsed') = {} /\ Held(ready') = {} /\ Held(delivered') = {}
          /\ Ascending(parsed') /\ Ascending(ready') /\ Ascending(delivered')
      BY <2>2, EmptyQueue
    <2> QED
      BY <2>2, <2>3 DEF Ordered, Kept, NoGap
  <1>4. CASE Handshake
    <2>1. where = "handed" /\ UNCHANGED <<stream, consumed, parsed, ready, delivered, status>>
      BY <1>4 DEF Handshake
    <2>2. parsed' = <<>> /\ ready' = <<>> /\ delivered' = <<>> /\ state_ = "Complete"
      BY <1>s, <2>1 DEF Framing
    <2>3. /\ Held(parsed') = {} /\ Held(ready') = {} /\ Held(delivered') = {}
          /\ Ascending(parsed') /\ Ascending(ready') /\ Ascending(delivered')
      BY <2>2, EmptyQueue
    <2>4. /\ consumed = Behind(stream, BlankOf(stream)) + Announced(stream, BlankOf(stream))
          /\ HeadersValid(stream)
      BY <2>1, <2>2 DEF Inv, Parsing
    <2>5. \A i \in Numbers(stream, "frame") : consumed < Behind(stream, i)
      BY <1>s, <2>4, RequestEnds
    <2>6. \A i \in Numbers(stream, "frame") : Behind(stream, i) \in Nat /\ consumed \in Nat
      BY <1>s, ElementLayout DEF Numbers, Inv, TypeOK
    <2>7. \A i \in ExpectedOf(stream) : ~(Behind(stream, i) <= consumed)
      BY <2>5, <2>6 DEF ExpectedOf
    <2>8. Kept'
      BY <2>1, <2>7 DEF Kept
    <2> QED
      BY <2>3, <2>8 DEF Ordered, NoGap
  <1>5. CASE ReadEvent \/ ReadEnds \/ ReadFails \/ ParseStops \/ HandlesAll
    <2>1. /\ UNCHANGED <<stream, consumed, parsed, ready, delivered>>
          /\ where \in Upgraded /\ where # "dispatching"
      BY <1>5 DEF ReadEvent, ReadEnds, ReadFails, ParseStops, HandlesAll, Upgraded
    <2>2. status = "NeedMoreData"
      BY <1>s, <2>1 DEF Framing, Upgraded
    <2> QED
      BY <2>1, <2>2, QueuesKept
  <1>6. CASE Read
    <2>1. /\ UNCHANGED <<stream, consumed, ready, delivered, status>> /\ parsed' = <<>>
          /\ where = "reading"
      BY <1>6 DEF Read
    <2>2. parsed = <<>>
      BY <1>s, <2>1 DEF Framing
    <2> QED
      BY <2>1, <2>2, QueuesKept DEF Upgraded
  <1>7. CASE ParseFrame
    BY <1>7, ParseFrameStep
  <1>8. CASE ParseFails \/ HandleFragment
    <2>1. /\ UNCHANGED <<stream, consumed, ready, delivered>> /\ parsed' = <<>>
          /\ status' = "ProtocolError"
      BY <1>8 DEF ParseFails, HandleFragment
    <2> QED
      BY <2>1, RestDropped
  <1>9. CASE HandleClose
    <2>1. /\ UNCHANGED <<stream, consumed, ready, delivered>> /\ parsed' = <<>>
          /\ where = "handling" /\ parsed # <<>> /\ Head(parsed) # 0
          /\ stream[Head(parsed)].opcode = "Close"
      BY <1>9 DEF HandleClose, Handles
    <2>2. status = "NeedMoreData"
      BY <1>s, <2>1 DEF Framing
    <2>3. Head(parsed) \in EndsOf(stream)
      BY <2>1, HeadIsFrame DEF EndsOf
    <2> QED
      BY <2>1, <2>2, <2>3, RestDropped DEF Upgraded
  <1>10. CASE HandlePing \/ HandlePong
    <2>1. /\ UNCHANGED <<stream, consumed, where, ready, delivered, status>>
          /\ parsed' = Tail(parsed) /\ parsed # <<>>
          /\ Head(parsed) = 0 \/ stream[Head(parsed)].opcode \in {"Ping", "Pong"}
      BY <1>10 DEF HandlePing, HandlePong, Handles
    <2>2. Head(parsed) \notin ExpectedOf(stream)
      BY <2>1 DEF ExpectedOf, Numbers
    <2> QED
      BY <2>1, <2>2, HeadDropped
  <1>11. CASE HandleMessage
    <2>1. /\ UNCHANGED <<stream, consumed, where, delivered, status>>
          /\ parsed' = Tail(parsed) /\ parsed # <<>> /\ ready' = Append(ready, Head(parsed))
          /\ where = "handling" /\ Head(parsed) # 0
      BY <1>11 DEF HandleMessage, Handles
    <2>2. status = "NeedMoreData"
      BY <1>s, <2>1 DEF Framing
    <2> QED
      BY <2>1, <2>2, MessageReady DEF Upgraded
  <1>12. CASE DispatchFrame
    <2>1. /\ UNCHANGED <<stream, consumed, where, parsed, status>> /\ ready # <<>>
          /\ ready' = Tail(ready) /\ delivered' = Append(delivered, Head(ready))
      BY <1>12 DEF DispatchFrame
    <2> QED
      BY <2>1, MessageDelivered
  <1>13. CASE DispatchThrows
    <2>1. /\ UNCHANGED <<stream, consumed, parsed, delivered>> /\ ready # <<>>
          /\ ready' = <<>> /\ where = "dispatching" /\ ~stream[Head(ready)].utf8
      BY <1>13 DEF DispatchThrows, NoResult
    <2>2. ready \in Seq(Nat) /\ Held(ready) \subseteq Nat \ {0} /\ Ordered
      BY QueuesTyped DEF Inv
    <2>3. Head(ready) \in Held(ready)
      BY <2>1, <2>2, QueueTail
    <2>4. Head(ready) \in Numbers(stream, "frame")
      BY <2>2, <2>3 DEF Ordered
    <2>5. Head(ready) \in EndsOf(stream)
      BY <2>1, <2>4 DEF EndsOf
    <2> QED
      BY <2>1, <2>5, ResultForgotten
  <1>14. CASE ReadHandled
    <2>1. /\ UNCHANGED <<stream, consumed, parsed, delivered>> /\ ready = <<>>
          /\ ready' = <<>> /\ where = "dispatching"
          /\ status # "ProtocolError" \/ where' = "gone"
      BY <1>14 DEF ReadHandled, NoResult
    <2> QED
      BY <2>1, ResultForgotten
  <1>15. CASE Flush \/ ConnectionFails \/ HandleTimer
    <2>1. /\ UNCHANGED <<stream, consumed, parsed, ready, delivered, status>>
          /\ where = "poll"
      BY <1>15 DEF Flush, ConnectionFails, HandleTimer
    <2> QED
      BY <2>1, QueuesKept DEF Upgraded
  <1>16. CASE UNCHANGED vars
    <2>1. UNCHANGED <<stream, consumed, parsed, ready, delivered, where, status>>
      BY <1>16 DEF vars
    <2> QED
      BY <2>1, QueuesKept
  <1> QED
    BY <1>1, <1>2, <1>3, <1>4, <1>5, <1>6, <1>7, <1>8, <1>9, <1>10, <1>11, <1>12, <1>13,
       <1>14, <1>15, <1>16 DEF Next, Client, Http, Handler

-----------------------------------------------------------------------------
(* The theorems.                                                             *)

\* A new connection satisfies the invariant.
LEMMA InitInv ==
    ASSUME Init
    PROVE  Inv
  <1>1. stream \in Streams /\ Len(stream) \in Nat /\ Total \in Nat /\ TickBound \in Nat
        /\ MaxBodySize \in Nat
    BY Shape, TotalBounds, Names, TicksAssumption, Limits DEF Init, TickBound
  <1>2. TypeOK
    <2>1. fin \in BOOLEAN /\ alive \in BOOLEAN /\ garbled \in BOOLEAN
          /\ output_queued \in BOOLEAN /\ closing \in BOOLEAN /\ waiting_for_pong_ \in BOOLEAN
      BY Zenon DEF Init
    <2>2. parsed \in Seq(0..Len(stream)) /\ ready \in Seq(1..Len(stream))
          /\ delivered \in Seq(1..Len(stream))
      BY DEF Init
    <2>3. arrived \in 0..Total /\ got \in 0..arrived /\ consumed \in 0..got
          /\ content_length \in 0..MaxBodySize /\ ticks \in 0..TickBound
      BY <1>1 DEF Init
    <2>4. stream \in Streams /\ where = "http" /\ state_ = "RequestLine"
          /\ status = "NeedMoreData" /\ pong = "none" /\ out = {}
      BY DEF Init
    <2> QED
      BY <2>1, <2>2, <2>3, <2>4 DEF TypeOK
  <1>3. Parsing
    BY DEF Init, Parsing
  <1>4. Framing
    BY DEF Init, Framing, Upgraded
  <1>5. Held(parsed) = {} /\ Held(ready) = {} /\ Held(delivered) = {}
        /\ Ascending(parsed) /\ Ascending(ready) /\ Ascending(delivered)
    BY EmptyQueue DEF Init
  <1>6. Ordered /\ Kept /\ NoGap /\ Blamed
    BY <1>5 DEF Init, Ordered, Kept, NoGap, Blamed, Upgraded
  <1> QED
    BY <1>2, <1>3, <1>4, <1>6 DEF Inv

\* In every reachable state the parser stands where its state says, the queues of
\* frames are in order, and no message it has passed is missing.
THEOREM InputInvariant == Spec => []Inv
  <1>1. Init => Inv
    BY InitInv
  <1>2. Inv /\ [Next]_vars => Inv'
    BY TypeStep, ParsingStep, FramingStep, BlamedStep, QueueStep DEF Inv
  <1> QED
    BY <1>1, <1>2, PTL DEF Spec

\* The bytes parsed were read, those read have arrived, and those that arrive are the
\* client's: no parser looks beyond its buffer.
THEOREM InputTypes == Spec => []TypeOK
  <1>1. Inv => TypeOK
    BY DEF Inv
  <1> QED
    BY <1>1, InputInvariant, PTL

\* HttpParse accepts a well-formed request however its bytes are cut and leaves what
\* follows it in the buffer.
THEOREM RequestIsParsedExactly == Spec => []RequestParsedExactly
  <1>1. Inv => RequestParsedExactly
    <2> SUFFICES ASSUME Inv, WellFormedRequest
                 PROVE  /\ state_ # "Error" /\ ~garbled
                        /\ state_ = "Complete" /\ where \in {"parse", "handed"} =>
                             consumed = End(RequestEnd) + BodySize
      BY DEF RequestParsedExactly
    <2>1. state_ # "Error" /\ ~garbled
      BY Zenon DEF Inv, Parsing
    <2>2. state_ = "Complete" /\ where \in {"parse", "handed"} =>
            consumed = End(RequestEnd) + BodySize
      BY Names DEF Inv, Parsing
    <2> QED
      BY <2>1, <2>2
  <1> QED
    BY <1>1, InputInvariant, PTL

\* The frames of a connection are dispatched in the order they were sent, each once and
\* none left out in front of a later one, and only a client's own error is blamed on it.
THEOREM FramesAreReadAsSent == Spec => []FramesReadAsSent
  <1>1. Inv => FramesReadAsSent
    <2> SUFFICES ASSUME Inv PROVE FramesReadAsSent
      OBVIOUS
    <2>1. /\ delivered \in Seq(Nat) /\ Held(delivered) \subseteq Nat \ {0}
          /\ Held(ready) \subseteq Nat \ {0} /\ Ordered /\ NoGap /\ Blamed
      BY QueuesTyped DEF Inv
    <2>2. Expected = ExpectedOf(stream) /\ Kind("frame") = Numbers(stream, "frame")
      BY Names
    <2>3. Len(delivered) \in Nat /\ \A k \in 1..Len(delivered) : delivered[k] \in Held(delivered)
      BY <2>1 DEF Held
    <2>4. \A k \in 1..Len(delivered) : \A j \in 1..(k - 1) : delivered[j] < delivered[k]
      <3> SUFFICES ASSUME NEW k \in 1..Len(delivered), NEW j \in 1..(k - 1)
                   PROVE  delivered[j] < delivered[k]
        OBVIOUS
      <3>1. j \in 1..Len(delivered) /\ j < k /\ delivered[k] # 0
        BY <2>1, <2>3
      <3> QED
        BY <2>1, <3>1 DEF Ordered, Ascending
    <2>5. \A k \in 1..Len(delivered) : \A i \in Expected :
            i < delivered[k] => \E j \in 1..(k - 1) : delivered[j] = i
      <3> SUFFICES ASSUME NEW k \in 1..Len(delivered), NEW i \in Expected, i < delivered[k]
                   PROVE  \E j \in 1..(k - 1) : delivered[j] = i
        OBVIOUS
      <3>1. i \in Held(delivered) \union Held(ready)
        BY <2>1, <2>2, <2>3 DEF NoGap
      <3>2. i \in Held(ready) => delivered[k] < i
        BY <2>1, <2>3 DEF Ordered
      <3>3. delivered[k] \in Nat /\ i \in Nat
        BY <2>1, <2>3, <3>1
      <3>4. PICK j \in 1..Len(delivered) : delivered[j] = i
        BY <3>1, <3>2, <3>3 DEF Held
      <3>5. ~(k < j) /\ k # j
        <4>1. k < j => delivered[j] = 0 \/ delivered[k] < delivered[j]
          BY <2>1 DEF Ordered, Ascending
        <4>2. delivered[j] # 0
          BY <2>1, <2>3
        <4> QED
          BY <3>3, <3>4, <4>1, <4>2
      <3>6. j \in 1..(k - 1)
        BY <2>3, <3>5
      <3> QED
        BY <3>4, <3>6
    <2>6. status = "ProtocolError" => \E i \in Kind("frame") : ~LegalFrame(stream[i])
      BY <2>1, <2>2 DEF Blamed
    <2> QED
      BY <2>4, <2>5, <2>6 DEF FramesReadAsSent
  <1> QED
    BY <1>1, InputInvariant, PTL
=============================================================================
