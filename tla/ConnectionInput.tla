-------------------------- MODULE ConnectionInput --------------------------
(***************************************************************************)
(* The bytes of one connection, from the first HTTP line to the last       *)
(* WebSocket frame: HttpParse and HttpSession, the hand-over of the        *)
(* connection with what is left in its input buffer, FrameParse and        *)
(* WebSocketMessageHandler, the dispatch of what was read, and the         *)
(* heartbeat.                                                              *)
(*                                                                         *)
(* The client's bytes are a sequence of elements (lines, a body, frames)   *)
(* of known sizes; a position in them stands for a byte.  They arrive cut  *)
(* anywhere in Cuts; a recv that ends because its 1024 bytes are full is   *)
(* such a cut too.  input_buffer_ holds the bytes from `consumed' to       *)
(* `got'.  Each turn of a parser's loop is a step; bytes that arrive while *)
(* a parser runs are seen by the next read, so they arrive at the reads.   *)
(*                                                                         *)
(* Revocation, replies and pushes use the same session and are modelled in *)
(* WebSocketWorkers.                                                       *)
(***************************************************************************)
EXTENDS Integers, Sequences, FiniteSets

CONSTANTS Streams,     \* what clients may send: each a sequence of elements
          CutOffsets,  \* where in an element the network may cut
          PingTicks,   \* heartbeat_interval_ in periods of the timer
          PongTicks    \* pong_timeout_ in periods of the timer

\* Further periods make no difference: a heartbeat is due long before.
TickBound == PingTicks + PongTicks

ASSUME TicksAssumption == PingTicks \in Nat /\ PongTicks \in Nat \ {0}

VARIABLES
  stream,                       \* what the client sends
  arrived, fin, alive,          \* the bytes that have come, the FIN, and whether
                                \* the client still sends and reads
  got, consumed,                \* the bytes that were read, and parsed
  where,                        \* what the thread that owns the connection does
  state_, content_length,       \* HttpParse
  garbled,                      \* the request line took bytes of the next line
  parsed,                       \* frames of one FrameParse call
  ready, status, output_queued, \* WebSocketHandleResult
  delivered,                    \* frames handed to the dispatcher
  out, closing,                 \* queued control frames; closing_sessions_
  pong,                         \* where the client's Pong is
  waiting_for_pong_,
  ticks                         \* periods since last_activity_, or since
                                \* ping_sent_at_ while a Pong is awaited

client == <<stream, arrived, fin, alive>>
input == <<got, consumed>>
parser == <<state_, content_length, garbled>>
result == <<ready, status, output_queued>>
output == <<out, closing>>
heartbeat == <<pong, waiting_for_pong_, ticks>>
vars == <<client, input, where, parser, parsed, result, delivered, output, heartbeat>>

-----------------------------------------------------------------------------
(* The layout of the bytes.                                                 *)

MaxPayloadSize == 1048576
MaxBodySize == 1048576

\* A frame gives its length in 7 bits, in 2 or in 8 further bytes.
HeaderSize(f) == CASE f.form = 7 -> 2 [] f.form = 16 -> 4 [] f.form = 64 -> 10
MaskSize == 4
SizeOf(e) == IF e.kind = "frame" THEN HeaderSize(e) + MaskSize + e.payload ELSE e.size

Start(i) == stream[i].at
End(i) == Start(i) + SizeOf(stream[i])
Total == End(Len(stream))

\* Of a line its size, its spaces and what the parser looks for in it.
Line == [kind : {"request"}, at : Nat, size : Nat \ {0}, spaces : SUBSET Nat]
HeaderLine == [kind : {"header"}, at : Nat, size : Nat \ {0}, spaces : SUBSET Nat,
               name : STRING, length : Int, colon : BOOLEAN]
Frames == [kind : {"frame"}, at : Nat, opcode : STRING, form : {7, 16, 64}, payload : Nat,
           fin : BOOLEAN, rsv : BOOLEAN, masked : BOOLEAN, utf8 : BOOLEAN]
Elements == Line \union HeaderLine \union [kind : {"blank"}, at : Nat, size : {2}]
              \union [kind : {"body"}, at : Nat, size : Nat \ {0}] \union Frames

\* Every element stands where the one before it ends.
ASSUME LayoutAssumption ==
  \A s \in Streams : s \in Seq(Elements) /\ \A i \in 1..Len(s) :
    /\ s[i].at = IF i = 1 THEN 0 ELSE s[i - 1].at + SizeOf(s[i - 1])
    /\ s[i].kind \in {"request", "header"} => \A k \in s[i].spaces : k < s[i].size

\* The Content-Length in front of element i of s: that of the last such header.
Announced(s, i) ==
  LET headers == {j \in 1..(i - 1) : s[j].kind = "header" /\ s[j].name = "Content-Length"}
  IN IF headers = {} THEN 0
     ELSE s[CHOOSE j \in headers : \A k \in headers : k <= j].length

\* parseContentLength: a complete decimal number within the limit; -1 is what is none.
ContentLengthValid(e) == e.length \in 0..MaxBodySize

\* What parseHeader accepts.  The name is compared as it is written, and of the value only
\* leading spaces are cut off: "content-length" is a header like any other to the parser,
\* and a number with spaces behind it is none (-1).
HeaderValid(e) ==
  e.colon /\ (e.name = "Content-Length" => ContentLengthValid(e))

\* A request line, headers, a blank line, the body that valid headers announce, frames.
ASSUME StreamAssumption ==
  \A s \in Streams : \E b \in 2..Len(s) :
    /\ s[1].kind = "request" /\ s[b].kind = "blank"
    /\ \A i \in 2..(b - 1) : s[i].kind = "header"
    /\ \A i \in (b + 1)..Len(s) : s[i].kind = "frame" \/ (i = b + 1 /\ s[i].kind = "body")
    /\ (\A i \in 2..(b - 1) : HeaderValid(s[i])) =>
         IF Announced(s, b) = 0 THEN b < Len(s) => s[b + 1].kind = "frame"
         ELSE b < Len(s) /\ s[b + 1].kind = "body" /\ s[b + 1].size = Announced(s, b)

ASSUME CutAssumption == CutOffsets \subseteq Nat

\* In the middle of an element, before its last byte, and behind it.
Cuts == UNION {{Start(i) + k : k \in {c \in CutOffsets : c < SizeOf(stream[i])}}
                 \union {End(i) - 1, End(i)} : i \in 1..Len(stream)}

\* The element that begins where the parsers are.
Here == CHOOSE i \in 1..Len(stream) : Start(i) = consumed
Kind(kind) == {i \in 1..Len(stream) : stream[i].kind = kind}
Element == stream[Here]
Complete(i) == got >= End(i)

TypeOK ==
  /\ stream \in Streams /\ fin \in BOOLEAN /\ alive \in BOOLEAN
  /\ arrived \in 0..Total /\ got \in 0..arrived /\ consumed \in 0..got
  /\ where \in {"http", "parse", "handed", "poll", "reading", "framing", "handling",
                "dispatching", "gone"}
  /\ state_ \in {"RequestLine", "Header", "Body", "Complete", "Error"}
  /\ content_length \in 0..MaxBodySize /\ garbled \in BOOLEAN
  /\ parsed \in Seq(0..Len(stream)) /\ ready \in Seq(1..Len(stream))
  /\ status \in {"NeedMoreData", "MessagesReady", "PeerClosed", "ProtocolError", "IoError"}
  /\ output_queued \in BOOLEAN /\ delivered \in Seq(1..Len(stream))
  /\ out \subseteq {"ping", "pong", "close"} /\ closing \in BOOLEAN
  /\ pong \in {"none", "asked", "sent", "read"}
  /\ waiting_for_pong_ \in BOOLEAN /\ ticks \in 0..TickBound

Init ==
  /\ stream \in Streams /\ arrived = 0 /\ fin = FALSE /\ alive = TRUE
  /\ got = 0 /\ consumed = 0 /\ where = "http"
  /\ state_ = "RequestLine" /\ content_length = 0 /\ garbled = FALSE
  /\ parsed = <<>> /\ ready = <<>> /\ status = "NeedMoreData" /\ output_queued = FALSE
  /\ delivered = <<>> /\ out = {} /\ closing = FALSE
  /\ pong = "none" /\ waiting_for_pong_ = FALSE /\ ticks = 0

-----------------------------------------------------------------------------
(* The client and the network.                                              *)

Arrive ==
  /\ alive /\ ~fin /\ where \in {"http", "poll", "reading"}
  /\ \E c \in Cuts : c > arrived /\ arrived' = c
  /\ UNCHANGED <<stream, fin, alive, input, where, parser, parsed, result, delivered,
                 output, heartbeat>>

ClientFin ==
  /\ alive /\ ~fin /\ where \in {"http", "poll", "reading"}
  /\ fin' = TRUE
  /\ UNCHANGED <<stream, arrived, alive, input, where, parser, parsed, result, delivered,
                 output, heartbeat>>

ClientDies ==
  /\ alive /\ alive' = FALSE
  /\ UNCHANGED <<stream, arrived, fin, input, where, parser, parsed, result, delivered,
                 output, heartbeat>>

\* A client answers a Ping behind the last frame of its own: the Pong itself is not in
\* the stream, so that it cannot stand inside one of its frames.
ClientPong ==
  /\ alive /\ ~fin /\ pong = "asked" /\ arrived = Total
  /\ pong' = "sent"
  /\ UNCHANGED <<client, input, where, parser, parsed, result, delivered, output,
                 waiting_for_pong_, ticks>>

-----------------------------------------------------------------------------
(* HttpSession and HttpParse.                                               *)

HttpRead ==
  /\ where = "http" /\ got < arrived
  /\ got' = arrived /\ where' = "parse"
  /\ UNCHANGED <<client, consumed, parser, parsed, result, delivered, output, heartbeat>>

\* recv returns 0, or fails after SO_RCVTIMEO.
HttpGivesUp ==
  /\ where = "http" /\ got = arrived
  /\ where' = "gone"
  /\ UNCHANGED <<client, input, parser, parsed, result, delivered, output, heartbeat>>

\* parse() returns NeedMoreData: no CRLF in the buffer, or too little of the body.
NeedsMore ==
  \/ state_ \in {"RequestLine", "Header"} /\ (consumed = got \/ ~Complete(Here))
  \/ state_ = "Body" /\ got - consumed < content_length

ParseNeedsMore ==
  /\ where = "parse" /\ NeedsMore
  /\ where' = "http"
  /\ UNCHANGED <<client, input, parser, parsed, result, delivered, output, heartbeat>>

\* The spaces of the buffer, of the first line or of those after it.
Spaces == {p \in UNION {{Start(i) + k : k \in stream[i].spaces} :
                        i \in Kind("request") \union Kind("header")} :
             consumed <= p /\ p < got}

\* The two spaces are looked for in the whole buffer, not in the first line.
ParseRequestLine ==
  /\ where = "parse" /\ state_ = "RequestLine" /\ ~NeedsMore
  /\ IF Cardinality(Spaces) < 2
     THEN state_' = "Error" /\ UNCHANGED <<consumed, garbled>>
     ELSE /\ state_' = "Header" /\ consumed' = End(Here)
          /\ garbled' = (Cardinality({p \in Spaces : p < End(Here)}) < 2)
  /\ UNCHANGED <<client, got, where, content_length, parsed, result, delivered, output,
                 heartbeat>>

ParseHeader ==
  /\ where = "parse" /\ state_ = "Header" /\ ~NeedsMore
  /\ \/ /\ Element.kind = "blank"
        /\ state_' = IF content_length = 0 THEN "Complete" ELSE "Body"
        /\ consumed' = End(Here) /\ UNCHANGED content_length
     \/ /\ Element.kind = "header" /\ HeaderValid(Element)
        /\ content_length' = IF Element.name = "Content-Length" THEN Element.length
                             ELSE content_length
        /\ consumed' = End(Here) /\ UNCHANGED state_
     \/ /\ Element.kind = "header" /\ ~HeaderValid(Element)
        /\ state_' = "Error" /\ UNCHANGED <<consumed, content_length>>
  /\ UNCHANGED <<client, got, where, garbled, parsed, result, delivered, output, heartbeat>>

\* MUTANT: the body takes all that was read.
BodyConsumed_All == got
\* Bytes beyond the body stay in the buffer.
BodyConsumed == consumed + content_length

ParseBody ==
  /\ where = "parse" /\ state_ = "Body" /\ ~NeedsMore
  /\ state_' = "Complete" /\ consumed' = BodyConsumed
  /\ UNCHANGED <<client, got, where, content_length, garbled, parsed, result, delivered,
                 output, heartbeat>>

Upgrades == \E i \in Kind("header") : stream[i].name = "Upgrade"

\* A 400 for what does not parse, and the response of the router: both close.
HttpAnswers ==
  /\ where = "parse" /\ where' = "gone"
  /\ state_ = "Error" \/ (state_ = "Complete" /\ ~Upgrades)
  /\ UNCHANGED <<client, input, parser, parsed, result, delivered, output, heartbeat>>

\* The connection is handed over with its input buffer.
HandOver ==
  /\ where = "parse" /\ state_ = "Complete" /\ Upgrades
  /\ where' = "handed"
  /\ UNCHANGED <<client, input, parser, parsed, result, delivered, output, heartbeat>>

\* acceptingSessions: a new session, whose last activity is now, or a refusal.
Handshake ==
  /\ where = "handed" /\ where' \in {"poll", "gone"} /\ ticks' = 0
  /\ UNCHANGED <<client, input, parser, parsed, result, delivered, output, pong,
                 waiting_for_pong_>>

-----------------------------------------------------------------------------
(* WebSocketMessageHandler::handleReadable and FrameParse.                  *)

\* The result is a local variable: it is empty whenever a read begins.
NoResult == ready' = <<>> /\ status' = "NeedMoreData" /\ output_queued' = FALSE

Readable == arrived > got \/ pong = "sent"

\* EPOLLIN.  Bytes already in the input buffer do not make a socket readable.
ReadEvent ==
  /\ where = "poll" /\ (Readable \/ fin)
  /\ where' = "reading"
  /\ UNCHANGED <<client, input, parser, parsed, result, delivered, output, heartbeat>>

Read ==
  /\ where = "reading" /\ Readable
  /\ got' = arrived /\ pong' = IF pong = "sent" THEN "read" ELSE pong
  /\ ticks' = IF waiting_for_pong_ THEN ticks ELSE 0
  /\ parsed' = <<>> /\ where' = "framing"
  /\ UNCHANGED <<client, consumed, parser, result, delivered, output, waiting_for_pong_>>

\* End of file, or EAGAIN.
ReadEnds ==
  /\ where = "reading" /\ ~Readable
  /\ status' = IF fin THEN "PeerClosed"
               ELSE IF ready # <<>> THEN "MessagesReady" ELSE status
  /\ where' = "dispatching"
  /\ UNCHANGED <<client, input, parser, parsed, ready, output_queued, delivered, output,
                 heartbeat>>

\* read fails otherwise; the messages read before are still dispatched.
ReadFails ==
  /\ where = "reading"
  /\ status' = "IoError" /\ where' = "dispatching"
  /\ UNCHANGED <<client, input, parser, parsed, ready, output_queued, delivered, output,
                 heartbeat>>

Control == {"Close", "Ping", "Pong"}
Opcodes == Control \union {"Continuation", "Text", "Binary"}

\* MUTANT: 126 bytes in two length bytes are taken for a length that is not minimal.
TooShort_OffByOne(f) == \/ f.form = 16 /\ f.payload <= 126
                        \/ f.form = 64 /\ f.payload <= 65535
TooShort(f) == \/ f.form = 16 /\ f.payload < 126
               \/ f.form = 64 /\ f.payload <= 65535

\* What FrameParse makes of a frame of which n bytes are in the buffer, checking
\* in the order of the code.
FrameStep(f, n) ==
  CASE n < 2 -> "more"
    [] n >= 2 /\ (f.rsv \/ ~f.masked \/ f.opcode \notin Opcodes) -> "error"
    [] OTHER ->
         IF n < HeaderSize(f) THEN "more"
         ELSE IF \/ TooShort(f)
                 \/ f.opcode \in Control /\ (~f.fin \/ f.payload > 125)
                 \/ f.opcode = "Close" /\ f.payload = 1
                 \/ f.payload > MaxPayloadSize
              THEN "error"
              ELSE IF n < SizeOf(f) THEN "more" ELSE "frame"

AtEnd == consumed = Total
Step == IF AtEnd THEN (IF pong = "read" THEN "frame" ELSE "more")
        ELSE FrameStep(Element, got - consumed)

\* The Pong that answers the heartbeat stands behind the stream and has number 0.
ParseFrame ==
  /\ where = "framing" /\ Step = "frame"
  /\ IF AtEnd THEN parsed' = Append(parsed, 0) /\ pong' = "none" /\ UNCHANGED consumed
     ELSE parsed' = Append(parsed, Here) /\ consumed' = End(Here) /\ UNCHANGED pong
  /\ UNCHANGED <<client, got, where, parser, result, delivered, output, waiting_for_pong_,
                 ticks>>

ParseStops ==
  /\ where = "framing" /\ Step = "more"
  /\ where' = "handling"
  /\ UNCHANGED <<client, input, parser, parsed, result, delivered, output, heartbeat>>

\* The frames of the call are dropped with the one that is malformed.
ParseFails ==
  /\ where = "framing" /\ Step = "error"
  /\ parsed' = <<>> /\ status' = "ProtocolError" /\ where' = "dispatching"
  /\ UNCHANGED <<client, input, parser, ready, output_queued, delivered, output, heartbeat>>

HandlesAll ==
  /\ where = "handling" /\ parsed = <<>>
  /\ where' = "reading"
  /\ UNCHANGED <<client, input, parser, parsed, result, delivered, output, heartbeat>>

Handles(opcodes) == /\ where = "handling" /\ parsed # <<>>
                    /\ (IF Head(parsed) = 0 THEN "Pong" ELSE stream[Head(parsed)].opcode)
                         \in opcodes

HandleMessage ==
  /\ Handles({"Text", "Binary"}) /\ stream[Head(parsed)].fin
  /\ ready' = Append(ready, Head(parsed)) /\ parsed' = Tail(parsed)
  /\ UNCHANGED <<client, input, where, parser, status, output_queued, delivered, output,
                 heartbeat>>

HandlePing ==
  /\ Handles({"Ping"})
  /\ out' = out \union {"pong"} /\ output_queued' = TRUE /\ parsed' = Tail(parsed)
  /\ UNCHANGED <<client, input, where, parser, ready, status, delivered, closing, heartbeat>>

HandlePong ==
  /\ Handles({"Pong"})
  /\ waiting_for_pong_' = FALSE /\ ticks' = 0 /\ parsed' = Tail(parsed)
  /\ UNCHANGED <<client, input, where, parser, result, delivered, output, pong>>

\* The frames behind a Close are dropped with it.
HandleClose ==
  /\ Handles({"Close"})
  /\ out' = out \union {"close"} /\ output_queued' = TRUE /\ status' = "PeerClosed"
  /\ parsed' = <<>> /\ where' = "dispatching"
  /\ UNCHANGED <<client, input, parser, ready, delivered, closing, heartbeat>>

\* Fragmented messages are not supported.
HandleFragment ==
  /\ \/ Handles({"Continuation"})
     \/ Handles({"Text", "Binary"}) /\ ~stream[Head(parsed)].fin
  /\ parsed' = <<>> /\ status' = "ProtocolError" /\ where' = "dispatching"
  /\ UNCHANGED <<client, input, parser, ready, output_queued, delivered, output, heartbeat>>

-----------------------------------------------------------------------------
(* WebsocketWorker: what follows a read, the output and the timer.          *)

\* What was read is dispatched even if the read ended in a Close or an error.
DispatchFrame ==
  /\ where = "dispatching" /\ ready # <<>> /\ stream[Head(ready)].utf8
  /\ delivered' = Append(delivered, Head(ready)) /\ ready' = Tail(ready)
  /\ UNCHANGED <<client, input, where, parser, parsed, status, output_queued, output,
                 heartbeat>>

\* Text that is not UTF-8 cannot be dumped for the log: the exception leaves the
\* handler with the frames behind it undispatched and the status unhandled.
DispatchThrows ==
  /\ where = "dispatching" /\ ready # <<>> /\ ~stream[Head(ready)].utf8
  /\ where' = "poll" /\ NoResult
  /\ UNCHANGED <<client, input, parser, parsed, delivered, output, heartbeat>>

ReadHandled ==
  /\ where = "dispatching" /\ ready = <<>> /\ NoResult
  /\ \/ /\ status \in {"MessagesReady", "NeedMoreData"}
        /\ where' = "poll" /\ UNCHANGED closing
     \/ /\ status = "PeerClosed" /\ output_queued
        /\ where' = "poll" /\ closing' = TRUE
     \/ /\ \/ status \in {"ProtocolError", "IoError"}
           \/ status = "PeerClosed" /\ ~output_queued
        /\ where' = "gone" /\ UNCHANGED closing
  /\ UNCHANGED <<client, input, parser, parsed, delivered, out, heartbeat>>

\* EPOLLOUT: the client takes all that is queued.
Flush ==
  /\ where = "poll" /\ out # {} /\ alive
  /\ out' = {} /\ pong' = IF "ping" \in out THEN "asked" ELSE pong
  /\ where' = IF closing THEN "gone" ELSE "poll"
  /\ UNCHANGED <<client, input, parser, parsed, result, delivered, closing,
                 waiting_for_pong_, ticks>>

\* EPOLLERR, EPOLLHUP, or a send that fails.
ConnectionFails ==
  /\ where = "poll" /\ where' = "gone"
  /\ UNCHANGED <<client, input, parser, parsed, result, delivered, output, heartbeat>>

\* PongTimeout and shouldSendPing, n periods later.
PongTimeout(n) == waiting_for_pong_ /\ n >= PongTicks

\* MUTANT: no session is ever found idle.
ShouldSendPing_Never(n) == FALSE
ShouldSendPing(n) == ~waiting_for_pong_ /\ n > PingTicks

\* MUTANT: markPingSent does not note that a Pong is due.
MarkPingSent_Forgets == waiting_for_pong_' = waiting_for_pong_ /\ ticks' = 0
MarkPingSent == waiting_for_pong_' = TRUE /\ ticks' = 0

\* A period of the timer has passed and handleTimer runs.
HandleTimer ==
  /\ where = "poll"
  /\ \/ /\ PongTimeout(ticks + 1)
        /\ where' = "gone" /\ UNCHANGED <<out, waiting_for_pong_, ticks>>
     \/ /\ ShouldSendPing(ticks + 1)
        /\ out' = out \union {"ping"} /\ MarkPingSent /\ UNCHANGED where
     \/ /\ ~PongTimeout(ticks + 1) /\ ~ShouldSendPing(ticks + 1)
        /\ ticks' = IF ticks < TickBound THEN ticks + 1 ELSE ticks
        /\ UNCHANGED <<out, where, waiting_for_pong_>>
  /\ UNCHANGED <<client, input, parser, parsed, result, delivered, closing, pong>>

-----------------------------------------------------------------------------
Client == Arrive \/ ClientFin \/ ClientDies \/ ClientPong
Http == \/ HttpRead \/ HttpGivesUp \/ ParseNeedsMore \/ ParseRequestLine \/ ParseHeader
        \/ ParseBody \/ HttpAnswers \/ HandOver \/ Handshake
Handler == \/ ReadEvent \/ Read \/ ReadEnds \/ ParseFrame \/ ParseStops \/ ParseFails
           \/ HandlesAll \/ HandleMessage \/ HandlePing \/ HandlePong \/ HandleClose
           \/ HandleFragment \/ DispatchFrame \/ DispatchThrows \/ ReadHandled
Next == Client \/ Http \/ Handler \/ Flush \/ ConnectionFails \/ ReadFails \/ HandleTimer

\* The threads run, the timer fires, and a client that is alive takes what it is sent
\* and answers a Ping.
Spec == /\ Init /\ [][Next]_vars
        /\ WF_vars(Http \/ Handler) /\ WF_vars(HandleTimer)
        /\ WF_vars(Flush) /\ WF_vars(ClientPong)

-----------------------------------------------------------------------------
(* Properties.                                                              *)

\* A request in the form this parser takes: its line has its spaces, its headers are valid,
\* and it has the body it announces under the name "Content-Length".  Other spellings that
\* HTTP allows (see HeaderValid) are outside of it.
WellFormedRequest ==
  /\ \A i \in Kind("request") : Cardinality(stream[i].spaces) = 2
  /\ \A i \in Kind("header") : HeaderValid(stream[i])
RequestEnd == CHOOSE i \in Kind("blank") : TRUE
BodySize == Announced(stream, RequestEnd)

\* However its bytes are cut, also between the CR and the LF of a line, a well-formed
\* request is never refused, its line never runs into its headers, and the parser
\* stops at its last byte: what a client sends behind it is left to the next reader.
RequestParsedExactly ==
  WellFormedRequest =>
    /\ state_ # "Error" /\ ~garbled
    /\ state_ = "Complete" /\ where \in {"parse", "handed"} =>
         consumed = End(RequestEnd) + BodySize

\* What RFC 6455 lets a client send, with the server's limits: masked frames of the
\* shortest form, unfragmented messages, small control frames.
LegalFrame(f) ==
  /\ f.masked /\ ~f.rsv /\ f.opcode \in Opcodes \ {"Continuation"} /\ f.fin
  /\ f.form = CASE f.payload < 126 -> 7 [] f.payload > 65535 -> 64 [] OTHER -> 16
  /\ f.payload <= (IF f.opcode \in Control THEN 125 ELSE MaxPayloadSize)
  /\ f.opcode = "Close" => f.payload # 1

\* The messages in front of the first frame that ends the conversation.
Ends == {i \in Kind("frame") : ~LegalFrame(stream[i]) \/ stream[i].opcode = "Close"
                                \/ ~stream[i].utf8}
Expected == {i \in Kind("frame") : /\ stream[i].opcode \in {"Text", "Binary"}
                                   /\ \A j \in Ends : i < j}

\* Frames are read as they were sent, whatever the cuts, the batches and the lengths
\* at the limits of the three forms: messages are dispatched in the order they were sent,
\* none twice, and none that was due is left out in front of one that is dispatched; a
\* connection is given up for a protocol error only if its client made one.  The good
\* frames of a call that ends in a malformed one are dropped (ParseFails), with the
\* connection: that they are dispatched is not claimed.
FramesReadAsSent ==
  /\ \A k \in 1..Len(delivered) : \A i \in Expected :
       i < delivered[k] => \E j \in 1..(k - 1) : delivered[j] = i
  /\ \A k \in 1..Len(delivered) : \A j \in 1..(k - 1) : delivered[j] < delivered[k]
  /\ status = "ProtocolError" => \E i \in Kind("frame") : ~LegalFrame(stream[i])

Undelivered == {i \in Expected : /\ End(i) <= arrived
                                           /\ \A k \in 1..Len(delivered) : delivered[k] # i}

\* A message that has arrived is dispatched or its connection goes, also when it came
\* with the upgrade request and lies in the input buffer of a socket that has nothing
\* more to read: the heartbeat asks for a Pong, and the read of it parses both.
EarlyFramesHandled ==
  (where = "poll" /\ Undelivered # {}) ~> (Undelivered = {} \/ where = "gone")

\* A client that vanished without a FIN, in the middle of a frame or with a full
\* output queue, does not hold its session for ever.
DeadPeerRemoved == ~alive ~> (where = "gone")
=============================================================================
