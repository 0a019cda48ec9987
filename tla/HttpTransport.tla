---------------------------- MODULE HttpTransport ----------------------------
(***************************************************************************)
(* AsyncioHttpTransport: one HTTP/1.1 attempt against one admitted         *)
(* address.  The peer is arbitrary: every read takes one of the heads,     *)
(* chunk lines, trailer lines or pieces of Peer, or finds the stream at    *)
(* its end.  Time is the one deadline of the operation (late), the         *)
(* operation's cancellation signal is cancelled, and dropped says that the *)
(* awaiting gateway cancelled the task.                                    *)
(***************************************************************************)
EXTENDS HttpModels

CONSTANTS
  Peer,             \* what the peer may send: heads, chunks, trailers, pieces (sets)
  MaxInformational  \* transport.py: at most 8 informational responses

ASSUME PeerSendsBytes ==
  /\ \A h \in Peer.heads : h.line \in Nat /\ AreFields(h.fields)
  /\ \A c \in Peer.chunks : c.digits \in Nat /\ c.size \in Nat
  /\ \A t \in Peer.trailers :
       t.field.len \in Nat /\ t.field.wide \in Nat /\ t.field.pad \in Nat
  /\ Peer.pieces \subseteq Nat

VARIABLES
  late,       \* the deadline has passed
  cancelled,  \* the operation's cancellation signal is set
  dropped,    \* the gateway gave the transport task up
  tpc,        \* where the attempt is
  tx,         \* its request: method and the three response limits
  ta,         \* what has been read so far
  tread,      \* every byte taken from the stream
  twriter,    \* the stream: none, open, closed or aborted
  tout        \* how the attempt ended: pending, an error, ok, or cancelled

envVars == <<late, cancelled, dropped>>
tVars == <<tpc, tx, ta, tread, twriter, tout>>

(* ta: header budget and wire bytes of heads and trailers, and the body    *)
Nothing == [status |-> 0, fields |-> << >>, infos |-> 0, header |-> 0, headerWire |-> 0,
            metaWire |-> 0, body |-> 0, bodyWire |-> 0, trailer |-> 0, trailerWire |-> 0,
            omitted |-> FALSE, coding |-> [form |-> "plain", size |-> 0, cut |-> FALSE]]

TInit ==
  /\ tpc = "off" /\ ta = Nothing /\ tread = 0 /\ twriter = "none" /\ tout = "pending"
  /\ tx = [method |-> "GET", header |-> 0, body |-> 0, wire |-> 0]

TActive == tpc \notin {"off", "done"}

(* An error in the attempt runs the finally clause of _send_once at once:  *)
(* _close_writer with abort, so the stream is gone when the error is.      *)
Fail(code) ==
  /\ tout' = code /\ tpc' = "done"
  /\ twriter' = IF twriter = "open" THEN "aborted" ELSE twriter

TransportBegins(attempt) ==
  /\ tpc' = "connect" /\ tx' = attempt /\ ta' = Nothing /\ tread' = 0
  /\ twriter' = "none" /\ tout' = "pending"

-----------------------------------------------------------------------------
(* send and _send_once up to the first read.                               *)
Connect ==
  /\ tpc = "connect" /\ ~dropped
  /\ \/ cancelled /\ Fail("Cancelled")
     \/ ~cancelled /\ Fail("TransportFailed")
     \/ ~cancelled /\ tpc' = "write" /\ twriter' = "open" /\ UNCHANGED tout
  /\ UNCHANGED <<tx, ta, tread>>

WriteRequest ==
  /\ tpc = "write" /\ ~dropped
  /\ \/ cancelled /\ Fail("Cancelled")
     \/ ~cancelled /\ Fail("TransportFailed")
     \/ ~cancelled /\ tpc' = "head" /\ UNCHANGED <<twriter, tout>>
  /\ UNCHANGED <<tx, ta, tread>>

-----------------------------------------------------------------------------
(* _read_response_body, the choice of the framing once the head is known.  *)
(* Where the body is omitted nothing more is read.                         *)
Framing(status, fields, wire) ==
  LET te == Values(fields, "transfer-encoding")
      cl == Values(fields, "content-length")
      lo == Values(fields, "location")
  IN  IF \/ Len(te) > 1 \/ Len(cl) > 1
         \/ te # << >> /\ cl # << >>
      THEN "ResponseInvalid"
      ELSE IF OmitsBody(tx.method, status) THEN "omitted"
      ELSE IF status \in RedirectStatuses /\ Len(lo) > 1 THEN "ResponseInvalid"
      ELSE IF status \in RedirectStatuses /\ Len(lo) = 1 /\ lo[1].ref # "empty" THEN "omitted"
      ELSE IF te # << >> THEN IF te[1] = "chunked" THEN "chunk" ELSE "ResponseInvalid"
      ELSE IF cl = << >> THEN "eof"
      ELSE IF ~ContentLengthValid(cl[1]) THEN "ResponseInvalid"
      ELSE IF cl[1] > tx.body \/ cl[1] > wire THEN "LimitExceeded"
      ELSE "exact"

(* What _read_response_head finds wrong with a head, in its order, and     *)
(* what _read_final_response_head says of its status.                      *)
HeadError(h, wire, header) ==
  FirstError(<< <<h.raw = "overrun", "LimitExceeded">>,
                <<h.raw = "incomplete", "ResponseInvalid">>,
                <<h.line + 4 + header[1] > wire, "LimitExceeded">>,
                <<h.raw = "malformed" \/ h.status \notin 100 .. 599, "ResponseInvalid">>,
                <<header[2] > tx.header - ta.header, "LimitExceeded">>,
                <<h.status = 101, "ResponseInvalid">>,
                <<h.status < 200 /\ ta.infos >= MaxInformational, "ResponseInvalid">> >>)

(* _read_final_response_head: informational heads are consumed, and spend  *)
(* the same header and wire budgets as the final one.                      *)
ReadHead ==
  /\ tpc = "head" /\ ~dropped
  /\ \E h \in Peer.heads :
       LET rawFields == RawHeadersSize(h.fields)
           counted   == Max({rawFields, HeadersSize(h.fields)})
           wire      == h.line + 4 + rawFields
           error     == HeadError(h, tx.wire - ta.metaWire, <<rawFields, counted>>)
           framing   == Framing(h.status, h.fields, tx.wire - ta.metaWire - wire)
           read      == [ta EXCEPT !.status = h.status, !.fields = h.fields,
                           !.infos = @ + (IF h.status < 200 THEN 1 ELSE 0),
                           !.header = @ + counted, !.headerWire = @ + rawFields,
                           !.metaWire = @ + wire, !.omitted = framing = "omitted",
                           !.coding = h.coding]
       IN  /\ tread' = tread + (IF h.raw = "incomplete" THEN 0 ELSE wire)
           /\ IF error # "ok" THEN Fail(error) /\ UNCHANGED ta
              ELSE IF h.status < 200 THEN ta' = read /\ UNCHANGED <<tpc, twriter, tout>>
              ELSE IF framing \in {"ResponseInvalid", "LimitExceeded"}
                   THEN Fail(framing) /\ UNCHANGED ta
              ELSE /\ ta' = read
                   /\ tpc' = IF framing = "omitted" THEN "finish" ELSE framing
                   /\ UNCHANGED <<twriter, tout>>
  /\ UNCHANGED tx

-----------------------------------------------------------------------------
(* The three body readers.                                                 *)

BodyRead(n, wire) ==
  /\ ta' = [ta EXCEPT !.body = @ + n, !.bodyWire = @ + wire]
  /\ tread' = tread + wire

(* _read_exactly for a content length *)
ReadExact ==
  /\ tpc = "exact" /\ ~dropped
  /\ LET length == Values(ta.fields, "content-length")[1]
     IN  \/ Fail("ResponseInvalid") /\ UNCHANGED <<ta, tread>>
         \/ BodyRead(length, length) /\ tpc' = "finish" /\ UNCHANGED <<twriter, tout>>
  /\ UNCHANGED tx

(* _read_to_eof: never asks for more than one byte beyond either limit *)
ReadToEof ==
  /\ tpc = "eof" /\ ~dropped
  /\ \/ tpc' = "finish" /\ UNCHANGED <<ta, tread, twriter, tout>>
     \/ \E n \in Peer.pieces :
          /\ n <= Min({tx.body, tx.wire - ta.metaWire}) - ta.body + 1
          /\ BodyRead(n, n)
          /\ IF ta.body + n > Min({tx.body, tx.wire - ta.metaWire})
             THEN Fail("LimitExceeded") ELSE UNCHANGED <<tpc, twriter, tout>>
  /\ UNCHANGED tx

(* _read_chunked_body: one chunk line, then its data; the size is checked  *)
(* against both budgets before the data is asked for.                      *)
ReadChunk ==
  /\ tpc = "chunk" /\ ~dropped
  /\ \E c \in Peer.chunks :
       LET line == c.digits + 2
           left == tx.wire - ta.metaWire - ta.bodyWire - line
           error == FirstError(<<
             <<c.raw = "overrun", "LimitExceeded">>,
             <<c.raw = "incomplete", "ResponseInvalid">>,
             <<left < 0, "LimitExceeded">>,
             <<c.raw \in {"extension", "malformed"}, "ResponseInvalid">>,
             <<c.size > 0 /\ c.size > tx.body - ta.body, "LimitExceeded">>,
             <<c.size > 0 /\ c.size + 2 > left, "LimitExceeded">>,
             <<c.size > 0 /\ c.raw \in {"short", "unterminated"}, "ResponseInvalid">> >>)
       IN  IF error # "ok"
           THEN Fail(error) /\ UNCHANGED <<ta, tread>>
           ELSE /\ BodyRead(c.size, IF c.size = 0 THEN line ELSE line + c.size + 2)
                /\ tpc' = IF c.size = 0 THEN "trailer" ELSE "chunk"
                /\ UNCHANGED <<twriter, tout>>
  /\ UNCHANGED tx

(* Mutant of ReadTrailer: the terminating CR LF is not counted.            *)
ReadTrailerUncounted ==
  /\ tpc = "trailer" /\ ~dropped
  /\ \E t \in Peer.trailers :
       /\ t.end /\ tread' = tread + 2
       /\ tpc' = "finish" /\ UNCHANGED <<tx, ta, twriter, tout>>

(* _read_trailers: fields until the empty line.  Trailer fields spend the  *)
(* header budget that the heads left, whichever of their sizes is larger.  *)
ReadTrailer ==
  /\ tpc = "trailer" /\ ~dropped
  /\ \E t \in Peer.trailers :
       LET size    == IF t.end THEN 2 ELSE RawFieldSize(t.field)
           logical == ta.trailer + FieldSize(t.field)
           raw     == ta.trailerWire + RawFieldSize(t.field)
           budget  == tx.header - ta.header
           error   == FirstError(<<
             <<t.raw = "incomplete", "ResponseInvalid">>,
             <<size > budget + 2, "LimitExceeded">>,
             <<size > tx.wire - ta.metaWire - ta.bodyWire, "LimitExceeded">>,
             <<~t.end /\ t.raw = "malformed", "ResponseInvalid">>,
             <<~t.end /\ Max({logical, raw}) > budget, "LimitExceeded">> >>)
       IN  /\ tread' = tread + size
           /\ IF error # "ok" THEN Fail(error) /\ UNCHANGED ta
              ELSE IF t.end
              THEN /\ ta' = [ta EXCEPT !.metaWire = @ + 2,
                                       !.header = @ + Max({ta.trailer, ta.trailerWire}),
                                       !.headerWire = @ + ta.trailerWire]
                   /\ tpc' = "finish" /\ UNCHANGED <<twriter, tout>>
              ELSE /\ ta' = [ta EXCEPT !.trailer = logical, !.trailerWire = raw,
                                       !.metaWire = @ + size]
                   /\ UNCHANGED <<tpc, twriter, tout>>
  /\ UNCHANGED tx

-----------------------------------------------------------------------------
(* The HttpTransportResponse that _send_once builds.                       *)
Response ==
  [status |-> ta.status, fields |-> ta.fields, body |-> ta.body,
   headerBytes |-> ta.header, headerWire |-> ta.headerWire, metaWire |-> ta.metaWire,
   bodyWire |-> ta.bodyWire, wire |-> ta.metaWire + ta.bodyWire,
   omitted |-> ta.omitted, coding |-> ta.coding]

(* The constructor's ValueError is one of the errors send() reports as a   *)
(* failed attempt.                                                         *)
BuildResponse ==
  /\ tpc = "finish" /\ ~dropped
  /\ IF cancelled THEN Fail("Cancelled")
     ELSE IF ~EvidenceConsistent(Response) THEN Fail("TransportFailed")
     ELSE tpc' = "close" /\ UNCHANGED <<twriter, tout>>
  /\ UNCHANGED <<tx, ta, tread>>

(* _close_writer without abort: wait_closed is bounded by the deadline and *)
(* an error in it takes the response back.                                 *)
CloseGracefully ==
  /\ tpc = "close" /\ ~dropped
  /\ \/ Fail("TransportFailed")
     \/ tpc' = "done" /\ tout' = "ok" /\ twriter' = "closed"
  /\ UNCHANGED <<tx, ta, tread>>

(* asyncio.timeout_at in send, wherever the attempt waits *)
TransportTimeout ==
  /\ TActive /\ late /\ ~dropped
  /\ Fail("Timeout")
  /\ UNCHANGED <<tx, ta, tread>>

(* task.cancel() by the gateway: CancelledError passes through send *)
TransportDropped ==
  /\ TActive /\ dropped
  /\ Fail("CancelledError")
  /\ UNCHANGED <<tx, ta, tread>>

TransportStep ==
  \/ Connect \/ WriteRequest \/ ReadHead \/ ReadExact \/ ReadToEof \/ ReadChunk
  \/ ReadTrailer \/ BuildResponse \/ CloseGracefully
  \/ TransportTimeout \/ TransportDropped

=============================================================================
