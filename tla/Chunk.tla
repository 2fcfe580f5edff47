------------------------------- MODULE Chunk -------------------------------
(***************************************************************************)
(* The requester's large-message transfer (spdm_chunk.c): CHUNK_SEND for a *)
(* request the responder cannot take in one message, CHUNK_GET for a       *)
(* response it announced with ERROR(LargeResponse).                        *)
(*                                                                         *)
(* A message is the sequence of its byte positions, so what was assembled  *)
(* can be compared with what was meant.  Each round trip is split at the   *)
(* I/O callback.  The responder is external: it answers as the chunking    *)
(* peer of test/unit_test.c does, or anything at all; the transport fails  *)
(* or repeats the previous reply.                                          *)
(***************************************************************************)
EXTENDS Naturals, Sequences

CONSTANTS
  HdrSz, FirstHdrSz,  \* 12 and 16 bytes in the code
  MyTransfer,         \* WOLFSPDM_DATA_TRANSFER_SIZE
  PeerTransfer,       \* the responder's DataTransferSize
  PeerMaxMsg,         \* the responder's MaxSPDMmsgSize, 0 for none
  MaxMsg,             \* WOLFSPDM_MAX_MSG_SIZE
  SeqMax,             \* largest 16-bit ChunkSeqNo, 0xFFFF in the code
  WordMod,            \* 2^32: the range of a word32
  HandleMod,          \* 256: the range of a handle
  ReqSizes, RspSizes, Caps,  \* request and response lengths, rsp buffer sizes
  MaxCalls            \* bound: exchanges

ASSUME ChunkAssumption ==
  /\ {HdrSz, FirstHdrSz, MyTransfer, PeerTransfer, PeerMaxMsg, MaxMsg, SeqMax,
      WordMod, HandleMod, MaxCalls} \subseteq Nat
  /\ HdrSz < FirstHdrSz
  /\ FirstHdrSz < MyTransfer /\ FirstHdrSz < PeerTransfer   \* both are >= 42
  /\ SeqMax + 1 < WordMod /\ MaxMsg < WordMod
  /\ HandleMod > 1
  /\ ReqSizes \subseteq 1..(WordMod - 1)                      \* a word32
  /\ RspSizes \subseteq Nat \ {0}
  /\ Caps \subseteq Nat

VARIABLES
  wide,         \* negotiated: SPDM 1.4, ChunkSeqNo is a u32
  chunkOn,      \* negotiated: CHUNK_CAP on both sides
  chunkHandle,  \* ctx->chunkHandle
  call,         \* the exchange in progress: its locals
  wire,         \* the message waiting for a reply
  inbox,        \* the reply the I/O callback returns
  prev,         \* the reply before that
  result,       \* what the last exchange returned
  peer,         \* external: the responder's transfers
  calls         \* exchanges so far

neg == <<wide, chunkOn>>
vars == <<neg, chunkHandle, call, wire, inbox, prev, result, peer, calls>>

-----------------------------------------------------------------------------
(* Data *)

Positions(from, n) == [i \in 1..n |-> from + i]

Limit == IF PeerTransfer = 0 \/ PeerTransfer > MyTransfer THEN MyTransfer
         ELSE PeerTransfer

Nothing == [k |-> "NONE"]
IoError == [k |-> "IO"]

\* A whole response, ERROR, ERROR(LargeResponse) or anything else; CHUNK_SEND
\* acknowledgements carry one of these when they are the last.
Rsp(data) == [k |-> "RSP", data |-> data]
Error == [k |-> "ERROR"]
Large(h) == [k |-> "LARGE", h |-> h]
Ack(h, seq, early, body) ==
  [k |-> "ACK", h |-> h, seq |-> seq, early |-> early, body |-> body]
ChunkRsp(h, seq, claim, data, last, total) ==
  [k |-> "CHUNK", h |-> h, seq |-> seq, claim |-> claim, data |-> data,
   last |-> last, total |-> total]

IdleCall == [pc |-> "IDLE", reqSz |-> 0, cap |-> 0, sent |-> 0, seq |-> 0,
             handle |-> 0, total |-> 0, rsp |-> <<>>]

-----------------------------------------------------------------------------
(* Sequence numbers *)

\* ChunkSeqNo on the wire: 16 bits before 1.4.
WireSeq(seq) == IF wide THEN seq ELSE seq % (SeqMax + 1)

SeqOkAlways(seq) == TRUE   \* mutant: the 16-bit number may wrap
SeqOk(seq) == wide \/ seq <= SeqMax

NextSeq(seq) == (seq + 1) % WordMod

\* wolfSPDM_ChunkExchange returns: rc, the bytes written and the length set.
Return(rc, data, sz) ==
  /\ call' = IdleCall
  /\ wire' = Nothing
  /\ result' = [rc |-> rc, pc |-> call.pc, data |-> data, sz |-> sz,
                cap |-> call.cap]
  /\ UNCHANGED <<neg, chunkHandle, calls>>

Refuse(rc) == Return(rc, <<>>, 0)

\* The call sends m and waits, with locals c.
Wait(c, m) == /\ call' = c
              /\ wire' = m
              /\ UNCHANGED <<neg, chunkHandle, result, calls>>

-----------------------------------------------------------------------------
(* wolfSPDM_ChunkSend *)

Smaller(a, b) == IF a < b THEN a ELSE b

\* Each message fits the limit, the first with its longer header.
TakeNoFirst(c) == Smaller(Limit - HdrSz, c.reqSz - c.sent)   \* mutant
Take(c) == Smaller(Limit - (IF c.seq = 0 THEN FirstHdrSz ELSE HdrSz),
                   c.reqSz - c.sent)

\* The last flag goes by what was sent.
IsLastEarly(c) == c.sent + Limit >= c.reqSz   \* mutant: headers ignored
IsLast(c) == c.sent + Take(c) = c.reqSz

ChunkSendMsg(c) ==
  [k |-> "SEND", h |-> c.handle, seq |-> WireSeq(c.seq), last |-> IsLast(c),
   total |-> c.reqSz, data |-> Positions(c.sent, Take(c)),
   sz |-> Take(c) + IF c.seq = 0 THEN FirstHdrSz ELSE HdrSz]

SendChunk(c) == [c EXCEPT !.sent = c.sent + Take(c)]

-----------------------------------------------------------------------------
(* wolfSPDM_ChunkExchange and wolfSPDM_ClearExchange *)

ChunkGetMsg(c) == [k |-> "GET", h |-> c.handle, seq |-> WireSeq(c.seq),
                   sz |-> HdrSz]

StartGet(h) ==
  LET c == [call EXCEPT !.pc = "GET", !.handle = h, !.seq = 0, !.total = 0]
  IN  Wait(c, ChunkGetMsg(c))

\* Largest request that goes out as it is.
OneMessage == IF chunkOn THEN Limit ELSE PeerTransfer

\* A larger one goes out in chunks under a new handle, where they were
\* negotiated and unless it exceeds what the responder takes at all.
MayChunk(reqSz) == chunkOn /\ (PeerMaxMsg = 0 \/ reqSz <= PeerMaxMsg)

Exchange(reqSz, cap) ==
  LET c == [IdleCall EXCEPT !.reqSz = reqSz, !.cap = cap]
      s == [c EXCEPT !.pc = "SEND", !.handle = chunkHandle]
  IN
  /\ call.pc = "IDLE" /\ calls < MaxCalls
  /\ calls' = calls + 1
  /\ \/ /\ reqSz <= OneMessage
        /\ call' = [c EXCEPT !.pc = "PLAIN"]
        /\ wire' = [k |-> "REQ", sz |-> reqSz]
        /\ UNCHANGED <<chunkHandle, result>>
     \/ /\ reqSz > OneMessage /\ ~MayChunk(reqSz)
        /\ result' = [rc |-> "BUFFER_SMALL", pc |-> "IDLE", data |-> <<>>,
                      sz |-> 0, cap |-> cap]
        /\ UNCHANGED <<call, wire, chunkHandle>>
     \/ /\ reqSz > OneMessage /\ MayChunk(reqSz)
        /\ chunkHandle' = (chunkHandle + 1) % HandleMod
        /\ call' = SendChunk(s)
        /\ wire' = ChunkSendMsg(s)
        /\ UNCHANGED result
  /\ UNCHANGED <<neg, inbox, prev, peer>>

\* The response of a plain exchange or of the last acknowledgement: handed to
\* the caller when it fits, fetched when it announces a large one.  What other
\* messages say is the caller's concern.
TakeResponse(b) ==
  \/ b.k = "LARGE" /\ chunkOn /\ StartGet(b.h)
  \/ b.k = "RSP" /\ Len(b.data) <= call.cap /\ Return("OK", b.data, Len(b.data))
  \/ b.k = "RSP" /\ Len(b.data) > call.cap /\ Refuse("BUFFER_SMALL")
  \/ /\ b.k # "RSP" /\ ~(b.k = "LARGE" /\ chunkOn)
     /\ Return("OK", <<>>, 0)

PlainReturn(r) ==
  /\ call.pc = "PLAIN"
  /\ \/ r.k = "IO" /\ Refuse("IO")
     \/ r.k # "IO" /\ TakeResponse(r)

\* A CHUNK_SEND_ACK for the chunk just sent.
Acknowledges(r) == /\ r.k = "ACK"
                   /\ r.h = call.handle /\ r.seq = WireSeq(call.seq)

SendReturn(r) ==
  LET all  == call.sent = call.reqSz
      next == [call EXCEPT !.seq = NextSeq(call.seq)]
  IN
  /\ call.pc = "SEND"
  /\ \/ r.k = "IO" /\ Refuse("IO")
     \/ r.k = "LARGE" /\ all /\ StartGet(r.h)
     \/ (r.k = "ERROR" \/ (r.k = "LARGE" /\ ~all)) /\ Refuse("PEER_ERROR")
     \/ r.k \notin {"IO", "ERROR", "LARGE"} /\ ~Acknowledges(r)
        /\ Refuse("CHUNK")
     \/ /\ Acknowledges(r) /\ r.early
        /\ Refuse(IF r.body.k \in {"ERROR", "LARGE"} THEN "PEER_ERROR"
                  ELSE "CHUNK")
     \/ /\ Acknowledges(r) /\ ~r.early /\ ~all
        /\ \/ r.body # Nothing /\ Refuse("CHUNK")
           \/ /\ r.body = Nothing /\ SeqOk(next.seq)
              /\ Wait(SendChunk(next), ChunkSendMsg(next))
           \/ r.body = Nothing /\ ~SeqOk(next.seq) /\ Refuse("CHUNK")
     \/ Acknowledges(r) /\ ~r.early /\ all /\ TakeResponse(r.body)

-----------------------------------------------------------------------------
(* wolfSPDM_ChunkGet *)

\* No larger than the MaxSPDMmsgSize advertised.
GetCap(c) == Smaller(c.cap, MaxMsg)

\* A CHUNK_RESPONSE for the chunk asked for.
ExpectedAnySeq(r) == r.k = "CHUNK" /\ r.h = call.handle   \* mutant
Expected(r) == /\ r.k = "CHUNK"
               /\ r.h = call.handle /\ r.seq = WireSeq(call.seq)

TotalOf(r) == IF call.seq = 0 THEN r.total ELSE call.total

\* Exactly its header and a chunk that is not empty and still fits.
ChunkFitsEmpty(r) == /\ r.claim = Len(r.data)   \* mutant: empty chunks pass
                     /\ r.claim <= TotalOf(r) - Len(call.rsp)
ChunkFitsAny(r) == r.claim > 0 /\ r.claim = Len(r.data)   \* mutant: no bound
ChunkFits(r) == /\ r.claim > 0 /\ r.claim = Len(r.data)
                /\ r.claim <= TotalOf(r) - Len(call.rsp)

\* The one flagged last completes the message.
CompletesUnchecked(r, off) == TRUE   \* mutant: the flag alone ends the loop
Completes(r, off) == r.last = (off = TotalOf(r))

GetReturn(r) ==
  LET rsp == call.rsp \o r.data
      c   == [call EXCEPT !.rsp = rsp, !.total = TotalOf(r),
                          !.seq = NextSeq(call.seq)]
  IN
  /\ call.pc = "GET"
  /\ \/ r.k = "IO" /\ Refuse("IO")
     \/ r.k \in {"ERROR", "LARGE"} /\ Refuse("PEER_ERROR")
     \/ r.k \notin {"IO", "ERROR", "LARGE"} /\ ~Expected(r) /\ Refuse("CHUNK")
     \/ Expected(r) /\ TotalOf(r) = 0 /\ Refuse("CHUNK")
     \/ Expected(r) /\ TotalOf(r) > GetCap(call) /\ Refuse("BUFFER_SMALL")
     \/ /\ Expected(r) /\ TotalOf(r) \in 1..GetCap(call)
        /\ \/ ~(ChunkFits(r) /\ Completes(r, Len(rsp))) /\ Refuse("CHUNK")
           \/ /\ ChunkFits(r) /\ Completes(r, Len(rsp))
              /\ \/ r.last /\ Return("OK", rsp, TotalOf(r))
                 \/ ~r.last /\ SeqOk(c.seq) /\ Wait(c, ChunkGetMsg(c))
                 \/ ~r.last /\ ~SeqOk(c.seq) /\ Refuse("CHUNK")

\* The I/O callback returns to the blocked call.
Receive ==
  /\ inbox # Nothing
  /\ PlainReturn(inbox) \/ SendReturn(inbox) \/ GetReturn(inbox)
  /\ inbox' = Nothing
  /\ prev' = IF ~peer.honest THEN Nothing
             ELSE IF inbox.k = "IO" THEN prev ELSE inbox
  /\ UNCHANGED peer

-----------------------------------------------------------------------------
(* External: the responder and the transport *)

Reply(r) == /\ wire # Nothing /\ inbox = Nothing
            /\ inbox' = r
            /\ UNCHANGED <<neg, chunkHandle, call, wire, prev, result, calls>>

\* Receiving: handle, next chunk, bytes, the last complete request.  Sending:
\* response lengths, bytes served of the last one, handle, next chunk.
NewPeer == [honest |-> TRUE, rh |-> 0, rseq |-> 0, got |-> <<>>, took |-> <<>>,
            lens |-> <<>>, cur |-> 0, sh |-> 0, sseq |-> 0]

\* Byte i of the responder's id-th response is id * Base + i.
Base == 100

\* A new response of n bytes: inline, or announced under a new handle.
Respond(p, Wrap(_)) ==
  \E n \in RspSizes :
    LET id == Len(p.lens) + 1
        q  == [p EXCEPT !.lens = Append(p.lens, n), !.cur = 0, !.sseq = 0]
    IN  \/ /\ n <= MyTransfer - HdrSz
           /\ Reply(Wrap(Rsp(Positions(id * Base, n))))
           /\ peer' = [q EXCEPT !.cur = n]
        \/ /\ peer' = [q EXCEPT !.sh = (p.sh + 1) % HandleMod]
           /\ Reply(Large((p.sh + 1) % HandleMod))

PeerPlain == /\ wire.k = "REQ"
             /\ LET Plain(b) == b IN Respond(peer, Plain)

\* Collects chunks in order; chunk 0 starts over.
PeerCollect ==
  LET fresh == wire.seq = 0
      got   == IF fresh THEN wire.data ELSE peer.got \o wire.data
      p     == [peer EXCEPT !.rh = wire.h, !.rseq = wire.seq + 1, !.got = got]
      Last(b) == Ack(wire.h, wire.seq, FALSE, b)
  IN
  /\ wire.k = "SEND"
  /\ \/ /\ ~fresh /\ ~(wire.h = peer.rh /\ wire.seq = peer.rseq)
        /\ Reply(Error) /\ UNCHANGED peer
     \/ Reply(Ack(wire.h, wire.seq, TRUE, Error)) /\ UNCHANGED peer
     \/ /\ fresh \/ (wire.h = peer.rh /\ wire.seq = peer.rseq)
        /\ \/ /\ ~wire.last
              /\ Reply(Ack(wire.h, wire.seq, FALSE, Nothing))
              /\ peer' = p
           \/ /\ wire.last
              /\ Respond([p EXCEPT !.took = got], Last)

\* Serves the announced response from where it is, in chunks of any size.
PeerServe ==
  LET n    == peer.lens[Len(peer.lens)]
      left == n - peer.cur
      room == MyTransfer - (IF peer.sseq = 0 THEN FirstHdrSz ELSE HdrSz)
  IN
  /\ wire.k = "GET"
  /\ \/ /\ peer.lens # <<>> /\ left > 0
        /\ wire.h = peer.sh /\ wire.seq = peer.sseq
        /\ \E s \in 1..Smaller(left, room) :
             /\ Reply(ChunkRsp(wire.h, wire.seq, s,
                        Positions(Len(peer.lens) * Base + peer.cur, s),
                        s = left, n))
             /\ peer' = [peer EXCEPT !.cur = peer.cur + s,
                                     !.sseq = peer.sseq + 1]
     \/ /\ ~(peer.lens # <<>> /\ wire.h = peer.sh /\ wire.seq = peer.sseq)
        /\ Reply(Error) /\ UNCHANGED peer

\* The request is lost, or its reply is lost or overtaken by the one before.
Transport ==
  /\ \/ Reply(IoError)
     \/ /\ inbox \notin {Nothing, IoError, prev}
        /\ inbox' \in {IoError, prev} \ {Nothing}
        /\ UNCHANGED <<neg, chunkHandle, call, wire, prev, result, calls>>
  /\ UNCHANGED peer

\* What a responder that keeps to nothing may answer: chunk sizes as claimed
\* and as sent.
Zeros(n) == [i \in 1..n |-> 0]
Wild ==
  {Error, Large(0)} \union
  {Ack(call.handle, WireSeq(call.seq), e, b) :
     e \in BOOLEAN, b \in {Nothing, Error, Large(0), Rsp(<<0>>)}} \union
  {ChunkRsp(call.handle, WireSeq(call.seq), c[1], Zeros(c[2]), last, total) :
     c \in {<<0, 0>>, <<1, 1>>, <<2, 2>>, <<2, 1>>}, last \in BOOLEAN,
     total \in {0, 3, MaxMsg + 1}}

\* From then on it is not held to anything it said before.
PeerMisbehaves == /\ \E r \in Wild : Reply(r)
                  /\ peer' = [NewPeer EXCEPT !.honest = FALSE]

Answer == \/ wire # Nothing /\ (PeerPlain \/ PeerCollect \/ PeerServe)
          \/ Transport
          \/ PeerMisbehaves

-----------------------------------------------------------------------------
(* The specification *)

Init ==
  /\ wide \in BOOLEAN /\ chunkOn \in BOOLEAN
  /\ chunkHandle = 0
  /\ call = IdleCall /\ wire = Nothing /\ inbox = Nothing /\ prev = Nothing
  /\ result = [rc |-> "NONE", pc |-> "IDLE", data |-> <<>>, sz |-> 0,
               cap |-> 0]
  /\ peer = NewPeer
  /\ calls = 0

Next == \/ \E reqSz \in ReqSizes, cap \in Caps : Exchange(reqSz, cap)
        \/ Receive
        \/ Answer

\* The I/O callback returns, and the call goes on when it does.
Spec == Init /\ [][Next]_vars /\ WF_vars(Receive) /\ WF_vars(Answer)

-----------------------------------------------------------------------------
(* Properties *)

\* The state's type; the bytes of a response in progress lie in the caller's
\* buffer and in the announced total, whatever the responder claims.
ChunkTypeOK ==
  /\ call.pc \in {"IDLE", "PLAIN", "SEND", "GET"}
  /\ call.sent <= call.reqSz
  /\ call.seq \in 0..(WordMod - 1)
  /\ chunkHandle \in 0..(HandleMod - 1)
  /\ Len(call.rsp) <= Smaller(call.cap, MaxMsg)

\* The length an exchange returns counts only bytes that were received, and
\* they lie in the caller's buffer: a responder cannot end a transfer early
\* or run past its end.
ReturnsWhatArrived ==
  result.rc = "OK" => Len(result.data) = result.sz /\ result.sz <= result.cap

\* A response put together from chunks of a responder that keeps to the
\* protocol is one whole response: no chunk missing, twice, out of order or
\* of another response, when replies are lost or repeated.
ResponseWhole ==
  result.rc = "OK" /\ result.pc = "GET" /\ peer.honest =>
    \E id \in 1..Len(peer.lens) :
      result.data = Positions(id * Base, peer.lens[id])

\* A request the responder takes as complete is the caller's request, each
\* byte once and in order.
RequestWhole ==
  wire # Nothing /\ wire.k = "SEND" /\ wire.last /\ inbox # Nothing
    /\ inbox.k = "ACK" /\ ~inbox.early /\ peer.honest /\ inbox # prev =>
      peer.took = Positions(0, call.reqSz)

\* No message exceeds what both sides can take, and ChunkSeqNo never wraps.
FitsTheWire ==
  wire # Nothing => /\ wire.sz <= PeerTransfer
                    /\ chunkOn => wire.sz <= MyTransfer
                    /\ wire.k \in {"SEND", "GET"} => wire.seq = call.seq

\* Every exchange returns, even when the responder never stops answering.
Terminates == call.pc # "IDLE" ~> call.pc = "IDLE"

=============================================================================
