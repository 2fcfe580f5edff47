----------------------------- MODULE ChunkProofs -----------------------------
(***************************************************************************)
(* The safety properties of Chunk for every value of its constants: header *)
(* and transfer sizes, message lengths, sequence-number widths and numbers *)
(* of exchanges.                                                           *)
(***************************************************************************)
EXTENDS Chunk, SequenceTheorems, TLAPS

-----------------------------------------------------------------------------
(* The inductive invariant *)

CallType == [pc : {"IDLE", "PLAIN", "SEND", "GET"}, reqSz : Nat, cap : Nat,
             sent : Nat, seq : Nat, handle : Nat, total : Nat, rsp : Seq(Nat)]

PeerType == [honest : BOOLEAN, rh : Nat, rseq : Nat, got : Seq(Nat),
             took : Seq(Nat), lens : Seq(Nat), cur : Nat, sh : Nat, sseq : Nat]

\* What the fields of a message hold that the requester uses before it knows
\* more than the message's code.
BodyOK(m) == /\ m.k = "RSP" => m.data \in Seq(Nat)
             /\ m.k = "LARGE" => m.h \in Nat
MsgOK(m) == /\ BodyOK(m)
            /\ m.k = "ACK" => BodyOK(m.body)
            /\ m.k = "CHUNK" => m.data \in Seq(Nat) /\ m.total \in Nat

ResultOK == /\ result.rc = "OK" => /\ Len(result.data) = result.sz
                                   /\ result.sz <= result.cap

TypeInv == /\ wide \in BOOLEAN /\ chunkOn \in BOOLEAN
           /\ chunkHandle \in 0..(HandleMod - 1)
           /\ call \in CallType
           /\ peer \in PeerType
           /\ MsgOK(inbox) /\ MsgOK(prev)

\* The locals of a request in progress: the chunk just sent ends at sent, the
\* first one never holds the whole request.
SendInv ==
  call.pc = "SEND" =>
    /\ wire.k = "SEND" /\ wire.h = call.handle /\ wire.seq = call.seq
    /\ wire.last = (call.sent = call.reqSz)
    /\ wire.sz \in 0..Limit
    /\ \E n \in 1..call.sent :
         /\ wire.data = Positions(call.sent - n, n)
         /\ call.seq = 0 => n = call.sent
         /\ call.seq = 1 => call.sent - n = Limit - FirstHdrSz
    /\ call.seq = 0 => call.sent = Limit - FirstHdrSz
    /\ Limit < call.reqSz /\ call.reqSz < WordMod
    /\ call.sent <= call.reqSz
    /\ call.seq < call.sent

\* The locals of a response in progress: every chunk added to it, so the
\* sequence number cannot come back to 0.
GetInv ==
  call.pc = "GET" =>
    /\ wire.k = "GET" /\ wire.h = call.handle /\ wire.seq = call.seq
    /\ wire.sz \in 0..Limit
    /\ call.sent <= call.reqSz
    /\ call.seq <= Len(call.rsp)
    /\ call.seq = 0 => call.rsp = <<>>
    /\ call.seq > 0 => /\ Len(call.rsp) < call.total
                       /\ call.total <= GetCap(call)

\* Otherwise nothing is assembled, and an idle requester waits for nothing.
RestInv ==
  /\ SeqOk(call.seq)
  /\ call.pc # "GET" => call.rsp = <<>>
  /\ call.pc = "IDLE" => /\ wire = Nothing /\ inbox = Nothing
                         /\ call = IdleCall
  /\ call.pc = "PLAIN" => /\ wire = [k |-> "REQ", sz |-> call.reqSz]
                          /\ call.reqSz <= OneMessage
                          /\ call.seq = 0 /\ call.sent = 0

CallInv == SendInv /\ GetInv /\ RestInv

\* The responder's own bookkeeping of the response it is serving.
Served == peer.lens[Len(peer.lens)]

ServeInv ==
  /\ peer.lens # <<>> => peer.cur <= Served
  /\ peer.lens # <<>> /\ peer.sseq = 0 => peer.cur \in {0, Served}

\* A response in progress is the part the responder has served of its last
\* response: before its next chunk arrives, and with that chunk added.
FetchInv ==
  call.pc = "GET" /\ peer.honest =>
    /\ ~(prev.k = "CHUNK" /\ prev.seq = call.seq)
    /\ /\ inbox = Nothing /\ peer.lens # <<>> /\ peer.cur < Served
       /\ call.handle = peer.sh /\ call.seq = peer.sseq
       => /\ call.rsp = Positions(Len(peer.lens) * Base, peer.cur)
          /\ call.seq > 0 => call.total = Served
    /\ inbox.k = "CHUNK" /\ inbox.seq = call.seq =>
         /\ peer.lens # <<>>
         /\ call.rsp \o inbox.data = Positions(Len(peer.lens) * Base, peer.cur)
         /\ inbox.total = Served
         /\ call.seq > 0 => call.total = Served
         /\ inbox.last = (peer.cur = Served)
         /\ peer.sseq = call.seq + 1

\* A request in progress is what the responder has collected: an answer that
\* says otherwise is an old one, and only the first chunk cannot tell.
CollectInv ==
  peer.honest =>
    /\ peer.rseq = 1 => peer.got = Positions(0, Limit - FirstHdrSz)
    /\ call.pc = "SEND" =>
         /\ call.seq > 0 => ~(prev.k = "ACK" /\ prev.seq = call.seq)
         /\ /\ inbox = Nothing /\ call.seq > 0
            /\ peer.rh = call.handle /\ peer.rseq = call.seq
            => peer.got \o wire.data = Positions(0, call.sent)
         /\ inbox.k = "ACK" /\ ~inbox.early =>
              \/ inbox = prev
              \/ /\ peer.rh = call.handle /\ peer.rseq = call.seq + 1
                 /\ peer.got = Positions(0, call.sent)
                 /\ wire.last => peer.took = Positions(0, call.sent)

ChunkInv == /\ TypeInv /\ CallInv /\ ResultOK
            /\ ServeInv /\ FetchInv /\ CollectInv
            /\ ResponseWhole

-----------------------------------------------------------------------------
(* Data *)

\* A run of byte positions is a sequence of that length.
LEMMA PositionsType ==
  ASSUME NEW a \in Nat, NEW n \in Nat
  PROVE  /\ Positions(a, n) \in Seq(Nat)
         /\ Len(Positions(a, n)) = n
         /\ \A i \in 1..n : Positions(a, n)[i] = a + i
<1>1. \A i \in 1..n : a + i \in Nat
  OBVIOUS
<1>2. Positions(a, n) \in [1..n -> Nat]
  BY <1>1 DEF Positions
<1> QED
  BY <1>2 DEF Positions

\* A run of none is empty.
LEMMA EmptyPositions ==
  ASSUME NEW a \in Nat
  PROVE  Positions(a, 0) = <<>>
  BY PositionsType, EmptySeq

\* A run continues where the one before it ends.
LEMMA PositionsJoin ==
  ASSUME NEW a \in Nat, NEW m \in Nat, NEW n \in Nat
  PROVE  Positions(a, m) \o Positions(a + m, n) = Positions(a, m + n)
<1> DEFINE p == Positions(a, m)
           q == Positions(a + m, n)
           r == Positions(a, m + n)
<1>1. /\ p \in Seq(Nat) /\ Len(p) = m /\ \A i \in 1..m : p[i] = a + i
      /\ q \in Seq(Nat) /\ Len(q) = n /\ \A i \in 1..n : q[i] = a + m + i
      /\ r \in Seq(Nat) /\ Len(r) = m + n /\ \A i \in 1..(m + n) : r[i] = a + i
  <2>1. a + m \in Nat /\ m + n \in Nat
    OBVIOUS
  <2> QED
    BY <2>1, PositionsType
<1> HIDE DEF p, q, r
<1>2. /\ p \o q \in Seq(Nat) /\ Len(p \o q) = m + n
      /\ \A i \in 1..(m + n) :
           (p \o q)[i] = IF i <= m THEN p[i] ELSE q[i - m]
  BY <1>1, ConcatProperties
<1>5. ASSUME NEW i \in 1..(m + n) PROVE (p \o q)[i] = r[i]
  <2>1. CASE i <= m
    BY <1>1, <1>2, <2>1
  <2>2. CASE ~(i <= m)
    <3>1. i - m \in 1..n /\ ~(i <= m)
      BY <2>2
    <3>2. (p \o q)[i] = q[i - m]
      BY <1>2, <3>1
    <3>3. q[i - m] = a + m + (i - m)
      BY <1>1, <3>1
    <3> QED
      BY <1>1, <3>2, <3>3
  <2> QED
    BY <2>1, <2>2
<1> QED
  BY <1>1, <1>2, <1>5, SeqEqual DEF p, q, r

\* The same from the first byte.
LEMMA PositionsJoin0 ==
  ASSUME NEW m \in Nat, NEW n \in Nat
  PROVE  Positions(0, m) \o Positions(m, n) = Positions(0, m + n)
<1>1. Positions(0, m) \o Positions(0 + m, n) = Positions(0, m + n)
  BY PositionsJoin
<1>2. 0 + m = m
  OBVIOUS
<1> QED
  BY <1>1, <1>2

\* The limit leaves room for a chunk behind either header.
LEMMA LimitFacts == /\ Limit \in Nat /\ HdrSz \in Nat /\ FirstHdrSz \in Nat
                    /\ Limit <= MyTransfer /\ Limit <= PeerTransfer
                    /\ HdrSz < FirstHdrSz /\ FirstHdrSz < Limit
                    /\ WordMod \in Nat /\ SeqMax \in Nat /\ MaxMsg \in Nat
                    /\ SeqMax + 1 < WordMod /\ MaxMsg < WordMod
                    /\ MyTransfer \in Nat /\ PeerTransfer \in Nat
  BY ChunkAssumption DEF Limit

\* A number that passed the check is on the wire as it is.
LEMMA WireSeqSame ==
  ASSUME NEW seq \in Nat, SeqOk(seq)
  PROVE  WireSeq(seq) = seq
<1>1. ASSUME seq <= SeqMax PROVE seq % (SeqMax + 1) = seq
  BY <1>1, LimitFacts, SMT
<1> QED
  BY <1>1 DEF WireSeq, SeqOk

\* The next number, while there is one.
LEMMA NextSeqSame ==
  ASSUME NEW seq \in Nat, seq + 1 < WordMod
  PROVE  NextSeq(seq) = seq + 1
  BY LimitFacts, SMT DEF NextSeq

\* The fields of the call's locals.
LEMMA CallFields ==
  ASSUME NEW c \in CallType
  PROVE  /\ c.pc \in {"IDLE", "PLAIN", "SEND", "GET"}
         /\ c.reqSz \in Nat /\ c.cap \in Nat /\ c.sent \in Nat /\ c.seq \in Nat
         /\ c.handle \in Nat /\ c.total \in Nat /\ c.rsp \in Seq(Nat)
  BY DEF CallType

\* The fields of the responder's transfers.
LEMMA PeerFields ==
  ASSUME NEW p \in PeerType
  PROVE  /\ p.honest \in BOOLEAN /\ p.rh \in Nat /\ p.rseq \in Nat
         /\ p.got \in Seq(Nat) /\ p.took \in Seq(Nat) /\ p.lens \in Seq(Nat)
         /\ p.cur \in Nat /\ p.sh \in Nat /\ p.sseq \in Nat
  BY DEF PeerType

\* A call that starts has its locals' type.
LEMMA IdleType == IdleCall \in CallType
  BY DEF IdleCall, CallType

\* The locals wolfSPDM_ChunkExchange starts from.
LEMMA StartType ==
  ASSUME NEW reqSz \in Nat, NEW cap \in Nat
  PROVE  LET c == [IdleCall EXCEPT !.reqSz = reqSz, !.cap = cap]
         IN  /\ c \in CallType /\ c.reqSz = reqSz /\ c.cap = cap
             /\ c.seq = 0 /\ c.sent = 0 /\ c.rsp = <<>>
<1>1. IdleCall \in CallType
  BY IdleType
<1>2. IdleCall.seq = 0 /\ IdleCall.sent = 0 /\ IdleCall.rsp = <<>>
  BY DEF IdleCall
<1> QED
  BY <1>1, <1>2 DEF CallType

\* Lengths of a response and the chunk added to it.
LEMMA AddedLength ==
  ASSUME NEW s \in Seq(Nat), NEW d \in Seq(Nat), NEW t \in Nat,
         Len(d) > 0, Len(d) <= t - Len(s)
  PROVE  /\ s \o d \in Seq(Nat) /\ Len(s \o d) \in Nat /\ Len(s) \in Nat
         /\ Len(s \o d) > Len(s) /\ Len(s \o d) <= t
<1>1. /\ s \o d \in Seq(Nat) /\ Len(s \o d) = Len(s) + Len(d)
      /\ Len(s) \in Nat /\ Len(d) \in Nat
  BY ConcatProperties, LenProperties
<1> QED
  BY <1>1

\* The number of chunks is below the number of bytes.
LEMMA NoWrap ==
  ASSUME NEW seq \in Nat, NEW m \in Nat, NEW n \in Nat, NEW t \in Nat,
         NEW g \in Nat, NEW w \in Nat, NEW x \in Nat,
         seq <= m, n > m, n <= t, n # t, t <= g, g <= x, x < w
  PROVE  n < t /\ seq + 1 < w /\ seq + 1 <= n
  OBVIOUS

\* The empty and the failed reply promise nothing.
LEMMA NothingOK == MsgOK(Nothing) /\ MsgOK(IoError)
  BY DEF MsgOK, BodyOK, Nothing, IoError

-----------------------------------------------------------------------------
(* The requester's steps *)

\* An exchange that returns leaves nothing behind but its result.
LEMMA ReturnKeeps ==
  ASSUME ChunkInv, NEW rc, NEW data, NEW sz, Return(rc, data, sz),
         inbox' = Nothing, prev' \in {Nothing, prev, inbox}, UNCHANGED peer,
         rc = "OK" => Len(data) = sz /\ sz <= call.cap,
         rc = "OK" /\ call.pc = "GET" /\ peer.honest =>
           \E id \in 1..Len(peer.lens) :
             data = Positions(id * Base, peer.lens[id])
  PROVE  ChunkInv'
<1>1. /\ call' = IdleCall /\ wire' = Nothing
      /\ result' = [rc |-> rc, pc |-> call.pc, data |-> data, sz |-> sz,
                    cap |-> call.cap]
      /\ UNCHANGED <<wide, chunkOn, chunkHandle>>
  BY DEF Return, neg
<1>2. /\ call'.pc = "IDLE" /\ call'.rsp = <<>> /\ call'.seq = 0
  BY <1>1 DEF IdleCall
<1>3. TypeInv'
  BY <1>1, IdleType, NothingOK DEF TypeInv, ChunkInv
<1>4. SeqOk(call.seq)'
  BY <1>2, LimitFacts DEF SeqOk
<1>5. CallInv'
  BY <1>1, <1>2, <1>4, Zenon DEF CallInv, SendInv, GetInv, RestInv
<1>6. ResultOK'
  BY <1>1 DEF ResultOK
<1>7. ServeInv' /\ FetchInv' /\ CollectInv'
  BY <1>2 DEF ChunkInv, ServeInv, Served, FetchInv, CollectInv
<1>8. ResponseWhole'
  BY <1>1 DEF ResponseWhole
<1> QED
  BY <1>3, <1>5, <1>6, <1>7, <1>8 DEF ChunkInv

\* So does one that fails.
LEMMA RefuseKeeps ==
  ASSUME ChunkInv, NEW rc, rc # "OK", Refuse(rc),
         inbox' = Nothing, prev' \in {Nothing, prev, inbox}, UNCHANGED peer
  PROVE  ChunkInv'
  BY ReturnKeeps DEF Refuse

\* CHUNK_GET starts with nothing assembled, and no earlier reply is taken for
\* its first chunk.
LEMMA StartGetKeeps ==
  ASSUME ChunkInv, NEW h \in Nat, StartGet(h), call.pc \in {"PLAIN", "SEND"},
         inbox' = Nothing, UNCHANGED peer,
         peer.honest => prev' = inbox, prev' \in {Nothing, prev, inbox},
         inbox.k # "CHUNK"
  PROVE  ChunkInv'
<1> DEFINE c == [call EXCEPT !.pc = "GET", !.handle = h, !.seq = 0, !.total = 0]
<1>1. /\ call' = c /\ wire' = ChunkGetMsg(c)
      /\ UNCHANGED <<wide, chunkOn, chunkHandle, result>>
  BY DEF StartGet, Wait, neg
<1>2. call \in CallType /\ call.rsp = <<>>
  BY DEF ChunkInv, TypeInv, CallInv, RestInv
<1>3. /\ c \in CallType /\ c.pc = "GET" /\ c.handle = h /\ c.seq = 0
      /\ c.rsp = <<>> /\ c.sent = call.sent /\ c.reqSz = call.reqSz
  BY <1>2 DEF CallType
<1> HIDE DEF c
<1>4. SeqOk(0) /\ WireSeq(0) = 0
  BY WireSeqSame, LimitFacts DEF SeqOk
<1>5. /\ wire'.k = "GET" /\ wire'.h = h /\ wire'.seq = 0 /\ wire'.sz = HdrSz
  BY <1>1, <1>3, <1>4 DEF ChunkGetMsg
<1>6. TypeInv'
  BY <1>1, <1>3, NothingOK DEF TypeInv, ChunkInv
<1>7. call.sent <= call.reqSz
  BY <1>2, CallFields DEF ChunkInv, CallInv, SendInv, RestInv
<1>8. GetInv'
  BY <1>1, <1>3, <1>5, <1>7, LimitFacts DEF GetInv
<1>9. SendInv' /\ RestInv'
  BY <1>1, <1>3, <1>4 DEF SendInv, RestInv, SeqOk
<1>10. ResultOK' /\ ServeInv' /\ ResponseWhole'
  BY <1>1 DEF ChunkInv, ResultOK, ServeInv, Served, ResponseWhole
<1>11. CollectInv'
  BY <1>1, <1>3 DEF ChunkInv, CollectInv
<1>12. FetchInv'
  <2>1. peer \in PeerType
    BY DEF ChunkInv, TypeInv
  <2>2. inbox'.k # "CHUNK"
    BY DEF Nothing
  <2>3. Len(peer.lens) * Base \in Nat
    BY <2>1, PeerFields DEF Base
  <2>4. ASSUME peer.lens # <<>>, peer.cur < Served, peer.sseq = 0
        PROVE  peer.cur = 0 /\ Positions(Len(peer.lens) * Base, peer.cur) = <<>>
    <3>1. peer.cur = 0
      BY <2>1, <2>4, PeerFields DEF ChunkInv, ServeInv
    <3> QED
      BY <3>1, <2>3, EmptyPositions
  <2> QED
    BY <1>1, <1>3, <2>2, <2>4 DEF FetchInv, Served
<1> QED
  BY <1>6, <1>8, <1>9, <1>10, <1>11, <1>12 DEF ChunkInv, CallInv

\* The response of a plain exchange, or of the last acknowledgement.
LEMMA TakeResponseKeeps ==
  ASSUME ChunkInv, NEW b, BodyOK(b), TakeResponse(b),
         call.pc \in {"PLAIN", "SEND"},
         inbox' = Nothing, UNCHANGED peer,
         peer.honest => prev' = inbox, prev' \in {Nothing, prev, inbox},
         b.k = "LARGE" => inbox.k # "CHUNK"
  PROVE  ChunkInv'
<1>1. CASE b.k = "LARGE" /\ StartGet(b.h)
  BY <1>1, StartGetKeeps DEF BodyOK
<1>2. CASE /\ b.k = "RSP" /\ Len(b.data) <= call.cap
           /\ Return("OK", b.data, Len(b.data))
  BY <1>2, ReturnKeeps
<1>3. CASE Refuse("BUFFER_SMALL")
  BY <1>3, RefuseKeeps
<1>4. CASE Return("OK", <<>>, 0)
  <2>1. Len(<<>>) = 0 /\ 0 <= call.cap
    BY CallFields DEF ChunkInv, TypeInv
  <2> QED
    BY <1>4, <2>1, ReturnKeeps
<1> QED
  BY <1>1, <1>2, <1>3, <1>4 DEF TakeResponse

\* A chunk holds something, stays in the request and fits the limit.
LEMMA TakeFacts ==
  ASSUME NEW c \in CallType, c.sent < c.reqSz
  PROVE  /\ Take(c) \in Nat /\ Take(c) >= 1
         /\ c.sent + Take(c) <= c.reqSz
         /\ ChunkSendMsg(c).sz \in 0..Limit
         /\ c.seq = 0 /\ c.sent = 0 /\ Limit < c.reqSz =>
              Take(c) = Limit - FirstHdrSz
<1>1. c.sent \in Nat /\ c.reqSz \in Nat
  BY CallFields
<1>2. CASE c.seq = 0
  BY <1>1, <1>2, LimitFacts DEF Take, Smaller, ChunkSendMsg
<1>3. CASE c.seq # 0
  BY <1>1, <1>3, LimitFacts DEF Take, Smaller, ChunkSendMsg
<1> QED
  BY <1>2, <1>3

\* The next chunk of a request goes out.
LEMMA SendingKeeps ==
  ASSUME NEW c \in CallType, c.pc = "SEND", c.sent < c.reqSz,
         Limit < c.reqSz, c.reqSz < WordMod, SeqOk(c.seq), c.seq <= c.sent,
         c.seq = 0 => c.sent = 0, c.seq = 1 => c.sent = Limit - FirstHdrSz,
         c.rsp = <<>>,
         call' = SendChunk(c), wire' = ChunkSendMsg(c), UNCHANGED wide
  PROVE  /\ CallInv' /\ call' \in CallType
         /\ call'.pc = "SEND" /\ call'.seq = c.seq /\ call'.handle = c.handle
         /\ call'.sent = c.sent + Take(c) /\ call'.reqSz = c.reqSz
         /\ wire'.data = Positions(c.sent, Take(c))
<1>1. /\ c.sent \in Nat /\ c.reqSz \in Nat /\ c.seq \in Nat
  BY CallFields
<1>2. /\ Take(c) \in Nat /\ Take(c) >= 1 /\ c.sent + Take(c) <= c.reqSz
      /\ ChunkSendMsg(c).sz \in 0..Limit
      /\ c.seq = 0 => Take(c) = Limit - FirstHdrSz
  BY TakeFacts
<1>3. c.sent + Take(c) \in Nat
  BY <1>1, <1>2
<1>4. /\ call' \in CallType
      /\ call'.pc = "SEND" /\ call'.seq = c.seq /\ call'.handle = c.handle
      /\ call'.sent = c.sent + Take(c) /\ call'.reqSz = c.reqSz
      /\ call'.rsp = <<>>
  BY <1>3 DEF SendChunk, CallType
<1>5. WireSeq(c.seq) = c.seq
  BY <1>1, WireSeqSame
<1>6. /\ wire'.k = "SEND" /\ wire'.h = c.handle /\ wire'.seq = c.seq
      /\ wire'.last = (c.sent + Take(c) = c.reqSz)
      /\ wire'.data = Positions(c.sent, Take(c))
  BY <1>5 DEF ChunkSendMsg, IsLast
<1>7. wire'.sz \in 0..Limit
  BY <1>2
<1>8. SendInv'
  <2>1. /\ Take(c) \in 1..(c.sent + Take(c))
        /\ c.sent + Take(c) - Take(c) = c.sent
    BY <1>1, <1>2
  <2>2. \E n \in 1..call'.sent :
          /\ wire'.data = Positions(call'.sent - n, n)
          /\ call'.seq = 0 => n = call'.sent
          /\ call'.seq = 1 => call'.sent - n = Limit - FirstHdrSz
    <3>1. call'.seq = 0 => Take(c) = call'.sent
      BY <1>1, <1>2, <1>4
    <3>2. call'.sent - Take(c) = c.sent /\ Take(c) \in 1..call'.sent
      <4>1. call'.sent = c.sent + Take(c)
        BY <1>4
      <4>2. call'.sent - Take(c) = c.sent
        BY <1>1, <1>2, <4>1
      <4>3. Take(c) \in 1..call'.sent
        BY <2>1, <4>1
      <4> QED
        BY <4>2, <4>3
    <3>3. call'.seq = 1 => call'.sent - Take(c) = Limit - FirstHdrSz
      BY <1>4, <3>2
    <3>4. wire'.data = Positions(call'.sent - Take(c), Take(c))
      BY <1>6, <3>2
    <3> QED
      BY <3>1, <3>2, <3>3, <3>4
  <2>3. call'.seq = 0 => call'.sent = Limit - FirstHdrSz
    BY <1>1, <1>2, <1>4, LimitFacts
  <2>4. call'.sent <= call'.reqSz /\ call'.seq < call'.sent
    BY <1>1, <1>2, <1>4
  <2>5. Limit' = Limit
    BY DEF Limit
  <2> QED
    BY <1>4, <1>6, <1>7, <2>2, <2>3, <2>4, <2>5 DEF SendInv
<1>9. GetInv' /\ RestInv'
  BY <1>4 DEF GetInv, RestInv, SeqOk
<1> QED
  BY <1>4, <1>6, <1>8, <1>9 DEF CallInv

\* What a genuine acknowledgement says of the responder's collection, for the
\* chunk that goes out next.
LEMMA CollectGoesOn ==
  ASSUME ChunkInv, call.pc = "SEND", peer.honest, Acknowledges(inbox),
         ~inbox.early, call.sent < call.reqSz
  PROVE  /\ inbox.seq = call.seq
         /\ peer.rh = call.handle /\ peer.rseq = call.seq + 1 =>
              peer.got = Positions(0, call.sent)
<1>1. /\ call.seq \in Nat /\ SeqOk(call.seq)
  BY CallFields DEF ChunkInv, TypeInv, CallInv, RestInv
<1>2. inbox.k = "ACK" /\ inbox.seq = call.seq
  BY <1>1, WireSeqSame DEF Acknowledges
<1>3. CASE inbox = prev
  <2>1. call.seq = 0
    BY <1>1, <1>2, <1>3 DEF ChunkInv, CollectInv
  <2>2. call.sent = Limit - FirstHdrSz
    BY <2>1 DEF ChunkInv, CallInv, SendInv
  <2> QED
    BY <1>2, <2>1, <2>2 DEF ChunkInv, CollectInv
<1>4. CASE inbox # prev
  BY <1>2, <1>4 DEF ChunkInv, CollectInv
<1> QED
  BY <1>3, <1>4

\* An acknowledgement for the chunk just sent lets the next one go out.
LEMMA SendGoesOn ==
  ASSUME ChunkInv, call.pc = "SEND", Acknowledges(inbox), ~inbox.early,
         call.sent # call.reqSz,
         NEW next, next = [call EXCEPT !.seq = NextSeq(call.seq)],
         SeqOk(next.seq), Wait(SendChunk(next), ChunkSendMsg(next)),
         inbox' = Nothing, UNCHANGED peer,
         peer.honest => prev' = inbox, prev' \in {Nothing, prev, inbox}
  PROVE  ChunkInv'
<1>1. call \in CallType /\ peer \in PeerType
  BY DEF ChunkInv, TypeInv
<1>2. /\ call.sent \in Nat /\ call.reqSz \in Nat /\ call.seq \in Nat
      /\ call.rsp = <<>>
  BY <1>1, CallFields DEF ChunkInv, CallInv, RestInv
<1>3. /\ call.sent < call.reqSz /\ call.seq < call.sent
      /\ call.reqSz < WordMod /\ Limit < call.reqSz
      /\ call.seq = 0 => call.sent = Limit - FirstHdrSz
  BY <1>2 DEF ChunkInv, CallInv, SendInv
<1>4. NextSeq(call.seq) = call.seq + 1
  BY <1>2, <1>3, NextSeqSame, LimitFacts
<1>5. /\ next \in CallType /\ next.pc = "SEND" /\ next.seq = call.seq + 1
      /\ next.sent = call.sent /\ next.reqSz = call.reqSz
      /\ next.handle = call.handle /\ next.rsp = <<>>
  BY <1>1, <1>2, <1>4 DEF CallType
<1>6. /\ call' = SendChunk(next) /\ wire' = ChunkSendMsg(next)
      /\ UNCHANGED <<wide, chunkOn, chunkHandle, result>>
  BY DEF Wait, neg
<1>7. next.seq <= next.sent /\ next.seq # 0
  BY <1>2, <1>3, <1>5
<1>8. next.seq = 1 => next.sent = Limit - FirstHdrSz
  BY <1>2, <1>3, <1>5
<1>9. /\ CallInv' /\ call' \in CallType
      /\ call'.pc = "SEND" /\ call'.seq = next.seq
      /\ call'.handle = next.handle
      /\ call'.sent = next.sent + Take(next)
      /\ wire'.data = Positions(next.sent, Take(next))
  BY <1>3, <1>5, <1>6, <1>7, <1>8, SendingKeeps
<1>10. TypeInv'
  BY <1>6, <1>9, NothingOK DEF TypeInv, ChunkInv
<1>11. ResultOK' /\ ServeInv' /\ ResponseWhole'
  BY <1>6 DEF ChunkInv, ResultOK, ServeInv, Served, ResponseWhole
<1>12. FetchInv'
  BY <1>9 DEF FetchInv
<1>13. CollectInv'
  <2>1. Take(next) \in Nat
    BY <1>3, <1>5, TakeFacts
  <2>2. Positions(0, call.sent) \o Positions(call.sent, Take(next))
          = Positions(0, call.sent + Take(next))
    BY <1>2, <2>1, PositionsJoin0
  <2>3. inbox'.k # "ACK"
    BY DEF Nothing
  <2>4. ASSUME peer.honest
        PROVE  /\ prev'.seq # call'.seq
               /\ peer.rh = call'.handle /\ peer.rseq = call'.seq =>
                    peer.got \o wire'.data = Positions(0, call'.sent)
    <3>1. /\ inbox.seq = call.seq /\ prev' = inbox
          /\ peer.rh = call.handle /\ peer.rseq = call.seq + 1 =>
               peer.got = Positions(0, call.sent)
      BY <1>3, <2>4, CollectGoesOn
    <3>2. call.seq # call.seq + 1
      BY <1>2
    <3> QED
      BY <1>5, <1>9, <2>2, <3>1, <3>2
  <2> QED
    BY <2>3, <2>4, LimitFacts DEF ChunkInv, CollectInv, Limit
<1> QED
  BY <1>9, <1>10, <1>11, <1>12, <1>13 DEF ChunkInv

\* Whatever comes back for a chunk of a request.
LEMMA SendReturnKeeps ==
  ASSUME ChunkInv, SendReturn(inbox), inbox' = Nothing, UNCHANGED peer,
         peer.honest /\ inbox.k # "IO" => prev' = inbox,
         prev' \in {Nothing, prev, inbox}
  PROVE  ChunkInv'
<1> DEFINE next == [call EXCEPT !.seq = NextSeq(call.seq)]
<1>1. call.pc = "SEND" /\ MsgOK(inbox)
  BY DEF SendReturn, ChunkInv, TypeInv
<1>2. CASE \E rc \in {"IO", "PEER_ERROR", "CHUNK"} : Refuse(rc)
  BY <1>2, RefuseKeeps
<1>3. CASE inbox.k = "LARGE" /\ StartGet(inbox.h)
  BY <1>1, <1>3, StartGetKeeps DEF MsgOK, BodyOK
<1>4. CASE /\ Acknowledges(inbox) /\ ~inbox.early
           /\ call.sent # call.reqSz /\ SeqOk(next.seq)
           /\ Wait(SendChunk(next), ChunkSendMsg(next))
  <2>1. inbox.k = "ACK"
    BY <1>4 DEF Acknowledges
  <2> HIDE DEF next
  <2>2. next = [call EXCEPT !.seq = NextSeq(call.seq)]
    BY DEF next
  <2> QED
    BY <1>1, <1>4, <2>1, <2>2, SendGoesOn
<1>5. CASE Acknowledges(inbox) /\ TakeResponse(inbox.body)
  <2>1. inbox.k = "ACK" /\ BodyOK(inbox.body)
    BY <1>1, <1>5 DEF Acknowledges, MsgOK
  <2> QED
    BY <1>1, <1>5, <2>1, TakeResponseKeeps
<1> QED
  <2>1. ASSUME NEW x, Refuse(IF x THEN "PEER_ERROR" ELSE "CHUNK")
        PROVE  \E rc \in {"IO", "PEER_ERROR", "CHUNK"} : Refuse(rc)
    BY <2>1
  <2> QED
    BY <1>2, <1>3, <1>4, <1>5, <2>1 DEF SendReturn

\* Whatever comes back for a request sent whole.
LEMMA PlainReturnKeeps ==
  ASSUME ChunkInv, PlainReturn(inbox), inbox' = Nothing, UNCHANGED peer,
         peer.honest /\ inbox.k # "IO" => prev' = inbox,
         prev' \in {Nothing, prev, inbox}
  PROVE  ChunkInv'
<1>1. call.pc = "PLAIN" /\ MsgOK(inbox)
  BY DEF PlainReturn, ChunkInv, TypeInv
<1>2. CASE Refuse("IO")
  BY <1>2, RefuseKeeps
<1>3. CASE inbox.k # "IO" /\ TakeResponse(inbox)
  BY <1>1, <1>3, TakeResponseKeeps DEF MsgOK
<1> QED
  BY <1>2, <1>3 DEF PlainReturn

\* What the chunk asked for says of the responder's last response.
LEMMA FetchGoesOn ==
  ASSUME ChunkInv, call.pc = "GET", peer.honest, Expected(inbox)
  PROVE  /\ inbox.seq = call.seq
         /\ peer.lens # <<>>
         /\ call.rsp \o inbox.data = Positions(Len(peer.lens) * Base, peer.cur)
         /\ TotalOf(inbox) = Served
         /\ inbox.last = (peer.cur = Served)
         /\ peer.sseq = call.seq + 1
<1>1. call.seq \in Nat /\ SeqOk(call.seq)
  BY CallFields DEF ChunkInv, TypeInv, CallInv, RestInv
<1>2. inbox.k = "CHUNK" /\ inbox.seq = call.seq
  BY <1>1, WireSeqSame DEF Expected
<1>3. /\ peer.lens # <<>>
      /\ call.rsp \o inbox.data = Positions(Len(peer.lens) * Base, peer.cur)
      /\ inbox.total = Served
      /\ call.seq > 0 => call.total = Served
      /\ inbox.last = (peer.cur = Served)
      /\ peer.sseq = call.seq + 1
  BY <1>2 DEF ChunkInv, FetchInv
<1>4. TotalOf(inbox) = Served
  BY <1>1, <1>3 DEF TotalOf
<1> QED
  BY <1>2, <1>3, <1>4

\* A chunk that fits adds to the response and stays in its total.
LEMMA ChunkAdds ==
  ASSUME ChunkInv, call.pc = "GET", Expected(inbox), ChunkFits(inbox),
         Completes(inbox, Len(call.rsp \o inbox.data)),
         TotalOf(inbox) \in 1..GetCap(call)
  PROVE  /\ call.rsp \o inbox.data \in Seq(Nat)
         /\ Len(call.rsp \o inbox.data) > Len(call.rsp)
         /\ Len(call.rsp \o inbox.data) <= TotalOf(inbox)
         /\ inbox.last = (Len(call.rsp \o inbox.data) = TotalOf(inbox))
         /\ TotalOf(inbox) \in Nat /\ TotalOf(inbox) <= GetCap(call)
         /\ GetCap(call) <= call.cap /\ GetCap(call) <= MaxMsg
         /\ GetCap(call) \in Nat
<1>1. call.rsp \in Seq(Nat) /\ call.cap \in Nat
  BY CallFields DEF ChunkInv, TypeInv
<1>2. inbox.data \in Seq(Nat)
  BY DEF Expected, ChunkInv, TypeInv, MsgOK
<1>4. /\ Len(inbox.data) > 0
      /\ Len(inbox.data) <= TotalOf(inbox) - Len(call.rsp)
  BY DEF ChunkFits
<1>5. /\ GetCap(call) \in Nat
      /\ GetCap(call) <= call.cap /\ GetCap(call) <= MaxMsg
  BY <1>1, LimitFacts DEF GetCap, Smaller
<1>6. TotalOf(inbox) \in Nat /\ TotalOf(inbox) <= GetCap(call)
  BY <1>5
<1>7. inbox.last = (Len(call.rsp \o inbox.data) = TotalOf(inbox))
  BY DEF Completes
<1>8. /\ call.rsp \o inbox.data \in Seq(Nat)
      /\ Len(call.rsp \o inbox.data) > Len(call.rsp)
      /\ Len(call.rsp \o inbox.data) <= TotalOf(inbox)
  BY <1>1, <1>2, <1>4, <1>6, AddedLength
<1> QED
  BY <1>5, <1>6, <1>7, <1>8

\* The chunk asked for lets the next one be asked for.
LEMMA GetGoesOn ==
  ASSUME ChunkInv, call.pc = "GET", Expected(inbox), ChunkFits(inbox),
         Completes(inbox, Len(call.rsp \o inbox.data)),
         TotalOf(inbox) \in 1..GetCap(call), ~inbox.last,
         NEW c, c = [call EXCEPT !.rsp = call.rsp \o inbox.data,
                                 !.total = TotalOf(inbox),
                                 !.seq = NextSeq(call.seq)],
         SeqOk(c.seq), Wait(c, ChunkGetMsg(c)),
         inbox' = Nothing, UNCHANGED peer,
         peer.honest => prev' = inbox, prev' \in {Nothing, prev, inbox}
  PROVE  ChunkInv'
<1> DEFINE rsp == call.rsp \o inbox.data
           total == TotalOf(inbox)
<1>1. call \in CallType /\ peer \in PeerType
  BY DEF ChunkInv, TypeInv
<1>a. /\ rsp \in Seq(Nat) /\ Len(rsp) > Len(call.rsp)
      /\ Len(rsp) <= total /\ inbox.last = (Len(rsp) = total)
      /\ total \in Nat /\ total <= GetCap(call)
      /\ GetCap(call) <= MaxMsg /\ GetCap(call) \in Nat
  BY ChunkAdds
<1> HIDE DEF rsp, total
<1>b. rsp \in Seq(Nat)
  BY <1>a
<1>3. /\ call.seq \in Nat /\ Len(call.rsp) \in Nat /\ Len(rsp) \in Nat
      /\ call.sent \in Nat /\ call.reqSz \in Nat
  BY <1>1, <1>b, CallFields, LenProperties
<1>4. call.seq <= Len(call.rsp) /\ call.sent <= call.reqSz
  BY DEF ChunkInv, CallInv, GetInv
<1>5. Len(rsp) < total /\ call.seq + 1 < WordMod /\ call.seq + 1 <= Len(rsp)
  <2>1. Len(rsp) # total
    BY <1>a
  <2>2. MaxMsg \in Nat /\ WordMod \in Nat /\ MaxMsg < WordMod
    BY LimitFacts
  <2>3. /\ Len(rsp) > Len(call.rsp) /\ Len(rsp) <= total
        /\ total \in Nat /\ total <= GetCap(call)
        /\ GetCap(call) <= MaxMsg /\ GetCap(call) \in Nat
    BY <1>a
  <2> QED
    BY <1>3, <1>4, <2>1, <2>2, <2>3, NoWrap
<1>2. total \in Nat /\ total <= GetCap(call) /\ GetCap(call) \in Nat
  BY <1>a
<1>6. NextSeq(call.seq) = call.seq + 1
  BY <1>3, <1>5, NextSeqSame
<1>7. /\ c \in CallType /\ c.pc = "GET" /\ c.seq = call.seq + 1
      /\ c.rsp = rsp /\ c.total = total /\ c.handle = call.handle
      /\ c.sent = call.sent /\ c.reqSz = call.reqSz /\ c.cap = call.cap
  <2>1. c = [call EXCEPT !.rsp = rsp, !.total = total, !.seq = call.seq + 1]
    BY <1>6 DEF rsp, total
  <2>2. call.seq + 1 \in Nat /\ total \in Nat
    BY <1>2, <1>3
  <2> QED
    BY <1>1, <1>b, <2>1, <2>2 DEF CallType
<1>8. /\ call' = c /\ wire' = ChunkGetMsg(c)
      /\ UNCHANGED <<wide, chunkOn, chunkHandle, result>>
  BY DEF Wait, neg
<1>9. WireSeq(c.seq) = c.seq
  BY <1>3, <1>7, WireSeqSame
<1>10. /\ wire'.k = "GET" /\ wire'.h = c.handle /\ wire'.seq = c.seq
       /\ wire'.sz = HdrSz
  BY <1>8, <1>9 DEF ChunkGetMsg
<1>11. TypeInv'
  BY <1>7, <1>8, NothingOK DEF TypeInv, ChunkInv
<1>12. GetInv'
  <2>1. GetCap(c) = GetCap(call)
    BY <1>7 DEF GetCap
  <2>2. /\ c.seq # 0 /\ c.seq <= Len(c.rsp) /\ Len(c.rsp) < c.total
        /\ c.total <= GetCap(c) /\ c.sent <= c.reqSz
    <3>1. call.seq + 1 # 0
      BY <1>3
    <3>2. c.rsp = rsp /\ c.seq = call.seq + 1 /\ c.total = total
      BY <1>7
    <3>3. c.sent <= c.reqSz
      BY <1>4, <1>7
    <3> QED
      BY <1>2, <1>5, <2>1, <3>1, <3>2, <3>3
  <2>3. HdrSz \in 0..Limit
    BY LimitFacts
  <2> QED
    BY <1>7, <1>8, <1>10, <2>2, <2>3 DEF GetInv, GetCap, Limit
<1>13. SendInv' /\ RestInv'
  BY <1>7, <1>8 DEF SendInv, RestInv, SeqOk
<1>14. ResultOK' /\ ServeInv' /\ ResponseWhole'
  BY <1>8 DEF ChunkInv, ResultOK, ServeInv, Served, ResponseWhole
<1>15. CollectInv'
  BY <1>7, <1>8 DEF ChunkInv, CollectInv
<1>16. FetchInv'
  <2>1. inbox'.k # "CHUNK"
    BY DEF Nothing
  <2>2. ASSUME peer.honest
        PROVE  /\ prev'.seq # c.seq
               /\ c.rsp = Positions(Len(peer.lens) * Base, peer.cur)
               /\ c.total = Served
    <3>1. /\ inbox.seq = call.seq /\ prev' = inbox
          /\ rsp = Positions(Len(peer.lens) * Base, peer.cur)
          /\ total = Served
      BY <2>2, FetchGoesOn DEF rsp, total
    <3>2. call.seq # call.seq + 1
      BY <1>3
    <3> QED
      BY <1>7, <3>1, <3>2
  <2> QED
    BY <1>8, <2>1, <2>2 DEF FetchInv, Served
<1> QED
  BY <1>11, <1>12, <1>13, <1>14, <1>15, <1>16 DEF ChunkInv, CallInv

\* Whatever comes back for CHUNK_GET.
LEMMA GetReturnKeeps ==
  ASSUME ChunkInv, GetReturn(inbox), inbox' = Nothing, UNCHANGED peer,
         peer.honest /\ inbox.k # "IO" => prev' = inbox,
         prev' \in {Nothing, prev, inbox}
  PROVE  ChunkInv'
<1> DEFINE rsp == call.rsp \o inbox.data
           c == [call EXCEPT !.rsp = rsp, !.total = TotalOf(inbox),
                             !.seq = NextSeq(call.seq)]
<1>1. call.pc = "GET"
  BY DEF GetReturn
<1>2. CASE \E rc \in {"IO", "PEER_ERROR", "CHUNK", "BUFFER_SMALL"} : Refuse(rc)
  BY <1>2, RefuseKeeps
<1>3. CASE /\ Expected(inbox) /\ TotalOf(inbox) \in 1..GetCap(call)
           /\ ChunkFits(inbox) /\ Completes(inbox, Len(rsp))
           /\ inbox.last /\ Return("OK", rsp, TotalOf(inbox))
  <2>1. /\ Len(rsp) = TotalOf(inbox) /\ TotalOf(inbox) <= call.cap
    <3>1. /\ inbox.last = (Len(rsp) = TotalOf(inbox))
          /\ TotalOf(inbox) \in Nat /\ TotalOf(inbox) <= GetCap(call)
          /\ GetCap(call) <= call.cap /\ GetCap(call) \in Nat
      BY <1>1, <1>3, ChunkAdds
    <3>2. call.cap \in Nat
      BY CallFields DEF ChunkInv, TypeInv
    <3>3. Len(rsp) = TotalOf(inbox)
      BY <1>3, <3>1
    <3>4. ASSUME NEW a \in Nat, NEW b \in Nat, NEW g \in Nat, a <= g, g <= b
          PROVE  a <= b
      BY <3>4
    <3> HIDE DEF rsp
    <3> QED
      BY <3>1, <3>2, <3>3, <3>4
  <2>2. ASSUME peer.honest
        PROVE  \E id \in 1..Len(peer.lens) :
                 rsp = Positions(id * Base, peer.lens[id])
    <3>1. /\ peer.lens # <<>> /\ rsp = Positions(Len(peer.lens) * Base, Served)
      BY <1>1, <1>3, <2>2, FetchGoesOn
    <3>2. peer.lens \in Seq(Nat)
      BY PeerFields DEF ChunkInv, TypeInv
    <3>3. Len(peer.lens) \in 1..Len(peer.lens)
      BY <3>1, <3>2, EmptySeq
    <3> QED
      BY <3>1, <3>3 DEF Served
  <2> HIDE DEF rsp
  <2> QED
    BY <1>3, <2>1, <2>2, ReturnKeeps
<1>4. CASE /\ Expected(inbox) /\ TotalOf(inbox) \in 1..GetCap(call)
           /\ ChunkFits(inbox) /\ Completes(inbox, Len(rsp))
           /\ ~inbox.last /\ SeqOk(c.seq) /\ Wait(c, ChunkGetMsg(c))
  <2>1. inbox.k # "IO"
    BY <1>4 DEF Expected
  <2>2. c = [call EXCEPT !.rsp = call.rsp \o inbox.data,
                         !.total = TotalOf(inbox),
                         !.seq = NextSeq(call.seq)]
    OBVIOUS
  <2> HIDE DEF c
  <2> QED
    BY <1>1, <1>4, <2>1, <2>2, GetGoesOn
<1> QED
  <2> HIDE DEF c, rsp
  <2> QED
    BY <1>2, <1>3, <1>4 DEF GetReturn, c, rsp

\* The I/O callback returns.
LEMMA ReceiveKeeps ==
  ASSUME ChunkInv, Receive
  PROVE  ChunkInv'
<1>1. /\ inbox' = Nothing /\ UNCHANGED peer
      /\ prev' \in {Nothing, prev, inbox}
      /\ peer.honest /\ inbox.k # "IO" => prev' = inbox
  BY DEF Receive
<1> QED
  BY <1>1, PlainReturnKeeps, SendReturnKeeps, GetReturnKeeps DEF Receive

\* An exchange starts: whole, refused, or with its first chunk.
LEMMA ExchangeKeeps ==
  ASSUME ChunkInv, NEW reqSz \in ReqSizes, NEW cap \in Caps,
         Exchange(reqSz, cap)
  PROVE  ChunkInv'
<1> DEFINE c == [IdleCall EXCEPT !.reqSz = reqSz, !.cap = cap]
           s == [c EXCEPT !.pc = "SEND", !.handle = chunkHandle]
           p == [c EXCEPT !.pc = "PLAIN"]
<1>1. /\ reqSz \in Nat /\ reqSz < WordMod /\ cap \in Nat
      /\ chunkHandle \in Nat /\ HandleMod \in Nat /\ HandleMod > 1
  BY ChunkAssumption DEF ChunkInv, TypeInv
<1>2. /\ call.pc = "IDLE" /\ UNCHANGED <<wide, chunkOn, inbox, prev, peer>>
  BY DEF Exchange, neg
<1>3. call = IdleCall /\ wire = Nothing /\ inbox = Nothing
  BY <1>2 DEF ChunkInv, CallInv, RestInv
<1>4. inbox'.k = "NONE"
  BY <1>2, <1>3 DEF Nothing
<1>5. ServeInv'
  BY <1>2 DEF ChunkInv, ServeInv, Served
<1>6. SeqOk(0)
  BY LimitFacts DEF SeqOk
<1>7. CASE /\ reqSz <= OneMessage /\ call' = p
           /\ wire' = [k |-> "REQ", sz |-> reqSz]
           /\ UNCHANGED <<chunkHandle, result>>
  <2>1. /\ p \in CallType /\ p.pc = "PLAIN" /\ p.reqSz = reqSz /\ p.seq = 0
        /\ p.sent = 0 /\ p.rsp = <<>>
    <3>1. /\ c \in CallType /\ c.reqSz = reqSz
          /\ c.seq = 0 /\ c.sent = 0 /\ c.rsp = <<>>
      BY <1>1, StartType
    <3> HIDE DEF c
    <3> QED
      BY <1>1, <3>1 DEF CallType
  <2> HIDE DEF p
  <2>2. TypeInv'
    BY <1>2, <1>7, <2>1 DEF TypeInv, ChunkInv
  <2>3. CallInv'
    BY <1>2, <1>6, <1>7, <2>1 DEF CallInv, SendInv, GetInv, RestInv, SeqOk,
                                  OneMessage, Limit
  <2>4. ResultOK' /\ ResponseWhole'
    BY <1>2, <1>7 DEF ChunkInv, ResultOK, ResponseWhole
  <2>5. FetchInv' /\ CollectInv'
    BY <1>2, <1>7, <2>1 DEF ChunkInv, FetchInv, CollectInv
  <2> QED
    BY <1>5, <2>2, <2>3, <2>4, <2>5 DEF ChunkInv
<1>8. CASE /\ result' = [rc |-> "BUFFER_SMALL", pc |-> "IDLE", data |-> <<>>,
                         sz |-> 0, cap |-> cap]
           /\ UNCHANGED <<call, wire, chunkHandle>>
  <2>1. TypeInv'
    BY <1>2, <1>8 DEF TypeInv, ChunkInv
  <2>2. CallInv'
    BY <1>2, <1>3, <1>8, Zenon DEF ChunkInv, CallInv, SendInv, GetInv, RestInv,
                                   SeqOk
  <2>3. ResultOK' /\ ResponseWhole'
    BY <1>8 DEF ResultOK, ResponseWhole
  <2>4. FetchInv' /\ CollectInv'
    BY <1>2, <1>8 DEF ChunkInv, FetchInv, CollectInv
  <2> QED
    BY <1>5, <2>1, <2>2, <2>3, <2>4 DEF ChunkInv
<1>9. CASE /\ reqSz > OneMessage /\ MayChunk(reqSz)
           /\ chunkHandle' = (chunkHandle + 1) % HandleMod
           /\ call' = SendChunk(s) /\ wire' = ChunkSendMsg(s)
           /\ UNCHANGED result
  <2>1. /\ s \in CallType /\ s.pc = "SEND" /\ s.reqSz = reqSz /\ s.seq = 0
        /\ s.sent = 0 /\ s.rsp = <<>>
    <3>1. /\ c \in CallType /\ c.reqSz = reqSz
          /\ c.seq = 0 /\ c.sent = 0 /\ c.rsp = <<>>
      BY <1>1, StartType
    <3> HIDE DEF c
    <3> QED
      BY <1>1, <3>1 DEF CallType
  <2> HIDE DEF s
  <2>2. Limit < reqSz
    BY <1>1, <1>9, LimitFacts DEF MayChunk, OneMessage
  <2>3. s.sent < s.reqSz /\ s.seq <= s.sent /\ s.seq # 1
    BY <1>1, <2>1, <2>2, LimitFacts
  <2>4. /\ CallInv' /\ call' \in CallType /\ call'.pc = "SEND"
        /\ call'.seq = 0
    BY <1>1, <1>2, <1>6, <1>9, <2>1, <2>2, <2>3, SendingKeeps
  <2>5. chunkHandle' \in 0..(HandleMod - 1)
    BY <1>1, <1>9
  <2>6. TypeInv'
    BY <1>2, <2>4, <2>5 DEF TypeInv, ChunkInv
  <2>7. ResultOK' /\ ResponseWhole'
    BY <1>2, <1>9 DEF ChunkInv, ResultOK, ResponseWhole
  <2>8. FetchInv' /\ CollectInv'
    BY <1>2, <1>4, <2>4 DEF ChunkInv, FetchInv, CollectInv
  <2> QED
    BY <1>5, <2>4, <2>6, <2>7, <2>8 DEF ChunkInv
<1> QED
  <2> HIDE DEF s, p
  <2> QED
    BY <1>7, <1>8, <1>9 DEF Exchange, c, s, p

-----------------------------------------------------------------------------
(* The responder's and the transport's steps *)

\* A reply changes only what is waiting and the responder.
LEMMA ReplyKeeps ==
  ASSUME ChunkInv, NEW r, Reply(r), MsgOK(r), peer' \in PeerType,
         ServeInv', FetchInv', CollectInv', ResponseWhole'
  PROVE  ChunkInv'
<1>1. /\ wire # Nothing /\ inbox' = r
      /\ UNCHANGED <<wide, chunkOn, chunkHandle, call, wire, prev, result>>
  BY DEF Reply, neg
<1>2. call.pc # "IDLE"
  BY <1>1 DEF ChunkInv, CallInv, RestInv
<1>3. TypeInv'
  BY <1>1 DEF ChunkInv, TypeInv
<1>4. SendInv'
  BY <1>1 DEF ChunkInv, CallInv, SendInv, Limit
<1>5. GetInv'
  BY <1>1 DEF ChunkInv, CallInv, GetInv, Limit, GetCap
<1>6. RestInv'
  BY <1>1, <1>2 DEF ChunkInv, CallInv, RestInv, SeqOk, OneMessage, Limit
<1>7. ResultOK'
  BY <1>1 DEF ChunkInv, ResultOK
<1> QED
  BY <1>3, <1>4, <1>5, <1>6, <1>7 DEF ChunkInv, CallInv

\* So does one that says nothing new: an error, or a refusal.
LEMMA ErrorKeeps ==
  ASSUME ChunkInv, NEW r, Reply(r), MsgOK(r), r # Nothing, UNCHANGED peer,
         r.k # "CHUNK", r.k = "ACK" => r.early
  PROVE  ChunkInv'
<1>1. inbox' = r /\ UNCHANGED <<call, wire, prev, result>>
  BY DEF Reply
<1>2. ServeInv' /\ ResponseWhole'
  BY <1>1 DEF ChunkInv, ServeInv, Served, ResponseWhole
<1>3. FetchInv'
  BY <1>1 DEF ChunkInv, FetchInv, Served
<1>4. CollectInv'
  BY <1>1 DEF ChunkInv, CollectInv, Limit
<1>5. peer' \in PeerType
  BY DEF ChunkInv, TypeInv
<1> QED
  BY <1>2, <1>3, <1>4, <1>5, ReplyKeeps

\* Which call a message belongs to.
LEMMA WireTells ==
  ASSUME ChunkInv, wire # Nothing
  PROVE  /\ wire.k = "REQ" => call.pc = "PLAIN"
         /\ wire.k = "SEND" => call.pc = "SEND"
         /\ wire.k = "GET" => call.pc = "GET"
<1>1. call.pc \in {"IDLE", "PLAIN", "SEND", "GET"}
  BY CallFields DEF ChunkInv, TypeInv
<1>2. call.pc = "PLAIN" => wire.k = "REQ"
  BY DEF ChunkInv, CallInv, RestInv
<1>3. call.pc = "SEND" => wire.k = "SEND"
  BY DEF ChunkInv, CallInv, SendInv
<1>4. call.pc = "GET" => wire.k = "GET"
  BY DEF ChunkInv, CallInv, GetInv
<1>5. call.pc # "IDLE"
  BY DEF ChunkInv, CallInv, RestInv
<1> QED
  BY <1>1, <1>2, <1>3, <1>4, <1>5

\* A new response leaves the earlier ones as they were.
LEMMA NewResponse ==
  ASSUME ChunkInv, NEW p \in PeerType, p.lens = peer.lens,
         p.honest = peer.honest, NEW n \in RspSizes, UNCHANGED result,
         NEW cur \in {0, n}, NEW sh \in Nat,
         NEW q, q = [p EXCEPT !.lens = Append(p.lens, n), !.cur = cur,
                              !.sseq = 0, !.sh = sh],
         peer' = q
  PROVE  /\ peer' \in PeerType /\ ServeInv' /\ ResponseWhole'
         /\ peer'.honest = peer.honest
         /\ peer'.rh = p.rh /\ peer'.rseq = p.rseq
         /\ peer'.got = p.got /\ peer'.took = p.took
<1>1. n \in Nat /\ cur \in Nat
  BY ChunkAssumption
<1>2. p.lens \in Seq(Nat)
  BY PeerFields
<1>3. /\ Append(p.lens, n) \in Seq(Nat)
      /\ Append(p.lens, n) # <<>>
      /\ Len(Append(p.lens, n)) = Len(p.lens) + 1
      /\ Append(p.lens, n)[Len(p.lens) + 1] = n
      /\ \A i \in 1..Len(p.lens) : Append(p.lens, n)[i] = p.lens[i]
      /\ Len(p.lens) \in Nat
  BY <1>1, <1>2, AppendProperties, LenProperties
<1>4. /\ q \in PeerType /\ q.lens = Append(p.lens, n) /\ q.cur = cur
      /\ q.honest = peer.honest /\ q.rh = p.rh /\ q.rseq = p.rseq
      /\ q.got = p.got /\ q.took = p.took
  BY <1>1, <1>3 DEF PeerType
<1>5. Served' = n
  BY <1>3, <1>4 DEF Served
<1>6. ServeInv'
  BY <1>1, <1>4, <1>5 DEF ServeInv
<1>7. ResponseWhole'
  <2> SUFFICES ASSUME result.rc = "OK", result.pc = "GET", peer.honest
               PROVE  \E id \in 1..Len(q.lens) :
                        result.data = Positions(id * Base, q.lens[id])
    BY <1>4 DEF ResponseWhole
  <2>1. PICK id \in 1..Len(peer.lens) :
          result.data = Positions(id * Base, peer.lens[id])
    BY DEF ChunkInv, ResponseWhole
  <2>2. id \in 1..Len(q.lens) /\ q.lens[id] = peer.lens[id]
    BY <1>3, <1>4
  <2> QED
    BY <2>1, <2>2
<1> QED
  BY <1>4, <1>6, <1>7

\* A response is well typed, inline or announced.
LEMMA ResponseType ==
  ASSUME NEW p \in PeerType, NEW n \in Nat
  PROVE  /\ BodyOK(Rsp(Positions((Len(p.lens) + 1) * Base, n)))
         /\ (p.sh + 1) % HandleMod \in Nat
         /\ BodyOK(Large((p.sh + 1) % HandleMod))
<1>1. p.lens \in Seq(Nat) /\ p.sh \in Nat
  BY PeerFields
<1>2. (Len(p.lens) + 1) * Base \in Nat
  BY <1>1, LenProperties DEF Base
<1>3. HandleMod \in Nat /\ HandleMod > 1
  BY ChunkAssumption
<1>4. (p.sh + 1) % HandleMod \in Nat
  BY <1>1, <1>3
<1> QED
  BY <1>2, <1>4, PositionsType DEF BodyOK, Rsp, Large

\* The responder after a new response, in one update.
LEMMA NewPeers ==
  ASSUME NEW p \in PeerType, NEW l, NEW n, NEW h
  PROVE  LET q == [p EXCEPT !.lens = l, !.cur = 0, !.sseq = 0]
         IN  /\ [q EXCEPT !.cur = n] =
                  [p EXCEPT !.lens = l, !.cur = n, !.sseq = 0, !.sh = p.sh]
             /\ [q EXCEPT !.sh = h] =
                  [p EXCEPT !.lens = l, !.cur = 0, !.sseq = 0, !.sh = h]
  BY DEF PeerType

\* The answer to a request sent whole.
LEMMA PeerPlainKeeps ==
  ASSUME ChunkInv, wire # Nothing, PeerPlain
  PROVE  ChunkInv'
<1> DEFINE id == Len(peer.lens) + 1
           sh == (peer.sh + 1) % HandleMod
<1>1. call.pc = "PLAIN" /\ peer \in PeerType
  BY WireTells DEF PeerPlain, ChunkInv, TypeInv
<1>2. PICK n \in RspSizes :
        LET q == [peer EXCEPT !.lens = Append(peer.lens, n), !.cur = 0,
                              !.sseq = 0]
        IN  \/ /\ Reply(Rsp(Positions(id * Base, n)))
               /\ peer' = [q EXCEPT !.cur = n]
            \/ /\ peer' = [q EXCEPT !.sh = sh]
               /\ Reply(Large(sh))
  BY DEF PeerPlain, Respond
<1>3. n \in Nat /\ peer.sh \in Nat
  BY <1>1, ChunkAssumption, PeerFields
<1>4. /\ BodyOK(Rsp(Positions(id * Base, n))) /\ BodyOK(Large(sh))
      /\ sh \in Nat
  BY <1>1, <1>3, ResponseType
<1>5. /\ MsgOK(Rsp(Positions(id * Base, n))) /\ MsgOK(Large(sh))
  BY <1>4 DEF MsgOK, Rsp, Large
<1> HIDE DEF id, sh
<1>6. ASSUME NEW r, Reply(r), MsgOK(r), NEW cur \in {0, n}, NEW h \in Nat,
             peer' = [peer EXCEPT !.lens = Append(peer.lens, n), !.cur = cur,
                                  !.sseq = 0, !.sh = h]
      PROVE  ChunkInv'
  <2>1. UNCHANGED <<call, result>>
    BY <1>6 DEF Reply
  <2>2. /\ peer' \in PeerType /\ ServeInv' /\ ResponseWhole'
        /\ peer'.honest = peer.honest
        /\ peer'.rh = peer.rh /\ peer'.rseq = peer.rseq
        /\ peer'.got = peer.got /\ peer'.took = peer.took
    BY <1>1, <1>6, <2>1, NewResponse
  <2>3. FetchInv' /\ CollectInv'
    BY <1>1, <2>1, <2>2 DEF ChunkInv, FetchInv, CollectInv, Limit
  <2> QED
    BY <1>6, <2>2, <2>3, ReplyKeeps
<1>7. CASE /\ Reply(Rsp(Positions(id * Base, n)))
           /\ peer' = [[peer EXCEPT !.lens = Append(peer.lens, n), !.cur = 0,
                                    !.sseq = 0] EXCEPT !.cur = n]
  <2>1. peer' = [peer EXCEPT !.lens = Append(peer.lens, n), !.cur = n,
                             !.sseq = 0, !.sh = peer.sh]
    BY <1>1, <1>7, NewPeers
  <2> QED
    BY <1>3, <1>5, <1>6, <1>7, <2>1
<1>8. CASE /\ Reply(Large(sh))
           /\ peer' = [[peer EXCEPT !.lens = Append(peer.lens, n), !.cur = 0,
                                    !.sseq = 0] EXCEPT !.sh = sh]
  <2>1. peer' = [peer EXCEPT !.lens = Append(peer.lens, n), !.cur = 0,
                             !.sseq = 0, !.sh = sh]
    BY <1>1, <1>8, NewPeers
  <2> QED
    BY <1>4, <1>5, <1>6, <1>8, <2>1
<1> QED
  BY <1>2, <1>7, <1>8, Zenon

\* What the responder has once it has taken the chunk on the wire: the
\* request up to it.
LEMMA Collected ==
  ASSUME ChunkInv, call.pc = "SEND", inbox = Nothing, peer.honest,
         wire.seq = 0 \/ (wire.h = peer.rh /\ wire.seq = peer.rseq),
         NEW got, got = IF wire.seq = 0 THEN wire.data
                        ELSE peer.got \o wire.data
  PROVE  /\ got = Positions(0, call.sent)
         /\ wire.seq + 1 = 1 => got = Positions(0, Limit - FirstHdrSz)
<1>1. call.seq \in Nat /\ call.sent \in Nat
  BY CallFields DEF ChunkInv, TypeInv
<1>2. wire.seq = call.seq /\ wire.h = call.handle
  BY DEF ChunkInv, CallInv, SendInv
<1>3. CASE wire.seq = 0
  <2>1. PICK n \in 1..call.sent : /\ wire.data = Positions(call.sent - n, n)
                                  /\ call.seq = 0 => n = call.sent
    BY DEF ChunkInv, CallInv, SendInv
  <2>2. call.sent - n = 0 /\ n = call.sent
    BY <1>1, <1>2, <1>3, <2>1
  <2>3. wire.data = Positions(0, call.sent)
    BY <2>1, <2>2
  <2>4. call.sent = Limit - FirstHdrSz
    BY <1>2, <1>3 DEF ChunkInv, CallInv, SendInv
  <2> QED
    BY <1>3, <2>3, <2>4
<1>4. CASE wire.seq # 0
  <2>1. call.seq > 0 /\ wire.seq + 1 # 1
    BY <1>1, <1>2, <1>4
  <2>2. peer.got \o wire.data = Positions(0, call.sent)
    BY <1>2, <1>4, <2>1 DEF ChunkInv, CollectInv
  <2> QED
    BY <1>4, <2>1, <2>2
<1> QED
  BY <1>3, <1>4

\* A chunk of a request is well typed.
LEMMA SendData ==
  ASSUME ChunkInv, call.pc = "SEND"
  PROVE  /\ wire.data \in Seq(Nat) /\ wire.h \in Nat /\ wire.seq \in Nat
         /\ wire.seq = call.seq /\ wire.h = call.handle
<1>1. /\ call.seq \in Nat /\ call.sent \in Nat /\ call.handle \in Nat
  BY CallFields DEF ChunkInv, TypeInv
<1>2. wire.seq = call.seq /\ wire.h = call.handle
  BY DEF ChunkInv, CallInv, SendInv
<1>3. PICK n \in 1..call.sent : wire.data = Positions(call.sent - n, n)
  BY DEF ChunkInv, CallInv, SendInv
<1>4. call.sent - n \in Nat /\ n \in Nat
  BY <1>1
<1>5. wire.data \in Seq(Nat)
  BY <1>3, <1>4, PositionsType
<1> QED
  BY <1>1, <1>2, <1>5

\* The answer to a chunk of a request.
LEMMA PeerCollectKeeps ==
  ASSUME ChunkInv, wire # Nothing, PeerCollect
  PROVE  ChunkInv'
<1> DEFINE fresh == wire.seq = 0
           got == IF fresh THEN wire.data ELSE peer.got \o wire.data
           p == [peer EXCEPT !.rh = wire.h, !.rseq = wire.seq + 1, !.got = got]
           pt == [p EXCEPT !.took = got]
           Last(b) == Ack(wire.h, wire.seq, FALSE, b)
           id == Len(pt.lens) + 1
           sh == (pt.sh + 1) % HandleMod
<1>1. call.pc = "SEND" /\ peer \in PeerType
  BY WireTells DEF PeerCollect, ChunkInv, TypeInv
<1>2. /\ wire.data \in Seq(Nat) /\ wire.h \in Nat /\ wire.seq \in Nat
      /\ wire.seq = call.seq /\ wire.h = call.handle
  BY <1>1, SendData
<1>3. peer.got \in Seq(Nat)
  BY <1>1, PeerFields
<1>4. got \in Seq(Nat)
  <2>1. peer.got \o wire.data \in Seq(Nat)
    BY <1>2, <1>3, ConcatProperties
  <2> QED
    BY <1>2, <2>1, Zenon
<1> HIDE DEF got
<1>5. /\ p \in PeerType /\ p.rh = wire.h /\ p.rseq = wire.seq + 1
      /\ p.got = got /\ p.lens = peer.lens /\ p.honest = peer.honest
      /\ p.cur = peer.cur /\ p.sseq = peer.sseq
  <2>1. wire.seq + 1 \in Nat
    BY <1>2
  <2> QED
    BY <1>1, <1>2, <1>4, <2>1 DEF PeerType
<1>6. /\ pt \in PeerType /\ pt.rh = wire.h /\ pt.rseq = wire.seq + 1
      /\ pt.got = got /\ pt.took = got /\ pt.lens = peer.lens
      /\ pt.honest = peer.honest
  <2> HIDE DEF p
  <2> QED
    BY <1>4, <1>5 DEF PeerType
<1> HIDE DEF p, pt
<1>7. MsgOK(Error) /\ Error # Nothing /\ Error.k = "ERROR"
  BY DEF MsgOK, BodyOK, Error, Nothing
<1>8. CASE Reply(Error) /\ UNCHANGED peer
  BY <1>7, <1>8, ErrorKeeps
<1>9. CASE Reply(Ack(wire.h, wire.seq, TRUE, Error)) /\ UNCHANGED peer
  <2>1. /\ MsgOK(Ack(wire.h, wire.seq, TRUE, Error))
        /\ Ack(wire.h, wire.seq, TRUE, Error) # Nothing
        /\ Ack(wire.h, wire.seq, TRUE, Error).k = "ACK"
        /\ Ack(wire.h, wire.seq, TRUE, Error).early
    BY DEF MsgOK, BodyOK, Error, Ack, Nothing
  <2> QED
    BY <1>9, <2>1, ErrorKeeps
\* The chunk is taken: peer' has collected it, and r is the answer.
<1>10. ASSUME NEW r, Reply(r), MsgOK(r), r.k \in {"ACK", "LARGE"},
              fresh \/ (wire.h = peer.rh /\ wire.seq = peer.rseq),
              peer' \in PeerType, ServeInv', ResponseWhole',
              peer'.honest = peer.honest, peer'.rh = wire.h,
              peer'.rseq = wire.seq + 1, peer'.got = got,
              wire.last => peer'.took = got
       PROVE  ChunkInv'
  <2>1. /\ inbox = Nothing /\ inbox' = r /\ UNCHANGED <<call, wire, prev>>
    BY <1>10 DEF Reply
  <2>2. FetchInv'
    BY <1>1, <2>1 DEF FetchInv
  <2>3. ASSUME peer.honest
        PROVE  /\ got = Positions(0, call.sent)
               /\ wire.seq + 1 = 1 => got = Positions(0, Limit - FirstHdrSz)
    BY <1>1, <1>10, <2>1, <2>3, Collected DEF got
  <2>4. r # Nothing
    BY <1>10 DEF Nothing
  <2>5. CollectInv'
    BY <1>1, <1>2, <1>10, <2>1, <2>3, <2>4 DEF ChunkInv, CollectInv, Limit
  <2> QED
    BY <1>10, <2>2, <2>5, ReplyKeeps
<1>11. CASE /\ fresh \/ (wire.h = peer.rh /\ wire.seq = peer.rseq)
            /\ ~wire.last
            /\ Reply(Ack(wire.h, wire.seq, FALSE, Nothing))
            /\ peer' = p
  <2>1. /\ MsgOK(Ack(wire.h, wire.seq, FALSE, Nothing))
        /\ Ack(wire.h, wire.seq, FALSE, Nothing).k = "ACK"
    BY DEF MsgOK, BodyOK, Ack, Nothing
  <2>2. UNCHANGED result
    BY <1>11 DEF Reply
  <2>3. ServeInv' /\ ResponseWhole'
    BY <1>5, <1>11, <2>2 DEF ChunkInv, ServeInv, Served, ResponseWhole
  <2> QED
    BY <1>5, <1>10, <1>11, <2>1, <2>3
<1>12. CASE /\ fresh \/ (wire.h = peer.rh /\ wire.seq = peer.rseq)
            /\ wire.last /\ Respond(pt, Last)
  <2>1. PICK n \in RspSizes :
          LET q == [pt EXCEPT !.lens = Append(pt.lens, n), !.cur = 0,
                              !.sseq = 0]
          IN  \/ /\ Reply(Ack(wire.h, wire.seq, FALSE,
                              Rsp(Positions(id * Base, n))))
                 /\ peer' = [q EXCEPT !.cur = n]
              \/ /\ peer' = [q EXCEPT !.sh = sh]
                 /\ Reply(Large(sh))
    BY <1>12 DEF Respond
  <2>2. n \in Nat /\ pt.sh \in Nat
    BY <1>6, ChunkAssumption, PeerFields
  <2>3. /\ BodyOK(Rsp(Positions(id * Base, n))) /\ BodyOK(Large(sh))
        /\ sh \in Nat
    BY <1>6, <2>2, ResponseType
  <2> HIDE DEF id, sh
  <2> DEFINE a == Ack(wire.h, wire.seq, FALSE, Rsp(Positions(id * Base, n)))
  <2>4. /\ MsgOK(a) /\ a.k = "ACK"
        /\ MsgOK(Large(sh)) /\ Large(sh).k = "LARGE"
    <3>1. a.k = "ACK" /\ a.body = Rsp(Positions(id * Base, n))
      BY DEF Ack
    <3>2. Large(sh).k = "LARGE"
      BY DEF Large
    <3> HIDE DEF a
    <3> QED
      BY <2>3, <3>1, <3>2 DEF MsgOK, BodyOK
  <2>5. ASSUME NEW r, Reply(r), MsgOK(r), r.k \in {"ACK", "LARGE"},
               NEW cur \in {0, n}, NEW h \in Nat,
               peer' = [pt EXCEPT !.lens = Append(pt.lens, n), !.cur = cur,
                                  !.sseq = 0, !.sh = h]
        PROVE  ChunkInv'
    <3>1. UNCHANGED result
      BY <2>5 DEF Reply
    <3>2. /\ peer' \in PeerType /\ ServeInv' /\ ResponseWhole'
          /\ peer'.honest = peer.honest
          /\ peer'.rh = pt.rh /\ peer'.rseq = pt.rseq
          /\ peer'.got = pt.got /\ peer'.took = pt.took
      BY <1>6, <2>5, <3>1, NewResponse
    <3> QED
      BY <1>6, <1>10, <1>12, <2>5, <3>2
  <2>6. CASE /\ Reply(a)
             /\ peer' = [[pt EXCEPT !.lens = Append(pt.lens, n), !.cur = 0,
                                    !.sseq = 0] EXCEPT !.cur = n]
    <3>1. peer' = [pt EXCEPT !.lens = Append(pt.lens, n), !.cur = n,
                             !.sseq = 0, !.sh = pt.sh]
      BY <1>6, <2>6, NewPeers
    <3> HIDE DEF a
    <3> QED
      BY <2>2, <2>4, <2>5, <2>6, <3>1
  <2>7. CASE /\ Reply(Large(sh))
             /\ peer' = [[pt EXCEPT !.lens = Append(pt.lens, n), !.cur = 0,
                                    !.sseq = 0] EXCEPT !.sh = sh]
    <3>1. peer' = [pt EXCEPT !.lens = Append(pt.lens, n), !.cur = 0,
                             !.sseq = 0, !.sh = sh]
      BY <1>6, <2>7, NewPeers
    <3> QED
      BY <2>3, <2>4, <2>5, <2>7, <3>1
  <2> QED
    BY <2>1, <2>6, <2>7, Zenon
<1> QED
  BY <1>8, <1>9, <1>11, <1>12 DEF PeerCollect, p, pt, got

\* The responder with one more chunk served.
LEMMA ServingPeer ==
  ASSUME NEW q \in PeerType, NEW s \in Nat
  PROVE  LET p == [q EXCEPT !.cur = q.cur + s, !.sseq = q.sseq + 1]
         IN  /\ p \in PeerType /\ p.cur = q.cur + s /\ p.sseq = q.sseq + 1
             /\ p.sseq # 0
             /\ p.lens = q.lens /\ p.honest = q.honest
             /\ p.rh = q.rh /\ p.rseq = q.rseq /\ p.got = q.got
             /\ p.took = q.took
<1>1. q.cur \in Nat /\ q.sseq \in Nat
  BY PeerFields
<1>2. q.cur + s \in Nat /\ q.sseq + 1 \in Nat /\ q.sseq + 1 # 0
  BY <1>1
<1> QED
  BY <1>2 DEF PeerType

\* The answer to CHUNK_GET.
LEMMA PeerServeKeeps ==
  ASSUME ChunkInv, wire # Nothing, PeerServe
  PROVE  ChunkInv'
<1> DEFINE n == Served
           left == n - peer.cur
           room == MyTransfer - (IF peer.sseq = 0 THEN FirstHdrSz ELSE HdrSz)
           from == Len(peer.lens) * Base
           msg(s) == ChunkRsp(wire.h, wire.seq, s, Positions(from + peer.cur, s),
                              s = left, n)
<1>1. call.pc = "GET" /\ peer \in PeerType /\ call \in CallType
  BY WireTells DEF PeerServe, ChunkInv, TypeInv
<1>2. wire.seq = call.seq /\ wire.h = call.handle
  BY <1>1 DEF ChunkInv, CallInv, GetInv
<1>3. CASE Reply(Error) /\ UNCHANGED peer
  <2>1. MsgOK(Error) /\ Error # Nothing /\ Error.k = "ERROR"
    BY DEF MsgOK, BodyOK, Error, Nothing
  <2> QED
    BY <1>3, <2>1, ErrorKeeps
<1>4. ASSUME peer.lens # <<>>, left > 0, wire.h = peer.sh,
             wire.seq = peer.sseq, NEW s \in 1..Smaller(left, room),
             Reply(msg(s)),
             peer' = [peer EXCEPT !.cur = peer.cur + s,
                                  !.sseq = peer.sseq + 1]
      PROVE  ChunkInv'
  <2>1. /\ peer.lens \in Seq(Nat) /\ peer.cur \in Nat /\ peer.sseq \in Nat
        /\ call.seq \in Nat
    BY <1>1, PeerFields, CallFields
  <2>2. Len(peer.lens) \in Nat /\ n \in Nat /\ from \in Nat
    <3>1. Len(peer.lens) \in 1..Len(peer.lens)
      BY <1>4, <2>1, EmptySeq
    <3>2. n \in Nat
      BY <2>1, <3>1, ElementOfSeq DEF Served
    <3> QED
      BY <2>1, <3>2, LenProperties DEF Base
  <2>3. room \in Nat
    <3>1. CASE peer.sseq = 0
      BY <3>1, ChunkAssumption
    <3>2. CASE peer.sseq # 0
      BY <3>2, ChunkAssumption
    <3> QED
      BY <3>1, <3>2
  <2> HIDE DEF n, from, room
  <2>4. s \in Nat /\ s <= left
    BY <1>4, <2>1, <2>2, <2>3 DEF Smaller
  <2>5. peer.cur < n /\ peer.cur + s <= n /\ (s = left <=> peer.cur + s = n)
    BY <1>4, <2>1, <2>2, <2>4
  <2>6. /\ peer' \in PeerType /\ peer'.cur = peer.cur + s
        /\ peer'.sseq = peer.sseq + 1 /\ peer'.sseq # 0
        /\ peer'.lens = peer.lens /\ peer'.honest = peer.honest
        /\ peer'.rseq = peer.rseq /\ peer'.got = peer.got
    BY <1>1, <1>4, <2>4, ServingPeer
  <2>7. /\ inbox = Nothing /\ inbox' = msg(s)
        /\ UNCHANGED <<call, wire, prev, result>>
    BY <1>4 DEF Reply
  <2>8. Served' = n
    BY <2>6 DEF Served, n
  <2>9. from + peer.cur \in Nat
    BY <2>1, <2>2
  <2>10. /\ msg(s).k = "CHUNK" /\ msg(s).seq = wire.seq
         /\ msg(s).data = Positions(from + peer.cur, s)
         /\ msg(s).last = (s = left) /\ msg(s).total = n
    BY DEF ChunkRsp
  <2> HIDE DEF msg
  <2>11. MsgOK(msg(s))
    <3>1. Positions(from + peer.cur, s) \in Seq(Nat)
      BY <2>4, <2>9, PositionsType
    <3> QED
      BY <2>2, <2>10, <3>1 DEF MsgOK, BodyOK
  <2>12. ServeInv'
    BY <2>5, <2>6, <2>8 DEF ServeInv
  <2>13. ResponseWhole'
    BY <2>6, <2>7 DEF ChunkInv, ResponseWhole
  <2>14. CollectInv'
    BY <1>1, <2>6, <2>7 DEF ChunkInv, CollectInv, Limit
  <2>15. ASSUME peer.honest
         PROVE  /\ call.rsp \o msg(s).data = Positions(from, peer.cur + s)
                /\ call.seq > 0 => call.total = n
    <3>1. /\ call.rsp = Positions(from, peer.cur)
          /\ call.seq > 0 => call.total = n
      BY <1>1, <1>2, <1>4, <2>5, <2>7, <2>15 DEF ChunkInv, FetchInv, n, from
    <3>2. Positions(from, peer.cur) \o Positions(from + peer.cur, s)
            = Positions(from, peer.cur + s)
      BY <2>1, <2>2, <2>4, PositionsJoin
    <3>3. msg(s).data = Positions(from + peer.cur, s)
      BY <2>10
    <3> QED
      BY <3>1, <3>2, <3>3, Zenon
  <2>16. inbox' # Nothing
    BY <2>7, <2>10 DEF Nothing
  <2>17. from' = from
    BY <2>6 DEF from
  <2>18. msg(s).last = (peer'.cur = Served')
    BY <2>5, <2>6, <2>8, <2>10
  <2>19. FetchInv'
    <3>1. SUFFICES ASSUME peer.honest PROVE FetchInv'
      BY <2>6 DEF FetchInv
    <3>2. ~(prev.k = "CHUNK" /\ prev.seq = call.seq)
      BY <1>1, <3>1 DEF ChunkInv, FetchInv
    <3>3. /\ inbox'.total = Served' /\ inbox'.last = (peer'.cur = Served')
          /\ peer'.sseq = call'.seq + 1 /\ peer'.lens # <<>>
          /\ call'.seq > 0 => call'.total = Served'
      BY <1>2, <1>4, <2>6, <2>7, <2>8, <2>10, <2>15, <2>18, <3>1
    <3>4. call'.rsp \o inbox'.data = Positions(Len(peer'.lens) * Base, peer'.cur)
      BY <2>6, <2>7, <2>15, <3>1 DEF from
    <3> QED
      BY <2>7, <2>16, <3>2, <3>3, <3>4 DEF FetchInv
  <2> QED
    BY <1>4, <2>6, <2>11, <2>12, <2>13, <2>14, <2>19, ReplyKeeps
<1> HIDE DEF n, left, room, msg
<1> QED
  BY <1>3, <1>4 DEF PeerServe, n, left, room, msg, Served

\* The transport fails, or repeats the reply before.
LEMMA TransportKeeps ==
  ASSUME ChunkInv, Transport
  PROVE  ChunkInv'
<1>1. CASE Reply(IoError) /\ UNCHANGED peer
  <2>1. IoError # Nothing /\ IoError.k = "IO"
    BY DEF IoError, Nothing
  <2> QED
    BY <1>1, <2>1, NothingOK, ErrorKeeps
<1>2. CASE /\ inbox # Nothing /\ inbox' \in {IoError, prev} /\ inbox' # Nothing
           /\ UNCHANGED <<neg, chunkHandle, call, wire, prev, result, peer>>
  <2>1. /\ UNCHANGED <<wide, chunkOn, chunkHandle, call, wire, prev, result,
                       peer>>
    BY <1>2 DEF neg
  <2>2. call.pc # "IDLE"
    BY <1>2 DEF ChunkInv, CallInv, RestInv
  <2>3. IoError.k = "IO"
    BY DEF IoError
  <2>4. TypeInv'
    BY <1>2, <2>1, NothingOK DEF ChunkInv, TypeInv
  <2>5. SendInv'
    BY <2>1 DEF ChunkInv, CallInv, SendInv, Limit
  <2>6. GetInv'
    BY <2>1 DEF ChunkInv, CallInv, GetInv, Limit, GetCap
  <2>7. RestInv'
    BY <2>1, <2>2 DEF ChunkInv, CallInv, RestInv, SeqOk, OneMessage, Limit
  <2>8. ResultOK' /\ ServeInv' /\ ResponseWhole'
    BY <2>1 DEF ChunkInv, ResultOK, ServeInv, Served, ResponseWhole
  <2>9. FetchInv'
    BY <1>2, <2>1, <2>3 DEF ChunkInv, FetchInv, Served
  <2>10. CollectInv'
    BY <1>2, <2>1, <2>3 DEF ChunkInv, CollectInv, Limit
  <2> QED
    BY <2>4, <2>5, <2>6, <2>7, <2>8, <2>9, <2>10 DEF ChunkInv, CallInv
<1> QED
  BY <1>1, <1>2 DEF Transport

\* Anything the responder may say is well typed.
LEMMA WildType ==
  ASSUME NEW r \in Wild
  PROVE  MsgOK(r)
<1>1. CASE r \in {Error, Large(0)}
  BY <1>1 DEF MsgOK, BodyOK, Error, Large
<1>2. ASSUME NEW e \in BOOLEAN,
             NEW b \in {Nothing, Error, Large(0), Rsp(<< 0 >>)},
             r = Ack(call.handle, WireSeq(call.seq), e, b)
      PROVE  MsgOK(r)
  <2>1. << 0 >> \in Seq(Nat)
    OBVIOUS
  <2>2. BodyOK(b)
    <3>1. BodyOK(Rsp(<< 0 >>))
      BY <2>1 DEF BodyOK, Rsp
    <3>2. BodyOK(Nothing) /\ BodyOK(Error) /\ BodyOK(Large(0))
      BY DEF BodyOK, Nothing, Error, Large
    <3> QED
      BY <3>1, <3>2, Zenon
  <2>3. r.k = "ACK" /\ r.body = b
    BY <1>2 DEF Ack
  <2> QED
    BY <2>2, <2>3 DEF MsgOK, BodyOK
<1>3. ASSUME NEW x \in Nat, NEW y \in Nat, NEW last, NEW total \in Nat,
             r = ChunkRsp(call.handle, WireSeq(call.seq), x, Zeros(y), last,
                          total)
      PROVE  MsgOK(r)
  <2>1. Zeros(y) \in Seq(Nat)
    <3>1. Zeros(y) \in [1..y -> Nat]
      BY DEF Zeros
    <3> QED
      BY <3>1
  <2>2. r.k = "CHUNK" /\ r.data = Zeros(y) /\ r.total = total
    BY <1>3 DEF ChunkRsp
  <2> QED
    BY <2>1, <2>2 DEF MsgOK, BodyOK
<1>4. CASE r \in {Ack(call.handle, WireSeq(call.seq), e, b) :
                    e \in BOOLEAN,
                    b \in {Nothing, Error, Large(0), Rsp(<< 0 >>)}}
  BY <1>2, <1>4
<1>5. CASE r \in {ChunkRsp(call.handle, WireSeq(call.seq), c[1], Zeros(c[2]),
                           last, total) :
                    c \in {<<0, 0>>, <<1, 1>>, <<2, 2>>, <<2, 1>>},
                    last \in BOOLEAN, total \in {0, 3, MaxMsg + 1}}
  <2>1. PICK c \in {<<0, 0>>, <<1, 1>>, <<2, 2>>, <<2, 1>>}, last \in BOOLEAN,
             total \in {0, 3, MaxMsg + 1} :
          r = ChunkRsp(call.handle, WireSeq(call.seq), c[1], Zeros(c[2]), last,
                       total)
    BY <1>5
  <2>2. c[1] \in Nat /\ c[2] \in Nat
    BY <2>1
  <2>3. total \in Nat
    BY LimitFacts
  <2> QED
    BY <1>3, <2>1, <2>2, <2>3
<1> QED
  BY <1>1, <1>4, <1>5 DEF Wild

\* From then on the properties ask nothing of it.
LEMMA MisbehavesKeeps ==
  ASSUME ChunkInv, PeerMisbehaves
  PROVE  ChunkInv'
<1>1. PICK r \in Wild : Reply(r)
  BY DEF PeerMisbehaves
<1>2. /\ peer' \in PeerType /\ peer'.honest = FALSE /\ peer'.lens = <<>>
  <2>1. peer' = [honest |-> FALSE, rh |-> 0, rseq |-> 0, got |-> <<>>,
                 took |-> <<>>, lens |-> <<>>, cur |-> 0, sh |-> 0, sseq |-> 0]
    BY DEF PeerMisbehaves, NewPeer
  <2>2. <<>> \in Seq(Nat)
    BY EmptySeq
  <2> QED
    BY <2>1, <2>2 DEF PeerType
<1>3. ServeInv' /\ FetchInv' /\ CollectInv' /\ ResponseWhole'
  BY <1>2 DEF ServeInv, FetchInv, CollectInv, ResponseWhole
<1> QED
  BY <1>1, <1>2, <1>3, WildType, ReplyKeeps

-----------------------------------------------------------------------------
(* The theorems *)

\* The initial state satisfies the invariant.
LEMMA ChunkInit == Init => ChunkInv
<1> SUFFICES ASSUME Init PROVE ChunkInv
  OBVIOUS
<1>1. /\ wide \in BOOLEAN /\ chunkOn \in BOOLEAN /\ chunkHandle = 0
      /\ call = IdleCall /\ wire = Nothing /\ inbox = Nothing /\ prev = Nothing
      /\ result.rc = "NONE" /\ peer = NewPeer
  BY DEF Init
<1>2. /\ peer \in PeerType /\ peer.lens = <<>> /\ peer.rseq = 0
  <2>1. <<>> \in Seq(Nat)
    BY EmptySeq
  <2> QED
    BY <1>1, <2>1 DEF NewPeer, PeerType
<1>3. call.pc = "IDLE" /\ call.rsp = <<>> /\ call.seq = 0
  BY <1>1 DEF IdleCall
<1>4. chunkHandle \in 0..(HandleMod - 1)
  BY <1>1, ChunkAssumption
<1>5. TypeInv
  BY <1>1, <1>2, <1>4, IdleType, NothingOK DEF TypeInv
<1>6. SeqOk(call.seq)
  BY <1>3, LimitFacts DEF SeqOk
<1>7. CallInv
  BY <1>1, <1>3, <1>6, Zenon DEF CallInv, SendInv, GetInv, RestInv
<1>8. ResultOK /\ ServeInv /\ FetchInv /\ CollectInv /\ ResponseWhole
  BY <1>1, <1>2, <1>3 DEF ResultOK, ServeInv, FetchInv, CollectInv, ResponseWhole
<1> QED
  BY <1>5, <1>7, <1>8 DEF ChunkInv

\* ChunkInv is inductive, so it holds in every reachable state.
THEOREM ChunkInvariant == Spec => []ChunkInv
<1>1. ChunkInv /\ [Next]_vars => ChunkInv'
  <2> SUFFICES ASSUME ChunkInv, [Next]_vars PROVE ChunkInv'
    OBVIOUS
  <2>1. CASE Next
    BY <2>1, ExchangeKeeps, ReceiveKeeps, PeerPlainKeeps, PeerCollectKeeps,
       PeerServeKeeps, TransportKeeps, MisbehavesKeeps DEF Next, Answer
  <2>2. CASE UNCHANGED vars
    <3>1. UNCHANGED <<wide, chunkOn, chunkHandle, call, wire, inbox, prev,
                      result, peer>>
      BY <2>2 DEF vars, neg
    <3>2. TypeInv' /\ ResultOK' /\ ServeInv' /\ ResponseWhole'
      BY <3>1 DEF ChunkInv, TypeInv, ResultOK, ServeInv, Served, ResponseWhole
    <3>3. SendInv'
      BY <3>1 DEF ChunkInv, CallInv, SendInv, Limit
    <3>4. GetInv'
      BY <3>1 DEF ChunkInv, CallInv, GetInv, Limit, GetCap
    <3>5. RestInv'
      BY <3>1 DEF ChunkInv, CallInv, RestInv, SeqOk, OneMessage, Limit
    <3>6. FetchInv'
      BY <3>1 DEF ChunkInv, FetchInv, Served
    <3>7. CollectInv'
      BY <3>1 DEF ChunkInv, CollectInv, Limit
    <3> QED
      BY <3>2, <3>3, <3>4, <3>5, <3>6, <3>7 DEF ChunkInv, CallInv
  <2> QED
    BY <2>1, <2>2
<1> QED
  BY <1>1, ChunkInit, PTL DEF Spec

\* The state has its type, and a response in progress lies in the caller's
\* buffer, whatever the responder claims.
THEOREM ChunkTypeCorrect == Spec => []ChunkTypeOK
<1>1. ChunkInv => ChunkTypeOK
  <2> SUFFICES ASSUME ChunkInv PROVE ChunkTypeOK
    OBVIOUS
  <2>1. /\ call \in CallType /\ chunkHandle \in 0..(HandleMod - 1)
        /\ SendInv /\ GetInv /\ RestInv
    BY DEF ChunkInv, TypeInv, CallInv
  <2>2. /\ call.pc \in {"IDLE", "PLAIN", "SEND", "GET"}
        /\ call.sent \in Nat /\ call.reqSz \in Nat /\ call.seq \in Nat
        /\ call.cap \in Nat /\ call.total \in Nat /\ call.rsp \in Seq(Nat)
    BY <2>1, CallFields
  <2>3. Len(call.rsp) \in Nat /\ Len(<<>>) = 0
    BY <2>2, LenProperties
  <2>4. /\ GetCap(call) \in Nat /\ GetCap(call) <= MaxMsg
        /\ GetCap(call) = Smaller(call.cap, MaxMsg)
    BY <2>2, LimitFacts DEF GetCap, Smaller
  <2>5. CASE call.pc = "IDLE"
    BY <2>1, <2>4, <2>5, LimitFacts DEF RestInv, IdleCall, ChunkTypeOK
  <2>6. CASE call.pc = "PLAIN"
    BY <2>1, <2>2, <2>3, <2>4, <2>6, LimitFacts DEF RestInv, ChunkTypeOK
  <2>7. CASE call.pc = "SEND"
    <3>1. /\ call.seq < call.sent /\ call.sent <= call.reqSz
          /\ call.reqSz < WordMod
      BY <2>1, <2>7 DEF SendInv
    <3>2. call.rsp = <<>>
      BY <2>1, <2>7 DEF RestInv
    <3>3. call.seq \in 0..(WordMod - 1)
      BY <2>2, <3>1, LimitFacts
    <3>4. Len(call.rsp) <= Smaller(call.cap, MaxMsg)
      BY <2>3, <2>4, <3>2
    <3> QED
      BY <2>1, <2>2, <3>1, <3>3, <3>4 DEF ChunkTypeOK
  <2>8. CASE call.pc = "GET"
    <3>1. /\ call.sent <= call.reqSz /\ call.seq <= Len(call.rsp)
          /\ call.seq = 0 => call.rsp = <<>>
          /\ call.seq > 0 => /\ Len(call.rsp) < call.total
                             /\ call.total <= GetCap(call)
      BY <2>1, <2>8 DEF GetInv
    <3>2. Len(call.rsp) <= GetCap(call)
      BY <2>2, <2>3, <2>4, <3>1
    <3>3. call.seq \in 0..(WordMod - 1)
      BY <2>2, <2>3, <2>4, <3>1, <3>2, LimitFacts
    <3> QED
      BY <2>1, <2>2, <2>4, <3>1, <3>2, <3>3 DEF ChunkTypeOK
  <2> QED
    BY <2>2, <2>5, <2>6, <2>7, <2>8
<1> QED
  BY <1>1, ChunkInvariant, PTL

\* The length an exchange returns counts only bytes that were received, and
\* they lie in the caller's buffer, for any responder.
THEOREM ReturnsOnlyReceived == Spec => []ReturnsWhatArrived
<1>1. ChunkInv => ReturnsWhatArrived
  BY DEF ChunkInv, ResultOK, ReturnsWhatArrived
<1> QED
  BY <1>1, ChunkInvariant, PTL

\* A response put together from chunks is one whole response of a responder
\* that keeps to the protocol, whatever the transport loses or repeats.
THEOREM ResponseIsWhole == Spec => []ResponseWhole
<1>1. ChunkInv => ResponseWhole
  BY DEF ChunkInv
<1> QED
  BY <1>1, ChunkInvariant, PTL

\* A request such a responder takes as complete is the caller's request.
THEOREM RequestIsWhole == Spec => []RequestWhole
<1>1. ChunkInv => RequestWhole
  <2> SUFFICES ASSUME ChunkInv, wire # Nothing, wire.k = "SEND", wire.last,
                      inbox.k = "ACK", ~inbox.early, peer.honest, inbox # prev
               PROVE  peer.took = Positions(0, call.reqSz)
    BY DEF RequestWhole
  <2>1. call.pc = "SEND"
    BY WireTells
  <2>2. call.sent = call.reqSz
    BY <2>1 DEF ChunkInv, CallInv, SendInv
  <2> QED
    BY <2>1, <2>2 DEF ChunkInv, CollectInv
<1> QED
  BY <1>1, ChunkInvariant, PTL

\* No message exceeds what both sides can take, and ChunkSeqNo never wraps.
THEOREM AlwaysFitsTheWire == Spec => []FitsTheWire
<1>1. ChunkInv => FitsTheWire
  <2> SUFFICES ASSUME ChunkInv, wire # Nothing
               PROVE  /\ wire.sz <= PeerTransfer
                      /\ chunkOn => wire.sz <= MyTransfer
                      /\ wire.k \in {"SEND", "GET"} => wire.seq = call.seq
    BY DEF FitsTheWire
  <2>1. /\ call \in CallType /\ SendInv /\ GetInv /\ RestInv
    BY DEF ChunkInv, TypeInv, CallInv
  <2>2. CASE call.pc = "PLAIN"
    <3>1. wire.sz = call.reqSz /\ wire.k = "REQ" /\ call.reqSz <= OneMessage
      BY <2>1, <2>2 DEF RestInv
    <3>2. call.reqSz \in Nat
      BY <2>1, CallFields
    <3> QED
      BY <3>1, <3>2, LimitFacts DEF OneMessage
  <2>3. CASE call.pc \in {"SEND", "GET"}
    <3>1. wire.sz \in 0..Limit /\ wire.seq = call.seq
      BY <2>1, <2>3 DEF SendInv, GetInv
    <3> QED
      BY <3>1, LimitFacts
  <2>4. call.pc # "IDLE"
    BY <2>1 DEF RestInv
  <2> QED
    BY <2>1, <2>2, <2>3, <2>4, CallFields
<1> QED
  BY <1>1, ChunkInvariant, PTL

-----------------------------------------------------------------------------
(* Every exchange makes progress *)

\* An exchange returns, turns from sending to fetching, has sent more of its
\* request or has more of its response.
Advances ==
  \/ call'.pc = "IDLE"
  \/ call.pc \in {"PLAIN", "SEND"} /\ call'.pc = "GET"
  \/ /\ call.pc = "SEND" /\ call'.pc = "SEND" /\ call'.reqSz = call.reqSz
     /\ call.sent < call'.sent /\ call'.sent <= call.reqSz
  \/ /\ call.pc = "GET" /\ call'.pc = "GET"
     /\ Len(call.rsp) < Len(call'.rsp) /\ Len(call'.rsp) <= MaxMsg

\* The response of a plain exchange or of the last acknowledgement.
LEMMA TakeResponseAdvances ==
  ASSUME ChunkInv, call.pc \in {"PLAIN", "SEND"}, NEW b,
         TakeResponse(b) \/ StartGet(b.h)
  PROVE  Advances
<1>1. CASE StartGet(b.h)
  <2>1. call \in CallType
    BY DEF ChunkInv, TypeInv
  <2>2. call' = [call EXCEPT !.pc = "GET", !.handle = b.h, !.seq = 0, !.total = 0]
    BY <1>1 DEF StartGet, Wait
  <2>3. call'.pc = "GET"
    BY <2>1, <2>2 DEF CallType
  <2> QED
    BY <2>3 DEF Advances
<1>2. CASE call' = IdleCall
  BY <1>2 DEF IdleCall, Advances
<1> QED
  BY <1>1, <1>2 DEF TakeResponse, Return, Refuse

\* The next chunk of a request.
LEMMA SendAdvances ==
  ASSUME ChunkInv, SendReturn(inbox)
  PROVE  Advances
<1> DEFINE next == [call EXCEPT !.seq = NextSeq(call.seq)]
<1>1. call.pc = "SEND" /\ call \in CallType
  BY DEF SendReturn, ChunkInv, TypeInv
<1>2. CASE call' = IdleCall
  BY <1>2 DEF IdleCall, Advances
<1>3. CASE StartGet(inbox.h) \/ TakeResponse(inbox.body)
  BY <1>1, <1>3, TakeResponseAdvances
<1>4. CASE call.sent # call.reqSz /\ Wait(SendChunk(next), ChunkSendMsg(next))
  <2>1. call.sent \in Nat /\ call.reqSz \in Nat /\ call.seq \in Nat
    BY <1>1, CallFields
  <2>2. call.sent < call.reqSz /\ call.seq < call.sent /\ call.reqSz < WordMod
    BY <1>1, <1>4, <2>1 DEF ChunkInv, CallInv, SendInv
  <2>3. NextSeq(call.seq) = call.seq + 1
    BY <2>1, <2>2, NextSeqSame, LimitFacts
  <2>4. /\ next \in CallType /\ next.sent = call.sent /\ next.reqSz = call.reqSz
        /\ next.pc = "SEND"
    BY <1>1, <2>1, <2>3 DEF CallType
  <2>5. call' = [next EXCEPT !.sent = next.sent + Take(next)]
    BY <1>4 DEF Wait, SendChunk
  <2> HIDE DEF next
  <2>6. /\ Take(next) \in Nat /\ Take(next) >= 1
        /\ next.sent + Take(next) <= next.reqSz
    BY <2>2, <2>4, TakeFacts
  <2>7. /\ call'.pc = "SEND" /\ call'.reqSz = call.reqSz
        /\ call'.sent = call.sent + Take(next)
    BY <2>4, <2>5 DEF CallType
  <2> QED
    BY <1>1, <2>1, <2>4, <2>6, <2>7 DEF Advances
<1> QED
  BY <1>1, <1>2, <1>3, <1>4 DEF SendReturn, Return, Refuse

\* The next chunk of a response.
LEMMA GetAdvances ==
  ASSUME ChunkInv, GetReturn(inbox)
  PROVE  Advances
<1> DEFINE rsp == call.rsp \o inbox.data
           c == [call EXCEPT !.rsp = rsp, !.total = TotalOf(inbox),
                             !.seq = NextSeq(call.seq)]
<1>1. call.pc = "GET" /\ call \in CallType
  BY DEF GetReturn, ChunkInv, TypeInv
<1>2. CASE call' = IdleCall
  BY <1>2 DEF IdleCall, Advances
<1>3. CASE /\ Expected(inbox) /\ TotalOf(inbox) \in 1..GetCap(call)
           /\ ChunkFits(inbox) /\ Completes(inbox, Len(rsp))
           /\ Wait(c, ChunkGetMsg(c))
  <2>1. /\ rsp \in Seq(Nat) /\ Len(rsp) > Len(call.rsp)
        /\ Len(rsp) <= TotalOf(inbox) /\ TotalOf(inbox) \in Nat
        /\ TotalOf(inbox) <= GetCap(call) /\ GetCap(call) <= MaxMsg
        /\ GetCap(call) \in Nat
    BY <1>1, <1>3, ChunkAdds
  <2> HIDE DEF rsp
  <2>2. call' = c
    BY <1>3 DEF Wait
  <2>3. call'.pc = "GET" /\ call'.rsp = rsp
    BY <1>1, <2>2 DEF CallType
  <2>4. Len(rsp) \in Nat /\ Len(call.rsp) \in Nat /\ MaxMsg \in Nat
    BY <1>1, <2>1, CallFields, LenProperties, ChunkAssumption
  <2>5. Len(rsp) <= MaxMsg
    BY <2>1, <2>4
  <2> QED
    BY <1>1, <2>1, <2>3, <2>4, <2>5 DEF Advances
<1> QED
  <2> HIDE DEF c, rsp
  <2> QED
    BY <1>1, <1>2, <1>3 DEF GetReturn, Return, Refuse, c, rsp

\* Each time the I/O callback returns to an exchange, the exchange returns or
\* makes progress towards a bound: the bytes of the request, then those of the
\* buffer for the response.
ReceiveAdvances == [][Receive => Advances]_vars

\* wolfSPDM_ChunkExchange makes progress with every message it receives,
\* whatever the responder answers: it sends at most as many chunks as the
\* request has bytes and asks for at most as many as MaxSPDMmsgSize has.
THEOREM ExchangeAdvances == Spec => ReceiveAdvances
<1>1. ChunkInv /\ [Next]_vars => [Receive => Advances]_vars
  <2> SUFFICES ASSUME ChunkInv, Receive PROVE Advances
    OBVIOUS
  <2>1. CASE PlainReturn(inbox)
    <3>1. call.pc = "PLAIN"
      BY <2>1 DEF PlainReturn
    <3>2. CASE Refuse("IO")
      BY <3>2 DEF Refuse, Return, IdleCall, Advances
    <3>3. CASE TakeResponse(inbox)
      BY <3>1, <3>3, TakeResponseAdvances
    <3> QED
      BY <2>1, <3>2, <3>3 DEF PlainReturn
  <2>2. CASE SendReturn(inbox)
    BY <2>2, SendAdvances
  <2>3. CASE GetReturn(inbox)
    BY <2>3, GetAdvances
  <2> QED
    BY <2>1, <2>2, <2>3 DEF Receive
<1> QED
  BY <1>1, ChunkInvariant, PTL DEF Spec, ReceiveAdvances

=============================================================================
