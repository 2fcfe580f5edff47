---------------------------- MODULE StandardProofs ----------------------------
(***************************************************************************)
(* The standard requester, for every responder and application: what it    *)
(* negotiates, fetches, validates and hashes.                              *)
(*                                                                         *)
(* The inductive invariant IInv types the context, the responder and the   *)
(* replies under way, and relates the key to the pin, the chain to the     *)
(* slot it is fetched from, the transcript to the responder's, and the     *)
(* replies to the key exchanges they belong to.                            *)
(***************************************************************************)
EXTENDS Standard, NegotiateProofs

(* Types *)

States == {"INIT", "VERSION", "CERT", "KEY_EX", "FINISH", "CONNECTED", "ERROR"}
PCs == {"IDLE", "GET_VERSION", "GET_CAPABILITIES", "NEGOTIATE_ALGORITHMS",
        "GET_DIGESTS", "GET_CERTIFICATE", "VALIDATE", "KEY_EXCHANGE", "FINISH"}

\* The messages of a transcript.
Algs == {"SECP384R1", "P384"} \union MLKEM_SETS \union MLDSA_SETS
Offers == [dhe : SUBSET Algs, kem : SUBSET Algs, asym : SUBSET Algs]
Msgs ==
  [t : {"GET_VERSION", "SIGNATURE", "FINISH", "FINISH_RSP"}]
    \union VersionMsgs \union CapabilitiesMsgs \union AlgorithmsMsgs
    \union [t : {"GET_CAPABILITIES"}, version : Nat]
    \union [t : {"NEGOTIATE_ALGORITHMS"}, offer : Offers]
    \union [t : {"Ct"}, chain : Seq(Cells)]
    \union [t : {"KEY_EXCHANGE", "KEY_EXCHANGE_RSP"}, n : Nat]

\* The replies of a responder.
DigestsMsgs == [t : {"DIGESTS"}, mask : SUBSET Slots]
CertificateMsgs ==
  [t : {"CERTIFICATE"}, slot : Slots, portion : Seq(Cells), rem : Nat]
KexRspMsgs ==
  [t : {"KEY_EXCHANGE_RSP"}, n : Nat, mut : BOOLEAN, signer : Keys,
   th : Seq(Msgs)]
FinishRspMsgs == [t : {"FINISH_RSP"}, th1 : Seq(Msgs)]
Replies ==
  VersionMsgs \union CapabilitiesMsgs \union AlgorithmsMsgs \union DigestsMsgs
    \union CertificateMsgs \union KexRspMsgs \union FinishRspMsgs

\* At most one algorithm selected.
AtMostOne(S) == {{}} \union {{x} : x \in S}

Versions == MIN_SPDM_VERSION .. MAX_SPDM_VERSION
Dts == {d \in Nat : d = 0 \/ d >= MinDts}
Ctxs ==
  [state : States, version : Versions, maxVersion : {0} \union Versions,
   kexAdvDhe : BOOLEAN, kexAdvKem : SUBSET MLKEM_SETS,
   pqcAsymSel : AtMostOne(MLDSA_SETS), kemAlgSel : AtMostOne(MLKEM_SETS),
   dts : Dts, trans : Seq(Msgs), th1 : Seq(Msgs), slot : Slots,
   slotMask : SUBSET Slots, chain : Seq(Cells),
   trustedCA : Certs \union {NoCert}, allow : BOOLEAN,
   key : Keys \union {None}, fromCert : BOOLEAN]
Fetches == [on : BOOLEAN, offset : Nat, clean : BOOLEAN, round : {0, 1}]
Responders ==
  [world : Worlds, vca : Seq(Msgs), chains : [{1, 2} -> StoredChains],
   sess : Seq(Msgs)]

Typed ==
  /\ ctx \in Ctxs /\ pc \in PCs /\ fetch \in Fetches /\ rs \in Responders
  /\ rsps \in SUBSET Replies /\ kexes \in Nat /\ pin \in Pins \union {None}

-----------------------------------------------------------------------------
(* The inductive invariant *)

\* A pinned key stays, any other is marked as taken from a chain.
KeyOK(c, pinned) ==
  IF pinned # None THEN c.key = pinned /\ ~c.fromCert
  ELSE c.fromCert <=> c.key # None
KeyPart == KeyOK(ctx, pin)

\* The chain fits its buffer.  While it is fetched its length is the offset,
\* and undisturbed it is the beginning of the slot's chain.
FetchPart ==
  /\ Len(ctx.chain) <= MaxChain
  /\ fetch.on =>
       /\ pc \in {"IDLE", "GET_CERTIFICATE"}
       /\ fetch.offset = Len(ctx.chain)
       /\ fetch.clean =>
            /\ fetch.offset = 0 \/ fetch.offset < Len(ChainIn(ctx.slot))
            /\ ctx.chain = SubSeq(ChainIn(ctx.slot), 1, fetch.offset)

\* Connect starts from an empty transcript; after GET_VERSION the version is
\* the best of the VERSION message hashed.
VersionOK(c) ==
  /\ Len(c.trans) >= 2 /\ c.trans[2] \in VersionMsgs
  /\ c.version = Max({0} \union CommonVersions(c, c.trans[2]))
VersionPart ==
  /\ pc = "GET_VERSION" => ctx.trans = <<>>
  /\ pc \notin {"IDLE", "GET_VERSION"} => VersionOK(ctx)

\* The responder's VCA is a beginning of the handshake, its session has
\* hashed a KEY_EXCHANGE of the past.
VcaOK(r) ==
  /\ Len(r.vca) \in {0, 2, 4, 6}
  /\ \A i \in 1 .. Len(r.vca) : r.vca[i].t = TheHandshake[i]
SessOK(r, k) ==
  r.sess # <<>> =>
    Len(r.sess) >= 10 /\ r.sess[8].n \in Nat /\ r.sess[8].n <= k
VcaPart == VcaOK(rs)
SessPart == SessOK(rs, kexes)

\* So have the replies under way.
ReplyOK(r, k) ==
  /\ r.t = "KEY_EXCHANGE_RSP" =>
       Len(r.th) = 9 /\ r.th[8].n \in Nat /\ r.th[8].n <= k
  /\ r.t = "FINISH_RSP" =>
       Len(r.th1) >= 10 /\ r.th1[8].n \in Nat /\ r.th1[8].n <= k
RspsPart == \A r \in rsps : ReplyOK(r, kexes)

\* Before FINISH both sides hold the same transcript and its FINISH_RSP has
\* not been sent.
FinishPart ==
  pc = "FINISH" =>
    /\ Len(rs.vca) = 6 /\ Len(ctx.trans) = 10
    /\ \A i \in 1 .. 6 : ctx.trans[i] = rs.vca[i]
    /\ \A i \in 1 .. 10 : ctx.trans[i].t = TheHandshake[i]
    /\ rs.sess = ctx.trans /\ ctx.th1 = ctx.trans
    /\ \A r \in rsps : r.t = "FINISH_RSP" => r.th1 # ctx.th1

IInv ==
  /\ Typed /\ KeyPart /\ FetchPart /\ VersionPart /\ VcaPart /\ SessPart
  /\ RspsPart /\ FinishPart /\ NoHalfMessage

-----------------------------------------------------------------------------
(* Transcripts *)

\* NoHalfMessage of any transcript.
NoHalf(tr) ==
  \A i \in 1 .. Len(tr) :
    /\ tr[i].t = "GET_VERSION" => i < Len(tr) /\ tr[i + 1].t = "VERSION"
    /\ tr[i].t = "GET_CAPABILITIES" => i < Len(tr) /\ tr[i + 1].t = "CAPABILITIES"
    /\ tr[i].t = "NEGOTIATE_ALGORITHMS" => i < Len(tr) /\ tr[i + 1].t = "ALGORITHMS"

\* The two say the same.
LEMMA NoHalfIs ==
  ASSUME NEW tr \in Seq(Msgs)
  PROVE  NoHalf(tr) <=>
           \A i \in DOMAIN tr :
             \A j \in {1, 3, 5} :
               tr[i].t = TheHandshake[j] =>
                 i < Len(tr) /\ tr[i + 1].t = TheHandshake[j + 1]
<1>1. /\ TheHandshake[1] = "GET_VERSION" /\ TheHandshake[1 + 1] = "VERSION"
      /\ TheHandshake[3] = "GET_CAPABILITIES" /\ TheHandshake[3 + 1] = "CAPABILITIES"
      /\ TheHandshake[5] = "NEGOTIATE_ALGORITHMS" /\ TheHandshake[5 + 1] = "ALGORITHMS"
  BY DEF TheHandshake
<1>2. DOMAIN tr = 1 .. Len(tr)
  OBVIOUS
<1> QED
  BY <1>1, <1>2 DEF NoHalf

\* A single message that is no request of the VCA part.
LEMMA HalfAppend ==
  ASSUME NEW tr \in Seq(Msgs), NoHalf(tr), NEW m \in Msgs,
         m.t \notin {"GET_VERSION", "GET_CAPABILITIES", "NEGOTIATE_ALGORITHMS"}
  PROVE  NoHalf(Append(tr, m)) /\ Append(tr, m) \in Seq(Msgs)
<1> DEFINE tw == Append(tr, m)
<1>1. tw \in Seq(Msgs) /\ Len(tw) = Len(tr) + 1 /\ Len(tr) \in Nat
      /\ tw[Len(tr) + 1] = m /\ \A i \in 1 .. Len(tr) : tw[i] = tr[i]
  OBVIOUS
<1> HIDE DEF tw
<1>2. ASSUME NEW i \in 1 .. Len(tw)
      PROVE  /\ tw[i].t = "GET_VERSION" => i < Len(tw) /\ tw[i + 1].t = "VERSION"
             /\ tw[i].t = "GET_CAPABILITIES" =>
                  i < Len(tw) /\ tw[i + 1].t = "CAPABILITIES"
             /\ tw[i].t = "NEGOTIATE_ALGORITHMS" =>
                  i < Len(tw) /\ tw[i + 1].t = "ALGORITHMS"
  <2>1. CASE i = Len(tr) + 1
    BY <1>1, <2>1
  <2>2. CASE i # Len(tr) + 1
    <3>1. i \in 1 .. Len(tr) /\ tw[i] = tr[i] /\ i < Len(tw)
      BY <1>1, <2>2
    <3>2. i < Len(tr) => tw[i + 1] = tr[i + 1]
      BY <1>1, <3>1
    <3> QED
      BY <3>1, <3>2 DEF NoHalf
  <2> QED
    BY <2>1, <2>2
<1> QED
  BY <1>1, <1>2 DEF NoHalf, tw

\* A request of the VCA part and its response.
Pair(a, b) ==
  \/ a.t = "GET_VERSION" /\ b.t = "VERSION"
  \/ a.t = "GET_CAPABILITIES" /\ b.t = "CAPABILITIES"
  \/ a.t = "NEGOTIATE_ALGORITHMS" /\ b.t = "ALGORITHMS"

\* Both of them are added.
LEMMA HalfPair ==
  ASSUME NEW tr \in Seq(Msgs), NoHalf(tr), NEW a \in Msgs, NEW b \in Msgs, Pair(a, b)
  PROVE  NoHalf(tr \o <<a, b>>) /\ tr \o <<a, b>> \in Seq(Msgs)
<1> DEFINE tw == tr \o <<a, b>>
<1>1. tw \in Seq(Msgs) /\ Len(tw) = Len(tr) + 2 /\ Len(tr) \in Nat
      /\ tw[Len(tr) + 1] = a /\ tw[Len(tr) + 2] = b
      /\ \A i \in 1 .. Len(tr) : tw[i] = tr[i]
  OBVIOUS
<1> HIDE DEF tw
<1>2. ASSUME NEW i \in 1 .. Len(tw)
      PROVE  /\ tw[i].t = "GET_VERSION" => i < Len(tw) /\ tw[i + 1].t = "VERSION"
             /\ tw[i].t = "GET_CAPABILITIES" =>
                  i < Len(tw) /\ tw[i + 1].t = "CAPABILITIES"
             /\ tw[i].t = "NEGOTIATE_ALGORITHMS" =>
                  i < Len(tw) /\ tw[i + 1].t = "ALGORITHMS"
  <2>1. CASE i = Len(tr) + 2
    BY <1>1, <2>1 DEF Pair
  <2>2. CASE i = Len(tr) + 1
    <3>1. i + 1 = Len(tr) + 2 /\ i < Len(tw) /\ tw[i] = a /\ tw[i + 1] = b
      BY <1>1, <2>2
    <3> QED
      BY <3>1 DEF Pair
  <2>3. CASE i # Len(tr) + 1 /\ i # Len(tr) + 2
    <3>1. i \in 1 .. Len(tr) /\ tw[i] = tr[i] /\ i < Len(tw)
      BY <1>1, <2>3
    <3>2. i < Len(tr) => tw[i + 1] = tr[i + 1]
      BY <1>1, <3>1
    <3> QED
      BY <3>1, <3>2 DEF NoHalf
  <2> QED
    BY <2>1, <2>2, <2>3
<1> QED
  BY <1>1, <1>2 DEF NoHalf, tw

\* The messages the requester adds are messages.
LEMMA MsgKinds ==
  /\ VersionMsgs \subseteq Msgs /\ CapabilitiesMsgs \subseteq Msgs
  /\ AlgorithmsMsgs \subseteq Msgs
  /\ GET_VERSION \in Msgs /\ SIGNATURE \in Msgs /\ FINISH \in Msgs
  /\ FINISH_RSP \in Msgs
  /\ \A n \in Nat : [t |-> "KEY_EXCHANGE", n |-> n] \in Msgs
  /\ \A n \in Nat : [t |-> "KEY_EXCHANGE_RSP", n |-> n] \in Msgs
  /\ \A ch \in Seq(Cells) : [t |-> "Ct", chain |-> ch] \in Msgs
<1>1. /\ VersionMsgs \subseteq Msgs /\ CapabilitiesMsgs \subseteq Msgs
      /\ AlgorithmsMsgs \subseteq Msgs
  BY Zenon DEF Msgs
<1>2. GET_VERSION \in Msgs /\ SIGNATURE \in Msgs /\ FINISH \in Msgs
      /\ FINISH_RSP \in Msgs
  <2> DEFINE S == [t : {"GET_VERSION", "SIGNATURE", "FINISH", "FINISH_RSP"}]
  <2>1. GET_VERSION \in S /\ SIGNATURE \in S /\ FINISH \in S /\ FINISH_RSP \in S
    BY DEF GET_VERSION, SIGNATURE, FINISH, FINISH_RSP
  <2> QED
    BY <2>1, Zenon DEF Msgs
<1>3. ASSUME NEW n \in Nat
      PROVE  /\ [t |-> "KEY_EXCHANGE", n |-> n] \in Msgs
             /\ [t |-> "KEY_EXCHANGE_RSP", n |-> n] \in Msgs
  <2> DEFINE S == [t : {"KEY_EXCHANGE", "KEY_EXCHANGE_RSP"}, n : Nat]
  <2>1. [t |-> "KEY_EXCHANGE", n |-> n] \in S /\ [t |-> "KEY_EXCHANGE_RSP", n |-> n] \in S
    OBVIOUS
  <2> QED
    BY <2>1, Zenon DEF Msgs
<1>4. ASSUME NEW ch \in Seq(Cells)
      PROVE  [t |-> "Ct", chain |-> ch] \in Msgs
  <2> DEFINE S == [t : {"Ct"}, chain : Seq(Cells)]
  <2>1. [t |-> "Ct", chain |-> ch] \in S
    OBVIOUS
  <2> QED
    BY <2>1, Zenon DEF Msgs
<1> QED
  BY <1>1, <1>2, <1>3, <1>4

\* A message is told by its tag.
LEMMA ReplyKinds ==
  ASSUME NEW r \in Replies \union {LOST, ERROR}
  PROVE  /\ r.t = "VERSION" => r \in VersionMsgs
         /\ r.t = "CAPABILITIES" => r \in CapabilitiesMsgs
         /\ r.t = "ALGORITHMS" => r \in AlgorithmsMsgs
         /\ r.t = "DIGESTS" => r \in DigestsMsgs
         /\ r.t = "CERTIFICATE" => r \in CertificateMsgs
         /\ r.t = "KEY_EXCHANGE_RSP" => r \in KexRspMsgs
         /\ r.t = "FINISH_RSP" => r \in FinishRspMsgs
<1>1. /\ r \in VersionMsgs => r.t = "VERSION"
      /\ r \in CapabilitiesMsgs => r.t = "CAPABILITIES"
      /\ r \in AlgorithmsMsgs => r.t = "ALGORITHMS"
      /\ r \in DigestsMsgs => r.t = "DIGESTS"
      /\ r \in CertificateMsgs => r.t = "CERTIFICATE"
      /\ r \in KexRspMsgs => r.t = "KEY_EXCHANGE_RSP"
      /\ r \in FinishRspMsgs => r.t = "FINISH_RSP"
      /\ r = LOST => r.t = "LOST"
      /\ r = ERROR => r.t = "ERROR"
  BY DEF VersionMsgs, CapabilitiesMsgs, AlgorithmsMsgs, DigestsMsgs,
         CertificateMsgs, KexRspMsgs, FinishRspMsgs, LOST, ERROR
<1> QED
  BY <1>1 DEF Replies

\* And a message of a transcript.
LEMMA MsgTags ==
  ASSUME NEW m \in Msgs
  PROVE  m.t \in Tokens
  BY DEF Msgs, VersionMsgs, CapabilitiesMsgs, AlgorithmsMsgs, Tokens

-----------------------------------------------------------------------------
(* The transport *)

\* The reply of an exchange is one of the responder's, now or earlier, and the
\* answer to this very exchange has reached it.
LEMMA OutcomeFacts ==
  ASSUME rsps \in SUBSET Replies, NEW g \in Replies \union {ERROR},
         NEW o \in Outcomes(g)
  PROVE  /\ o.reply \in Replies \union {LOST, ERROR}
         /\ (o.reply = g /\ g \notin rsps) => o.reached
         /\ o.reply = g \/ o.reply \in rsps \/ o.reply = LOST
<1> DEFINE A == [reached |-> TRUE, reply |-> g]
           B == {[reached |-> b, reply |-> r] : b \in BOOLEAN, r \in rsps \union {LOST}}
<1>1. o = A \/ o \in B
  BY DEF Outcomes
<1>2. CASE o = A
  <2>1. o.reply = g /\ o.reached = TRUE
    BY <1>2
  <2> QED
    BY <2>1
<1>3. CASE o \in B
  <2>1. PICK b \in BOOLEAN, r \in rsps \union {LOST} : o = [reached |-> b, reply |-> r]
    BY <1>3
  <2>2. o.reply = r
    BY <2>1
  <2>3. g # LOST
    <3>1. LOST.t = "LOST" /\ ERROR.t = "ERROR"
      BY DEF LOST, ERROR
    <3>2. g \in Replies => g.t # "LOST"
      BY DEF Replies, VersionMsgs, CapabilitiesMsgs, AlgorithmsMsgs, DigestsMsgs,
             CertificateMsgs, KexRspMsgs, FinishRspMsgs
    <3> QED
      BY <3>1, <3>2
  <2> QED
    BY <2>1, <2>2, <2>3
<1> QED
  BY <1>1, <1>2, <1>3

\* after is r when it has answered a request of the VCA part: its session is
\* gone.
VcaSet(r, q, after) ==
  /\ after \in Responders /\ after.vca = q /\ after.sess = <<>>
  /\ after.world = r.world /\ after.chains = r.chains

\* Such a responder is one.
LEMMA SetVca ==
  ASSUME NEW r \in Responders, NEW q \in Seq(Msgs)
  PROVE  VcaSet(r, q, [r EXCEPT !.vca = q, !.sess = <<>>])
<1>1. <<>> \in Seq(Msgs)
  OBVIOUS
<1> QED
  BY <1>1 DEF VcaSet, Responders

\* after is r when it has answered a KEY_EXCHANGE or a FINISH.
SessSet(r, q, after) ==
  /\ after \in Responders /\ after.sess = q /\ after.vca = r.vca
  /\ after.world = r.world /\ after.chains = r.chains

\* So is this.
LEMMA SetSess ==
  ASSUME NEW r \in Responders, NEW q \in Seq(Msgs)
  PROVE  SessSet(r, q, [r EXCEPT !.sess = q])
  BY DEF SessSet, Responders

\* What an exchange leaves under way.
LEMMA TransportFacts ==
  ASSUME rsps \in SUBSET Replies, NEW g \in Replies \union {ERROR}, NEW o, NEW after,
         Transport(o, g, after)
  PROVE  /\ rsps' \in SUBSET Replies
         /\ \A r \in rsps' : r \in rsps \/ (r = g /\ o.reached /\ g # ERROR)
         /\ rs' = rs \/ (o.reached /\ rs' = after)
         /\ o.reached => rs' = after
<1>1. rs' = IF o.reached THEN after ELSE rs
  BY Zenon DEF Transport
<1>2. rsps' = IF o.reached /\ o.reply # g /\ g # ERROR THEN rsps \union {g} ELSE rsps
  BY Zenon DEF Transport
<1>3. CASE o.reached /\ o.reply # g /\ g # ERROR
  <2>1. rsps' = rsps \union {g} /\ rs' = after
    BY <1>1, <1>2, <1>3, Zenon
  <2>2. g \in Replies
    BY <1>3
  <2>3. rsps' \in SUBSET Replies
    BY <2>1, <2>2
  <2>4. \A r \in rsps' : r \in rsps \/ r = g
    BY <2>1
  <2> QED
    BY <1>3, <2>1, <2>3, <2>4, Zenon
<1>4. CASE ~(o.reached /\ o.reply # g /\ g # ERROR)
  <2>1. rsps' = rsps
    BY <1>2, <1>4, Zenon
  <2>2. rsps' \in SUBSET Replies /\ \A r \in rsps' : r \in rsps
    BY <2>1
  <2>3. CASE o.reached
    BY <1>1, <2>2, <2>3, Zenon
  <2>4. CASE ~o.reached
    BY <1>1, <2>2, <2>4, Zenon
  <2> QED
    BY <2>3, <2>4
<1> QED
  BY <1>3, <1>4

\* Every chain the responder holds is one of those it may be given.
LEMMA ChainInTyped ==
  ASSUME rs \in Responders, NEW s \in Slots
  PROVE  /\ ChainIn(s) \in StoredChains /\ ChainIn(s) \in Seq(Cells)
         /\ Len(ChainIn(s)) \in Nat
         /\ ChainIn(s) # <<>> => IsHeader(ChainIn(s)[1])
         /\ s + 1 \in {1, 2}
<1>1. s + 1 \in {1, 2} /\ rs.chains \in [{1, 2} -> StoredChains]
  BY DEF Responders, Slots
<1>2. ChainIn(s) \in StoredChains
  BY <1>1 DEF ChainIn
<1>3. ChainIn(s) \in Seq(Headers \union Certs)
      /\ (ChainIn(s) # <<>> => IsHeader(ChainIn(s)[1]))
  BY <1>2, Zenon DEF StoredChains
<1>4. Headers \union Certs \subseteq Cells
  BY Zenon DEF Cells
<1>5. ASSUME NEW S, NEW T, S \subseteq T, NEW q \in Seq(S)
      PROVE  q \in Seq(T)
  BY <1>5
<1>6. ChainIn(s) \in Seq(Cells)
  BY <1>3, <1>4, <1>5
<1> QED
  BY <1>1, <1>2, <1>3, <1>6

-----------------------------------------------------------------------------
(* Returning from a step *)

\* The steps of Connect in order.
LEMMA AfterStepIs ==
  /\ AfterStep("GET_VERSION") = "GET_CAPABILITIES"
  /\ AfterStep("GET_CAPABILITIES") = "NEGOTIATE_ALGORITHMS"
  /\ AfterStep("NEGOTIATE_ALGORITHMS") = "GET_DIGESTS"
  /\ AfterStep("GET_DIGESTS") = "GET_CERTIFICATE"
  /\ AfterStep("GET_CERTIFICATE") = "VALIDATE"
  /\ AfterStep("VALIDATE") = "KEY_EXCHANGE"
  /\ AfterStep("KEY_EXCHANGE") = "FINISH"
  /\ AfterStep("FINISH") = "IDLE"
<1>1. Len(Steps) = 8 /\ DOMAIN Steps = 1 .. 8
      /\ Steps[1] = "GET_VERSION" /\ Steps[2] = "GET_CAPABILITIES"
      /\ Steps[3] = "NEGOTIATE_ALGORITHMS" /\ Steps[4] = "GET_DIGESTS"
      /\ Steps[5] = "GET_CERTIFICATE" /\ Steps[6] = "VALIDATE"
      /\ Steps[7] = "KEY_EXCHANGE" /\ Steps[8] = "FINISH"
  BY DEF Steps
<1>2. ASSUME NEW k \in 1 .. 8
      PROVE  AfterStep(Steps[k]) = IF k = 8 THEN "IDLE" ELSE Steps[k + 1]
  <2> DEFINE i == CHOOSE j \in DOMAIN Steps : Steps[j] = Steps[k]
  <2>1. i \in DOMAIN Steps /\ Steps[i] = Steps[k]
    <3>1. \E j \in DOMAIN Steps : Steps[j] = Steps[k]
      BY <1>1
    <3> QED
      BY <3>1, Zenon
  <2> HIDE DEF i
  <2>2. i = k
    BY <1>1, <2>1
  <2> QED
    BY <1>1, <2>2 DEF AfterStep, i
<1> QED
  BY <1>1, <1>2

\* The parts of a context that most steps leave alone.
SameConf(c, d) ==
  /\ d.maxVersion = c.maxVersion /\ d.kexAdvDhe = c.kexAdvDhe
  /\ d.kexAdvKem = c.kexAdvKem /\ d.trustedCA = c.trustedCA /\ d.allow = c.allow
SameAlgs(c, d) ==
  /\ d.pqcAsymSel = c.pqcAsymSel /\ d.kemAlgSel = c.kemAlgSel
  /\ d.version = c.version /\ d.dts = c.dts
SameChain(c, d) ==
  d.slot = c.slot /\ d.slotMask = c.slotMask /\ d.chain = c.chain
SameKey(c, d) == d.key = c.key /\ d.fromCert = c.fromCert
SameTrans(c, d) == d.trans = c.trans /\ d.th1 = c.th1

\* c and d differ in the state at most.
Same(c, d) ==
  /\ SameConf(c, d) /\ SameAlgs(c, d) /\ SameChain(c, d) /\ SameKey(c, d)
  /\ SameTrans(c, d)

\* The result of a step is the context, and in Connect the next step.
LEMMA ReturnFacts ==
  ASSUME NEW step, NEW res, res.ctx \in Ctxs, Return(step, res), pc \in PCs
  PROVE  /\ ctx' \in Ctxs /\ Same(res.ctx, ctx')
         /\ pc = "IDLE" => pc' = "IDLE"
         /\ pc' = "IDLE" \/ (res.ok /\ pc # "IDLE" /\ pc' = AfterStep(step))
         /\ ctx'.state = "CONNECTED" =>
              \/ res.ctx.state = "CONNECTED"
              \/ res.ok /\ step = "FINISH" /\ pc # "IDLE"
<1>1. CASE pc = "IDLE"
  BY <1>1 DEF Return, Same, SameConf, SameAlgs, SameChain, SameKey, SameTrans
<1>2. CASE pc # "IDLE"
  <2> DEFINE c == res.ctx
             st == IF ~res.ok THEN "ERROR"
                   ELSE IF step = "FINISH" THEN "CONNECTED" ELSE c.state
  <2>1. ctx' = [c EXCEPT !.state = st]
    BY <1>2 DEF Return
  <2>2. pc' = IF res.ok THEN AfterStep(step) ELSE "IDLE"
    BY <1>2 DEF Return
  <2>3. st \in States
    BY DEF Ctxs, States
  <2>4. st = "CONNECTED" => c.state = "CONNECTED" \/ (res.ok /\ step = "FINISH")
    OBVIOUS
  <2> HIDE DEF c, st
  <2>5. c \in Ctxs
    BY DEF c
  <2>6. ctx' \in Ctxs /\ ctx'.state = st
    BY <2>1, <2>3, <2>5 DEF Ctxs
  <2>7. Same(c, ctx')
    BY <2>1, <2>5 DEF Ctxs, Same, SameConf, SameAlgs, SameChain, SameKey, SameTrans
  <2> QED
    BY <1>2, <2>2, <2>4, <2>6, <2>7 DEF c
<1> QED
  BY <1>1, <1>2

\* Most steps leave TH1 alone or clear it, and do not connect.
Quiet ==
  /\ ctx'.th1 \in {ctx.th1, <<>>}
  /\ ctx'.state = "CONNECTED" => ctx.state = "CONNECTED"

\* A step before FINISH whose result does so.
LEMMA ReturnQuiet ==
  ASSUME NEW step, step # "FINISH", NEW res, res.ctx \in Ctxs, Return(step, res),
         pc \in PCs, res.ctx.th1 = ctx.th1,
         res.ctx.state \in {ctx.state, "VERSION", "CERT"}
  PROVE  Quiet
<1>1. /\ Same(res.ctx, ctx')
      /\ ctx'.state = "CONNECTED" =>
           \/ res.ctx.state = "CONNECTED"
           \/ res.ok /\ step = "FINISH" /\ pc # "IDLE"
  BY ReturnFacts, Zenon
<1> QED
  BY <1>1 DEF Same, SameTrans, Quiet

-----------------------------------------------------------------------------
(* What a change of the context does to it *)

\* The transcript.
LEMMA SetTrans ==
  ASSUME NEW c \in Ctxs, NEW x \in Seq(Msgs)
  PROVE  LET d == [c EXCEPT !.trans = x]
         IN  /\ d \in Ctxs /\ d.trans = x /\ d.th1 = c.th1 /\ d.state = c.state
             /\ SameConf(c, d) /\ SameAlgs(c, d) /\ SameChain(c, d) /\ SameKey(c, d)
<1> DEFINE d == [c EXCEPT !.trans = x]
<1>1. d \in Ctxs /\ d.trans = x /\ d.th1 = c.th1 /\ d.state = c.state
  BY DEF Ctxs
<1>2. SameConf(c, d) /\ SameAlgs(c, d) /\ SameChain(c, d) /\ SameKey(c, d)
  BY DEF Ctxs, SameConf, SameAlgs, SameChain, SameKey
<1> QED
  BY <1>1, <1>2

\* A message added to it.
LEMMA AddFacts ==
  ASSUME NEW c \in Ctxs, NEW m \in Msgs, NoHalf(c.trans),
         m.t \notin {"GET_VERSION", "GET_CAPABILITIES", "NEGOTIATE_ALGORITHMS"}
  PROVE  LET d == Add(c, m)
         IN  /\ d \in Ctxs /\ d.trans = Append(c.trans, m) /\ d.th1 = c.th1
             /\ d.state = c.state /\ NoHalf(d.trans)
             /\ SameConf(c, d) /\ SameAlgs(c, d) /\ SameChain(c, d) /\ SameKey(c, d)
<1>1. c.trans \in Seq(Msgs)
  BY DEF Ctxs
<1>2. NoHalf(Append(c.trans, m)) /\ Append(c.trans, m) \in Seq(Msgs)
  BY <1>1, HalfAppend
<1> DEFINE x == Append(c.trans, m)
           d == [c EXCEPT !.trans = x]
<1>3. Add(c, m) = d
  BY DEF Add
<1>4. /\ d \in Ctxs /\ d.trans = x /\ d.th1 = c.th1 /\ d.state = c.state
      /\ SameConf(c, d) /\ SameAlgs(c, d) /\ SameChain(c, d) /\ SameKey(c, d)
  <2> HIDE DEF x
  <2> QED
    BY <1>2, SetTrans DEF x
<1> HIDE DEF d
<1> QED
  BY <1>2, <1>3, <1>4

\* The state.
LEMMA SetState ==
  ASSUME NEW c \in Ctxs, NEW st \in States
  PROVE  LET d == [c EXCEPT !.state = st]
         IN  d \in Ctxs /\ d.state = st /\ Same(c, d)
<1> DEFINE d == [c EXCEPT !.state = st]
<1>1. d \in Ctxs /\ d.state = st
  BY DEF Ctxs
<1>2. Same(c, d)
  BY DEF Ctxs, Same, SameConf, SameAlgs, SameChain, SameKey, SameTrans
<1> QED
  BY <1>1, <1>2

\* The key of an earlier chain is dropped, nothing else.
LEMMA DropFacts ==
  ASSUME NEW c \in Ctxs
  PROVE  LET d == DropCertKey(c)
         IN  /\ d \in Ctxs /\ d.state = c.state
             /\ d.key = (IF c.fromCert THEN None ELSE c.key) /\ d.fromCert = FALSE
             /\ SameConf(c, d) /\ SameAlgs(c, d) /\ SameChain(c, d) /\ SameTrans(c, d)
<1> DEFINE d == DropCertKey(c)
<1>1. CASE c.fromCert
  <2>1. d = [c EXCEPT !.key = None, !.fromCert = FALSE]
    BY <1>1 DEF DropCertKey
  <2> HIDE DEF d
  <2>2. d \in Ctxs /\ d.key = None /\ d.fromCert = FALSE /\ d.state = c.state
    BY <2>1 DEF Ctxs
  <2>3. SameConf(c, d) /\ SameAlgs(c, d) /\ SameChain(c, d) /\ SameTrans(c, d)
    BY <2>1 DEF Ctxs, SameConf, SameAlgs, SameChain, SameTrans
  <2> QED
    BY <1>1, <2>2, <2>3 DEF d
<1>2. CASE ~c.fromCert
  <2>1. d = c
    BY <1>2 DEF DropCertKey
  <2>2. c.fromCert = FALSE
    BY <1>2 DEF Ctxs
  <2>3. SameConf(c, c) /\ SameAlgs(c, c) /\ SameChain(c, c) /\ SameTrans(c, c)
    BY DEF SameConf, SameAlgs, SameChain, SameTrans
  <2> QED
    BY <1>2, <2>1, <2>2, <2>3
<1> QED
  BY <1>1, <1>2 DEF Ctxs

\* The transcript is that of c with both messages when the exchange succeeds,
\* and unchanged when it fails.
Exchanged(c, c2, ok, a, b, res) ==
  LET d == res.ctx
  IN  /\ d \in Ctxs /\ d.th1 = c.th1 /\ d.state = c2.state /\ NoHalf(d.trans)
      /\ d.trans = IF ok THEN c.trans \o <<a, b>> ELSE c.trans
      /\ res.ok = ok
      /\ SameConf(c2, d) /\ SameAlgs(c2, d) /\ SameChain(c2, d) /\ SameKey(c2, d)

\* ExchangeMsg does that.
LEMMA ExchangeMsgFacts ==
  ASSUME NEW c \in Ctxs, NEW c2 \in Ctxs, SameTrans(c, c2), NEW ok \in BOOLEAN,
         NEW a \in Msgs, NEW b, NoHalf(c.trans), ok => b \in Msgs /\ Pair(a, b)
  PROVE  Exchanged(c, c2, ok, a, b, ExchangeMsg(c, c2, ok, a, b))
<1> USE DEF Exchanged
<1>1. CASE ok
  <2> DEFINE x == c.trans \o <<a, b>>
             d == [c2 EXCEPT !.trans = x]
  <2>1. c.trans \in Seq(Msgs)
    BY DEF Ctxs
  <2>2. x \in Seq(Msgs) /\ NoHalf(x)
    BY <1>1, <2>1, HalfPair
  <2>3. ExchangeMsg(c, c2, ok, a, b) = [ok |-> TRUE, ctx |-> d]
    BY <1>1 DEF ExchangeMsg, Ok
  <2>4. /\ d \in Ctxs /\ d.trans = x /\ d.th1 = c2.th1 /\ d.state = c2.state
        /\ SameConf(c2, d) /\ SameAlgs(c2, d) /\ SameChain(c2, d) /\ SameKey(c2, d)
    <3> HIDE DEF x
    <3> QED
      BY <2>2, SetTrans
  <2> HIDE DEF d
  <2>5. ExchangeMsg(c, c2, ok, a, b).ctx = d /\ ExchangeMsg(c, c2, ok, a, b).ok = TRUE
    BY <2>3
  <2>6. c2.th1 = c.th1
    BY DEF SameTrans
  <2> QED
    BY <1>1, <2>2, <2>4, <2>5, <2>6
<1>2. CASE ~ok
  <2>1. ExchangeMsg(c, c2, ok, a, b) = [ok |-> FALSE, ctx |-> c2]
    BY <1>2 DEF ExchangeMsg, Failed
  <2>2. ExchangeMsg(c, c2, ok, a, b).ctx = c2 /\ ExchangeMsg(c, c2, ok, a, b).ok = FALSE
    BY <2>1
  <2>3. SameConf(c2, c2) /\ SameAlgs(c2, c2) /\ SameChain(c2, c2) /\ SameKey(c2, c2)
    BY DEF SameConf, SameAlgs, SameChain, SameKey
  <2>4. c2.th1 = c.th1 /\ c2.trans = c.trans
    BY DEF SameTrans
  <2> QED
    BY <1>2, <2>2, <2>3, <2>4
<1> QED
  BY <1>1, <1>2

-----------------------------------------------------------------------------
(* wolfSPDM_ValidateCertChain *)

Walks == [ok : BOOLEAN, at : Cells \union {NoCert}]
TheWalk(c) == FoldLeft(Walk, WalkFrom(c), Tail(c.chain))

\* The fields of a cell are told by its kind.
LEMMA CellKinds ==
  ASSUME NEW cell \in Cells \union {NoCert}
  PROVE  /\ IsCert(cell) <=> cell \in Certs
         /\ IsCert(cell) => cell.key \in Keys /\ cell.key # None /\ cell # NoCert
<1>1. /\ cell \in Headers => cell.kind = "HEADER"
      /\ cell \in Certs => cell.kind = "CERT" /\ cell.key \in Keys
      /\ cell \in [kind : {"JUNK"}] => cell.kind = "JUNK"
      /\ cell = NoCert => cell.kind = "NONE"
  BY DEF Headers, Certs, NoCert, None
<1> QED
  BY <1>1 DEF IsCert, Cells, Keys

\* The loop of ValidateCertChain, certificate by certificate.
LEMMA WalkRuns ==
  ASSUME NEW c \in Ctxs, Len(c.chain) >= 1
  PROVE  LET n == Len(c.chain) - 1
         IN  \E f \in [0 .. n -> Walks] :
               /\ f[0] = WalkFrom(c) /\ f[n] = TheWalk(c)
               /\ \A i \in 1 .. n : f[i] = Walk(f[i - 1], c.chain[i + 1])
<1> DEFINE seq == Tail(c.chain)
           n == Len(c.chain) - 1
           base == WalkFrom(c)
           Body(g) == [s \in SUBSET DOMAIN seq |->
                         IF s = {} THEN base
                         ELSE Walk(g[s \ {Max(s)}], seq[Max(s)])]
           iter == CHOOSE g : g = Body(g)
           G == [p \in Walks \X (1 .. n) |-> Walk(p[1], seq[p[2]])]
<1>1. n \in Nat /\ DOMAIN seq = 1 .. n
      /\ \A i \in 1 .. n : seq[i] = c.chain[i + 1] /\ seq[i] \in Cells
  <2>1. c.chain \in Seq(Cells)
    BY DEF Ctxs
  <2> QED
    BY <2>1
<1>2. TheWalk(c) = iter[DOMAIN seq]
  BY Zenon DEF TheWalk, FoldLeft, MapThenFoldSet
<1>3. base \in Walks
  <2>1. c.trustedCA \in Cells \union {NoCert}
    BY DEF Ctxs, Cells
  <2> QED
    BY <2>1 DEF WalkFrom, Walks
<1>4. G \in [Walks \X (1 .. n) -> Walks]
  <2>1. ASSUME NEW a \in Walks, NEW i \in 1 .. n
        PROVE  Walk(a, seq[i]) \in Walks
    BY <1>1 DEF Walk, Walks
  <2> HIDE DEF n, seq
  <2> QED
    BY <2>1
<1> HIDE DEF base
<1>5. PICK it \in [SUBSET (1 .. n) -> Walks] : Solution(it, n, base, G)
  <2> HIDE DEF G, n
  <2> QED
    BY <1>1, <1>3, <1>4, FoldExists, Zenon
<1>6. ASSUME NEW s \in SUBSET (1 .. n), s # {}, NEW a \in Walks
      PROVE  /\ G[<<a, Max(s)>>] = Walk(a, seq[Max(s)])
             /\ s \ {Max(s)} \in SUBSET (1 .. n)
  <2>1. Max(s) \in 1 .. n
    BY <1>1, <1>6, MaxIn
  <2> HIDE DEF n, seq
  <2> QED
    BY <2>1
<1>7. it = Body(it)
  <2>1. \A s \in SUBSET (1 .. n) :
          it[s] = IF s = {} THEN base ELSE Walk(it[s \ {Max(s)}], seq[Max(s)])
    <3> HIDE DEF G, n, seq
    <3> QED
      BY <1>5, <1>6 DEF Solution
  <2> HIDE DEF n, seq
  <2> QED
    BY <1>1, <1>5, <2>1
<1>8. iter = Body(iter)
  <2> HIDE DEF Body
  <2> QED
    BY <1>7, Zenon
<1>9. TypedSolution(iter, n, Walks, base, G)
  <2> HIDE DEF iter, n, seq, G
  <2>1. ASSUME NEW s \in SUBSET (1 .. n), s # {}, iter[s \ {Max(s)}] \in Walks
        PROVE  iter[s] = G[<<iter[s \ {Max(s)}], Max(s)>>]
    <3>1. iter[s] = Walk(iter[s \ {Max(s)}], seq[Max(s)])
      BY <1>1, <1>8, <2>1
    <3> DEFINE a == iter[s \ {Max(s)}]
    <3>2. iter[s] = Walk(a, seq[Max(s)]) /\ a \in Walks
      BY <2>1, <3>1
    <3> HIDE DEF a
    <3>3. iter[s] = G[<<a, Max(s)>>]
      BY <1>6, <2>1, <3>2
    <3> QED
      BY <3>3 DEF a
  <2>2. iter[{}] = base
    BY <1>8
  <2> QED
    BY <2>1, <2>2 DEF TypedSolution
<1>10. PICK f \in [0 .. n -> Walks] : f[n] = iter[1 .. n] /\ Run(f, n, base, G)
  <2> HIDE DEF iter, G, n
  <2> QED
    BY <1>1, <1>3, <1>4, <1>9, FoldRuns, Zenon
<1>11. \A i \in 1 .. n : f[i] = Walk(f[i - 1], c.chain[i + 1])
  <2> HIDE DEF n, seq
  <2>1. \A i \in 1 .. n : f[i - 1] \in Walks
    BY <1>1, <1>10
  <2> QED
    BY <1>1, <1>10, <2>1 DEF Run
<1>12. f[n] = TheWalk(c)
  <2> HIDE DEF iter, n, seq
  <2> QED
    BY <1>1, <1>2, <1>10
<1> QED
  BY <1>10, <1>11, <1>12 DEF Run, base

\* The certificate before position j: the configured root before the first.
Before(c, j) == IF j = 2 THEN c.trustedCA ELSE c.chain[j - 1]
Issued(c, j) ==
  IsCert(c.chain[j]) /\ (IsCert(Before(c, j)) => SignedBy(c.chain[j], Before(c, j)))

\* The walk is well when every certificate is issued by the one before it.
LEMMA WalkIsIssued ==
  ASSUME NEW c \in Ctxs, Len(c.chain) > 1
  PROVE  /\ TheWalk(c).ok <=>
              WalkFrom(c).ok /\ \A j \in 2 .. Len(c.chain) : Issued(c, j)
         /\ TheWalk(c).at = c.chain[Len(c.chain)]
<1> DEFINE n == Len(c.chain) - 1
<1>1. Len(c.chain) \in Nat /\ n \in Nat /\ n >= 1 /\ n + 1 = Len(c.chain)
  BY DEF Ctxs
<1>2. PICK f \in [0 .. n -> Walks] :
        /\ f[0] = WalkFrom(c) /\ f[n] = TheWalk(c)
        /\ \A i \in 1 .. n : f[i] = Walk(f[i - 1], c.chain[i + 1])
  <2>1. Len(c.chain) >= 1
    BY <1>1
  <2> QED
    BY <2>1, WalkRuns
<1> HIDE DEF n
<1> DEFINE Well(i) ==
      /\ f[i].at = Before(c, i + 2)
      /\ f[i].ok <=> WalkFrom(c).ok /\ \A j \in 2 .. i + 1 : Issued(c, j)
    S == {i \in 0 .. n : Well(i)}
<1>3. Well(0)
  <2>1. f[0].at = c.trustedCA
    BY <1>2 DEF WalkFrom
  <2>2. 2 .. 0 + 1 = {} /\ 0 + 2 = 2
    OBVIOUS
  <2> QED
    BY <1>2, <2>1, <2>2 DEF Before
<1>4. ASSUME NEW i \in 0 .. n, i < n, Well(i)
      PROVE  Well(i + 1)
  <2>1. i + 1 \in 1 .. n /\ (i + 1) - 1 = i /\ (i + 1) + 1 = i + 2
        /\ (i + 1) + 2 = i + 3 /\ (i + 3) - 1 = i + 2 /\ i + 3 # 2
    BY <1>1, <1>4
  <2>2. f[i + 1] = Walk(f[i], c.chain[i + 2])
    <3>1. f[i + 1] = Walk(f[(i + 1) - 1], c.chain[(i + 1) + 1])
      BY <1>2, <2>1
    <3> QED
      BY <2>1, <3>1
  <2>3. f[i + 1].at = c.chain[i + 2]
        /\ (f[i + 1].ok <=> f[i].ok /\ IsCert(c.chain[i + 2])
              /\ (IsCert(f[i].at) => SignedBy(c.chain[i + 2], f[i].at)))
    <3> DEFINE b == f[i].ok /\ IsCert(c.chain[i + 2])
                      /\ (IsCert(f[i].at) => SignedBy(c.chain[i + 2], f[i].at))
    <3>1. f[i + 1] = [ok |-> b, at |-> c.chain[i + 2]]
      BY <2>2, Zenon DEF Walk
    <3>2. f[i + 1].ok = b /\ f[i + 1].at = c.chain[i + 2]
      <4> HIDE DEF b
      <4> QED
        BY <3>1
    <3> QED
      BY <3>2, Zenon
  <2>4. f[i + 1].ok <=> f[i].ok /\ Issued(c, i + 2)
    BY <1>4, <2>3 DEF Issued
  <2>5. (\A j \in 2 .. i + 2 : Issued(c, j)) <=>
          (\A j \in 2 .. i + 1 : Issued(c, j)) /\ Issued(c, i + 2)
    <3>1. \A j : j \in 2 .. i + 2 <=> j \in 2 .. i + 1 \/ j = i + 2
      BY <1>1
    <3> QED
      BY <3>1, Zenon
  <2>6. Before(c, i + 3) = c.chain[i + 2]
    BY <2>1 DEF Before
  <2>7. f[i + 1].at = Before(c, (i + 1) + 2)
    BY <2>1, <2>3, <2>6
  <2>8. f[i + 1].ok <=> WalkFrom(c).ok /\ \A j \in 2 .. (i + 1) + 1 : Issued(c, j)
    BY <1>4, <2>1, <2>4, <2>5
  <2> QED
    BY <2>7, <2>8
<1>5. Well(n)
  <2> HIDE DEF Well
  <2>1. 0 \in S
    BY <1>1, <1>3
  <2>2. ASSUME NEW i \in 0 .. n, i < n, i \in S
        PROVE  i + 1 \in S
    BY <1>1, <1>4, <2>2
  <2>3. \A i \in 0 .. n : i \in S
    <3> HIDE DEF S
    <3> QED
      BY <1>1, <2>1, <2>2, IntervalInduction
  <2> QED
    BY <1>1, <2>3
<1>6. Before(c, n + 2) = c.chain[Len(c.chain)]
  BY <1>1 DEF Before
<1> QED
  BY <1>1, <1>2, <1>5, <1>6

\* Every certificate issued by the one before it, the first by the root.
ChainIssued(ca, chain) ==
  LET n == Len(chain)
  IN  /\ \A i \in 2 .. n : IsCert(chain[i])
      /\ \A i \in 2 .. n - 1 : chain[i].ca /\ chain[i + 1].by = chain[i].key
      /\ ca # NoCert => /\ IsHeader(chain[1]) /\ chain[1].root = ca.key
                        /\ ca.ca /\ chain[2].by = ca.key

\* The walk decides it.
LEMMA WalkDecides ==
  ASSUME NEW c \in Ctxs, Len(c.chain) > 1
  PROVE  TheWalk(c).ok <=> ChainIssued(c.trustedCA, c.chain)
<1> DEFINE n == Len(c.chain)
           ca == c.trustedCA
<1>1. c.chain \in Seq(Cells) /\ n \in Nat /\ n > 1 /\ ca \in Certs \union {NoCert}
  BY DEF Ctxs
<1>2. ca # NoCert <=> IsCert(ca)
  <2>1. ca \in Cells \union {NoCert}
    BY <1>1 DEF Cells
  <2>2. NoCert \notin Certs
    BY DEF NoCert, Certs, None
  <2> QED
    BY <1>1, <2>1, <2>2, CellKinds
<1>3. WalkFrom(c).ok <=>
        ca = NoCert \/ (IsHeader(c.chain[1]) /\ c.chain[1].root = ca.key)
  <2> DEFINE b == ca = NoCert \/ (IsHeader(c.chain[1]) /\ c.chain[1].root = ca.key)
  <2>1. WalkFrom(c) = [ok |-> b, at |-> ca]
    BY Zenon DEF WalkFrom
  <2>2. WalkFrom(c).ok = b
    <3> HIDE DEF b
    <3> QED
      BY <2>1
  <2> QED
    BY <2>2, Zenon
<1>4. TheWalk(c).ok <=> WalkFrom(c).ok /\ \A j \in 2 .. n : Issued(c, j)
  BY WalkIsIssued, Zenon
<1>5. Before(c, 2) = ca /\ \A j \in 3 .. n : Before(c, j) = c.chain[j - 1]
  BY <1>1 DEF Before
<1> HIDE DEF n, ca
<1>6. (\A j \in 2 .. n : Issued(c, j)) <=>
        /\ \A i \in 2 .. n : IsCert(c.chain[i])
        /\ \A i \in 2 .. n - 1 : SignedBy(c.chain[i + 1], c.chain[i])
        /\ IsCert(ca) => SignedBy(c.chain[2], ca)
  <2>1. ASSUME \A j \in 2 .. n : Issued(c, j)
        PROVE  /\ \A i \in 2 .. n : IsCert(c.chain[i])
               /\ \A i \in 2 .. n - 1 : SignedBy(c.chain[i + 1], c.chain[i])
               /\ IsCert(ca) => SignedBy(c.chain[2], ca)
    <3>1. \A i \in 2 .. n : IsCert(c.chain[i])
      BY <2>1 DEF Issued
    <3>2. ASSUME NEW i \in 2 .. n - 1
          PROVE  SignedBy(c.chain[i + 1], c.chain[i])
      <4>1. i + 1 \in 3 .. n /\ i + 1 \in 2 .. n /\ i \in 2 .. n /\ (i + 1) - 1 = i
        BY <1>1
      <4>2. Before(c, i + 1) = c.chain[i]
        BY <1>5, <4>1
      <4> QED
        BY <2>1, <3>1, <4>1, <4>2 DEF Issued
    <3>3. IsCert(ca) => SignedBy(c.chain[2], ca)
      <4>1. 2 \in 2 .. n
        BY <1>1
      <4> QED
        BY <1>5, <2>1, <4>1 DEF Issued
    <3> QED
      BY <3>1, <3>2, <3>3
  <2>2. ASSUME \A i \in 2 .. n : IsCert(c.chain[i]),
               \A i \in 2 .. n - 1 : SignedBy(c.chain[i + 1], c.chain[i]),
               IsCert(ca) => SignedBy(c.chain[2], ca),
               NEW j \in 2 .. n
        PROVE  Issued(c, j)
    <3>1. CASE j = 2
      BY <1>5, <2>2, <3>1 DEF Issued
    <3>2. CASE j # 2
      <4>1. j \in 3 .. n /\ j - 1 \in 2 .. n - 1 /\ (j - 1) + 1 = j
        BY <1>1, <3>2
      <4>2. SignedBy(c.chain[j], c.chain[j - 1])
        <5>1. SignedBy(c.chain[(j - 1) + 1], c.chain[j - 1])
          BY <2>2, <4>1
        <5> QED
          BY <4>1, <5>1
      <4> QED
        BY <1>5, <2>2, <4>1, <4>2 DEF Issued
    <3> QED
      BY <3>1, <3>2
  <2> QED
    BY <2>1, <2>2
<1> QED
  BY <1>2, <1>3, <1>4, <1>6 DEF ChainIssued, SignedBy, n, ca

\* Vouched, said with it.
LEMMA VouchedIs ==
  ASSUME NEW c, NEW chain, NEW pinned
  PROVE  Vouched(c, chain, pinned) <=>
           /\ Len(chain) > 1 /\ ChainIssued(c.trustedCA, chain)
           /\ chain[Len(chain)].alg \in LeafAlg(c)
           /\ IF pinned # None
              THEN chain[Len(chain)].key = pinned /\ chain[Len(chain)].alg = "P384"
              ELSE c.trustedCA # NoCert \/ c.allow
  BY Zenon DEF Vouched, ChainIssued

\* What the configuration of a leaf key may be.
LEMMA LeafAlgIs ==
  ASSUME NEW c \in Ctxs, NEW alg
  PROVE  /\ {alg} = LeafAlg(c) <=> alg \in LeafAlg(c)
         /\ alg \in LeafAlg(c) => (alg = "P384" <=> c.pqcAsymSel = {})
<1>1. c.pqcAsymSel \in {{}} \union {{x} : x \in MLDSA_SETS}
  BY DEF Ctxs, AtMostOne
<1> QED
  BY <1>1 DEF LeafAlg, MLDSA_SETS

\* What ValidateCertChain does to a key that is in order.
Validated(c, res, pinned) ==
  /\ KeyOK(res.ctx, pinned)
  /\ res.ok <=> Vouched(c, c.chain, pinned)
  /\ res.ok /\ pinned = None => res.ctx.key = c.chain[Len(c.chain)].key

\* ValidateCertChain accepts exactly what is vouched for, and then the key is
\* the pinned one or the leaf's; it touches nothing but the key.
LEMMA ValidateFacts ==
  ASSUME NEW c0 \in Ctxs, NEW pinned, KeyOK(c0, pinned)
  PROVE  LET res == ValidateCertChain(c0)
             d == res.ctx
         IN  /\ d \in Ctxs /\ d.state = c0.state /\ res.ok \in BOOLEAN
             /\ SameConf(c0, d) /\ SameAlgs(c0, d) /\ SameChain(c0, d)
             /\ SameTrans(c0, d) /\ Validated(c0, res, pinned)
<1> DEFINE c == DropCertKey(c0)
           w == TheWalk(c)
           leaf == w.at
           n == Len(c0.chain)
           res == ValidateCertChain(c0)
<1>1. /\ c \in Ctxs /\ c.state = c0.state
      /\ c.key = (IF c0.fromCert THEN None ELSE c0.key) /\ c.fromCert = FALSE
      /\ SameConf(c0, c) /\ SameAlgs(c0, c) /\ SameChain(c0, c) /\ SameTrans(c0, c)
  BY DropFacts, Zenon
<1>2. res = IF Len(c.chain) <= 1 \/ ~w.ok \/ {leaf.alg} # LeafAlg(c) THEN Failed(c)
            ELSE IF c.key # None
                 THEN IF c.pqcAsymSel = {} /\ leaf.key = c.key THEN Ok(c) ELSE Failed(c)
            ELSE IF c.trustedCA = NoCert /\ ~c.allow THEN Failed(c)
            ELSE Ok([c EXCEPT !.key = leaf.key, !.fromCert = TRUE])
  BY Zenon DEF ValidateCertChain, TheWalk
<1>3. /\ c.chain = c0.chain /\ c.trustedCA = c0.trustedCA /\ c.allow = c0.allow
      /\ c.pqcAsymSel = c0.pqcAsymSel
  BY <1>1 DEF SameConf, SameAlgs, SameChain
<1>4. LeafAlg(c) = LeafAlg(c0)
  BY <1>3 DEF LeafAlg
<1> HIDE DEF c, w, res
<1>5. (pinned # None => c.key = pinned) /\ (pinned = None => c.key = None)
  BY <1>1 DEF KeyOK
<1>6. KeyOK(c, pinned)
  BY <1>1, <1>5 DEF KeyOK
<1> DEFINE T == n > 1 /\ w.ok /\ {leaf.alg} = LeafAlg(c)
<1>7. n \in Nat /\ c0.chain \in Seq(Cells)
  BY DEF Ctxs
<1>8. n > 1 => /\ w.ok <=> ChainIssued(c0.trustedCA, c0.chain)
               /\ leaf = c0.chain[n]
  BY <1>1, <1>3, WalkDecides, WalkIsIssued, Zenon DEF w
<1>9. T <=> /\ n > 1 /\ ChainIssued(c0.trustedCA, c0.chain)
            /\ c0.chain[n].alg \in LeafAlg(c0)
  <2>1. {leaf.alg} = LeafAlg(c) <=> leaf.alg \in LeafAlg(c)
    BY <1>1, LeafAlgIs, Zenon
  <2> QED
    BY <1>4, <1>8, <2>1, Zenon
<1>10. T => (leaf.alg = "P384" <=> c.pqcAsymSel = {}) /\ leaf = c0.chain[n]
            /\ leaf.key \in Keys
  <2>1. T => leaf.alg \in LeafAlg(c) /\ leaf = c0.chain[n]
    BY <1>4, <1>8, <1>9, Zenon
  <2>2. T => leaf.key \in Keys
    <3>1. T => IsCert(c0.chain[n]) /\ c0.chain[n] \in Cells
      <4> HIDE DEF w
      <4> QED
        BY <1>7, <1>9 DEF ChainIssued
    <3> QED
      BY <2>1, <3>1, CellKinds
  <2> QED
    BY <1>1, <2>1, <2>2, LeafAlgIs, Zenon
<1> DEFINE V == Vouched(c0, c0.chain, pinned)
<1>11. V <=> T /\ IF pinned # None
                  THEN c0.chain[n].key = pinned /\ c0.chain[n].alg = "P384"
                  ELSE c0.trustedCA # NoCert \/ c0.allow
  BY <1>9, VouchedIs, Zenon
<1>12. Len(c.chain) <= 1 <=> ~(n > 1)
  BY <1>3, <1>7
<1>13. ASSUME res = Failed(c), ~V
       PROVE  /\ res.ctx = c /\ res.ok = FALSE
              /\ Validated(c0, res, pinned)
  <2>1. res.ctx = c /\ res.ok = FALSE
    BY <1>13 DEF Failed
  <2> QED
    BY <1>6, <1>13, <2>1 DEF Validated
<1>14. ASSUME res = Ok(c), V, pinned # None
       PROVE  /\ res.ctx = c /\ res.ok = TRUE
              /\ Validated(c0, res, pinned)
  <2>1. res.ctx = c /\ res.ok = TRUE
    BY <1>14 DEF Ok
  <2> QED
    BY <1>6, <1>14, <2>1 DEF Validated
<1> DEFINE d == [c EXCEPT !.key = leaf.key, !.fromCert = TRUE]
<1>15. CASE ~T
  <2>1. Len(c.chain) <= 1 \/ ~w.ok \/ {leaf.alg} # LeafAlg(c)
    BY <1>12, <1>15, Zenon
  <2>2. res = Failed(c)
    BY <1>2, <2>1, Zenon
  <2> QED
    BY <1>1, <1>11, <1>13, <1>15, <2>2 DEF res
<1>16. CASE T /\ pinned # None
  <2>1. c.key = pinned /\ c.key # None
    BY <1>5, <1>16
  <2>2. ~(Len(c.chain) <= 1 \/ ~w.ok \/ {leaf.alg} # LeafAlg(c))
    BY <1>12, <1>16, Zenon
  <2>3. res = IF c.pqcAsymSel = {} /\ leaf.key = c.key THEN Ok(c) ELSE Failed(c)
    BY <1>2, <2>1, <2>2, Zenon
  <2>4. V <=> c.pqcAsymSel = {} /\ leaf.key = c.key
    BY <1>10, <1>11, <1>16, <2>1, Zenon
  <2>5. CASE V
    BY <1>1, <1>14, <1>16, <2>3, <2>4, <2>5 DEF res
  <2>6. CASE ~V
    BY <1>1, <1>13, <2>3, <2>4, <2>6 DEF res
  <2> QED
    BY <2>5, <2>6
<1>17. CASE T /\ pinned = None
  <2>1. c.key = None
    BY <1>5, <1>17
  <2>2. ~(Len(c.chain) <= 1 \/ ~w.ok \/ {leaf.alg} # LeafAlg(c))
    BY <1>12, <1>17, Zenon
  <2>3. res = IF c.trustedCA = NoCert /\ ~c.allow THEN Failed(c) ELSE Ok(d)
    BY <1>2, <2>1, <2>2, Zenon
  <2>4. V <=> ~(c.trustedCA = NoCert /\ ~c.allow)
    BY <1>3, <1>11, <1>17, Zenon
  <2>5. CASE V
    <3>1. res = Ok(d)
      BY <2>3, <2>4, <2>5, Zenon
    <3>2. leaf.key \in Keys /\ leaf.key = c0.chain[n].key /\ leaf.key # None
      BY <1>10, <1>17 DEF Keys
    <3> HIDE DEF leaf
    <3>3. d \in Ctxs /\ d.key = leaf.key /\ d.fromCert = TRUE /\ d.state = c.state
      BY <1>1, <3>2 DEF Ctxs
    <3>4. SameConf(c, d) /\ SameAlgs(c, d) /\ SameChain(c, d) /\ SameTrans(c, d)
      BY <1>1, <3>2 DEF Ctxs, SameConf, SameAlgs, SameChain, SameTrans
    <3> HIDE DEF d
    <3>5. SameConf(c0, d) /\ SameAlgs(c0, d) /\ SameChain(c0, d) /\ SameTrans(c0, d)
      BY <1>1, <3>4 DEF SameConf, SameAlgs, SameChain, SameTrans
    <3>6. res.ctx = d /\ res.ok = TRUE
      BY <3>1 DEF Ok
    <3>7. KeyOK(d, pinned)
      BY <1>17, <3>2, <3>3 DEF KeyOK
    <3>8. Validated(c0, res, pinned)
      BY <2>5, <3>2, <3>3, <3>6, <3>7 DEF Validated
    <3> QED
      BY <1>1, <3>3, <3>5, <3>6, <3>8 DEF res
  <2>6. CASE ~V
    <3>1. res = Failed(c)
      BY <2>3, <2>4, <2>6, Zenon
    <3> QED
      BY <1>1, <1>13, <2>6, <3>1 DEF res
  <2> QED
    BY <2>5, <2>6
<1> QED
  BY <1>15, <1>16, <1>17

-----------------------------------------------------------------------------
(* Steps that leave the fetch alone and do not reach FINISH *)

\* A transcript that continues another.
Continues(c, d) ==
  Len(d.trans) >= Len(c.trans) /\ \A i \in 1 .. Len(c.trans) : d.trans[i] = c.trans[i]

\* With it the version stays the best of the VERSION message.
LEMMA VersionKept ==
  ASSUME NEW c \in Ctxs, NEW d \in Ctxs, VersionOK(c), Continues(c, d),
         d.version = c.version, d.maxVersion = c.maxVersion
  PROVE  VersionOK(d)
<1>1. c.trans \in Seq(Msgs) /\ d.trans \in Seq(Msgs)
  BY DEF Ctxs
<1>2. Len(d.trans) >= 2 /\ d.trans[2] = c.trans[2]
  BY <1>1 DEF VersionOK, Continues
<1>3. CommonVersions(d, d.trans[2]) = CommonVersions(c, c.trans[2])
  BY <1>2 DEF CommonVersions
<1> QED
  BY <1>2, <1>3 DEF VersionOK

\* The parts of the invariant, of the next state.
LEMMA QuietStep ==
  ASSUME ~fetch'.on, fetch' \in Fetches, kexes' \in Nat,
         pin' \in Pins \union {None},
         ctx' \in Ctxs, pc' \in PCs, FinishPart', rs' \in Responders,
         rsps' \in SUBSET Replies, KeyOK(ctx', pin'), Len(ctx'.chain) <= MaxChain,
         pc' = "GET_VERSION" => ctx'.trans = <<>>,
         pc' \notin {"IDLE", "GET_VERSION"} => VersionOK(ctx'),
         VcaOK(rs'), SessOK(rs', kexes'), \A r \in rsps' : ReplyOK(r, kexes'),
         NoHalf(ctx'.trans)
  PROVE  IInv'
<1>2. Typed'
  BY DEF Typed
<1>3. KeyPart' /\ VersionPart' /\ VcaPart' /\ SessPart' /\ RspsPart'
  BY DEF KeyPart, VersionPart, VcaPart, SessPart, RspsPart
<1>4. FetchPart'
  BY DEF FetchPart
<1>5. NoHalfMessage'
  <2>1. ctx'.trans \in Seq(Msgs)
    BY DEF Ctxs
  <2> QED
    BY <2>1, NoHalfIs DEF NoHalfMessage
<1> QED
  BY <1>2, <1>3, <1>4, <1>5 DEF IInv

\* What the invariant says of the transcript.
LEMMA NoHalfNow ==
  ASSUME IInv
  PROVE  NoHalf(ctx.trans) /\ ctx.trans \in Seq(Msgs)
<1>1. ctx.trans \in Seq(Msgs)
  BY DEF IInv, Typed, Ctxs
<1> QED
  BY <1>1, NoHalfIs DEF IInv, NoHalfMessage

\* An exchange before KEY_EXCHANGE leaves only replies that have nothing to do
\* with a key exchange under way.
LEMMA EarlyExchange ==
  ASSUME IInv, NEW g \in Replies \union {ERROR},
         g.t \notin {"KEY_EXCHANGE_RSP", "FINISH_RSP"}, NEW o, NEW after,
         Transport(o, g, after),
         after \in Responders, VcaOK(after), SessOK(after, kexes)
  PROVE  /\ rs' \in Responders /\ VcaOK(rs') /\ SessOK(rs', kexes)
         /\ rsps' \in SUBSET Replies /\ \A r \in rsps' : ReplyOK(r, kexes)
<1>1. rs \in Responders /\ VcaOK(rs) /\ SessOK(rs, kexes) /\ rsps \in SUBSET Replies
      /\ \A r \in rsps : ReplyOK(r, kexes)
  BY DEF IInv, Typed, VcaPart, SessPart, RspsPart
<1>2. /\ rsps' \in SUBSET Replies
      /\ \A r \in rsps' : r \in rsps \/ (r = g /\ o.reached /\ g # ERROR)
      /\ rs' = rs \/ (o.reached /\ rs' = after)
  BY <1>1, TransportFacts
<1>3. ReplyOK(g, kexes)
  BY DEF ReplyOK
<1> QED
  BY <1>1, <1>2, <1>3

\* The result of a step of Connect or of the application.
LEMMA StepTaken ==
  ASSUME NEW step \in PCs, step # "IDLE", At(step)
  PROVE  ~fetch.on /\ pc \in {"IDLE", step}
  BY DEF At

\* The step after a step is one.
LEMMA AfterPCs ==
  ASSUME NEW step \in PCs, step # "IDLE"
  PROVE  /\ AfterStep(step) \in PCs
         /\ step # "KEY_EXCHANGE" => AfterStep(step) # "FINISH"
         /\ AfterStep(step) # "GET_VERSION"
  BY AfterStepIs DEF PCs

\* The initial states.
LEMMA InitIInv == ASSUME Init PROVE IInv
<1> USE DEF Init
<1>1. ctx \in Ctxs
  BY DEF Ctxs, States, Versions, MIN_SPDM_VERSION, MAX_SPDM_VERSION, AtMostOne,
         Dts, Slots, Keys
<1>2. pc \in PCs /\ fetch \in Fetches /\ rsps \in SUBSET Replies /\ kexes \in Nat
      /\ pin \in Pins \union {None} /\ ~fetch.on
  BY DEF PCs, Fetches, NoFetch
<1>3. PICK w \in Worlds : \E chains \in w.slots :
        rs = [world |-> w, vca |-> <<>>, chains |-> chains, sess |-> <<>>]
  OBVIOUS
<1>4. PICK chains \in w.slots :
        rs = [world |-> w, vca |-> <<>>, chains |-> chains, sess |-> <<>>]
  BY <1>3
<1>5. chains \in [{1, 2} -> StoredChains]
  <2>1. chains \in StoredChains \X StoredChains
    BY <1>4, WorldsAssumption
  <2> QED
    BY <2>1
<1>6. rs \in Responders /\ rs.vca = <<>> /\ rs.sess = <<>>
  BY <1>4, <1>5 DEF Responders
<1>7. Typed
  BY <1>1, <1>2, <1>6 DEF Typed
<1>8. KeyPart
  BY DEF KeyPart, KeyOK
<1>9. FetchPart
  BY <1>2, StandardAssumption DEF FetchPart
<1>10. VersionPart /\ VcaPart /\ SessPart /\ RspsPart /\ FinishPart
  BY <1>6 DEF VersionPart, VcaPart, VcaOK, SessPart, SessOK, RspsPart, FinishPart
<1>11. NoHalfMessage
  BY DEF NoHalfMessage
<1> QED
  BY <1>7, <1>8, <1>9, <1>10, <1>11 DEF IInv

\* Nothing happens.
LEMMA StutterIInv == ASSUME IInv, UNCHANGED vars PROVE IInv'
  BY DEF vars, IInv, Typed, KeyPart, FetchPart, ChainIn, VersionPart, VcaPart,
         SessPart, RspsPart, FinishPart, NoHalfMessage

\* A configuration call.
LEMMA ConfigureIInv ==
  ASSUME IInv, NEW call, NEW c \in Ctxs, Configure(call, c),
         pin' \in Pins \union {None}, KeyOK(c, pin'), c.chain = ctx.chain,
         c.trans = ctx.trans
  PROVE  IInv'
<1>1. /\ pc' = "IDLE" /\ ~fetch.on /\ fetch' = fetch /\ ctx' = c
      /\ rs' = rs /\ rsps' = rsps /\ kexes' = kexes
  BY DEF Configure
<1>2. /\ fetch \in Fetches /\ rs \in Responders /\ rsps \in SUBSET Replies
      /\ VcaOK(rs) /\ SessOK(rs, kexes) /\ (\A r \in rsps : ReplyOK(r, kexes))
      /\ Len(ctx.chain) <= MaxChain /\ "IDLE" \in PCs /\ kexes \in Nat
  BY DEF IInv, Typed, VcaPart, SessPart, RspsPart, FetchPart, PCs
<1>3. NoHalf(ctx.trans) /\ FinishPart'
  BY <1>1, NoHalfNow DEF FinishPart
<1> QED
  BY <1>1, <1>2, <1>3, QuietStep

\* wolfSPDM_SetTrustedCAs and the other calls.
LEMMA ConfigIInv ==
  ASSUME IInv,
         \/ SetTrustedCAs \/ AllowUntrustedCerts \/ SetResponderPubKey
         \/ SetMaxVersion \/ SetKeyExchangePref
  PROVE  IInv'
<1>1. ctx \in Ctxs /\ pin \in Pins \union {None} /\ KeyOK(ctx, pin)
  BY DEF IInv, Typed, KeyPart
<1>2. CASE SetTrustedCAs
  <2>1. PICK root \in Roots :
          Configure("TRUST", [ctx EXCEPT !.trustedCA = root]) /\ UNCHANGED pin
    BY <1>2 DEF SetTrustedCAs
  <2> DEFINE c == [ctx EXCEPT !.trustedCA = root]
  <2>2. root \in Certs
    BY WorldsAssumption
  <2>3. c \in Ctxs /\ c.chain = ctx.chain /\ c.trans = ctx.trans /\ KeyOK(c, pin)
    BY <1>1, <2>2 DEF Ctxs, KeyOK
  <2> HIDE DEF c
  <2> QED
    BY <1>1, <2>1, <2>3, ConfigureIInv DEF c
<1>3. CASE AllowUntrustedCerts
  <2>1. PICK b \in BOOLEAN :
          Configure("ALLOW", [ctx EXCEPT !.allow = b]) /\ UNCHANGED pin
    BY <1>3 DEF AllowUntrustedCerts
  <2> DEFINE c == [ctx EXCEPT !.allow = b]
  <2>3. c \in Ctxs /\ c.chain = ctx.chain /\ c.trans = ctx.trans /\ KeyOK(c, pin)
    BY <1>1 DEF Ctxs, KeyOK
  <2> HIDE DEF c
  <2> QED
    BY <1>1, <2>1, <2>3, ConfigureIInv DEF c
<1>4. CASE SetResponderPubKey
  <2>1. PICK key \in Pins :
          /\ Configure("PIN", [ctx EXCEPT !.key = key, !.fromCert = FALSE])
          /\ pin' = key
    BY <1>4 DEF SetResponderPubKey
  <2> DEFINE c == [ctx EXCEPT !.key = key, !.fromCert = FALSE]
  <2>2. key \in Keys
    BY WorldsAssumption
  <2>3. c \in Ctxs /\ c.chain = ctx.chain /\ c.trans = ctx.trans /\ KeyOK(c, key)
    BY <1>1, <2>2 DEF Ctxs, KeyOK, Keys
  <2> HIDE DEF c
  <2> QED
    BY <2>1, <2>3, ConfigureIInv DEF c
<1>5. CASE SetMaxVersion
  <2>1. PICK v \in {0} \union Versions :
          Configure("MAX", [ctx EXCEPT !.maxVersion = v]) /\ UNCHANGED pin
    BY <1>5 DEF SetMaxVersion, Versions
  <2> DEFINE c == [ctx EXCEPT !.maxVersion = v]
  <2>3. c \in Ctxs /\ c.chain = ctx.chain /\ c.trans = ctx.trans /\ KeyOK(c, pin)
    BY <1>1 DEF Ctxs, KeyOK
  <2> HIDE DEF c
  <2> QED
    BY <1>1, <2>1, <2>3, ConfigureIInv DEF c
<1>6. CASE SetKeyExchangePref
  <2>1. PICK dhe \in BOOLEAN, kem \in {{}, {"ML_KEM_768"}, MLKEM_SETS} :
          /\ Configure("PREF", [ctx EXCEPT !.kexAdvDhe = dhe, !.kexAdvKem = kem])
          /\ UNCHANGED pin
    BY <1>6 DEF SetKeyExchangePref
  <2> DEFINE c == [ctx EXCEPT !.kexAdvDhe = dhe, !.kexAdvKem = kem]
  <2>2. kem \in SUBSET MLKEM_SETS
    BY DEF MLKEM_SETS
  <2>3. c \in Ctxs /\ c.chain = ctx.chain /\ c.trans = ctx.trans /\ KeyOK(c, pin)
    BY <1>1, <2>2 DEF Ctxs, KeyOK
  <2> HIDE DEF c
  <2> QED
    BY <1>1, <2>1, <2>3, ConfigureIInv DEF c
<1> QED
  BY <1>2, <1>3, <1>4, <1>5, <1>6

\* The responder is given another chain: a fetch under way is disturbed.
LEMMA ReprovisionIInv ==
  ASSUME IInv, Reprovision
  PROVE  IInv'
<1>1. PICK s \in Slots, ch \in rs.world.chains : rs' = [rs EXCEPT !.chains[s + 1] = ch]
  BY DEF Reprovision
<1>2. /\ fetch' = [fetch EXCEPT !.clean = FALSE]
      /\ ctx' = ctx /\ pc' = pc /\ rsps' = rsps /\ kexes' = kexes /\ pin' = pin
  BY DEF Reprovision
<1>3. Typed
  BY DEF IInv
<1>4. rs' \in Responders /\ rs'.vca = rs.vca /\ rs'.sess = rs.sess
  <2>1. s + 1 \in {1, 2} /\ rs \in Responders
    BY <1>3 DEF Slots, Typed
  <2>2. ch \in StoredChains
    BY <1>1, <2>1, WorldsAssumption DEF Responders
  <2> QED
    BY <1>1, <2>1, <2>2 DEF Responders
<1>5. /\ fetch' \in Fetches /\ fetch'.on = fetch.on /\ fetch'.offset = fetch.offset
      /\ fetch'.clean = FALSE
  BY <1>2, <1>3 DEF Typed, Fetches
<1>6. Typed'
  BY <1>2, <1>3, <1>4, <1>5 DEF Typed
<1>7. FetchPart'
  BY <1>2, <1>5 DEF IInv, FetchPart
<1>8. KeyPart' /\ VersionPart' /\ NoHalfMessage'
  BY <1>2 DEF IInv, KeyPart, VersionPart, NoHalfMessage
<1>9. VcaPart' /\ SessPart' /\ RspsPart' /\ FinishPart'
  BY <1>2, <1>4 DEF IInv, VcaPart, VcaOK, SessPart, SessOK, RspsPart, FinishPart
<1> QED
  BY <1>6, <1>7, <1>8, <1>9 DEF IInv

\* What the steps start from.
LEMMA Before1 ==
  ASSUME IInv
  PROVE  /\ ctx \in Ctxs /\ pc \in PCs /\ fetch \in Fetches /\ rs \in Responders
         /\ rsps \in SUBSET Replies /\ kexes \in Nat /\ pin \in Pins \union {None}
         /\ KeyOK(ctx, pin) /\ Len(ctx.chain) <= MaxChain
         /\ VcaOK(rs) /\ SessOK(rs, kexes) /\ (\A r \in rsps : ReplyOK(r, kexes))
         /\ pc = "GET_VERSION" => ctx.trans = <<>>
         /\ pc \notin {"IDLE", "GET_VERSION"} => VersionOK(ctx)
         /\ NoHalf(ctx.trans) /\ ctx.trans \in Seq(Msgs)
  BY NoHalfNow DEF IInv, Typed, KeyPart, FetchPart, VcaPart, SessPart, RspsPart,
                   VersionPart

\* wolfSPDM_Connect starts afresh.
LEMMA ConnectIInv ==
  ASSUME IInv, Connect
  PROVE  IInv' /\ Quiet
<1> DEFINE c == DropCertKey(ctx)
<1>1. /\ pc' = "GET_VERSION" /\ ~fetch.on /\ fetch' = fetch /\ rs' = rs /\ rsps' = rsps
      /\ kexes' = kexes /\ pin' = pin
      /\ ctx' = [c EXCEPT !.state = "INIT", !.dts = 0, !.th1 = <<>>, !.trans = <<>>]
  BY DEF Connect
<1>2. /\ c \in Ctxs /\ c.key = (IF ctx.fromCert THEN None ELSE ctx.key)
      /\ c.fromCert = FALSE /\ SameChain(ctx, c)
  BY Before1, DropFacts, Zenon
<1> HIDE DEF c
<1>3. /\ ctx' \in Ctxs /\ ctx'.trans = <<>> /\ ctx'.chain = c.chain /\ ctx'.key = c.key
      /\ ctx'.fromCert = FALSE
  <2>1. "INIT" \in States /\ 0 \in Dts /\ <<>> \in Seq(Msgs)
    BY DEF States, Dts
  <2>2. ctx' \in Ctxs
    BY <1>1, <1>2, <2>1 DEF Ctxs
  <2>3. c.fromCert = FALSE /\ ctx'.trans = <<>> /\ ctx'.chain = c.chain
        /\ ctx'.key = c.key /\ ctx'.fromCert = c.fromCert
    BY <1>1, <1>2 DEF Ctxs
  <2> QED
    BY <2>2, <2>3
<1>4. KeyOK(ctx', pin) /\ ctx'.chain = ctx.chain
  BY <1>2, <1>3, Before1 DEF KeyOK, SameChain
<1>5. NoHalf(ctx'.trans) /\ "GET_VERSION" \in PCs /\ FinishPart'
  BY <1>1, <1>3 DEF NoHalf, PCs, FinishPart
<1>6. IInv'
  BY <1>1, <1>3, <1>4, <1>5, Before1, QuietStep
<1>7. ctx'.th1 = <<>> /\ ctx'.state = "INIT"
  BY <1>1, <1>2 DEF Ctxs
<1> QED
  BY <1>6, <1>7 DEF Quiet

\* wolfSPDM_GetVersion: the version becomes the best of the message.
LEMMA GetVersionIInv ==
  ASSUME IInv, GetVersion
  PROVE  IInv' /\ Quiet
<1>1. PICK g \in rs.world.versions : \E o \in Outcomes(g) :
        LET r == o.reply
            v == IF r.t = "VERSION" THEN ParseVersion(ctx, r) ELSE 0
            c == IF v = 0 THEN ctx
                 ELSE [ctx EXCEPT !.version = v, !.state = "VERSION"]
        IN  /\ Transport(o, g, [rs EXCEPT !.vca = <<GET_VERSION, g>>, !.sess = <<>>])
            /\ Return("GET_VERSION", ExchangeMsg(ctx, c, v # 0, GET_VERSION, r))
  BY Zenon DEF GetVersion
<1>2. PICK o \in Outcomes(g) :
        LET r == o.reply
            v == IF r.t = "VERSION" THEN ParseVersion(ctx, r) ELSE 0
            c == IF v = 0 THEN ctx
                 ELSE [ctx EXCEPT !.version = v, !.state = "VERSION"]
        IN  /\ Transport(o, g, [rs EXCEPT !.vca = <<GET_VERSION, g>>, !.sess = <<>>])
            /\ Return("GET_VERSION", ExchangeMsg(ctx, c, v # 0, GET_VERSION, r))
  BY <1>1
<1> DEFINE r == o.reply
           v == IF r.t = "VERSION" THEN ParseVersion(ctx, r) ELSE 0
           c == IF v = 0 THEN ctx
                ELSE [ctx EXCEPT !.version = v, !.state = "VERSION"]
           after == [rs EXCEPT !.vca = <<GET_VERSION, g>>, !.sess = <<>>]
           ok == v # 0
           res == ExchangeMsg(ctx, c, ok, GET_VERSION, r)
<1>3. Transport(o, g, after) /\ Return("GET_VERSION", res)
  BY <1>2, Zenon
<1>4. ~fetch.on /\ pc \in {"IDLE", "GET_VERSION"} /\ fetch' = fetch /\ kexes' = kexes
      /\ pin' = pin
  BY DEF GetVersion, At
<1>5. g \in VersionMsgs /\ g \in Msgs /\ g \in Replies /\ g.t = "VERSION"
  <2>1. g \in VersionMsgs
    BY Before1, WorldsAssumption DEF Responders
  <2>2. g.t = "VERSION"
    BY <2>1 DEF VersionMsgs
  <2> QED
    BY <2>1, <2>2, MsgKinds, Zenon DEF Replies
<1>6. r \in Replies \union {LOST, ERROR}
  BY <1>5, Before1, OutcomeFacts
<1>7. r.t = "VERSION" => r \in VersionMsgs /\ r \in Msgs
  BY <1>6, ReplyKinds, MsgKinds
<1>8. v \in {0} \union Versions
      /\ (v # 0 => r.t = "VERSION" /\ v = Max({0} \union CommonVersions(ctx, r)))
  <2>1. CASE r.t = "VERSION"
    <3>1. ctx.maxVersion \in {0} \union MIN_SPDM_VERSION .. MAX_SPDM_VERSION
      BY Before1 DEF Ctxs, Versions
    <3>2. v = ParseVersion(ctx, r)
      BY <2>1
    <3> QED
      BY <1>7, <2>1, <3>1, <3>2, ParseVersionSelectsBest, Zenon DEF Versions
  <2>2. CASE r.t # "VERSION"
    BY <2>2
  <2> QED
    BY <2>1, <2>2
<1> HIDE DEF v, r
<1>9. /\ c \in Ctxs /\ SameTrans(ctx, c) /\ SameConf(ctx, c) /\ SameChain(ctx, c)
      /\ SameKey(ctx, c) /\ (ok => c.version = v) /\ c.state \in {ctx.state, "VERSION"}
  <2>1. ctx \in Ctxs
    BY Before1
  <2>2. CASE v = 0
    BY <2>1, <2>2 DEF SameTrans, SameConf, SameChain, SameKey
  <2>3. CASE v # 0
    <3>1. c = [ctx EXCEPT !.version = v, !.state = "VERSION"] /\ v \in Versions
      BY <1>8, <2>3
    <3> HIDE DEF c
    <3>2. c \in Ctxs /\ c.version = v /\ c.state = "VERSION"
      BY <2>1, <3>1 DEF Ctxs, States
    <3> QED
      BY <2>1, <3>1, <3>2 DEF Ctxs, SameTrans, SameConf, SameChain, SameKey
  <2> QED
    BY <2>2, <2>3
<1>10. GET_VERSION \in Msgs /\ GET_VERSION.t = "GET_VERSION"
  BY MsgKinds DEF GET_VERSION
<1> HIDE DEF c
<1>11. ok \in BOOLEAN
       /\ (ok => r \in Msgs /\ Pair(GET_VERSION, r))
  BY <1>7, <1>8, <1>10 DEF Pair
<1> HIDE DEF ok
<1> DEFINE d == res.ctx
<1>12. /\ d \in Ctxs /\ d.th1 = ctx.th1 /\ d.state = c.state /\ NoHalf(d.trans)
       /\ d.trans = (IF ok THEN ctx.trans \o <<GET_VERSION, r>> ELSE ctx.trans)
       /\ res.ok = ok
       /\ SameConf(c, d) /\ SameAlgs(c, d) /\ SameChain(c, d) /\ SameKey(c, d)
  <2>1. Exchanged(ctx, c, ok, GET_VERSION, r, res)
    BY <1>9, <1>10, <1>11, Before1, ExchangeMsgFacts, Zenon
  <2> HIDE DEF res
  <2> QED
    BY <2>1, Zenon DEF Exchanged
<1> HIDE DEF res
<1>13. /\ ctx' \in Ctxs /\ Same(d, ctx')
       /\ pc' = "IDLE" \/ (res.ok /\ pc # "IDLE" /\ pc' = AfterStep("GET_VERSION"))
  BY <1>3, <1>12, Before1, ReturnFacts, Zenon
<1>14. pc' \in PCs /\ pc' # "FINISH" /\ pc' # "GET_VERSION"
  BY <1>13, AfterPCs DEF PCs
<1> HIDE DEF d
<1>15. /\ ctx'.trans = d.trans /\ ctx'.chain = ctx.chain /\ ctx'.maxVersion = ctx.maxVersion
       /\ ctx'.key = ctx.key /\ ctx'.fromCert = ctx.fromCert /\ (ok => ctx'.version = v)
  BY <1>9, <1>12, <1>13
  DEF Same, SameConf, SameAlgs, SameChain, SameKey, SameTrans
<1>16. pc' # "IDLE" => VersionOK(ctx')
  <2> SUFFICES ASSUME pc' # "IDLE" PROVE VersionOK(ctx')
    OBVIOUS
  <2>1. ok /\ pc = "GET_VERSION"
    BY <1>4, <1>12, <1>13
  <2>2. ctx.trans = <<>>
    BY <2>1, Before1
  <2>3. ctx'.trans = <<GET_VERSION, r>>
    BY <1>12, <1>15, <2>1, <2>2
  <2>4. Len(ctx'.trans) = 2 /\ ctx'.trans[2] = r
    BY <2>3
  <2>5. r \in VersionMsgs /\ ctx'.version = Max({0} \union CommonVersions(ctx, r))
    BY <1>7, <1>8, <1>15, <2>1 DEF ok
  <2>6. CommonVersions(ctx', r) = CommonVersions(ctx, r)
    BY <1>15 DEF CommonVersions
  <2> QED
    BY <2>4, <2>5, <2>6 DEF VersionOK
<1>17. after \in Responders /\ VcaOK(after) /\ SessOK(after, kexes)
  <2>1. rs \in Responders /\ <<GET_VERSION, g>> \in Seq(Msgs)
    BY <1>5, <1>10, Before1
  <2> DEFINE vca == <<GET_VERSION, g>>
  <2>2. after \in Responders /\ after.vca = vca /\ after.sess = <<>>
    BY <2>1, SetVca, Zenon DEF VcaSet
  <2> HIDE DEF after
  <2>3. VcaOK(after)
    <3>1. Len(after.vca) = 2 /\ after.vca[1] = GET_VERSION /\ after.vca[2] = g
      BY <2>2
    <3>2. TheHandshake[1] = "GET_VERSION" /\ TheHandshake[2] = "VERSION"
      BY DEF TheHandshake
    <3>3. \A i \in 1 .. 2 : i = 1 \/ i = 2
      OBVIOUS
    <3> QED
      BY <1>5, <1>10, <3>1, <3>2, <3>3 DEF VcaOK
  <2> QED
    BY <2>2, <2>3 DEF SessOK
<1> HIDE DEF after
<1>18. /\ rs' \in Responders /\ VcaOK(rs') /\ SessOK(rs', kexes)
       /\ rsps' \in SUBSET Replies /\ \A x \in rsps' : ReplyOK(x, kexes)
  BY <1>3, <1>5, <1>17, EarlyExchange
<1>19. KeyOK(ctx', pin) /\ Len(ctx'.chain) <= MaxChain /\ NoHalf(ctx'.trans)
       /\ FinishPart'
  BY <1>12, <1>14, <1>15, Before1 DEF KeyOK, FinishPart
<1>20. IInv'
  BY <1>4, <1>13, <1>14, <1>16, <1>18, <1>19, Before1, QuietStep
<1>21. Quiet
  <2>1. res.ctx \in Ctxs /\ res.ctx.th1 = ctx.th1
        /\ res.ctx.state \in {ctx.state, "VERSION", "CERT"}
    BY <1>9, <1>12 DEF d
  <2> QED
    BY <1>3, <2>1, Before1, ReturnQuiet
<1> QED
  BY <1>20, <1>21

\* What Continues holds of.
LEMMA ContinuesFacts ==
  ASSUME NEW c \in Ctxs, NEW d
  PROVE  /\ d.trans = c.trans => Continues(c, d)
         /\ \A m \in Msgs : d.trans = Append(c.trans, m) => Continues(c, d)
         /\ \A a \in Msgs, b \in Msgs : d.trans = c.trans \o <<a, b>> => Continues(c, d)
<1>1. c.trans \in Seq(Msgs) /\ Len(c.trans) \in Nat
  BY DEF Ctxs
<1>2. d.trans = c.trans => Continues(c, d)
  BY <1>1 DEF Continues
<1>3. ASSUME NEW m \in Msgs, d.trans = Append(c.trans, m)
      PROVE  Continues(c, d)
  BY <1>1, <1>3 DEF Continues
<1>4. ASSUME NEW a \in Msgs, NEW b \in Msgs, d.trans = c.trans \o <<a, b>>
      PROVE  Continues(c, d)
  <2>1. Len(d.trans) = Len(c.trans) + 2
        /\ \A i \in 1 .. Len(c.trans) : d.trans[i] = c.trans[i]
    BY <1>1, <1>4
  <2> QED
    BY <1>1, <2>1 DEF Continues
<1> QED
  BY <1>2, <1>3, <1>4

\* A step after GET_VERSION that leaves the version, keeps the key in order
\* and only adds whole messages.
StepOK(d) ==
  /\ d \in Ctxs /\ Continues(ctx, d) /\ NoHalf(d.trans)
  /\ d.version = ctx.version /\ d.maxVersion = ctx.maxVersion
  /\ KeyOK(d, pin) /\ Len(d.chain) <= MaxChain
PeerOK ==
  /\ rs' \in Responders /\ VcaOK(rs') /\ SessOK(rs', kexes')
  /\ rsps' \in SUBSET Replies /\ \A x \in rsps' : ReplyOK(x, kexes')

\* Such a step preserves the invariant.
LEMMA StepIInv ==
  ASSUME IInv, NEW step \in PCs, step \notin {"IDLE", "GET_VERSION"},
         pc \in {"IDLE", step}, NEW res, Return(step, res), StepOK(res.ctx),
         pc = "KEY_EXCHANGE" /\ res.ok => FinishPart', PeerOK,
         fetch' \in Fetches, ~fetch'.on, kexes' \in Nat, pin' = pin
  PROVE  IInv'
<1> DEFINE d == res.ctx
<1>1. d \in Ctxs
  BY DEF StepOK
<1>2. /\ ctx' \in Ctxs /\ Same(d, ctx')
      /\ pc' = "IDLE" \/ (res.ok /\ pc # "IDLE" /\ pc' = AfterStep(step))
  BY <1>1, Before1, ReturnFacts, Zenon
<1>3. pc' \in PCs /\ (pc' = "FINISH" => pc = "KEY_EXCHANGE" /\ res.ok)
      /\ pc' # "GET_VERSION"
  BY <1>2, AfterPCs DEF PCs
<1>7. FinishPart'
  BY <1>3 DEF FinishPart
<1> HIDE DEF d
<1>4. /\ Continues(ctx, d) /\ NoHalf(d.trans) /\ KeyOK(d, pin)
      /\ Len(d.chain) <= MaxChain
      /\ d.version = ctx.version /\ d.maxVersion = ctx.maxVersion
  BY DEF StepOK, d
<1>5. /\ Continues(ctx, ctx') /\ NoHalf(ctx'.trans) /\ KeyOK(ctx', pin)
      /\ Len(ctx'.chain) <= MaxChain
      /\ ctx'.version = ctx.version /\ ctx'.maxVersion = ctx.maxVersion
  BY <1>2, <1>4
  DEF Same, SameConf, SameAlgs, SameChain, SameKey, SameTrans, Continues, KeyOK
<1>6. pc' # "IDLE" => VersionOK(ctx')
  <2> SUFFICES ASSUME pc' # "IDLE" PROVE VersionOK(ctx')
    OBVIOUS
  <2>1. pc = step
    BY <1>2
  <2>2. VersionOK(ctx)
    BY <2>1, Before1
  <2> QED
    BY <1>2, <1>5, <2>2, Before1, VersionKept
<1> QED
  BY <1>2, <1>3, <1>5, <1>6, <1>7, Before1, QuietStep DEF PeerOK

\* The peers when nothing is exchanged.
LEMMA QuietPeer ==
  ASSUME IInv, rs' = rs, rsps' = rsps, kexes' = kexes
  PROVE  PeerOK
  BY Before1 DEF PeerOK

\* The responder's VCA with the next exchange.
LEMMA WithVcaFacts ==
  ASSUME IInv, NEW n \in {2, 4}, Len(rs.vca) >= n, NEW req \in Msgs, NEW g \in Msgs,
         req.t = TheHandshake[n + 1], g.t = TheHandshake[n + 2]
  PROVE  WithVca(n, req, g) \in Responders /\ VcaOK(WithVca(n, req, g))
         /\ SessOK(WithVca(n, req, g), kexes)
<1> DEFINE q == SubSeq(rs.vca, 1, n) \o <<req, g>>
           after == WithVca(n, req, g)
<1>1. rs \in Responders /\ rs.vca \in Seq(Msgs) /\ VcaOK(rs)
  BY Before1 DEF Responders
<1>2. q \in Seq(Msgs) /\ Len(q) = n + 2 /\ q[n + 1] = req /\ q[n + 2] = g
      /\ \A i \in 1 .. n : q[i] = rs.vca[i]
  <2>1. SubSeq(rs.vca, 1, n) \in Seq(Msgs) /\ Len(SubSeq(rs.vca, 1, n)) = n
        /\ \A i \in 1 .. n : SubSeq(rs.vca, 1, n)[i] = rs.vca[i]
    BY <1>1
  <2> DEFINE p == SubSeq(rs.vca, 1, n)
  <2> HIDE DEF p
  <2>2. p \in Seq(Msgs) /\ Len(p) = n /\ \A i \in 1 .. n : p[i] = rs.vca[i]
    BY <2>1 DEF p
  <2>3. q = p \o <<req, g>>
    BY DEF p
  <2> QED
    BY <2>2, <2>3
<1>3. after = [rs EXCEPT !.vca = q, !.sess = <<>>]
  BY DEF WithVca
<1> HIDE DEF q, after
<1>4. after \in Responders /\ after.vca = q /\ after.sess = <<>>
  BY <1>1, <1>2, <1>3, SetVca DEF VcaSet
<1>5. VcaOK(after)
  <2>1. Len(after.vca) \in {0, 2, 4, 6}
    BY <1>2, <1>4
  <2>2. ASSUME NEW i \in 1 .. n + 2
        PROVE  q[i].t = TheHandshake[i]
    <3>1. i \in 1 .. n \/ i = n + 1 \/ i = n + 2
      OBVIOUS
    <3>2. i \in 1 .. n => rs.vca[i].t = TheHandshake[i]
      BY <1>1 DEF VcaOK
    <3> QED
      BY <1>2, <3>1, <3>2
  <2> QED
    BY <1>2, <1>4, <2>1, <2>2 DEF VcaOK
<1> QED
  BY <1>4, <1>5 DEF SessOK, after

\* An exchange of the VCA part after GET_VERSION.
LEMMA VcaStepIInv ==
  ASSUME IInv, NEW step \in {"GET_CAPABILITIES", "NEGOTIATE_ALGORITHMS"}, At(step),
         NEW g, NEW o, NEW after, NEW c, NEW ok \in BOOLEAN, NEW req \in Msgs,
         g = ERROR \/ (g \in Replies /\ g.t \in {"CAPABILITIES", "ALGORITHMS"}),
         Transport(o, g, after),
         after \in Responders, VcaOK(after), SessOK(after, kexes),
         c \in Ctxs, SameTrans(ctx, c), SameConf(ctx, c), SameChain(ctx, c),
         SameKey(ctx, c), c.version = ctx.version, c.state = ctx.state,
         ok => o.reply \in Msgs /\ Pair(req, o.reply),
         Return(step, ExchangeMsg(ctx, c, ok, req, o.reply)),
         fetch' = fetch, kexes' = kexes, pin' = pin
  PROVE  IInv' /\ Quiet
<1> DEFINE r == o.reply
           res == ExchangeMsg(ctx, c, ok, req, r)
           d == res.ctx
<1>1. Exchanged(ctx, c, ok, req, r, res)
  BY Before1, ExchangeMsgFacts, Zenon
<1>2. Return(step, res)
  OBVIOUS
<1> HIDE DEF res, r
<1>3. /\ d \in Ctxs /\ NoHalf(d.trans)
      /\ d.trans = (IF ok THEN ctx.trans \o <<req, r>> ELSE ctx.trans)
      /\ SameConf(c, d) /\ SameAlgs(c, d) /\ SameChain(c, d) /\ SameKey(c, d)
  BY <1>1, Zenon DEF Exchanged
<1>9. d.th1 = ctx.th1 /\ d.state = ctx.state
  BY <1>1, Zenon DEF Exchanged
<1> HIDE DEF d
<1>4. /\ d.version = ctx.version /\ d.maxVersion = ctx.maxVersion /\ d.chain = ctx.chain
      /\ KeyOK(d, pin)
  BY <1>3, Before1 DEF SameConf, SameAlgs, SameChain, SameKey, KeyOK
<1>5. Continues(ctx, d)
  <2>1. CASE ok
    <3>1. r \in Msgs /\ d.trans = ctx.trans \o <<req, r>>
      BY <1>3, <2>1 DEF r
    <3> QED
      BY <3>1, Before1, ContinuesFacts, Zenon
  <2>2. CASE ~ok
    BY <1>3, <2>2, Before1, ContinuesFacts, Zenon
  <2> QED
    BY <2>1, <2>2
<1>6. StepOK(res.ctx)
  BY <1>3, <1>4, <1>5, Before1 DEF StepOK, d
<1>7. PeerOK
  <2>1. g \in Replies \union {ERROR} /\ g.t \notin {"KEY_EXCHANGE_RSP", "FINISH_RSP"}
    BY DEF ERROR
  <2> QED
    BY <2>1, EarlyExchange DEF PeerOK
<1>8. ~fetch.on /\ pc \in {"IDLE", step} /\ step \in PCs
      /\ step \notin {"IDLE", "GET_VERSION", "KEY_EXCHANGE"}
  BY DEF At, PCs
<1>10. IInv'
  BY <1>2, <1>6, <1>7, <1>8, Before1, StepIInv
<1>11. Quiet
  <2>1. res.ctx \in Ctxs /\ res.ctx.th1 = ctx.th1
        /\ res.ctx.state \in {ctx.state, "VERSION", "CERT"} /\ step # "FINISH"
    BY <1>3, <1>9 DEF d
  <2> QED
    BY <1>2, <2>1, Before1, ReturnQuiet
<1> QED
  BY <1>10, <1>11

\* wolfSPDM_GetCapabilities.
LEMMA GetCapabilitiesIInv ==
  ASSUME IInv, GetCapabilities
  PROVE  IInv' /\ Quiet
<1>1. PICK g \in IF Len(rs.vca) >= 2 THEN rs.world.caps ELSE {ERROR} :
      \E o \in Outcomes(g) :
        LET r  == o.reply
            ok == r.t = "CAPABILITIES" /\ ParseCapabilities(ctx, r, MinDts)
            c  == IF ok THEN [ctx EXCEPT !.dts = r.dts] ELSE ctx
        IN  /\ Transport(o, g, IF g = ERROR THEN rs
                               ELSE WithVca(2, GET_CAPABILITIES, g))
            /\ Return("GET_CAPABILITIES",
                      ExchangeMsg(ctx, c, ok, GET_CAPABILITIES, r))
  BY Zenon DEF GetCapabilities
<1>2. PICK o \in Outcomes(g) :
        LET r  == o.reply
            ok == r.t = "CAPABILITIES" /\ ParseCapabilities(ctx, r, MinDts)
            c  == IF ok THEN [ctx EXCEPT !.dts = r.dts] ELSE ctx
        IN  /\ Transport(o, g, IF g = ERROR THEN rs
                               ELSE WithVca(2, GET_CAPABILITIES, g))
            /\ Return("GET_CAPABILITIES",
                      ExchangeMsg(ctx, c, ok, GET_CAPABILITIES, r))
  BY <1>1
<1> DEFINE r == o.reply
           ok == r.t = "CAPABILITIES" /\ ParseCapabilities(ctx, r, MinDts)
           c  == IF ok THEN [ctx EXCEPT !.dts = r.dts] ELSE ctx
           after == IF g = ERROR THEN rs ELSE WithVca(2, GET_CAPABILITIES, g)
<1>3. Transport(o, g, after)
      /\ Return("GET_CAPABILITIES", ExchangeMsg(ctx, c, ok, GET_CAPABILITIES, r))
  BY <1>2, Zenon
<1>4. At("GET_CAPABILITIES") /\ fetch' = fetch /\ kexes' = kexes /\ pin' = pin
  BY DEF GetCapabilities
<1>5. g = ERROR \/ (g \in CapabilitiesMsgs /\ Len(rs.vca) >= 2)
  BY Before1, WorldsAssumption DEF Responders
<1>6. g \in CapabilitiesMsgs =>
        g \in Msgs /\ g \in Replies /\ g.t = "CAPABILITIES"
  <2>1. g \in CapabilitiesMsgs => g.t = "CAPABILITIES"
    BY DEF CapabilitiesMsgs
  <2> QED
    BY <2>1, MsgKinds, Zenon DEF Replies
<1>7. r \in Replies \union {LOST, ERROR}
  BY <1>5, <1>6, Before1, OutcomeFacts
<1>8. r.t = "CAPABILITIES" => r \in CapabilitiesMsgs /\ r \in Msgs
  BY <1>7, ReplyKinds, MsgKinds
<1>9. GET_CAPABILITIES \in Msgs /\ GET_CAPABILITIES.t = "GET_CAPABILITIES"
  <2>1. ctx.version \in Nat
    BY Before1 DEF Ctxs, Versions, MIN_SPDM_VERSION, MAX_SPDM_VERSION
  <2>2. GET_CAPABILITIES \in [t : {"GET_CAPABILITIES"}, version : Nat]
    BY <2>1 DEF GET_CAPABILITIES
  <2> QED
    BY <2>2, Zenon DEF Msgs, GET_CAPABILITIES
<1>10. after \in Responders /\ VcaOK(after) /\ SessOK(after, kexes)
  <2>1. CASE g = ERROR
    BY <2>1, Before1
  <2>2. CASE g # ERROR
    <3>1. TheHandshake[2 + 1] = "GET_CAPABILITIES" /\ TheHandshake[2 + 2] = "CAPABILITIES"
      BY DEF TheHandshake
    <3> QED
      BY <1>5, <1>6, <1>9, <2>2, <3>1, WithVcaFacts
  <2> QED
    BY <2>1, <2>2
<1>11. /\ c \in Ctxs /\ SameTrans(ctx, c) /\ SameConf(ctx, c) /\ SameChain(ctx, c)
       /\ SameKey(ctx, c) /\ c.version = ctx.version /\ c.state = ctx.state
  <2>1. ctx \in Ctxs
    BY Before1
  <2>2. CASE ok
    <3>1. c = [ctx EXCEPT !.dts = r.dts] /\ r \in CapabilitiesMsgs
          /\ ParseCapabilities(ctx, r, MinDts)
      BY <1>8, <2>2
    <3>2. r.dts \in Dts
      BY <3>1 DEF ParseCapabilities, CapabilitiesMsgs, Dts
    <3> HIDE DEF c
    <3> QED
      BY <2>1, <3>1, <3>2 DEF Ctxs, SameTrans, SameConf, SameChain, SameKey
  <2>3. CASE ~ok
    <3>1. c = ctx
      BY <2>3
    <3> QED
      BY <2>1, <3>1 DEF SameTrans, SameConf, SameChain, SameKey
  <2> QED
    BY <2>2, <2>3
<1>12. ok \in BOOLEAN /\ (ok => r \in Msgs /\ Pair(GET_CAPABILITIES, r))
  BY <1>8, <1>9 DEF Pair
<1> HIDE DEF c, ok, after
<1> QED
  BY <1>3, <1>4, <1>5, <1>6, <1>9, <1>10, <1>11, <1>12, VcaStepIInv

\* The context after ALGORITHMS differs in the selection only.
LEMMA AlgorithmsFacts ==
  ASSUME NEW c \in Ctxs, NEW m \in AlgorithmsMsgs
  PROVE  LET d == AfterAlgorithms(c, m)
         IN  /\ d \in Ctxs /\ SameTrans(c, d) /\ SameConf(c, d) /\ SameChain(c, d)
             /\ SameKey(c, d) /\ d.version = c.version /\ d.state = c.state
<1> DEFINE d == AfterAlgorithms(c, m)
<1>1. Negotiates(c)
  BY DEF Ctxs, Negotiates, Versions
<1>2. ASSUME NEW p \in AtMostOne(MLDSA_SETS), NEW k \in AtMostOne(MLKEM_SETS),
             d = [c EXCEPT !.pqcAsymSel = p, !.kemAlgSel = k]
      PROVE  /\ d \in Ctxs /\ SameTrans(c, d) /\ SameConf(c, d) /\ SameChain(c, d)
             /\ SameKey(c, d) /\ d.version = c.version /\ d.state = c.state
  <2> HIDE DEF d
  <2>1. d \in Ctxs
    BY <1>2 DEF Ctxs
  <2> QED
    BY <1>2, <2>1 DEF Ctxs, SameTrans, SameConf, SameChain, SameKey
<1>3. CASE ParseAlgorithms(c, m)
  <2>1. PqcAsymSel(c, m) \in AtMostOne(MLDSA_SETS)
        /\ AlgStructs(c, m).kem \in AtMostOne(MLKEM_SETS)
    BY <1>1, <1>3, AcceptedSelections, Zenon DEF AtMostOne
  <2>2. d = [c EXCEPT !.pqcAsymSel = PqcAsymSel(c, m), !.kemAlgSel = AlgStructs(c, m).kem]
    BY <1>3, Zenon DEF AfterAlgorithms
  <2> HIDE DEF d
  <2> QED
    BY <1>2, <2>1, <2>2 DEF d
<1>4. CASE ~ParseAlgorithms(c, m) /\ m.fixed /\ m.version = c.version
  <2>1. {} \in AtMostOne(MLDSA_SETS) /\ {} \in AtMostOne(MLKEM_SETS)
    BY DEF AtMostOne
  <2>2. d = [c EXCEPT !.pqcAsymSel = {}, !.kemAlgSel = {}]
    BY <1>4, Zenon DEF AfterAlgorithms
  <2> HIDE DEF d
  <2> QED
    BY <1>2, <2>1, <2>2 DEF d
<1>5. CASE ~ParseAlgorithms(c, m) /\ ~(m.fixed /\ m.version = c.version)
  <2>1. d = c
    BY <1>5, Zenon DEF AfterAlgorithms
  <2> HIDE DEF d
  <2> QED
    BY <2>1 DEF d, SameTrans, SameConf, SameChain, SameKey
<1> QED
  BY <1>3, <1>4, <1>5

\* wolfSPDM_NegotiateAlgorithms.
LEMMA NegotiateAlgorithmsIInv ==
  ASSUME IInv, NegotiateAlgorithms
  PROVE  IInv' /\ Quiet
<1>1. PICK g \in IF Len(rs.vca) >= 4 THEN rs.world.algs ELSE {ERROR} :
      \E o \in Outcomes(g) :
        LET r   == o.reply
            ans == r.t = "ALGORITHMS"
            ok  == ans /\ ParseAlgorithms(ctx, r)
            c   == IF ans THEN AfterAlgorithms(ctx, r) ELSE ctx
        IN  /\ Transport(o, g, IF g = ERROR THEN rs
                               ELSE WithVca(4, NEGOTIATE_ALGORITHMS, g))
            /\ Return("NEGOTIATE_ALGORITHMS",
                      ExchangeMsg(ctx, c, ok, NEGOTIATE_ALGORITHMS, r))
  BY Zenon DEF NegotiateAlgorithms
<1>2. PICK o \in Outcomes(g) :
        LET r   == o.reply
            ans == r.t = "ALGORITHMS"
            ok  == ans /\ ParseAlgorithms(ctx, r)
            c   == IF ans THEN AfterAlgorithms(ctx, r) ELSE ctx
        IN  /\ Transport(o, g, IF g = ERROR THEN rs
                               ELSE WithVca(4, NEGOTIATE_ALGORITHMS, g))
            /\ Return("NEGOTIATE_ALGORITHMS",
                      ExchangeMsg(ctx, c, ok, NEGOTIATE_ALGORITHMS, r))
  BY <1>1
<1> DEFINE r == o.reply
           ans == r.t = "ALGORITHMS"
           ok == ans /\ ParseAlgorithms(ctx, r)
           c == IF ans THEN AfterAlgorithms(ctx, r) ELSE ctx
           after == IF g = ERROR THEN rs ELSE WithVca(4, NEGOTIATE_ALGORITHMS, g)
<1>3. Transport(o, g, after)
      /\ Return("NEGOTIATE_ALGORITHMS",
                ExchangeMsg(ctx, c, ok, NEGOTIATE_ALGORITHMS, r))
  BY <1>2, Zenon
<1>4. At("NEGOTIATE_ALGORITHMS") /\ fetch' = fetch /\ kexes' = kexes /\ pin' = pin
  BY DEF NegotiateAlgorithms
<1>5. g = ERROR \/ (g \in AlgorithmsMsgs /\ Len(rs.vca) >= 4)
  BY Before1, WorldsAssumption DEF Responders
<1>6. g \in AlgorithmsMsgs =>
        g \in Msgs /\ g \in Replies /\ g.t = "ALGORITHMS"
  <2>1. g \in AlgorithmsMsgs => g.t = "ALGORITHMS"
    BY DEF AlgorithmsMsgs
  <2> QED
    BY <2>1, MsgKinds, Zenon DEF Replies
<1>7. r \in Replies \union {LOST, ERROR}
  BY <1>5, <1>6, Before1, OutcomeFacts
<1>8. ans => r \in AlgorithmsMsgs /\ r \in Msgs
  BY <1>7, ReplyKinds, MsgKinds
<1>9. NEGOTIATE_ALGORITHMS \in Msgs /\ NEGOTIATE_ALGORITHMS.t = "NEGOTIATE_ALGORITHMS"
  <2>1. Offer(ctx) \in Offers
    <3> DEFINE dhe == IF ctx.kexAdvDhe THEN {"SECP384R1"} ELSE {}
               kem == IF ctx.version >= 14 THEN ctx.kexAdvKem ELSE {}
               asym == {"P384"} \union (IF ctx.version >= 14 THEN MLDSA_SETS ELSE {})
    <3>1. ctx.kexAdvKem \in SUBSET MLKEM_SETS
      BY Before1 DEF Ctxs
    <3>2. kem \in SUBSET Algs
      BY <3>1 DEF Algs
    <3>3. dhe \in SUBSET Algs /\ asym \in SUBSET Algs
      BY DEF Algs
    <3>4. Offer(ctx) = [dhe |-> dhe, kem |-> kem, asym |-> asym]
      BY Zenon DEF Offer
    <3> HIDE DEF dhe, kem, asym
    <3> QED
      BY <3>2, <3>3, <3>4 DEF Offers
  <2>2. NEGOTIATE_ALGORITHMS \in [t : {"NEGOTIATE_ALGORITHMS"}, offer : Offers]
    BY <2>1 DEF NEGOTIATE_ALGORITHMS
  <2> QED
    BY <2>2, Zenon DEF Msgs, NEGOTIATE_ALGORITHMS
<1>10. after \in Responders /\ VcaOK(after) /\ SessOK(after, kexes)
  <2>1. CASE g = ERROR
    BY <2>1, Before1
  <2>2. CASE g # ERROR
    <3>1. TheHandshake[4 + 1] = "NEGOTIATE_ALGORITHMS"
          /\ TheHandshake[4 + 2] = "ALGORITHMS"
      BY DEF TheHandshake
    <3> QED
      BY <1>5, <1>6, <1>9, <2>2, <3>1, WithVcaFacts
  <2> QED
    BY <2>1, <2>2
<1>11. /\ c \in Ctxs /\ SameTrans(ctx, c) /\ SameConf(ctx, c) /\ SameChain(ctx, c)
       /\ SameKey(ctx, c) /\ c.version = ctx.version /\ c.state = ctx.state
  <2>1. CASE ans
    <3>1. c = AfterAlgorithms(ctx, r)
      BY <2>1
    <3> HIDE DEF c, r
    <3>2. r \in AlgorithmsMsgs
      BY <1>8, <2>1
    <3> QED
      BY <3>1, <3>2, Before1, AlgorithmsFacts, Zenon
  <2>2. CASE ~ans
    <3>1. c = ctx
      BY <2>2
    <3> QED
      BY <3>1, Before1 DEF SameTrans, SameConf, SameChain, SameKey
  <2> QED
    BY <2>1, <2>2
<1>12. ok \in BOOLEAN /\ (ok => r \in Msgs /\ Pair(NEGOTIATE_ALGORITHMS, r))
  <2>1. ok \in BOOLEAN
    <3>1. ParseAlgorithms(ctx, r) \in BOOLEAN
      BY Zenon DEF ParseAlgorithms
    <3> QED
      BY <3>1
  <2> QED
    BY <1>8, <1>9, <2>1 DEF Pair
<1> HIDE DEF c, ok, after
<1> QED
  BY <1>3, <1>4, <1>5, <1>6, <1>9, <1>10, <1>11, <1>12, VcaStepIInv

\* A context that is left as it is.
LEMMA IdleOK ==
  ASSUME IInv
  PROVE  StepOK(ctx)
  BY Before1, ContinuesFacts DEF StepOK

\* wolfSPDM_NegotiateAlgorithms with nothing to offer.
LEMMA NegotiateNothingIInv ==
  ASSUME IInv, NegotiateNothing
  PROVE  IInv' /\ Quiet
<1>1. /\ At("NEGOTIATE_ALGORITHMS") /\ Return("NEGOTIATE_ALGORITHMS", Failed(ctx))
      /\ fetch' = fetch /\ rs' = rs /\ rsps' = rsps /\ kexes' = kexes /\ pin' = pin
  BY DEF NegotiateNothing
<1>2. Failed(ctx).ctx = ctx
  BY DEF Failed
<1>3. StepOK(Failed(ctx).ctx) /\ PeerOK
  BY <1>1, <1>2, IdleOK, QuietPeer
<1>4. ~fetch.on /\ pc \in {"IDLE", "NEGOTIATE_ALGORITHMS"}
      /\ "NEGOTIATE_ALGORITHMS" \in PCs
  BY <1>1 DEF At, PCs
<1>5. IInv'
  BY <1>1, <1>3, <1>4, Before1, StepIInv
<1>6. Quiet
  BY <1>1, <1>2, Before1, ReturnQuiet
<1> QED
  BY <1>5, <1>6

\* wolfSPDM_GetDigests.
LEMMA GetDigestsIInv ==
  ASSUME IInv, GetDigests
  PROVE  IInv' /\ Quiet
<1> DEFINE g == [t |-> "DIGESTS", mask |-> {s \in Slots : ChainIn(s) # <<>>}]
<1>1. PICK o \in Outcomes(g) :
        /\ Transport(o, g, rs)
        /\ Return("GET_DIGESTS",
                  IF o.reply.t = "DIGESTS"
                  THEN Ok([ctx EXCEPT !.slotMask = o.reply.mask]) ELSE Failed(ctx))
  BY Zenon DEF GetDigests
<1> DEFINE r == o.reply
           c == [ctx EXCEPT !.slotMask = r.mask]
           res == IF r.t = "DIGESTS" THEN Ok(c) ELSE Failed(ctx)
<1>2. At("GET_DIGESTS") /\ fetch' = fetch /\ kexes' = kexes /\ pin' = pin
  BY DEF GetDigests
<1>3. g \in Replies /\ g.t = "DIGESTS"
  <2>1. g \in DigestsMsgs
    BY DEF DigestsMsgs
  <2> QED
    BY <2>1, Zenon DEF Replies
<1> HIDE DEF g
<1>4. r \in Replies \union {LOST, ERROR}
  BY <1>1, <1>3, Before1, OutcomeFacts
<1>5. r.t = "DIGESTS" => r \in DigestsMsgs
  BY <1>4, ReplyKinds
<1>6. PeerOK
  BY <1>1, <1>2, <1>3, Before1, EarlyExchange DEF PeerOK
<1>7. StepOK(res.ctx) /\ res.ctx.th1 = ctx.th1 /\ res.ctx.state = ctx.state
  <2>1. CASE r.t = "DIGESTS"
    <3>1. r.mask \in SUBSET Slots
      BY <1>5, <2>1 DEF DigestsMsgs
    <3> HIDE DEF r
    <3>2. /\ c \in Ctxs /\ c.trans = ctx.trans /\ c.version = ctx.version
          /\ c.maxVersion = ctx.maxVersion /\ c.chain = ctx.chain
          /\ c.key = ctx.key /\ c.fromCert = ctx.fromCert
          /\ c.th1 = ctx.th1 /\ c.state = ctx.state
      BY <3>1, Before1 DEF Ctxs
    <3> HIDE DEF c
    <3>3. KeyOK(c, pin)
      BY <3>2, Before1 DEF KeyOK
    <3>4. Continues(ctx, c)
      BY <3>2, Before1, ContinuesFacts, Zenon
    <3>5. res.ctx = c
      BY <2>1 DEF Ok
    <3> QED
      BY <3>2, <3>3, <3>4, <3>5, Before1 DEF StepOK
  <2>2. CASE r.t # "DIGESTS"
    <3>1. res.ctx = ctx
      BY <2>2 DEF Failed
    <3> QED
      BY <3>1, IdleOK
  <2> QED
    BY <2>1, <2>2
<1>8. ~fetch.on /\ pc \in {"IDLE", "GET_DIGESTS"} /\ "GET_DIGESTS" \in PCs
  BY <1>2 DEF At, PCs
<1>9. Return("GET_DIGESTS", res)
  BY <1>1
<1> HIDE DEF res
<1>10. IInv'
  BY <1>2, <1>6, <1>7, <1>8, <1>9, Before1, StepIInv
<1>11. Quiet
  BY <1>7, <1>9, Before1, ReturnQuiet DEF StepOK
<1> QED
  BY <1>10, <1>11

\* wolfSPDM_GetCertificate before its loop: the chain is empty.
LEMMA GetCertificateIInv ==
  ASSUME IInv, GetCertificate
  PROVE  IInv' /\ Quiet
<1> DEFINE c == DropCertKey(ctx)
<1>1. PICK s \in IF pc = "IDLE" THEN Slots ELSE {ConnectSlot} :
        ctx' = [c EXCEPT !.slot = s, !.chain = <<>>]
  BY Zenon DEF GetCertificate
<1>2. /\ ~fetch.on /\ pc \in {"IDLE", "GET_CERTIFICATE"}
      /\ fetch' = [NoFetch EXCEPT !.on = TRUE]
      /\ pc' = pc /\ rs' = rs /\ rsps' = rsps /\ kexes' = kexes /\ pin' = pin
  BY DEF GetCertificate, At
<1>3. s \in Slots
  <2>1. ConnectSlot \in Slots
    <3>1. ctx.slotMask \in SUBSET {0, 1}
      BY Before1 DEF Ctxs, Slots
    <3>2. CASE ctx.slotMask = {}
      BY <3>2 DEF ConnectSlot, Slots
    <3>3. CASE ctx.slotMask # {}
      <4> DEFINE S == ctx.slotMask
      <4>1. \E x \in S : \A y \in S : x <= y
        BY <3>1, <3>3
      <4>2. Min(S) \in S
        <5> HIDE DEF S
        <5> QED
          BY <4>1, Zenon DEF Min
      <4> QED
        BY <3>1, <3>3, <4>2 DEF ConnectSlot, Slots
    <3> QED
      BY <3>2, <3>3
  <2> QED
    BY <2>1
<1>4. /\ c \in Ctxs /\ c.key = (IF ctx.fromCert THEN None ELSE ctx.key)
      /\ c.fromCert = FALSE /\ SameAlgs(ctx, c) /\ SameTrans(ctx, c) /\ SameConf(ctx, c)
      /\ c.state = ctx.state
  BY Before1, DropFacts, Zenon
<1> HIDE DEF c
<1>5. ctx' \in Ctxs
  <2>1. <<>> \in Seq(Cells)
    OBVIOUS
  <2> QED
    BY <1>1, <1>3, <1>4, <2>1 DEF Ctxs
<1>6. /\ ctx'.chain = <<>> /\ ctx'.trans = ctx.trans /\ ctx'.version = ctx.version
      /\ ctx'.maxVersion = ctx.maxVersion /\ ctx'.key = c.key
      /\ ctx'.fromCert = c.fromCert /\ ctx'.slot = s
  BY <1>1, <1>4 DEF Ctxs, SameAlgs, SameTrans, SameConf
<1>7. /\ fetch' \in Fetches /\ fetch'.on /\ fetch'.offset = 0
  BY <1>2 DEF NoFetch, Fetches
<1>8. Typed'
  BY <1>2, <1>5, <1>7, Before1 DEF Typed
<1>9. KeyPart'
  BY <1>2, <1>4, <1>6, Before1 DEF KeyPart, KeyOK
<1>10. FetchPart'
  <2>1. Len(ctx'.chain) = 0 /\ 0 <= MaxChain
    BY <1>6, StandardAssumption
  <2>2. SubSeq(ChainIn(ctx.slot)', 1, 0) = <<>>
    <3>1. rs' \in Responders /\ s + 1 \in {1, 2}
      BY <1>2, <1>3, Before1 DEF Slots
    <3>2. ChainIn(ctx.slot)' \in Seq(Headers \union Certs)
      BY <1>6, <3>1 DEF ChainIn, Responders, StoredChains
    <3> HIDE DEF ChainIn
    <3> QED
      BY <3>2
  <2> QED
    BY <1>2, <1>6, <1>7, <2>1, <2>2 DEF FetchPart
<1>11. VersionPart'
  <2>1. pc' # "IDLE" => VersionOK(ctx)
    BY <1>2, Before1
  <2>2. Continues(ctx, ctx')
    BY <1>6, Before1, ContinuesFacts, Zenon
  <2>3. pc' # "IDLE" => VersionOK(ctx')
    BY <1>5, <1>6, <2>1, <2>2, Before1, VersionKept
  <2> QED
    BY <1>2, <2>3 DEF VersionPart
<1>12. VcaPart' /\ SessPart' /\ RspsPart' /\ FinishPart'
  BY <1>2, Before1 DEF VcaPart, SessPart, RspsPart, FinishPart
<1>13. NoHalfMessage'
  BY <1>6 DEF IInv, NoHalfMessage
<1>14. ctx'.th1 = ctx.th1 /\ ctx'.state = ctx.state
  BY <1>1, <1>4 DEF Ctxs, SameTrans
<1> QED
  BY <1>8, <1>9, <1>10, <1>11, <1>12, <1>13, <1>14 DEF IInv, Quiet

\* Validation keeps the invariant.
LEMMA ValidatedOK ==
  ASSUME IInv
  PROVE  LET res == ValidateCertChain(ctx)
         IN  StepOK(res.ctx) /\ Validated(ctx, res, pin) /\ res.ok \in BOOLEAN
             /\ SameTrans(ctx, res.ctx) /\ SameConf(ctx, res.ctx)
             /\ SameChain(ctx, res.ctx) /\ SameAlgs(ctx, res.ctx)
             /\ res.ctx.state = ctx.state
<1> DEFINE res == ValidateCertChain(ctx)
           d == res.ctx
<1>1. /\ d \in Ctxs /\ d.state = ctx.state /\ res.ok \in BOOLEAN
      /\ SameConf(ctx, d) /\ SameAlgs(ctx, d) /\ SameChain(ctx, d)
      /\ SameTrans(ctx, d) /\ Validated(ctx, res, pin)
  BY Before1, ValidateFacts, Zenon
<1> HIDE DEF res
<1>2. KeyOK(d, pin)
  BY <1>1 DEF Validated
<1> HIDE DEF d
<1>3. d.trans = ctx.trans /\ d.version = ctx.version /\ d.maxVersion = ctx.maxVersion
      /\ d.chain = ctx.chain
  BY <1>1 DEF SameConf, SameAlgs, SameChain, SameTrans
<1>4. Continues(ctx, d)
  BY <1>3, Before1, ContinuesFacts, Zenon
<1>5. StepOK(d)
  BY <1>1, <1>2, <1>3, <1>4, Before1 DEF StepOK
<1> QED
  BY <1>1, <1>5 DEF res, d

\* wolfSPDM_ValidateCertChain called for itself.
LEMMA ValidateIInv ==
  ASSUME IInv, Validate
  PROVE  IInv' /\ Quiet
<1> DEFINE res == ValidateCertChain(ctx)
<1>1. /\ At("VALIDATE") /\ Return("VALIDATE", res)
      /\ fetch' = fetch /\ rs' = rs /\ rsps' = rsps /\ kexes' = kexes /\ pin' = pin
  BY Zenon DEF Validate
<1>2. StepOK(res.ctx) /\ SameTrans(ctx, res.ctx) /\ res.ctx.state = ctx.state
  BY ValidatedOK, Zenon
<1> HIDE DEF res
<1>3. PeerOK
  BY <1>1, QuietPeer
<1>4. ~fetch.on /\ pc \in {"IDLE", "VALIDATE"} /\ "VALIDATE" \in PCs
  BY <1>1 DEF At, PCs
<1>5. IInv'
  BY <1>1, <1>2, <1>3, <1>4, Before1, StepIInv
<1>6. Quiet
  BY <1>1, <1>2, Before1, ReturnQuiet DEF StepOK, SameTrans
<1> QED
  BY <1>5, <1>6

-----------------------------------------------------------------------------
(* KEY_EXCHANGE *)

\* The key stands for what the configuration of this moment trusts.
Trusted(c) ==
  IF pin # None THEN c.key = pin
  ELSE Vouched(c, c.chain, None) /\ c.key = Last(c.chain).key

\* The key of KeyExchange, validated again if it is from a chain.
LEMMA KexKeyFacts ==
  ASSUME IInv
  PROVE  LET res == KexKey(ctx)
         IN  /\ StepOK(res.ctx) /\ res.ok \in BOOLEAN
             /\ SameTrans(ctx, res.ctx) /\ SameConf(ctx, res.ctx)
             /\ SameChain(ctx, res.ctx) /\ SameAlgs(ctx, res.ctx)
             /\ res.ctx.state = ctx.state /\ (res.ok => Trusted(res.ctx))
<1> DEFINE res == KexKey(ctx)
<1>1. /\ SameTrans(ctx, ctx) /\ SameConf(ctx, ctx) /\ SameChain(ctx, ctx)
      /\ SameAlgs(ctx, ctx) /\ StepOK(ctx)
  BY IdleOK DEF SameTrans, SameConf, SameChain, SameAlgs
<1>2. KeyOK(ctx, pin)
  BY Before1
<1>3. CASE ctx.key = None
  <2>1. res = Failed(ctx)
    BY <1>3, Zenon DEF KexKey
  <2> HIDE DEF res
  <2>2. res.ctx = ctx /\ res.ok = FALSE
    BY <2>1 DEF Failed
  <2> QED
    BY <1>1, <2>2 DEF res
<1>4. CASE ctx.key # None /\ ~ctx.fromCert
  <2>1. res = Ok(ctx)
    BY <1>4, Zenon DEF KexKey
  <2> HIDE DEF res
  <2>2. res.ctx = ctx /\ res.ok = TRUE
    BY <2>1 DEF Ok
  <2>3. Trusted(ctx)
    BY <1>2, <1>4 DEF KeyOK, Trusted
  <2> QED
    BY <1>1, <2>2, <2>3 DEF res
<1>5. CASE ctx.key # None /\ ctx.fromCert
  <2>1. res = ValidateCertChain(ctx)
    BY <1>5, Zenon DEF KexKey
  <2> HIDE DEF res
  <2>2. /\ StepOK(res.ctx) /\ Validated(ctx, res, pin) /\ res.ok \in BOOLEAN
        /\ SameTrans(ctx, res.ctx) /\ SameConf(ctx, res.ctx)
        /\ SameChain(ctx, res.ctx) /\ SameAlgs(ctx, res.ctx)
        /\ res.ctx.state = ctx.state
    BY <2>1, ValidatedOK, Zenon
  <2>3. pin = None
    BY <1>2, <1>5 DEF KeyOK
  <2> DEFINE d == res.ctx
  <2>4. /\ d.chain = ctx.chain /\ d.trustedCA = ctx.trustedCA /\ d.allow = ctx.allow
        /\ d.pqcAsymSel = ctx.pqcAsymSel
    BY <2>2 DEF SameConf, SameChain, SameAlgs
  <2>5. res.ok => Vouched(ctx, ctx.chain, None) /\ d.key = ctx.chain[Len(ctx.chain)].key
    BY <2>2, <2>3 DEF Validated
  <2> HIDE DEF d
  <2>6. Vouched(ctx, ctx.chain, None) <=> Vouched(d, d.chain, None)
    <3>1. LeafAlg(d) = LeafAlg(ctx)
      BY <2>4 DEF LeafAlg
    <3> QED
      BY <2>4, <3>1, VouchedIs
  <2>7. res.ok => Trusted(d)
    BY <2>3, <2>4, <2>5, <2>6 DEF Trusted, Last
  <2> QED
    BY <2>2, <2>7 DEF res, d
<1> QED
  BY <1>3, <1>4, <1>5

\* Without a trusted responder key nothing is sent.
LEMMA KeyExchangeRefusedIInv ==
  ASSUME IInv, KeyExchangeRefused
  PROVE  IInv' /\ Quiet
<1> DEFINE res == KexKey(ctx)
<1>1. /\ At("KEY_EXCHANGE") /\ ~res.ok /\ Return("KEY_EXCHANGE", res)
      /\ fetch' = fetch /\ rs' = rs /\ rsps' = rsps /\ kexes' = kexes /\ pin' = pin
  BY Zenon DEF KeyExchangeRefused
<1>2. StepOK(res.ctx) /\ SameTrans(ctx, res.ctx) /\ res.ctx.state = ctx.state
  BY KexKeyFacts, Zenon
<1> HIDE DEF res
<1>3. PeerOK
  BY <1>1, QuietPeer
<1>4. ~fetch.on /\ pc \in {"IDLE", "KEY_EXCHANGE"} /\ "KEY_EXCHANGE" \in PCs
  BY <1>1 DEF At, PCs
<1>5. IInv'
  BY <1>1, <1>2, <1>3, <1>4, Before1, StepIInv
<1>6. Quiet
  BY <1>1, <1>2, Before1, ReturnQuiet DEF StepOK, SameTrans
<1> QED
  BY <1>5, <1>6

\* Two sequences in a row.
LEMMA Joined ==
  ASSUME NEW S, NEW v \in Seq(S), NEW q \in Seq(S)
  PROVE  /\ v \o q \in Seq(S) /\ Len(v \o q) = Len(v) + Len(q)
         /\ \A i \in 1 .. Len(v) + Len(q) :
              (v \o q)[i] = IF i <= Len(v) THEN v[i] ELSE q[i - Len(v)]
  OBVIOUS

\* One more message.
OneMore(v, m, k, w) ==
  /\ w \in Seq(Msgs) /\ Len(w) = k + 1 /\ w[k + 1] = m
  /\ \A i \in 1 .. k : w[i] = v[i]

\* Append adds it.
LEMMA Appended ==
  ASSUME NEW v \in Seq(Msgs), NEW m \in Msgs
  PROVE  OneMore(v, m, Len(v), Append(v, m))
  BY DEF OneMore

\* The signed answer covers the VCA, the chain and both messages.
KexSigned(g, n) ==
  /\ g \in KexRspMsgs /\ g.t = "KEY_EXCHANGE_RSP" /\ g.n = n
  /\ Len(rs.vca) = 6 /\ Len(g.th) = 9
  /\ \A i \in 1 .. 6 : g.th[i] = rs.vca[i]
  /\ g.th[7].t = "Ct" /\ g.th[8] = [t |-> "KEY_EXCHANGE", n |-> n]
  /\ g.th[9] = [t |-> "KEY_EXCHANGE_RSP", n |-> n]

\* What the responder answers.
LEMMA KexReplyFacts ==
  ASSUME IInv, NEW n \in Nat, KexReply(n) # ERROR
  PROVE  KexSigned(KexReply(n), n)
<1> DEFINE g == KexReply(n)
           ch == ChainIn(ctx.slot)
           a == [t |-> "Ct", chain |-> ch]
           b == [t |-> "KEY_EXCHANGE", n |-> n]
           d == [t |-> "KEY_EXCHANGE_RSP", n |-> n]
           th == rs.vca \o <<a, b, d>>
           own == Owner(ch)
<1>1. ~(Len(rs.vca) < 6) /\ own # None
      /\ g = [t |-> "KEY_EXCHANGE_RSP", n |-> n, mut |-> rs.world.mut,
              signer |-> own, th |-> th]
  BY Zenon DEF KexReply
<1>2. Len(rs.vca) = 6 /\ rs.vca \in Seq(Msgs) /\ rs.world.mut \in BOOLEAN
  <2>1. rs.world \in Worlds /\ rs.vca \in Seq(Msgs)
    BY Before1 DEF Responders
  <2>2. rs.world.mut \in BOOLEAN
    BY <2>1, WorldsAssumption, Zenon
  <2>3. Len(rs.vca) \in {0, 2, 4, 6}
    BY Before1 DEF VcaOK
  <2>4. Len(rs.vca) = 6
    <3>1. ~(Len(rs.vca) < 6)
      BY <1>1, Zenon
    <3>2. \A k \in {0, 2, 4, 6} : ~(k < 6) => k = 6
      OBVIOUS
    <3> QED
      BY <2>3, <3>1, <3>2, Zenon
  <2> QED
    BY <2>1, <2>2, <2>4
<1>3. ctx.slot \in Slots
  BY Before1 DEF Ctxs
<1>4. ch \in Seq(Cells)
  BY <1>3, Before1, ChainInTyped
<1> HIDE DEF ch
<1>5. own \in Keys
  <2>1. ch # <<>> /\ IsCert(Last(ch)) /\ own = Last(ch).key
    BY <1>1, Zenon DEF Owner
  <2>2. Last(ch) \in Cells
    BY <1>4, <2>1 DEF Last
  <2> QED
    BY <2>1, <2>2, CellKinds
<1>6. a \in Msgs /\ b \in Msgs /\ d \in Msgs
  BY <1>4, MsgKinds, Zenon
<1>7. a.t = "Ct"
  OBVIOUS
<1> HIDE DEF a, b, d
<1>8. th \in Seq(Msgs) /\ Len(th) = 9 /\ (\A i \in 1 .. 6 : th[i] = rs.vca[i])
      /\ th[7] = a /\ th[8] = b /\ th[9] = d
  <2> DEFINE q == <<a, b, d>>
  <2>1. q \in Seq(Msgs) /\ Len(q) = 3 /\ q[1] = a /\ q[2] = b /\ q[3] = d
    BY <1>6
  <2> HIDE DEF q
  <2>2. th = rs.vca \o q
    BY DEF q
  <2> DEFINE v == rs.vca
  <2>3. v \in Seq(Msgs) /\ Len(v) = 6
    BY <1>2
  <2> HIDE DEF v
  <2>5. v \o q \in Seq(Msgs) /\ Len(v \o q) = Len(v) + Len(q)
        /\ \A i \in 1 .. Len(v) + Len(q) :
             (v \o q)[i] = IF i <= Len(v) THEN v[i] ELSE q[i - Len(v)]
    BY <2>1, <2>3, Joined, Zenon
  <2>6. Len(v) + Len(q) = 9 /\ 7 - Len(v) = 1 /\ 8 - Len(v) = 2 /\ 9 - Len(v) = 3
    BY <2>1, <2>3
  <2> DEFINE vq == v \o q
  <2>7. vq \in Seq(Msgs) /\ Len(vq) = 9
        /\ \A i \in 1 .. 9 : vq[i] = IF i <= 6 THEN v[i] ELSE q[i - 6]
    BY <2>3, <2>5, <2>6
  <2> HIDE DEF vq
  <2>4. vq \in Seq(Msgs) /\ Len(vq) = 9 /\ (\A i \in 1 .. 6 : vq[i] = v[i])
        /\ vq[7] = q[1] /\ vq[8] = q[2] /\ vq[9] = q[3]
    BY <2>7
  <2> QED
    BY <2>1, <2>2, <2>4 DEF v, vq
<1> HIDE DEF th, own, g
<1>9. g \in KexRspMsgs /\ g.t = "KEY_EXCHANGE_RSP" /\ g.n = n /\ g.th = th
  BY <1>1, <1>2, <1>5, <1>8 DEF KexRspMsgs
<1> QED
  BY <1>2, <1>7, <1>8, <1>9 DEF KexSigned, b, d, g

\* Parsing the answer: nothing but a signature by the key over the transcript
\* is accepted, and then TH1 is the transcript up to it.
KexParsed(c, r, res) ==
  LET d == res.ctx
  IN  /\ d \in Ctxs /\ NoHalf(d.trans) /\ res.ok \in BOOLEAN
      /\ SameConf(c, d) /\ SameAlgs(c, d) /\ SameChain(c, d) /\ SameKey(c, d)
      /\ Continues(c, d) /\ d.state \in {c.state, "KEY_EX"}
      /\ ~res.ok => d.th1 = c.th1
      /\ res.ok =>
           /\ r.t = "KEY_EXCHANGE_RSP" /\ r \in KexRspMsgs
           /\ r.th = Append(c.trans, [t |-> "KEY_EXCHANGE_RSP", n |-> r.n])
           /\ d.trans = Append(r.th, SIGNATURE) /\ d.th1 = d.trans

\* wolfSPDM_ParseKeyExchangeRsp does that.
LEMMA ParseKexFacts ==
  ASSUME NEW c \in Ctxs, NoHalf(c.trans), NEW r \in Replies \union {LOST, ERROR}
  PROVE  KexParsed(c, r, ParseKeyExchangeRsp(c, r))
<1> DEFINE res == ParseKeyExchangeRsp(c, r)
           m == [t |-> "KEY_EXCHANGE_RSP", n |-> r.n]
           c1 == Add(c, m)
           x == Append(c1.trans, SIGNATURE)
           c2 == Add(c1, SIGNATURE)
           c3 == [c2 EXCEPT !.th1 = x, !.state = "KEY_EX"]
<1>1. ASSUME res = Failed(c)
      PROVE  KexParsed(c, r, res)
  <2> HIDE DEF res
  <2>1. res.ctx = c /\ res.ok = FALSE
    BY <1>1 DEF Failed
  <2>2. SameConf(c, c) /\ SameAlgs(c, c) /\ SameChain(c, c) /\ SameKey(c, c)
        /\ Continues(c, c)
    BY ContinuesFacts DEF SameConf, SameAlgs, SameChain, SameKey
  <2> QED
    BY <2>1, <2>2 DEF KexParsed
<1>2. CASE r.t # "KEY_EXCHANGE_RSP" \/ r.mut
  <2>1. res = Failed(c)
    BY <1>2, Zenon DEF ParseKeyExchangeRsp
  <2> QED
    BY <1>1, <2>1
<1>3. CASE r.t = "KEY_EXCHANGE_RSP" /\ ~r.mut
  <2>1. r \in KexRspMsgs /\ r.n \in Nat
    <3>1. r \in KexRspMsgs
      BY <1>3, ReplyKinds
    <3> QED
      BY <3>1 DEF KexRspMsgs
  <2>2. m \in Msgs /\ m.t = "KEY_EXCHANGE_RSP"
    BY <2>1, MsgKinds
  <2>3. res = IF ~VerifyRspSig(c1, r) THEN Failed(c1) ELSE Ok(c3)
    BY <1>3, Zenon DEF ParseKeyExchangeRsp
  <2> HIDE DEF m
  <2>4. /\ c1 \in Ctxs /\ c1.trans = Append(c.trans, m) /\ c1.th1 = c.th1
        /\ c1.state = c.state /\ NoHalf(c1.trans)
        /\ SameConf(c, c1) /\ SameAlgs(c, c1) /\ SameChain(c, c1) /\ SameKey(c, c1)
    <3>1. m.t \notin {"GET_VERSION", "GET_CAPABILITIES", "NEGOTIATE_ALGORITHMS"}
      BY <2>2
    <3> QED
      BY <2>2, <3>1, AddFacts, Zenon
  <2> HIDE DEF c1
  <2>5. Continues(c, c1)
    BY <2>2, <2>4, ContinuesFacts, Zenon
  <2>6. CASE ~VerifyRspSig(c1, r)
    <3>1. res = Failed(c1)
      BY <2>3, <2>6, Zenon
    <3> HIDE DEF res
    <3>2. res.ctx = c1 /\ res.ok = FALSE
      BY <3>1 DEF Failed
    <3> QED
      BY <2>4, <2>5, <3>2 DEF KexParsed, res
  <2>7. CASE VerifyRspSig(c1, r)
    <3>1. res = Ok(c3)
      BY <2>3, <2>7, Zenon
    <3>2. SIGNATURE \in Msgs
          /\ SIGNATURE.t \notin {"GET_VERSION", "GET_CAPABILITIES", "NEGOTIATE_ALGORITHMS"}
      BY MsgKinds DEF SIGNATURE
    <3>3. /\ c2 \in Ctxs /\ c2.trans = x /\ NoHalf(c2.trans)
          /\ SameConf(c1, c2) /\ SameAlgs(c1, c2) /\ SameChain(c1, c2) /\ SameKey(c1, c2)
      BY <2>4, <3>2, AddFacts, Zenon
    <3>4. Continues(c1, c2)
      BY <2>4, <3>2, <3>3, ContinuesFacts, Zenon
    <3>5. x \in Seq(Msgs)
      BY <3>3 DEF Ctxs
    <3>6. r.th = c1.trans
      BY <2>7 DEF VerifyRspSig
    <3> HIDE DEF c2, x, res
    <3>7. /\ c3 \in Ctxs /\ c3.trans = c2.trans /\ c3.th1 = x /\ c3.state = "KEY_EX"
      BY <3>3, <3>5 DEF Ctxs, States
    <3>8. SameConf(c2, c3) /\ SameAlgs(c2, c3) /\ SameChain(c2, c3) /\ SameKey(c2, c3)
      BY <3>3 DEF Ctxs, SameConf, SameAlgs, SameChain, SameKey
    <3> HIDE DEF c3
    <3>9. SameConf(c, c3) /\ SameAlgs(c, c3) /\ SameChain(c, c3) /\ SameKey(c, c3)
      BY <2>4, <3>3, <3>8 DEF SameConf, SameAlgs, SameChain, SameKey
    <3>10. Continues(c, c3)
      <4>1. /\ c.trans \in Seq(Msgs) /\ c1.trans \in Seq(Msgs) /\ c2.trans \in Seq(Msgs)
        BY <2>4, <3>3 DEF Ctxs
      <4> QED
        BY <2>5, <3>4, <3>7, <4>1 DEF Continues
    <3>11. res.ctx = c3 /\ res.ok = TRUE
      BY <3>1 DEF Ok
    <3>12. c3.trans = Append(r.th, SIGNATURE) /\ c3.th1 = c3.trans
      BY <3>3, <3>6, <3>7 DEF x
    <3>13. r.th = Append(c.trans, [t |-> "KEY_EXCHANGE_RSP", n |-> r.n])
      BY <2>4, <3>6 DEF m
    <3>14. NoHalf(c3.trans)
      BY <3>3, <3>7
    <3> QED
      BY <1>3, <2>1, <3>7, <3>9, <3>10, <3>11, <3>12, <3>13, <3>14, Zenon
      DEF KexParsed, res
  <2> QED
    BY <2>6, <2>7
<1> QED
  BY <1>2, <1>3

\* A reply or a session of the past stays one.
LEMMA PastStays ==
  ASSUME NEW k \in Nat
  PROVE  /\ \A r : ReplyOK(r, k) => ReplyOK(r, k + 1)
         /\ \A r : SessOK(r, k) => SessOK(r, k + 1)
<1>1. \A x \in Nat : x <= k => x <= k + 1
  OBVIOUS
<1> QED
  BY <1>1 DEF ReplyOK, SessOK

\* Continuing a transcript twice.
LEMMA ContinuesOn ==
  ASSUME NEW c \in Ctxs, NEW d \in Ctxs, NEW e \in Ctxs, Continues(c, d), Continues(d, e)
  PROVE  Continues(c, e)
<1>1. c.trans \in Seq(Msgs) /\ d.trans \in Seq(Msgs) /\ e.trans \in Seq(Msgs)
  BY DEF Ctxs
<1> QED
  BY <1>1 DEF Continues

\* The step of KeyExchange with its reply: c is the context with KEY_EXCHANGE
\* hashed, res the result.
KexStep(c, n, g, o, after, res) ==
  /\ At("KEY_EXCHANGE") /\ n = kexes + 1 /\ n \in Nat /\ kexes' = n
  /\ g = KexReply(n) /\ o \in Outcomes(g) /\ Transport(o, g, after)
  /\ after = (IF g = ERROR THEN rs ELSE [rs EXCEPT !.sess = Append(g.th, SIGNATURE)])
  /\ fetch' = fetch /\ pin' = pin
  /\ StepOK(c) /\ c.trans = Append(ctx.trans, [t |-> "KEY_EXCHANGE", n |-> n])
  /\ c.th1 = ctx.th1 /\ c.state = ctx.state /\ Trusted(c)
  /\ KexParsed(c, o.reply, res) /\ Return("KEY_EXCHANGE", res)

\* KeyExchange is such a step.
LEMMA KexStepFacts ==
  ASSUME IInv, KeyExchange
  PROVE  \E c, n, g, o, after, res : KexStep(c, n, g, o, after, res)
<1> DEFINE k == KexKey(ctx)
           n == kexes + 1
           m == [t |-> "KEY_EXCHANGE", n |-> n]
           c == Add(k.ctx, m)
           g == KexReply(n)
           after == IF g = ERROR THEN rs ELSE [rs EXCEPT !.sess = Append(g.th, SIGNATURE)]
<1>1. PICK o \in Outcomes(g) :
        /\ Transport(o, g, after)
        /\ Return("KEY_EXCHANGE", ParseKeyExchangeRsp(c, o.reply))
        /\ kexes' = n
  BY Zenon DEF KeyExchange
<1>2. At("KEY_EXCHANGE") /\ k.ok /\ fetch' = fetch /\ pin' = pin
  BY Zenon DEF KeyExchange
<1>3. n \in Nat
  BY Before1
<1>4. g \in Replies \union {ERROR}
  <2>1. g # ERROR => g \in KexRspMsgs
    BY <1>3, KexReplyFacts, Zenon DEF KexSigned
  <2> QED
    BY <2>1 DEF Replies
<1>5. o.reply \in Replies \union {LOST, ERROR}
  <2> HIDE DEF g
  <2> QED
    BY <1>1, <1>4, Before1, OutcomeFacts
<1>6. /\ StepOK(k.ctx) /\ SameTrans(ctx, k.ctx) /\ SameConf(ctx, k.ctx)
      /\ SameChain(ctx, k.ctx) /\ SameAlgs(ctx, k.ctx)
      /\ k.ctx.state = ctx.state /\ Trusted(k.ctx)
  BY <1>2, KexKeyFacts, Zenon
<1>7. m \in Msgs /\ m.t = "KEY_EXCHANGE"
  BY <1>3, MsgKinds
<1> DEFINE e == k.ctx
<1>8. e \in Ctxs /\ NoHalf(e.trans) /\ KeyOK(e, pin) /\ e.trans = ctx.trans
      /\ e.th1 = ctx.th1 /\ Continues(ctx, e)
      /\ Len(e.chain) <= MaxChain /\ e.version = ctx.version
      /\ e.maxVersion = ctx.maxVersion
  BY <1>6 DEF StepOK, SameTrans
<1> HIDE DEF k, m, e
<1>9. c = Add(e, m)
  BY DEF e
<1> HIDE DEF c
<1>10. /\ c \in Ctxs /\ c.trans = Append(e.trans, m) /\ c.th1 = e.th1
       /\ c.state = e.state /\ NoHalf(c.trans)
       /\ SameConf(e, c) /\ SameAlgs(e, c) /\ SameChain(e, c) /\ SameKey(e, c)
  <2>1. m.t \notin {"GET_VERSION", "GET_CAPABILITIES", "NEGOTIATE_ALGORITHMS"}
    BY <1>7
  <2> QED
    BY <1>7, <1>8, <1>9, <2>1, AddFacts, Zenon
<1>11. Continues(ctx, c)
  <2>1. Continues(e, c)
    BY <1>7, <1>8, <1>10, ContinuesFacts, Zenon
  <2> QED
    BY <1>8, <1>10, <2>1, Before1, ContinuesOn
<1>12. StepOK(c)
  BY <1>8, <1>10, <1>11 DEF StepOK, SameConf, SameAlgs, SameChain, SameKey, KeyOK
<1>13. Trusted(c)
  <2>1. Trusted(e)
    BY <1>6 DEF e
  <2>2. /\ c.chain = e.chain /\ c.key = e.key /\ c.trustedCA = e.trustedCA
        /\ c.allow = e.allow /\ c.pqcAsymSel = e.pqcAsymSel
    BY <1>10 DEF SameConf, SameAlgs, SameChain, SameKey
  <2>3. Vouched(e, e.chain, None) <=> Vouched(c, c.chain, None)
    <3>1. LeafAlg(c) = LeafAlg(e)
      BY <2>2 DEF LeafAlg
    <3> QED
      BY <2>2, <3>1, VouchedIs
  <2> QED
    BY <2>1, <2>2, <2>3 DEF Trusted
<1> DEFINE res == ParseKeyExchangeRsp(c, o.reply)
<1>14. KexParsed(c, o.reply, res)
  BY <1>5, <1>10, ParseKexFacts, Zenon
<1>15. Return("KEY_EXCHANGE", res)
  BY <1>1
<1> HIDE DEF res, g, after
<1>16. c.state = ctx.state
  BY <1>6, <1>10 DEF e
<1>17. c.trans = Append(ctx.trans, [t |-> "KEY_EXCHANGE", n |-> n])
  BY <1>8, <1>10 DEF m
<1>18. g = KexReply(n)
       /\ after = (IF g = ERROR THEN rs ELSE [rs EXCEPT !.sess = Append(g.th, SIGNATURE)])
  BY Zenon DEF g, after
<1>19. n = kexes + 1
  OBVIOUS
<1> HIDE DEF n
<1>20. KexStep(c, n, g, o, after, res)
  BY <1>1, <1>2, <1>3, <1>8, <1>10, <1>12, <1>13, <1>14, <1>15, <1>16, <1>17,
     <1>18, <1>19, Zenon DEF KexStep
<1> QED
  BY <1>20, Zenon

\* The responder and the replies after it.
LEMMA KexPeer ==
  ASSUME IInv, NEW c, NEW n, NEW g, NEW o, NEW after, NEW res,
         KexStep(c, n, g, o, after, res)
  PROVE  PeerOK /\ g \in Replies \union {ERROR}
         /\ (g # ERROR => SessSet(rs, Append(g.th, SIGNATURE), after))
<1>1. /\ n = kexes + 1 /\ n \in Nat /\ kexes' = n /\ g = KexReply(n)
      /\ Transport(o, g, after)
      /\ after = (IF g = ERROR THEN rs ELSE [rs EXCEPT !.sess = Append(g.th, SIGNATURE)])
  BY DEF KexStep
<1>2. g # ERROR => KexSigned(g, n)
  BY <1>1, KexReplyFacts
<1>3. g \in Replies \union {ERROR} /\ (g # ERROR => g \in KexRspMsgs)
  BY <1>2 DEF Replies, KexSigned
<1>4. g # ERROR => ReplyOK(g, n) /\ g.th \in Seq(Msgs) /\ Len(g.th) = 9 /\ g.th[8].n = n
  <2> SUFFICES ASSUME g # ERROR
               PROVE  ReplyOK(g, n) /\ g.th \in Seq(Msgs) /\ Len(g.th) = 9
                      /\ g.th[8].n = n
    OBVIOUS
  <2>1. /\ g \in KexRspMsgs /\ g.t = "KEY_EXCHANGE_RSP" /\ Len(g.th) = 9
        /\ g.th[8] = [t |-> "KEY_EXCHANGE", n |-> n]
    BY <1>2 DEF KexSigned
  <2>2. g.th[8].n = n
    BY <2>1
  <2>3. g.th \in Seq(Msgs)
    BY <2>1 DEF KexRspMsgs
  <2> QED
    BY <1>1, <2>1, <2>2, <2>3 DEF ReplyOK
<1>5. /\ g # ERROR => SessSet(rs, Append(g.th, SIGNATURE), after)
      /\ after \in Responders /\ VcaOK(after) /\ SessOK(after, n)
  <2>1. CASE g = ERROR
    <3>1. after = rs
      BY <1>1, <2>1, Zenon
    <3> QED
      BY <1>1, <2>1, <3>1, Before1, PastStays
  <2>2. CASE g # ERROR
    <3> DEFINE q == Append(g.th, SIGNATURE)
    <3>1. after = [rs EXCEPT !.sess = q]
      BY <1>1, <2>2, Zenon
    <3>2. q \in Seq(Msgs) /\ Len(q) = 10 /\ q[8] = g.th[8]
      <4>1. g.th \in Seq(Msgs) /\ Len(g.th) = 9 /\ SIGNATURE \in Msgs
        BY <1>4, <2>2, MsgKinds, Zenon
      <4>2. OneMore(g.th, SIGNATURE, Len(g.th), q)
        BY <4>1, Appended, Zenon
      <4> HIDE DEF q
      <4>3. OneMore(g.th, SIGNATURE, 9, q)
        BY <4>1, <4>2, Zenon
      <4> QED
        BY <4>3 DEF OneMore
    <3> HIDE DEF q
    <3>3. SessSet(rs, q, after)
      BY <3>1, <3>2, Before1, SetSess, Zenon
    <3>4. after \in Responders /\ after.sess = q /\ after.vca = rs.vca
      BY <3>3 DEF SessSet
    <3>5. VcaOK(after)
      BY <3>4, Before1 DEF VcaOK
    <3>6. SessOK(after, n)
      BY <1>1, <1>4, <2>2, <3>2, <3>4 DEF SessOK
    <3> QED
      BY <3>3, <3>4, <3>5, <3>6 DEF q
  <2> QED
    BY <2>1, <2>2
<1>6. /\ rsps' \in SUBSET Replies
      /\ \A r \in rsps' : r \in rsps \/ (r = g /\ o.reached /\ g # ERROR)
      /\ rs' = rs \/ (o.reached /\ rs' = after)
  <2>1. rsps \in SUBSET Replies /\ Transport(o, g, after)
    BY <1>1, Before1, Zenon
  <2> QED
    BY <1>3, <2>1, TransportFacts, Zenon
<1>7. \A r \in rsps' : ReplyOK(r, n)
  BY <1>1, <1>4, <1>6, Before1, PastStays
<1>8. SessOK(rs, n)
  BY <1>1, Before1, PastStays
<1>9. rs' \in Responders /\ VcaOK(rs') /\ SessOK(rs', n)
  BY <1>5, <1>6, <1>8, Before1
<1> QED
  BY <1>1, <1>3, <1>5, <1>6, <1>7, <1>9 DEF PeerOK

\* An accepted KEY_EXCHANGE_RSP is the answer to this very request: a late one
\* covers an earlier one.
LEMMA KexAcceptedIsFresh ==
  ASSUME IInv, NEW c, NEW n, NEW g, NEW o, NEW after, NEW res,
         KexStep(c, n, g, o, after, res), res.ok, pc = "KEY_EXCHANGE"
  PROVE  FinishPart'
<1>1. /\ n = kexes + 1 /\ n \in Nat /\ kexes' = n /\ g = KexReply(n)
      /\ Transport(o, g, after) /\ o \in Outcomes(g)
      /\ StepOK(c) /\ c.trans = Append(ctx.trans, [t |-> "KEY_EXCHANGE", n |-> n])
      /\ KexParsed(c, o.reply, res) /\ Return("KEY_EXCHANGE", res)
  BY DEF KexStep
<1>2. g \in Replies \union {ERROR}
      /\ (g # ERROR => SessSet(rs, Append(g.th, SIGNATURE), after))
  BY KexPeer
<1> DEFINE r == o.reply
           d == res.ctx
<1>3. /\ r.t = "KEY_EXCHANGE_RSP" /\ r \in KexRspMsgs
      /\ r.th = Append(c.trans, [t |-> "KEY_EXCHANGE_RSP", n |-> r.n])
      /\ d.trans = Append(r.th, SIGNATURE) /\ d.th1 = d.trans /\ d \in Ctxs
  BY <1>1 DEF KexParsed
<1>4. /\ (r = g /\ g \notin rsps) => o.reached
      /\ r = g \/ r \in rsps \/ r = LOST
  BY <1>1, <1>2, Before1, OutcomeFacts
<1>5. r # LOST /\ r # ERROR
  <2>1. LOST.t = "LOST" /\ ERROR.t = "ERROR"
    BY DEF LOST, ERROR
  <2> QED
    BY <1>3, <2>1
<1> HIDE DEF r, d
<1>6. r \notin rsps
  <2> SUFFICES ASSUME r \in rsps PROVE FALSE
    OBVIOUS
  <2>1. Len(r.th) = 9 /\ r.th[8].n <= kexes
    BY <1>3, Before1 DEF ReplyOK
  <2> DEFINE m == [t |-> "KEY_EXCHANGE", n |-> n]
             p == [t |-> "KEY_EXCHANGE_RSP", n |-> r.n]
  <2>2. m \in Msgs /\ p \in Msgs /\ m.n = n
    <3>1. r.n \in Nat
      BY <1>3 DEF KexRspMsgs
    <3> QED
      BY <1>1, <3>1, MsgKinds
  <2>3. c.trans = Append(ctx.trans, m) /\ r.th = Append(c.trans, p)
    BY <1>1, <1>3
  <2> HIDE DEF m, p
  <2>4. ctx.trans \in Seq(Msgs)
    BY Before1
  <2>5. c.trans \in Seq(Msgs) /\ Len(c.trans) = Len(ctx.trans) + 1
        /\ c.trans[Len(ctx.trans) + 1] = m
    BY <2>2, <2>3, <2>4
  <2>6. Len(r.th) = Len(c.trans) + 1 /\ \A i \in 1 .. Len(c.trans) : r.th[i] = c.trans[i]
    BY <2>2, <2>3, <2>5
  <2>7. Len(ctx.trans) = 7 /\ Len(c.trans) = 8
    <3>1. \A x \in Nat, y \in Nat : y = x + 1 /\ 9 = y + 1 => x = 7 /\ y = 8
      OBVIOUS
    <3>2. Len(ctx.trans) \in Nat /\ Len(c.trans) \in Nat
      BY <2>4, <2>5
    <3>3. Len(c.trans) = Len(ctx.trans) + 1 /\ 9 = Len(c.trans) + 1
      BY <2>1, <2>5, <2>6, Zenon
    <3> QED
      BY <3>1, <3>2, <3>3, Zenon
  <2>8. r.th[8] = m
    BY <2>5, <2>6, <2>7
  <2>9. n <= kexes
    BY <2>1, <2>2, <2>8
  <2> QED
    BY <1>1, <2>9, Before1
<1>7. r = g /\ g # ERROR /\ o.reached
  BY <1>4, <1>5, <1>6
<1>8. rs' = after
  BY <1>1, <1>2, <1>7, Before1, TransportFacts
<1>9. KexSigned(g, n)
  BY <1>1, <1>7, KexReplyFacts
<1> DEFINE q == Append(g.th, SIGNATURE)
<1>10. SessSet(rs, q, after)
  BY <1>2, <1>7
<1>11. rs'.sess = q /\ rs'.vca = rs.vca
  BY <1>8, <1>10 DEF SessSet
<1>12. d.trans = q /\ d.th1 = q
  BY <1>3, <1>7
<1>13. ctx'.trans = q /\ ctx'.th1 = q
  <2>1. res.ctx \in Ctxs
    BY <1>3 DEF d
  <2>2. Same(res.ctx, ctx')
    BY <1>1, <2>1, Before1, ReturnFacts, Zenon
  <2> HIDE DEF q
  <2> QED
    BY <1>12, <2>2 DEF Same, SameTrans, d
<1>14. /\ g.th \in Seq(Msgs) /\ Len(g.th) = 9 /\ Len(rs.vca) = 6
       /\ (\A i \in 1 .. 6 : g.th[i] = rs.vca[i])
       /\ g.th[7].t = "Ct" /\ g.th[8].n = n /\ g.th[8].t = "KEY_EXCHANGE"
       /\ g.th[9].t = "KEY_EXCHANGE_RSP" /\ g.t = "KEY_EXCHANGE_RSP"
  <2>1. g \in KexRspMsgs
    BY <1>9 DEF KexSigned
  <2>2. g.th \in Seq(Msgs)
    BY <2>1 DEF KexRspMsgs
  <2> QED
    BY <1>9, <2>2 DEF KexSigned
<1>15. Len(q) = 10 /\ (\A i \in 1 .. 9 : q[i] = g.th[i]) /\ q[10] = SIGNATURE
  <2>1. g.th \in Seq(Msgs) /\ Len(g.th) = 9 /\ SIGNATURE \in Msgs
    BY <1>14, MsgKinds, Zenon
  <2>2. OneMore(g.th, SIGNATURE, Len(g.th), q)
    BY <2>1, Appended, Zenon
  <2> HIDE DEF q
  <2>3. OneMore(g.th, SIGNATURE, 9, q)
    BY <2>1, <2>2, Zenon
  <2> QED
    BY <2>3 DEF OneMore
<1> HIDE DEF q
<1>19. /\ q[7].t = "Ct" /\ q[8].n = n /\ q[8].t = "KEY_EXCHANGE"
       /\ q[9].t = "KEY_EXCHANGE_RSP"
  <2>1. q[7] = g.th[7] /\ q[8] = g.th[8] /\ q[9] = g.th[9]
    <3>1. 7 \in 1 .. 9 /\ 8 \in 1 .. 9 /\ 9 \in 1 .. 9
      OBVIOUS
    <3> QED
      BY <1>15, <3>1, Zenon
  <2> QED
    BY <1>14, <2>1, Zenon
<1>16. \A i \in 1 .. 6 : q[i] = rs.vca[i]
  <2>1. \A i \in 1 .. 6 : i \in 1 .. 9
    OBVIOUS
  <2> QED
    BY <1>14, <1>15, <2>1, Zenon
<1>17. ASSUME NEW i \in 1 .. 10
       PROVE  q[i].t = TheHandshake[i]
  <2>1. /\ TheHandshake[7] = "Ct" /\ TheHandshake[8] = "KEY_EXCHANGE"
        /\ TheHandshake[9] = "KEY_EXCHANGE_RSP" /\ TheHandshake[10] = "SIGNATURE"
        /\ SIGNATURE.t = "SIGNATURE"
    BY DEF TheHandshake, SIGNATURE
  <2>2. i \in 1 .. 6 \/ i = 7 \/ i = 8 \/ i = 9 \/ i = 10
    OBVIOUS
  <2>3. CASE i \in 1 .. 6
    <3>1. Len(rs.vca) = 6 /\ \A j \in 1 .. Len(rs.vca) : rs.vca[j].t = TheHandshake[j]
      BY <1>14, Before1, Zenon DEF VcaOK
    <3>2. q[i] = rs.vca[i] /\ i \in 1 .. Len(rs.vca)
      BY <1>16, <2>3, <3>1, Zenon
    <3> QED
      BY <3>1, <3>2, Zenon
  <2>4. CASE i = 7 \/ i = 8 \/ i = 9 \/ i = 10
    BY <1>15, <1>19, <2>1, <2>4, Zenon
  <2> QED
    BY <2>2, <2>3, <2>4
<1>18. ASSUME NEW x \in rsps', x.t = "FINISH_RSP"
       PROVE  x.th1 # q
  <2>1. x \in rsps \/ x = g
    BY <1>1, <1>2, Before1, TransportFacts
  <2>2. x \in rsps
    BY <1>14, <1>18, <2>1
  <2>3. x.th1[8].n <= kexes
    BY <1>18, <2>2, Before1 DEF ReplyOK
  <2>4. q[8].n = kexes + 1
    BY <1>1, <1>19, Zenon
  <2> QED
    BY <2>3, <2>4, Before1
<1> QED
  BY <1>11, <1>13, <1>14, <1>15, <1>16, <1>17, <1>18 DEF FinishPart

\* wolfSPDM_KeyExchange.
LEMMA KeyExchangeIInv ==
  ASSUME IInv, KeyExchange
  PROVE  IInv'
<1>1. PICK c, n, g, o, after, res : KexStep(c, n, g, o, after, res)
  BY KexStepFacts, Zenon
<1>2. /\ At("KEY_EXCHANGE") /\ n \in Nat /\ kexes' = n /\ fetch' = fetch /\ pin' = pin
      /\ StepOK(c) /\ KexParsed(c, o.reply, res) /\ Return("KEY_EXCHANGE", res)
  BY <1>1 DEF KexStep
<1>3. PeerOK
  BY <1>1, KexPeer
<1>4. pc = "KEY_EXCHANGE" /\ res.ok => FinishPart'
  BY <1>1, KexAcceptedIsFresh
<1> DEFINE d == res.ctx
<1>5. /\ d \in Ctxs /\ NoHalf(d.trans)
      /\ SameConf(c, d) /\ SameAlgs(c, d) /\ SameChain(c, d) /\ SameKey(c, d)
      /\ Continues(c, d)
  BY <1>2 DEF KexParsed
<1> HIDE DEF d
<1>6. /\ c \in Ctxs /\ Continues(ctx, c) /\ c.version = ctx.version
      /\ c.maxVersion = ctx.maxVersion /\ KeyOK(c, pin) /\ Len(c.chain) <= MaxChain
  BY <1>2 DEF StepOK
<1>7. Continues(ctx, d)
  BY <1>5, <1>6, Before1, ContinuesOn
<1>8. StepOK(d)
  BY <1>5, <1>6, <1>7 DEF StepOK, SameConf, SameAlgs, SameChain, SameKey, KeyOK
<1>9. ~fetch.on /\ pc \in {"IDLE", "KEY_EXCHANGE"} /\ "KEY_EXCHANGE" \in PCs
  BY <1>2 DEF At, PCs
<1> QED
  BY <1>2, <1>3, <1>4, <1>8, <1>9, Before1, StepIInv DEF d

-----------------------------------------------------------------------------
(* FINISH *)

\* The step of Finish with its reply.
FinishStep(g, o, after, res) ==
  /\ At("FINISH") /\ o \in Outcomes(g) /\ Transport(o, g, after)
  /\ \/ g = ERROR /\ after = rs
     \/ /\ g = [t |-> "FINISH_RSP", th1 |-> rs.sess] /\ rs.sess # <<>>
        /\ after = [rs EXCEPT !.sess = @ \o <<FINISH, FINISH_RSP>>]
  /\ fetch' = fetch /\ kexes' = kexes /\ pin' = pin
  /\ Return("FINISH", res) /\ StepOK(res.ctx) /\ res.ok \in BOOLEAN
  /\ res.ctx.state \in {"KEY_EX", "FINISH"} /\ res.ctx.th1 = ctx.th1
  /\ res.ok => /\ o.reply.t = "FINISH_RSP" /\ o.reply.th1 = ctx.th1
               /\ res.ctx.trans = Append(Append(ctx.trans, FINISH), FINISH_RSP)

\* Finish is such a step.
LEMMA FinishStepFacts ==
  ASSUME IInv, Finish
  PROVE  \E g, o, after, res : FinishStep(g, o, after, res)
<1> DEFINE c == Add(ctx, FINISH)
           c2 == Add(c, FINISH_RSP)
           c3 == [c2 EXCEPT !.state = "FINISH"]
           g == IF rs.sess # <<>> /\ c.trans = Append(rs.sess, FINISH)
                THEN [t |-> "FINISH_RSP", th1 |-> rs.sess] ELSE ERROR
           after == IF g = ERROR THEN rs
                    ELSE [rs EXCEPT !.sess = @ \o <<FINISH, FINISH_RSP>>]
<1>1. PICK o \in Outcomes(g) :
        /\ Transport(o, g, after)
        /\ Return("FINISH", IF FinishXfer(ctx, o.reply) THEN Ok(c3) ELSE Failed(c))
  BY Zenon DEF Finish
<1>2. /\ At("FINISH") /\ ctx.state = "KEY_EX"
      /\ fetch' = fetch /\ kexes' = kexes /\ pin' = pin
  BY Zenon DEF Finish
<1> DEFINE res == IF FinishXfer(ctx, o.reply) THEN Ok(c3) ELSE Failed(c)
<1>3. Return("FINISH", res)
  BY <1>1
<1>4. \/ g = ERROR /\ after = rs
      \/ /\ g = [t |-> "FINISH_RSP", th1 |-> rs.sess] /\ rs.sess # <<>>
         /\ after = [rs EXCEPT !.sess = @ \o <<FINISH, FINISH_RSP>>]
  <2>1. CASE g = ERROR
    BY <2>1, Zenon
  <2>2. CASE g # ERROR
    BY <2>2, Zenon
  <2> QED
    BY <2>1, <2>2
<1>5. /\ FINISH \in Msgs /\ FINISH_RSP \in Msgs
      /\ FINISH.t \notin {"GET_VERSION", "GET_CAPABILITIES", "NEGOTIATE_ALGORITHMS"}
      /\ FINISH_RSP.t \notin {"GET_VERSION", "GET_CAPABILITIES", "NEGOTIATE_ALGORITHMS"}
  BY MsgKinds DEF FINISH, FINISH_RSP
<1> HIDE DEF g, after
<1>6. /\ c \in Ctxs /\ c.trans = Append(ctx.trans, FINISH) /\ c.th1 = ctx.th1
      /\ c.state = ctx.state /\ NoHalf(c.trans)
      /\ SameConf(ctx, c) /\ SameAlgs(ctx, c) /\ SameChain(ctx, c) /\ SameKey(ctx, c)
  BY <1>5, Before1, AddFacts, Zenon
<1>7. Continues(ctx, c)
  BY <1>5, <1>6, Before1, ContinuesFacts, Zenon
<1> HIDE DEF c
<1>8. /\ c2 \in Ctxs /\ c2.trans = Append(c.trans, FINISH_RSP) /\ c2.th1 = c.th1
      /\ c2.state = c.state /\ NoHalf(c2.trans)
      /\ SameConf(c, c2) /\ SameAlgs(c, c2) /\ SameChain(c, c2) /\ SameKey(c, c2)
  BY <1>5, <1>6, AddFacts, Zenon
<1>9. Continues(c, c2)
  BY <1>5, <1>6, <1>8, ContinuesFacts, Zenon
<1> HIDE DEF c2
<1>10. c3 \in Ctxs /\ c3.state = "FINISH" /\ Same(c2, c3)
  <2>1. "FINISH" \in States
    BY DEF States
  <2> QED
    BY <1>8, <2>1, SetState, Zenon
<1> HIDE DEF c3
<1>11. c3.trans = c2.trans /\ c3.th1 = c2.th1 /\ NoHalf(c3.trans)
  BY <1>8, <1>10 DEF Same, SameTrans
<1>12. Continues(ctx, c3)
  <2>1. Continues(ctx, c2)
    BY <1>6, <1>7, <1>8, <1>9, Before1, ContinuesOn, Zenon
  <2> QED
    BY <1>11, <2>1 DEF Continues
<1>13. StepOK(c)
  BY <1>6, <1>7, Before1 DEF StepOK, SameConf, SameAlgs, SameChain, SameKey, KeyOK
<1>14. StepOK(c3)
  <2>1. /\ c3.version = ctx.version /\ c3.maxVersion = ctx.maxVersion
        /\ c3.key = ctx.key /\ c3.fromCert = ctx.fromCert /\ c3.chain = ctx.chain
    BY <1>6, <1>8, <1>10 DEF Same, SameConf, SameAlgs, SameChain, SameKey
  <2> QED
    BY <1>10, <1>11, <1>12, <2>1, Before1 DEF StepOK, KeyOK
<1>15. /\ StepOK(res.ctx) /\ res.ok \in BOOLEAN /\ res.ctx.th1 = ctx.th1
       /\ res.ctx.state \in {"KEY_EX", "FINISH"}
       /\ res.ok => /\ o.reply.t = "FINISH_RSP" /\ o.reply.th1 = ctx.th1
                    /\ res.ctx.trans = Append(Append(ctx.trans, FINISH), FINISH_RSP)
  <2>1. CASE FinishXfer(ctx, o.reply)
    <3>1. res = Ok(c3)
      BY <2>1, Zenon
    <3> HIDE DEF res
    <3>2. res.ctx = c3 /\ res.ok = TRUE
      BY <3>1 DEF Ok
    <3>3. c3.trans = Append(Append(ctx.trans, FINISH), FINISH_RSP) /\ c3.th1 = ctx.th1
      BY <1>6, <1>8, <1>11
    <3> QED
      BY <1>10, <1>14, <2>1, <3>2, <3>3 DEF FinishXfer
  <2>2. CASE ~FinishXfer(ctx, o.reply)
    <3>1. res = Failed(c)
      BY <2>2, Zenon
    <3> HIDE DEF res
    <3>2. res.ctx = c /\ res.ok = FALSE
      BY <3>1 DEF Failed
    <3> QED
      BY <1>2, <1>6, <1>13, <3>2
  <2> QED
    BY <2>1, <2>2
<1> HIDE DEF res
<1>16. FinishStep(g, o, after, res)
  BY <1>1, <1>2, <1>3, <1>4, <1>15, Zenon DEF FinishStep
<1> QED
  BY <1>16, Zenon

\* The responder's answer, its session and the replies after it.
LEMMA FinishPeer ==
  ASSUME IInv, NEW g, NEW o, NEW after, NEW res, FinishStep(g, o, after, res)
  PROVE  PeerOK /\ g \in Replies \union {ERROR}
         /\ (g # ERROR => SessSet(rs, rs.sess \o <<FINISH, FINISH_RSP>>, after))
<1>1. /\ kexes' = kexes /\ Transport(o, g, after)
      /\ \/ g = ERROR /\ after = rs
         \/ /\ g = [t |-> "FINISH_RSP", th1 |-> rs.sess] /\ rs.sess # <<>>
            /\ after = [rs EXCEPT !.sess = @ \o <<FINISH, FINISH_RSP>>]
  BY DEF FinishStep
<1> DEFINE q == <<FINISH, FINISH_RSP>>
           w == rs.sess \o q
<1>2. rs \in Responders /\ rs.sess \in Seq(Msgs) /\ SessOK(rs, kexes)
  BY Before1 DEF Responders
<1>3. q \in Seq(Msgs) /\ Len(q) = 2
  BY MsgKinds
<1> HIDE DEF q
<1>4. w \in Seq(Msgs) /\ Len(w) = Len(rs.sess) + 2
      /\ \A i \in 1 .. Len(rs.sess) : w[i] = rs.sess[i]
  <2>1. w \in Seq(Msgs) /\ Len(w) = Len(rs.sess) + Len(q)
        /\ \A i \in 1 .. Len(rs.sess) + Len(q) :
             w[i] = IF i <= Len(rs.sess) THEN rs.sess[i] ELSE q[i - Len(rs.sess)]
    BY <1>2, <1>3, Joined, Zenon
  <2> DEFINE l == Len(rs.sess)
  <2>2. l \in Nat
    BY <1>2
  <2> HIDE DEF w, l
  <2>3. w \in Seq(Msgs) /\ Len(w) = l + 2
        /\ \A i \in 1 .. l + 2 : w[i] = IF i <= l THEN rs.sess[i] ELSE q[i - l]
    BY <1>3, <2>1, Zenon DEF l
  <2>4. \A i \in 1 .. l : w[i] = rs.sess[i]
    BY <2>2, <2>3
  <2> QED
    BY <2>3, <2>4, Zenon DEF l
<1> HIDE DEF w
<1>5. CASE g = ERROR /\ after = rs
  <2>1. g.t \notin {"KEY_EXCHANGE_RSP", "FINISH_RSP"}
    BY <1>5 DEF ERROR
  <2> QED
    BY <1>1, <1>5, <2>1, Before1, EarlyExchange DEF PeerOK
<1>6. CASE /\ g = [t |-> "FINISH_RSP", th1 |-> rs.sess] /\ rs.sess # <<>>
           /\ after = [rs EXCEPT !.sess = w]
  <2>1. g \in FinishRspMsgs /\ g.t = "FINISH_RSP" /\ g.th1 = rs.sess
    BY <1>2, <1>6 DEF FinishRspMsgs
  <2>2. g \in Replies /\ g # ERROR
    BY <2>1 DEF Replies, ERROR
  <2>3. Len(rs.sess) >= 10 /\ rs.sess[8].n \in Nat /\ rs.sess[8].n <= kexes
    BY <1>2, <1>6 DEF SessOK
  <2>4. ReplyOK(g, kexes)
    BY <2>1, <2>3 DEF ReplyOK
  <2>5. SessSet(rs, w, after)
    BY <1>2, <1>4, <1>6, SetSess, Zenon
  <2>6. after \in Responders /\ after.sess = w /\ after.vca = rs.vca
    BY <2>5 DEF SessSet
  <2>7. VcaOK(after)
    BY <2>6, Before1 DEF VcaOK
  <2>8. SessOK(after, kexes)
    <3>1. Len(rs.sess) \in Nat
      BY <1>2
    <3>2. w[8] = rs.sess[8] /\ Len(w) >= 10
      BY <1>4, <2>3, <3>1
    <3> QED
      BY <2>3, <2>6, <3>2 DEF SessOK
  <2>9. /\ rsps' \in SUBSET Replies
        /\ \A r \in rsps' : r \in rsps \/ (r = g /\ o.reached /\ g # ERROR)
        /\ rs' = rs \/ (o.reached /\ rs' = after)
    <3>1. rsps \in SUBSET Replies /\ Transport(o, g, after) /\ g \in Replies \union {ERROR}
      BY <1>1, <2>2, Before1
    <3> QED
      BY <3>1, TransportFacts, Zenon
  <2>10. \A x \in rsps' : ReplyOK(x, kexes)
    BY <2>4, <2>9, Before1
  <2>11. rs' \in Responders /\ VcaOK(rs') /\ SessOK(rs', kexes)
    BY <2>6, <2>7, <2>8, <2>9, Before1
  <2>12. PeerOK
    BY <1>1, <2>9, <2>10, <2>11 DEF PeerOK
  <2> QED
    BY <2>2, <2>5, <2>12 DEF w, q
<1> QED
  BY <1>1, <1>5, <1>6 DEF w, q

\* wolfSPDM_Finish.
LEMMA FinishIInv ==
  ASSUME IInv, Finish
  PROVE  IInv'
<1>1. PICK g, o, after, res : FinishStep(g, o, after, res)
  BY FinishStepFacts, Zenon
<1>2. /\ At("FINISH") /\ kexes' = kexes /\ fetch' = fetch /\ pin' = pin
      /\ StepOK(res.ctx) /\ Return("FINISH", res)
  BY <1>1 DEF FinishStep
<1>3. PeerOK
  BY <1>1, FinishPeer
<1>4. ~fetch.on /\ pc \in {"IDLE", "FINISH"} /\ "FINISH" \in PCs
  BY <1>2 DEF At, PCs
<1> QED
  BY <1>2, <1>3, <1>4, Before1, StepIInv

-----------------------------------------------------------------------------
(* The GET_CERTIFICATE loop *)

\* The beginning of a chain and the next portion.
LEMMA PortionJoins ==
  ASSUME NEW ch \in Seq(Cells), NEW off \in Nat, NEW to \in Nat, off < to, to <= Len(ch)
  PROVE  /\ SubSeq(ch, 1, off) \o SubSeq(ch, off + 1, to) = SubSeq(ch, 1, to)
         /\ SubSeq(ch, off + 1, to) \in Seq(Cells)
         /\ Len(SubSeq(ch, off + 1, to)) = to - off
         /\ Len(SubSeq(ch, 1, to)) = to
<1> DEFINE p == SubSeq(ch, 1, off)
           q == SubSeq(ch, off + 1, to)
           w == SubSeq(ch, 1, to)
<1>1. p \in Seq(Cells) /\ Len(p) = off /\ \A i \in 1 .. off : p[i] = ch[i]
  OBVIOUS
<1>2. q \in Seq(Cells) /\ Len(q) = to - off
      /\ \A i \in 1 .. to - off : q[i] = ch[off + i]
  OBVIOUS
<1>3. w \in Seq(Cells) /\ Len(w) = to /\ \A i \in 1 .. to : w[i] = ch[i]
  OBVIOUS
<1> HIDE DEF p, q, w
<1> DEFINE pq == p \o q
<1>4. pq \in Seq(Cells) /\ Len(pq) = Len(p) + Len(q)
      /\ \A i \in 1 .. Len(p) + Len(q) :
           pq[i] = IF i <= Len(p) THEN p[i] ELSE q[i - Len(p)]
  BY <1>1, <1>2, Joined, Zenon
<1> HIDE DEF pq
<1>8. Len(pq) = off + (to - off)
      /\ \A i \in 1 .. off + (to - off) :
           pq[i] = IF i <= off THEN p[i] ELSE q[i - off]
  BY <1>1, <1>2, <1>4, Zenon
<1>9. off + (to - off) = to
  OBVIOUS
<1>5. Len(pq) = to /\ \A i \in 1 .. to : pq[i] = IF i <= off THEN p[i] ELSE q[i - off]
  BY <1>8, <1>9, Zenon
<1>6. ASSUME NEW i \in 1 .. to
      PROVE  pq[i] = w[i]
  <2>1. CASE i <= off
    <3>1. pq[i] = p[i]
      BY <1>5, <2>1, Zenon
    <3>2. i \in 1 .. off
      BY <2>1
    <3> QED
      BY <1>1, <1>3, <3>1, <3>2, Zenon
  <2>2. CASE i > off
    <3>1. i - off \in 1 .. to - off /\ off + (i - off) = i
      BY <2>2
    <3>2. pq[i] = q[i - off]
      BY <1>5, <2>2
    <3>3. q[i - off] = ch[off + (i - off)]
      BY <1>2, <3>1
    <3> QED
      BY <1>3, <3>1, <3>2, <3>3
  <2> QED
    BY <2>1, <2>2
<1>7. pq = w
  BY <1>3, <1>4, <1>5, <1>6
<1> QED
  BY <1>2, <1>3, <1>7 DEF p, q, w, pq

\* The smaller of two numbers.
LEMMA MinOfTwo ==
  ASSUME NEW a \in Nat, NEW b \in Nat
  PROVE  Min({a, b}) = IF a <= b THEN a ELSE b
<1> DEFINE m == IF a <= b THEN a ELSE b
<1>1. m \in {a, b} /\ \A y \in {a, b} : m <= y
  OBVIOUS
<1>2. \A x \in {a, b} : (\A y \in {a, b} : x <= y) => x = m
  OBVIOUS
<1>3. Min({a, b}) = CHOOSE x \in {a, b} : \A y \in {a, b} : x <= y
  BY Zenon DEF Min
<1> HIDE DEF m
<1>4. Min({a, b}) = m
  BY <1>1, <1>2, <1>3, Zenon
<1> QED
  BY <1>4 DEF m

\* A genuine portion ends at to.
IsPortion(p, ch, slot, off, to) ==
  /\ p \in CertificateMsgs /\ p.t = "CERTIFICATE" /\ p.slot = slot
  /\ p.portion = SubSeq(ch, off + 1, to) /\ p.rem = Len(ch) - to
  /\ to \in Nat /\ off < to /\ to <= Len(ch)

\* The answer to a request for a part of the chain.
LEMMA PortionFacts ==
  ASSUME rs \in Responders, NEW slot \in Slots, NEW off \in Nat, NEW len \in Nat, len >= 1
  PROVE  IF off >= Len(ChainIn(slot)) THEN Portion(slot, off, len) = ERROR
         ELSE \E to : IsPortion(Portion(slot, off, len), ChainIn(slot), slot, off, to)
<1> DEFINE ch == ChainIn(slot)
           to == Min({off + len, Len(ch)})
           q == SubSeq(ch, off + 1, to)
           p == [t |-> "CERTIFICATE", slot |-> slot, portion |-> q, rem |-> Len(ch) - to]
<1>1. Portion(slot, off, len) = IF off >= Len(ch) THEN ERROR ELSE p
  BY Zenon DEF Portion
<1>2. ch \in Seq(Cells) /\ Len(ch) \in Nat
  BY ChainInTyped
<1> HIDE DEF ch
<1>3. to = IF off + len <= Len(ch) THEN off + len ELSE Len(ch)
  BY <1>2, MinOfTwo
<1> HIDE DEF to
<1>4. CASE off >= Len(ch)
  BY <1>1, <1>4, Zenon DEF ch
<1>5. CASE ~(off >= Len(ch))
  <2>1. to \in Nat /\ off < to /\ to <= Len(ch) /\ Len(ch) - to \in Nat
    BY <1>2, <1>3, <1>5
  <2>2. q \in Seq(Cells)
    BY <1>2, <2>1, PortionJoins, Zenon
  <2> HIDE DEF q
  <2>3. p \in CertificateMsgs /\ p.t = "CERTIFICATE" /\ p.slot = slot /\ p.portion = q
        /\ p.rem = Len(ch) - to
    BY <2>1, <2>2 DEF CertificateMsgs
  <2>4. IsPortion(p, ch, slot, off, to)
    BY <2>1, <2>3 DEF IsPortion, q
  <2>5. Portion(slot, off, len) = p
    BY <1>1, <1>5, Zenon
  <2> HIDE DEF p
  <2> QED
    BY <1>5, <2>4, <2>5, Zenon DEF ch
<1> QED
  BY <1>4, <1>5

\* At least one cell is asked for.
LEMMA ReqLenPositive ==
  ASSUME NEW c \in Ctxs
  PROVE  ReqLen(c) \in Nat /\ ReqLen(c) >= 1
<1>1. c.dts \in Nat /\ (c.dts = 0 \/ c.dts >= MinDts)
  BY DEF Ctxs, Dts
<1>2. PortionSz \in Nat /\ MinDts \in Nat /\ PortionSz > 0 /\ MinDts > 1
  BY StandardAssumption
<1> QED
  BY <1>1, <1>2 DEF ReqLen

\* A wrong portion is a CERTIFICATE reply.
LEMMA OddFacts ==
  ASSUME NEW slot \in Slots, NEW g \in OddPortions(slot)
  PROVE  g \in CertificateMsgs
<1>1. PICK p \in {<<>>, <<[kind |-> "JUNK"]>>}, rem \in {0, 1} :
        g = [t |-> "CERTIFICATE", slot |-> slot, portion |-> p, rem |-> rem]
  BY DEF OddPortions
<1>2. [kind |-> "JUNK"] \in Cells
  <2>1. [kind |-> "JUNK"] \in [kind : {"JUNK"}]
    OBVIOUS
  <2> QED
    BY <2>1, Zenon DEF Cells
<1>3. p \in Seq(Cells)
  <2> DEFINE j == [kind |-> "JUNK"]
  <2>1. p = <<>> \/ p = <<j>>
    OBVIOUS
  <2>2. j \in Cells
    BY <1>2
  <2> HIDE DEF j
  <2>3. <<j>> \in Seq(Cells)
    BY <2>2
  <2>4. << >> \in Seq(Cells)
    OBVIOUS
  <2> QED
    BY <2>1, <2>3, <2>4, Zenon
<1> QED
  BY <1>1, <1>3 DEF CertificateMsgs

\* The portion asked for, and the context with the reply's portion.
Asked == Portion(ctx.slot, fetch.offset, ReqLen(ctx))
WithPortion(r) ==
  IF ParseCertificate(ctx, r) THEN [ctx EXCEPT !.chain = @ \o r.portion] ELSE ctx

\* A round of the loop: the chain grows by the portion and fits its buffer;
\* undisturbed it stays the beginning of the slot's.
Grown(r, c) ==
  LET ch == ChainIn(ctx.slot)
      ok == ParseCertificate(ctx, r)
  IN  /\ c \in Ctxs /\ SameTrans(ctx, c) /\ SameConf(ctx, c) /\ SameAlgs(ctx, c)
      /\ SameKey(ctx, c) /\ c.slot = ctx.slot /\ c.state = ctx.state
      /\ Len(c.chain) <= MaxChain
      /\ ok => r \in CertificateMsgs /\ Len(c.chain) = fetch.offset + Len(r.portion)
      /\ fetch.clean /\ r = Asked /\ ok =>
           \E to : /\ IsPortion(r, ch, ctx.slot, fetch.offset, to)
                   /\ c.chain = SubSeq(ch, 1, to) /\ Len(c.chain) = to
      /\ fetch.clean /\ r = Asked /\ Len(ch) \in 2 .. MaxChain => ok /\ ~Stalls(r)

\* Every round does that.
LEMMA FetchGrows ==
  ASSUME IInv, fetch.on, NEW r \in Replies \union {LOST, ERROR}
  PROVE  Grown(r, WithPortion(r))
<1> DEFINE ch == ChainIn(ctx.slot)
           ok == ParseCertificate(ctx, r)
           c == WithPortion(r)
           off == fetch.offset
           A == fetch.clean /\ r = Asked
<1>1. /\ ctx \in Ctxs /\ ctx.slot \in Slots /\ ctx.chain \in Seq(Cells)
      /\ Len(ctx.chain) \in Nat /\ Len(ctx.chain) <= MaxChain
      /\ rs \in Responders /\ off \in Nat
  BY Before1 DEF Ctxs, Fetches
<1>2. /\ off = Len(ctx.chain)
      /\ fetch.clean => /\ off = 0 \/ off < Len(ch)
                        /\ ctx.chain = SubSeq(ch, 1, off)
  BY DEF IInv, FetchPart
<1>3. ch \in Seq(Cells) /\ Len(ch) \in Nat
  BY <1>1, ChainInTyped
<1>4. MaxChain \in Nat
  BY StandardAssumption
<1>5. r = Asked => IF off >= Len(ch) THEN r = ERROR
                   ELSE \E to : IsPortion(r, ch, ctx.slot, off, to)
  <2>1. ReqLen(ctx) \in Nat /\ ReqLen(ctx) >= 1
    BY <1>1, ReqLenPositive
  <2> QED
    BY <1>1, <2>1, PortionFacts, Zenon DEF Asked
<1> HIDE DEF ch, off
<1>6. ok => /\ r.t = "CERTIFICATE" /\ r \in CertificateMsgs /\ r.slot = ctx.slot
            /\ r.portion \in Seq(Cells) /\ Len(r.portion) \in Nat
            /\ Len(r.portion) <= MaxChain - Len(ctx.chain)
  <2>1. ok => r.t = "CERTIFICATE" /\ r.slot = ctx.slot
              /\ Len(r.portion) <= MaxChain - Len(ctx.chain)
    BY DEF ParseCertificate
  <2>2. ok => r \in CertificateMsgs
    BY <2>1, ReplyKinds
  <2>3. r \in CertificateMsgs => r.portion \in Seq(Cells)
    BY DEF CertificateMsgs
  <2> QED
    BY <2>1, <2>2, <2>3
<1> HIDE DEF ok
<1>7. ok => /\ c \in Ctxs /\ SameTrans(ctx, c) /\ SameConf(ctx, c) /\ SameAlgs(ctx, c)
            /\ SameKey(ctx, c) /\ c.slot = ctx.slot /\ c.state = ctx.state
            /\ c.chain = ctx.chain \o r.portion
            /\ Len(c.chain) = off + Len(r.portion) /\ Len(c.chain) <= MaxChain
  <2> SUFFICES ASSUME ok
               PROVE  /\ c \in Ctxs /\ SameTrans(ctx, c) /\ SameConf(ctx, c)
                      /\ SameAlgs(ctx, c) /\ SameKey(ctx, c) /\ c.slot = ctx.slot
                      /\ c.state = ctx.state /\ c.chain = ctx.chain \o r.portion
                      /\ Len(c.chain) = off + Len(r.portion)
                      /\ Len(c.chain) <= MaxChain
    OBVIOUS
  <2> DEFINE x == ctx.chain \o r.portion
  <2>1. x \in Seq(Cells) /\ Len(x) = off + Len(r.portion)
    BY <1>1, <1>2, <1>6, Joined
  <2>2. c = [ctx EXCEPT !.chain = x]
    BY Zenon DEF WithPortion, ok
  <2> HIDE DEF x, c
  <2>3. c \in Ctxs /\ c.slot = ctx.slot /\ c.state = ctx.state /\ c.chain = x
    BY <1>1, <2>1, <2>2 DEF Ctxs
  <2>4. SameTrans(ctx, c) /\ SameConf(ctx, c) /\ SameAlgs(ctx, c) /\ SameKey(ctx, c)
    BY <1>1, <2>2 DEF Ctxs, SameTrans, SameConf, SameAlgs, SameKey
  <2>5. Len(x) <= MaxChain
    <3>1. \A a \in Nat, b \in Nat, m \in Nat : b <= m - a => a + b <= m
      OBVIOUS
    <3>2. Len(r.portion) \in Nat /\ Len(r.portion) <= MaxChain - off
      BY <1>2, <1>6, Zenon
    <3>3. off + Len(r.portion) <= MaxChain
      BY <1>1, <1>4, <3>1, <3>2, Zenon
    <3> QED
      BY <2>1, <3>3, Zenon
  <2> QED
    BY <2>1, <2>3, <2>4, <2>5 DEF x
<1>8. ~ok => c = ctx
  BY Zenon DEF WithPortion, ok
<1>9. SameTrans(ctx, ctx) /\ SameConf(ctx, ctx) /\ SameAlgs(ctx, ctx) /\ SameKey(ctx, ctx)
  BY DEF SameTrans, SameConf, SameAlgs, SameKey
<1> HIDE DEF c
<1>10. ASSUME A, ok
       PROVE  \E to : /\ IsPortion(r, ch, ctx.slot, off, to)
                      /\ c.chain = SubSeq(ch, 1, to) /\ Len(c.chain) = to
  <2>1. r # ERROR
    BY <1>6, <1>10 DEF ERROR
  <2>2. PICK to : IsPortion(r, ch, ctx.slot, off, to)
    BY <1>5, <1>10, <2>1, Zenon
  <2>3. /\ r.portion = SubSeq(ch, off + 1, to) /\ to \in Nat /\ off < to /\ to <= Len(ch)
    BY <2>2 DEF IsPortion
  <2>4. c.chain = SubSeq(ch, 1, off) \o SubSeq(ch, off + 1, to)
    BY <1>2, <1>7, <1>10, <2>3, Zenon
  <2>5. c.chain = SubSeq(ch, 1, to) /\ Len(SubSeq(ch, 1, to)) = to
    BY <1>1, <1>3, <2>3, <2>4, PortionJoins, Zenon
  <2> QED
    BY <2>2, <2>5, Zenon
<1>11. ASSUME A, Len(ch) \in 2 .. MaxChain
       PROVE  ok /\ ~Stalls(r)
  <2>1. off < Len(ch)
    BY <1>2, <1>11
  <2>2. PICK to : IsPortion(r, ch, ctx.slot, off, to)
    <3>1. ~(off >= Len(ch))
      BY <1>1, <1>3, <2>1
    <3> QED
      BY <1>5, <1>11, <3>1, Zenon
  <2>3. /\ r.t = "CERTIFICATE" /\ r.slot = ctx.slot /\ r.portion = SubSeq(ch, off + 1, to)
        /\ to \in Nat /\ off < to /\ to <= Len(ch)
    BY <2>2 DEF IsPortion
  <2>4. Len(r.portion) = to - off
    <3>1. Len(SubSeq(ch, off + 1, to)) = to - off
      BY <1>1, <1>3, <2>3, PortionJoins, Zenon
    <3> QED
      BY <2>3, <3>1, Zenon
  <2>5. to - off <= MaxChain - off /\ to - off > 0
    BY <1>1, <1>3, <1>4, <1>11, <2>3
  <2>6. Len(r.portion) <= MaxChain - Len(ctx.chain)
    BY <1>2, <2>4, <2>5, Zenon
  <2>7. ok
    BY <2>3, <2>6, Zenon DEF ok, ParseCertificate
  <2>8. r.portion # <<>>
    <3>1. Len(<<>>) = 0
      OBVIOUS
    <3>2. ~(0 > 0)
      OBVIOUS
    <3> QED
      BY <2>4, <2>5, <3>1, <3>2, Zenon
  <2> QED
    BY <2>7, <2>8, Zenon DEF Stalls
<1>12. /\ c \in Ctxs /\ SameTrans(ctx, c) /\ SameConf(ctx, c) /\ SameAlgs(ctx, c)
       /\ SameKey(ctx, c) /\ c.slot = ctx.slot /\ c.state = ctx.state
       /\ Len(c.chain) <= MaxChain
  BY <1>1, <1>7, <1>8, <1>9, Zenon
<1>13. ok => r \in CertificateMsgs /\ Len(c.chain) = off + Len(r.portion)
  BY <1>6, <1>7, Zenon
<1> QED
  BY <1>10, <1>11, <1>12, <1>13, Zenon DEF Grown, ch, ok, off, c

\* The parts of a round: the reply r, the context c with its portion, whether
\* another round follows, whether the whole chain is here.
FetchRound(g, o, c, more, done, clean) ==
  LET r  == o.reply
      ok == ParseCertificate(ctx, r)
  IN  /\ fetch.on /\ g \in Replies \union {ERROR}
      /\ g.t \notin {"KEY_EXCHANGE_RSP", "FINISH_RSP"}
      /\ Transport(o, g, rs) /\ kexes' = kexes /\ pin' = pin
      /\ Grown(r, c) /\ more = (ok /\ ~Stalls(r) /\ r.rem > 0)
      /\ done = (ok /\ r.rem = 0 /\ Whole(c.chain))
      /\ clean = (fetch.clean /\ r = Asked)
      /\ IF more
         THEN /\ ctx' = c /\ pc' = pc
              /\ fetch' = [fetch EXCEPT !.offset = (@ + Len(r.portion)) % Word16,
                                        !.clean = clean, !.round = 1 - @]
              /\ last' = NoLast
         ELSE /\ Return("GET_CERTIFICATE",
                        IF done
                        THEN Ok([Add(c, [t |-> "Ct", chain |-> c.chain])
                                   EXCEPT !.state = "CERT"])
                        ELSE Failed(c))
              /\ fetch' = NoFetch
              /\ last' = [t |-> "CHAIN", ok |-> done, got |-> c.chain,
                          want |-> IF clean THEN ChainIn(ctx.slot) ELSE <<>>]

\* FetchStep is such a round.
LEMMA FetchRoundFacts ==
  ASSUME IInv, FetchStep
  PROVE  \E g, o, c, more, done, clean : FetchRound(g, o, c, more, done, clean)
<1> DEFINE R(o) == o.reply
           OK(o) == ParseCertificate(ctx, R(o))
           C(o) == WithPortion(R(o))
           More(o) == OK(o) /\ ~Stalls(R(o)) /\ R(o).rem > 0
           Done(o) == OK(o) /\ R(o).rem = 0 /\ Whole(C(o).chain)
           Clean(o) == fetch.clean /\ R(o) = Asked
           Round(g, o) ==
             /\ Transport(o, g, rs)
             /\ IF More(o)
                THEN /\ ctx' = C(o) /\ pc' = pc
                     /\ fetch' = [fetch EXCEPT
                                    !.offset = (@ + Len(R(o).portion)) % Word16,
                                    !.clean = Clean(o), !.round = 1 - @]
                     /\ last' = NoLast
                ELSE /\ Return("GET_CERTIFICATE",
                               IF Done(o)
                               THEN Ok([Add(C(o), [t |-> "Ct", chain |-> C(o).chain])
                                          EXCEPT !.state = "CERT"])
                               ELSE Failed(C(o)))
                     /\ fetch' = NoFetch
                     /\ last' = [t |-> "CHAIN", ok |-> Done(o), got |-> C(o).chain,
                                 want |-> IF Clean(o) THEN ChainIn(ctx.slot) ELSE <<>>]
<1>10. PICK g \in {Asked} \union (IF rs.world.odd THEN OddPortions(ctx.slot) ELSE {}) :
         \E o \in Outcomes(g) : Round(g, o)
  BY Zenon DEF FetchStep, Asked, WithPortion
<1>1. PICK o \in Outcomes(g) : Round(g, o)
  BY <1>10, Zenon
<1>2. fetch.on /\ kexes' = kexes /\ pin' = pin
  BY Zenon DEF FetchStep
<1>3. ctx.slot \in Slots /\ fetch.offset \in Nat /\ rs \in Responders /\ ctx \in Ctxs
      /\ rsps \in SUBSET Replies
  BY Before1 DEF Ctxs, Fetches
<1>4. Asked = ERROR \/ Asked \in CertificateMsgs
  <2>1. ReqLen(ctx) \in Nat /\ ReqLen(ctx) >= 1
    BY <1>3, ReqLenPositive
  <2> QED
    BY <1>3, <2>1, PortionFacts, Zenon DEF Asked, IsPortion
<1>5. g = ERROR \/ g \in CertificateMsgs
  <2>1. g = Asked \/ g \in OddPortions(ctx.slot)
    BY <1>10
  <2> QED
    BY <1>3, <1>4, <2>1, OddFacts
<1>6. g \in Replies \union {ERROR} /\ g.t \notin {"KEY_EXCHANGE_RSP", "FINISH_RSP"}
  <2>1. g \in CertificateMsgs => g.t = "CERTIFICATE"
    BY DEF CertificateMsgs
  <2>2. g = ERROR => g.t = "ERROR"
    BY DEF ERROR
  <2>3. g \in Replies \union {ERROR}
    BY <1>5 DEF Replies
  <2> QED
    BY <1>5, <2>1, <2>2, <2>3
<1>7. R(o) \in Replies \union {LOST, ERROR}
  BY <1>1, <1>3, <1>6, OutcomeFacts
<1>8. Grown(R(o), C(o))
  BY <1>2, <1>7, FetchGrows, Zenon
<1>9. FetchRound(g, o, C(o), More(o), Done(o), Clean(o))
  BY <1>1, <1>2, <1>6, <1>8, Zenon DEF FetchRound
<1> QED
  BY <1>9, Zenon

\* The round, with what it says of the context.
LEMMA GrownFacts ==
  ASSUME IInv, NEW r, NEW c, Grown(r, c)
  PROVE  /\ c \in Ctxs /\ c.trans = ctx.trans /\ c.th1 = ctx.th1
         /\ c.version = ctx.version /\ c.maxVersion = ctx.maxVersion
         /\ c.key = ctx.key /\ c.fromCert = ctx.fromCert /\ c.slot = ctx.slot
         /\ c.state = ctx.state /\ Len(c.chain) <= MaxChain
         /\ StepOK(c)
<1>1. /\ c \in Ctxs /\ SameTrans(ctx, c) /\ SameConf(ctx, c) /\ SameAlgs(ctx, c)
      /\ SameKey(ctx, c) /\ c.slot = ctx.slot /\ c.state = ctx.state
      /\ Len(c.chain) <= MaxChain
  BY Zenon DEF Grown
<1>2. /\ c.trans = ctx.trans /\ c.th1 = ctx.th1
      /\ c.version = ctx.version /\ c.maxVersion = ctx.maxVersion
      /\ c.key = ctx.key /\ c.fromCert = ctx.fromCert
  BY <1>1 DEF SameTrans, SameConf, SameAlgs, SameKey
<1>3. Continues(ctx, c)
  BY <1>1, <1>2, Before1, ContinuesFacts, Zenon
<1>4. StepOK(c)
  BY <1>1, <1>2, <1>3, Before1 DEF StepOK, KeyOK
<1> QED
  BY <1>1, <1>2, <1>4

\* The round goes on.
LEMMA FetchMore ==
  ASSUME IInv, NEW g, NEW o, NEW c, NEW more, NEW done, NEW clean,
         FetchRound(g, o, c, more, done, clean), more
  PROVE  /\ IInv' /\ Quiet /\ last' = NoLast
         /\ fetch'.offset \in Nat /\ fetch'.offset > fetch.offset
<1> DEFINE r == o.reply
           ok == ParseCertificate(ctx, r)
           ch == ChainIn(ctx.slot)
           off == fetch.offset
           l == Len(r.portion)
<1>1. /\ fetch.on /\ g \in Replies \union {ERROR}
      /\ g.t \notin {"KEY_EXCHANGE_RSP", "FINISH_RSP"}
      /\ Transport(o, g, rs) /\ kexes' = kexes /\ pin' = pin
      /\ Grown(r, c) /\ more = (ok /\ ~Stalls(r) /\ r.rem > 0)
      /\ clean = (fetch.clean /\ r = Asked)
      /\ ctx' = c /\ pc' = pc
      /\ fetch' = [fetch EXCEPT !.offset = (@ + l) % Word16,
                                !.clean = clean, !.round = 1 - @]
  BY Zenon DEF FetchRound
<1>2. ok /\ r.rem > 0
  BY <1>1, Zenon
<1>3. /\ c \in Ctxs /\ c.trans = ctx.trans /\ c.th1 = ctx.th1
      /\ c.version = ctx.version /\ c.maxVersion = ctx.maxVersion
      /\ c.key = ctx.key /\ c.fromCert = ctx.fromCert /\ c.slot = ctx.slot
      /\ c.state = ctx.state /\ Len(c.chain) <= MaxChain
      /\ StepOK(c)
  BY <1>1, GrownFacts, Zenon
<1>4. /\ r \in CertificateMsgs /\ Len(c.chain) = off + l
      /\ clean => \E to : /\ IsPortion(r, ch, ctx.slot, off, to)
                          /\ c.chain = SubSeq(ch, 1, to) /\ Len(c.chain) = to
  BY <1>1, <1>2, Zenon DEF Grown
<1>5. (off + l) % Word16 = Len(c.chain) /\ Len(c.chain) \in Nat
  <2>1. Word16 \in Nat /\ MaxChain \in Nat /\ MaxChain < Word16
    BY StandardAssumption
  <2>2. c.chain \in Seq(Cells)
    BY <1>3 DEF Ctxs
  <2>3. Len(c.chain) \in Nat
    BY <2>2
  <2> DEFINE n == Len(c.chain)
  <2>4. n \in Nat /\ n < Word16
    BY <1>3, <2>1, <2>3
  <2> HIDE DEF n
  <2>5. n % Word16 = n
    BY <2>1, <2>4
  <2> QED
    BY <1>4, <2>3, <2>5, Zenon DEF n
<1>6. /\ fetch' \in Fetches /\ fetch'.on /\ fetch'.offset = Len(c.chain)
      /\ fetch'.clean = clean
  <2>1. fetch \in Fetches /\ clean \in BOOLEAN
    BY <1>1, Before1
  <2> DEFINE n == (off + l) % Word16
  <2>2. n \in Nat /\ n = Len(c.chain)
    BY <1>5, Zenon
  <2> DEFINE k == 1 - fetch.round
  <2>3. fetch' = [fetch EXCEPT !.offset = n, !.clean = clean, !.round = k]
    BY <1>1, Zenon
  <2>5. k \in {0, 1}
    BY <2>1 DEF Fetches
  <2> HIDE DEF n, k
  <2>4. fetch' \in Fetches /\ fetch'.on = fetch.on /\ fetch'.offset = n
        /\ fetch'.clean = clean
    BY <2>1, <2>2, <2>3, <2>5 DEF Fetches
  <2> QED
    BY <1>1, <2>2, <2>4
<1>7. /\ rs' = rs /\ rsps' \in SUBSET Replies /\ \A x \in rsps' : ReplyOK(x, kexes)
  <2>1. rs' = rs
    BY <1>1, Zenon DEF Transport
  <2>2. rsps' \in SUBSET Replies /\ \A x \in rsps' : ReplyOK(x, kexes)
    <3>1. Transport(o, g, rs) /\ g \in Replies \union {ERROR}
          /\ g.t \notin {"KEY_EXCHANGE_RSP", "FINISH_RSP"}
      BY <1>1, Zenon
    <3> QED
      BY <3>1, Before1, EarlyExchange
  <2> QED
    BY <2>1, <2>2
<1>8. pc \in {"IDLE", "GET_CERTIFICATE"}
  BY <1>1 DEF IInv, FetchPart
<1>9. Typed'
  <2>1. ctx' \in Ctxs /\ pc' \in PCs /\ kexes' \in Nat /\ pin' \in Pins \union {None}
        /\ rs' \in Responders
    BY <1>1, <1>3, <1>7, Before1
  <2> QED
    BY <1>6, <1>7, <2>1 DEF Typed
<1>10. KeyPart'
  <2>1. ctx'.key = ctx.key /\ ctx'.fromCert = ctx.fromCert /\ pin' = pin
    BY <1>1, <1>3, Zenon
  <2> QED
    BY <2>1, Before1 DEF KeyPart, KeyOK
<1>11. VersionPart'
  <2>1. VersionOK(ctx) => VersionOK(c)
    <3>1. Continues(ctx, c)
      BY <1>3 DEF StepOK
    <3> QED
      BY <1>3, <3>1, Before1, VersionKept
  <2>2. ctx' = c /\ pc' = pc
    BY <1>1, Zenon
  <2> QED
    BY <1>8, <2>1, <2>2, Before1 DEF VersionPart
<1>12. VcaPart' /\ SessPart' /\ RspsPart' /\ FinishPart'
  <2>1. kexes' = kexes /\ pc' = pc
    BY <1>1, Zenon
  <2> QED
    BY <1>7, <1>8, <2>1, Before1 DEF VcaPart, SessPart, RspsPart, FinishPart
<1>13. NoHalfMessage'
  <2>1. ctx'.trans = ctx.trans
    BY <1>1, <1>3, Zenon
  <2> QED
    BY <2>1 DEF IInv, NoHalfMessage
<1>14. FetchPart'
  <2>1. ctx' = c /\ pc' = pc
    BY <1>1, Zenon
  <2>2. ChainIn(ctx.slot)' = ch
    BY <1>3, <1>7, <2>1, Zenon DEF ChainIn
  <2>3. clean => /\ Len(c.chain) < Len(ch)
                 /\ c.chain = SubSeq(ch, 1, Len(c.chain))
    <3> SUFFICES ASSUME clean
                 PROVE  Len(c.chain) < Len(ch) /\ c.chain = SubSeq(ch, 1, Len(c.chain))
      OBVIOUS
    <3>1. PICK to : /\ IsPortion(r, ch, ctx.slot, off, to)
                    /\ c.chain = SubSeq(ch, 1, to) /\ Len(c.chain) = to
      BY <1>4, Zenon
    <3>2. to \in Nat /\ r.rem = Len(ch) - to
      BY <3>1, Zenon DEF IsPortion
    <3>3. Len(ch) \in Nat
      <4>1. ctx.slot \in Slots
        BY Before1 DEF Ctxs
      <4> QED
        BY <4>1, Before1, ChainInTyped
    <3>4. \A a \in Nat, b \in Nat : a - b > 0 => b < a
      OBVIOUS
    <3>5. to < Len(ch)
      BY <1>2, <3>2, <3>3, <3>4, Zenon
    <3> QED
      BY <3>1, <3>5, Zenon
  <2> HIDE DEF ch
  <2> QED
    BY <1>3, <1>6, <1>8, <2>1, <2>2, <2>3, Zenon DEF FetchPart
<1>15. Quiet
  <2>1. c = ctx' /\ c.th1 = ctx.th1 /\ c.state = ctx.state
    BY <1>1, GrownFacts, Zenon
  <2> QED
    BY <2>1 DEF Quiet
<1>16. last' = NoLast
  BY Zenon DEF FetchRound
<1>17. fetch'.offset \in Nat /\ fetch'.offset > fetch.offset
  <2>1. r.portion # <<>> /\ r.portion \in Seq(Cells)
    <3>1. r.portion # <<>>
      BY <1>1, Zenon DEF Stalls
    <3>2. r.portion \in Seq(Cells)
      BY <1>4 DEF CertificateMsgs
    <3> QED
      BY <3>1, <3>2
  <2>2. l \in Nat /\ l > 0
    <3>1. \A q \in Seq(Cells) : q # <<>> => Len(q) \in Nat /\ Len(q) > 0
      OBVIOUS
    <3> QED
      BY <2>1, <3>1, Zenon
  <2>3. off \in Nat
    BY Before1 DEF Fetches
  <2> HIDE DEF l, off
  <2>4. \A a \in Nat, b \in Nat : b > 0 => a + b \in Nat /\ a + b > a
    OBVIOUS
  <2>5. off + l \in Nat /\ off + l > off
    BY <2>2, <2>3, <2>4, Zenon
  <2> QED
    BY <1>4, <1>6, <2>5, Zenon DEF off
<1> QED
  BY <1>9, <1>10, <1>11, <1>12, <1>13, <1>14, <1>15, <1>16, <1>17 DEF IInv

\* What ChainComplete says of a fetch.
FitsChain(ch) == Len(ch) \in 2 .. MaxChain /\ ch[1].len = Len(ch)

\* The fetch ends: the context, and what it returns.
LEMMA FetchEnds ==
  ASSUME IInv, NEW g, NEW o, NEW c, NEW more, NEW done, NEW clean,
         FetchRound(g, o, c, more, done, clean), ~more
  PROVE  /\ IInv' /\ done \in BOOLEAN
         /\ last' = [t |-> "CHAIN", ok |-> done, got |-> c.chain,
                     want |-> IF clean THEN ChainIn(ctx.slot) ELSE <<>>]
         /\ done => FitsChain(c.chain)
         /\ clean /\ FitsChain(ChainIn(ctx.slot)) => done /\ c.chain = ChainIn(ctx.slot)
         /\ Quiet /\ ~fetch'.on
<1> DEFINE r == o.reply
           ok == ParseCertificate(ctx, r)
           ch == ChainIn(ctx.slot)
           off == fetch.offset
           m == [t |-> "Ct", chain |-> c.chain]
           c2 == Add(c, m)
           c3 == [c2 EXCEPT !.state = "CERT"]
           res == IF done THEN Ok(c3) ELSE Failed(c)
<1>1. /\ fetch.on /\ g \in Replies \union {ERROR}
      /\ g.t \notin {"KEY_EXCHANGE_RSP", "FINISH_RSP"}
      /\ Transport(o, g, rs) /\ kexes' = kexes /\ pin' = pin
      /\ Grown(r, c) /\ more = (ok /\ ~Stalls(r) /\ r.rem > 0)
      /\ done = (ok /\ r.rem = 0 /\ Whole(c.chain))
      /\ clean = (fetch.clean /\ r = Asked)
      /\ Return("GET_CERTIFICATE", res) /\ fetch' = NoFetch
      /\ last' = [t |-> "CHAIN", ok |-> done, got |-> c.chain,
                  want |-> IF clean THEN ch ELSE <<>>]
  BY Zenon DEF FetchRound
<1>2. /\ c \in Ctxs /\ c.trans = ctx.trans /\ c.th1 = ctx.th1
      /\ c.version = ctx.version /\ c.maxVersion = ctx.maxVersion
      /\ c.key = ctx.key /\ c.fromCert = ctx.fromCert /\ c.slot = ctx.slot
      /\ c.state = ctx.state /\ Len(c.chain) <= MaxChain
      /\ StepOK(c)
  BY <1>1, GrownFacts, Zenon
<1>3. done \in BOOLEAN
  BY <1>1
<1>4. c.chain \in Seq(Cells) /\ Len(c.chain) \in Nat
  <2>1. c.chain \in Seq(Cells)
    BY <1>2 DEF Ctxs
  <2> QED
    BY <2>1
<1>5. done => FitsChain(c.chain)
  <2>1. done => Len(c.chain) > 1 /\ c.chain[1].len = Len(c.chain)
    BY <1>1, Zenon DEF Whole
  <2>2. MaxChain \in Nat
    BY StandardAssumption
  <2>3. Len(c.chain) > 1 => Len(c.chain) \in 2 .. MaxChain
    BY <1>2, <1>4, <2>2
  <2> QED
    BY <2>1, <2>3, Zenon DEF FitsChain
<1>6. ASSUME clean, FitsChain(ch)
      PROVE  done /\ c.chain = ch
  <2>1. Len(ch) \in 2 .. MaxChain /\ ch[1].len = Len(ch)
    BY <1>6 DEF FitsChain
  <2>2. fetch.clean /\ r = Asked
    BY <1>1, <1>6, Zenon
  <2>3. ok /\ ~Stalls(r)
    BY <1>1, <2>1, <2>2, Zenon DEF Grown
  <2>4. PICK to : /\ IsPortion(r, ch, ctx.slot, off, to)
                  /\ c.chain = SubSeq(ch, 1, to) /\ Len(c.chain) = to
    BY <1>1, <2>2, <2>3, Zenon DEF Grown
  <2>5. ~(r.rem > 0)
    BY <1>1, <2>3, Zenon
  <2>6. ctx.slot \in Slots
    BY Before1 DEF Ctxs
  <2>7. /\ ch \in Seq(Cells) /\ Len(ch) \in Nat /\ (ch # <<>> => IsHeader(ch[1]))
    BY <2>6, Before1, ChainInTyped
  <2>8. to \in Nat /\ to <= Len(ch) /\ r.rem = Len(ch) - to
    BY <2>4, Zenon DEF IsPortion
  <2> HIDE DEF ch
  <2>9. to = Len(ch) /\ r.rem = 0
    <3>1. \A a \in Nat, b \in Nat : b <= a /\ ~(a - b > 0) => b = a /\ a - b = 0
      OBVIOUS
    <3> QED
      BY <2>5, <2>7, <2>8, <3>1, Zenon
  <2>10. SubSeq(ch, 1, Len(ch)) = ch
    BY <2>7
  <2>11. c.chain = ch
    BY <2>4, <2>9, <2>10, Zenon
  <2>12. ch # <<>> /\ Len(ch) > 1
    BY <2>1, <2>7
  <2>13. Whole(c.chain)
    BY <2>1, <2>7, <2>11, <2>12, Zenon DEF Whole
  <2> QED
    BY <1>1, <2>3, <2>9, <2>11, <2>13, Zenon
<1>7. c3 \in Ctxs /\ StepOK(c3) /\ c3.state = "CERT" /\ c3.th1 = ctx.th1
  <2>1. m \in Msgs /\ m.t = "Ct"
    BY <1>4, MsgKinds
  <2>2. m.t \notin {"GET_VERSION", "GET_CAPABILITIES", "NEGOTIATE_ALGORITHMS"}
    BY <2>1
  <2>3. NoHalf(c.trans)
    BY <1>2, Before1
  <2> HIDE DEF m
  <2>4. /\ c2 \in Ctxs /\ c2.trans = Append(c.trans, m) /\ c2.th1 = c.th1
        /\ c2.state = c.state /\ NoHalf(c2.trans)
        /\ SameConf(c, c2) /\ SameAlgs(c, c2) /\ SameChain(c, c2) /\ SameKey(c, c2)
    BY <1>2, <2>1, <2>2, <2>3, AddFacts, Zenon
  <2>5. c2.trans = Append(ctx.trans, m)
    BY <1>2, <2>4, Zenon
  <2> HIDE DEF c2
  <2>6. c3 \in Ctxs /\ c3.state = "CERT" /\ Same(c2, c3)
    <3>1. "CERT" \in States
      BY DEF States
    <3> QED
      BY <2>4, <3>1, SetState, Zenon
  <2> HIDE DEF c3
  <2>7. /\ c3.trans = c2.trans /\ c3.th1 = c.th1 /\ c3.version = c.version
        /\ c3.maxVersion = c.maxVersion /\ c3.key = c.key /\ c3.fromCert = c.fromCert
        /\ c3.chain = c.chain
    BY <2>4, <2>6 DEF Same, SameTrans, SameConf, SameAlgs, SameChain, SameKey
  <2>8. Continues(ctx, c3)
    <3>1. c3.trans = Append(ctx.trans, m)
      BY <2>5, <2>7, Zenon
    <3> QED
      BY <2>1, <3>1, Before1, ContinuesFacts, Zenon
  <2>9. KeyOK(c3, pin)
    BY <1>2, <2>7, Before1 DEF KeyOK
  <2>10. NoHalf(c3.trans)
    BY <2>4, <2>7, Zenon
  <2>11. c3.version = ctx.version /\ c3.maxVersion = ctx.maxVersion
         /\ Len(c3.chain) <= MaxChain /\ c3.th1 = ctx.th1
    BY <1>2, <2>7, Zenon
  <2> QED
    BY <2>6, <2>8, <2>9, <2>10, <2>11, Zenon DEF StepOK
<1> HIDE DEF c3
<1>8. /\ StepOK(res.ctx) /\ res.ctx \in Ctxs /\ res.ctx.th1 = ctx.th1
      /\ res.ctx.state \in {ctx.state, "CERT"}
  <2>1. CASE done
    <3>1. res = Ok(c3)
      BY <2>1, Zenon
    <3> HIDE DEF res
    <3>2. res.ctx = c3
      BY <3>1 DEF Ok
    <3> QED
      BY <1>7, <3>2
  <2>2. CASE ~done
    <3>1. res = Failed(c)
      BY <2>2, Zenon
    <3> HIDE DEF res
    <3>2. res.ctx = c
      BY <3>1 DEF Failed
    <3> QED
      BY <1>2, <3>2
  <2> QED
    BY <2>1, <2>2
<1> HIDE DEF res
<1>9. pc \in {"IDLE", "GET_CERTIFICATE"} /\ "GET_CERTIFICATE" \in PCs
  BY <1>1 DEF IInv, FetchPart, PCs
<1>10. PeerOK
  <2>1. Transport(o, g, rs) /\ g \in Replies \union {ERROR} /\ kexes' = kexes
        /\ g.t \notin {"KEY_EXCHANGE_RSP", "FINISH_RSP"}
    BY <1>1, Zenon
  <2> QED
    BY <2>1, Before1, EarlyExchange DEF PeerOK
<1>11. fetch' \in Fetches /\ ~fetch'.on
  <2>1. fetch' = NoFetch
    BY <1>1, Zenon
  <2> QED
    BY <2>1 DEF NoFetch, Fetches
<1>12. Return("GET_CERTIFICATE", res) /\ kexes' = kexes /\ pin' = pin
  BY <1>1, Zenon
<1>13. IInv'
  BY <1>8, <1>9, <1>10, <1>11, <1>12, Before1, StepIInv
<1>14. /\ Same(res.ctx, ctx')
       /\ ctx'.state = "CONNECTED" =>
            \/ res.ctx.state = "CONNECTED"
            \/ res.ok /\ "GET_CERTIFICATE" = "FINISH" /\ pc # "IDLE"
  BY <1>8, <1>12, Before1, ReturnFacts, Zenon
<1>15. ctx'.th1 = ctx.th1
  BY <1>8, <1>14 DEF Same, SameTrans
<1>16. ctx'.state = "CONNECTED" => ctx.state = "CONNECTED"
  BY <1>8, <1>14
<1>18. Quiet
  BY <1>15, <1>16 DEF Quiet
<1>17. last' = [t |-> "CHAIN", ok |-> done, got |-> c.chain,
                want |-> IF clean THEN ch ELSE <<>>]
  BY <1>1, Zenon
<1> QED
  BY <1>3, <1>5, <1>6, <1>11, <1>13, <1>17, <1>18, Zenon

\* One round of the loop.
LEMMA FetchStepIInv ==
  ASSUME IInv, FetchStep
  PROVE  IInv' /\ Quiet
<1>1. PICK g, o, c, more, done, clean : FetchRound(g, o, c, more, done, clean)
  BY FetchRoundFacts, Zenon
<1>2. CASE more
  BY <1>1, <1>2, FetchMore, Zenon
<1>3. CASE ~more
  BY <1>1, <1>3, FetchEnds
<1> QED
  BY <1>2, <1>3

-----------------------------------------------------------------------------
(* The invariant of the specification *)

\* Every step preserves it.
LEMMA NextIInv ==
  ASSUME IInv, [Next]_vars
  PROVE  IInv'
<1>1. CASE Connect
  BY <1>1, ConnectIInv
<1>2. CASE GetVersion
  BY <1>2, GetVersionIInv
<1>3. CASE GetCapabilities
  BY <1>3, GetCapabilitiesIInv
<1>4. CASE NegotiateAlgorithms \/ NegotiateNothing
  BY <1>4, NegotiateAlgorithmsIInv, NegotiateNothingIInv
<1>5. CASE GetDigests
  BY <1>5, GetDigestsIInv
<1>6. CASE GetCertificate
  BY <1>6, GetCertificateIInv
<1>7. CASE FetchStep
  BY <1>7, FetchStepIInv
<1>8. CASE Validate
  BY <1>8, ValidateIInv
<1>9. CASE KeyExchange \/ KeyExchangeRefused
  BY <1>9, KeyExchangeIInv, KeyExchangeRefusedIInv
<1>10. CASE Finish
  BY <1>10, FinishIInv
<1>11. CASE \/ SetTrustedCAs \/ AllowUntrustedCerts \/ SetResponderPubKey
            \/ SetMaxVersion \/ SetKeyExchangePref
  BY <1>11, ConfigIInv
<1>12. CASE Reprovision
  BY <1>12, ReprovisionIInv
<1>13. CASE UNCHANGED vars
  BY <1>13, StutterIInv
<1> QED
  BY <1>1, <1>2, <1>3, <1>4, <1>5, <1>6, <1>7, <1>8, <1>9, <1>10, <1>11, <1>12,
     <1>13, Zenon DEF Next

\* It is an invariant: of every world, every configuration, every loss and
\* every order of calls.
LEMMA AlwaysIInv == Spec => []IInv
<1>1. Init => IInv
  BY InitIInv
<1>2. IInv /\ [Next]_vars => IInv'
  BY NextIInv
<1> QED
  BY <1>1, <1>2, PTL DEF Spec

\* At most one algorithm, counted.
LEMMA AtMostOneCounts ==
  ASSUME NEW S, NEW T \in AtMostOne(S)
  PROVE  T \subseteq S /\ Cardinality(T) <= 1
<1>1. CASE T = {}
  BY <1>1, FS_EmptySet
<1>2. CASE \E x \in S : T = {x}
  <2>1. PICK x \in S : T = {x}
    BY <1>2
  <2>2. Cardinality(T) = 1
    BY <2>1, FS_Singleton
  <2> QED
    BY <2>1, <2>2
<1> QED
  BY <1>1, <1>2 DEF AtMostOne

\* The steps Connect may be at.
LEMMA PCsAreSteps == \A p \in PCs : p \in Range(Steps) \union {"IDLE"}
<1>1. DOMAIN Steps = 1 .. 8
      /\ Steps[1] = "GET_VERSION" /\ Steps[2] = "GET_CAPABILITIES"
      /\ Steps[3] = "NEGOTIATE_ALGORITHMS" /\ Steps[4] = "GET_DIGESTS"
      /\ Steps[5] = "GET_CERTIFICATE" /\ Steps[6] = "VALIDATE"
      /\ Steps[7] = "KEY_EXCHANGE" /\ Steps[8] = "FINISH"
  BY DEF Steps
<1>2. \A i \in 1 .. 8 : Steps[i] \in Range(Steps)
  BY <1>1, Zenon DEF Range
<1> QED
  BY <1>1, <1>2 DEF PCs

\* Type correctness of the standard requester: the states of the context, the
\* negotiated version and algorithms, the tokens of the transcript, the chain
\* within its buffer and as long as the offset of the GET_CERTIFICATE loop, and
\* a responder key that is pinned or marked as taken from a chain.
THEOREM TypeCorrect == Spec => []StandardTypeOK
<1>1. IInv => StandardTypeOK
  <2> SUFFICES ASSUME IInv PROVE StandardTypeOK
    OBVIOUS
  <2>1. /\ ctx.state \in States /\ ctx.version \in Versions
        /\ ctx.pqcAsymSel \in AtMostOne(MLDSA_SETS)
        /\ ctx.kemAlgSel \in AtMostOne(MLKEM_SETS) /\ ctx.trans \in Seq(Msgs)
        /\ ctx.slot \in Slots /\ ctx.slotMask \in SUBSET Slots
    BY Before1 DEF Ctxs
  <2>2. /\ ctx.pqcAsymSel \subseteq MLDSA_SETS /\ Cardinality(ctx.pqcAsymSel) <= 1
        /\ ctx.kemAlgSel \subseteq MLKEM_SETS /\ Cardinality(ctx.kemAlgSel) <= 1
    BY <2>1, AtMostOneCounts
  <2>3. ASSUME NEW i \in DOMAIN ctx.trans
        PROVE  ctx.trans[i].t \in Tokens
    <3>1. ctx.trans[i] \in Msgs
      BY <2>1
    <3> QED
      BY <3>1, MsgTags
  <2>4. Len(ctx.chain) <= MaxChain /\ (fetch.on => fetch.offset = Len(ctx.chain))
    BY DEF IInv, FetchPart
  <2>5. ctx.key = None => ~ctx.fromCert
    <3>1. KeyOK(ctx, pin)
      BY Before1
    <3> QED
      BY <3>1 DEF KeyOK
  <2>6. pc \in Range(Steps) \union {"IDLE"}
    BY Before1, PCsAreSteps
  <2>7. ctx.slotMask \subseteq Slots
    BY <2>1
  <2> QED
    BY <2>1, <2>2, <2>3, <2>4, <2>5, <2>6, <2>7, Zenon
    DEF StandardTypeOK, States, Versions
<1> QED
  BY <1>1, AlwaysIInv, PTL

\* A failed exchange leaves no half message of the VCA part behind, for every
\* order of calls, losses and late replies: wolfSPDM_ExchangeMsg takes the
\* request out of the transcript again.
THEOREM NothingHalfHashed == Spec => []NoHalfMessage
<1>1. IInv => NoHalfMessage
  BY DEF IInv
<1> QED
  BY <1>1, AlwaysIInv, PTL

-----------------------------------------------------------------------------
(* What a step computes *)

\* The properties of the last step together.
LastOK ==
  VersionBest /\ AlgorithmsAnswerOffer /\ ChainComplete /\ ValidateIsVouched

\* A step that computes nothing.
LEMMA NothingComputed ==
  ASSUME last' = NoLast
  PROVE  LastOK'
<1>1. last'.t = "NONE"
  BY DEF NoLast, None
<1> QED
  BY <1>1 DEF LastOK, VersionBest, AlgorithmsAnswerOffer, ChainComplete,
              ValidateIsVouched

\* A step that computes what it should.
LEMMA RightlyComputed ==
  ASSUME NEW kind \in {"VERSION", "ALGORITHMS", "VALIDATE"}, NEW x,
         last' = [t |-> kind, got |-> x, want |-> x]
  PROVE  LastOK'
<1>1. last'.t = kind /\ last'.got = x /\ last'.want = x
  OBVIOUS
<1> QED
  BY <1>1 DEF LastOK, VersionBest, AlgorithmsAnswerOffer, ChainComplete,
              ValidateIsVouched

\* wolfSPDM_GetVersion: ParseVersion selects the best version.
LEMMA GetVersionLast ==
  ASSUME IInv, GetVersion
  PROVE  LastOK'
<1> DEFINE R(o) == o.reply
           V(o) == IF R(o).t = "VERSION" THEN ParseVersion(ctx, R(o)) ELSE 0
           Rec(o) == [t |-> "VERSION", got |-> V(o),
                      want |-> Max({0} \union CommonVersions(ctx, R(o)))]
<1>1. PICK g \in rs.world.versions :
        \E o \in Outcomes(g) : last' = IF R(o).t # "VERSION" THEN NoLast ELSE Rec(o)
  BY Zenon DEF GetVersion
<1>2. PICK o \in Outcomes(g) : last' = IF R(o).t # "VERSION" THEN NoLast ELSE Rec(o)
  BY <1>1, Zenon
<1>3. g \in Replies
  <2>1. g \in VersionMsgs
    BY Before1, WorldsAssumption DEF Responders
  <2> QED
    BY <2>1, Zenon DEF Replies
<1>4. o.reply \in Replies \union {LOST, ERROR}
  BY <1>3, Before1, OutcomeFacts
<1>5. CASE R(o).t # "VERSION"
  BY <1>2, <1>5, NothingComputed, Zenon
<1>6. CASE R(o).t = "VERSION"
  <2> DEFINE r == o.reply
             x == Max({0} \union CommonVersions(ctx, r))
  <2>1. r \in VersionMsgs
    BY <1>4, <1>6, ReplyKinds
  <2>2. ctx.maxVersion \in {0} \union MIN_SPDM_VERSION .. MAX_SPDM_VERSION
    BY Before1 DEF Ctxs, Versions
  <2>3. ParseVersion(ctx, r) = x
    BY <2>1, <2>2, ParseVersionSelectsBest, Zenon
  <2>4. V(o) = x
    BY <1>6, <2>3, Zenon
  <2>5. last' = [t |-> "VERSION", got |-> x, want |-> x]
    BY <1>2, <1>6, <2>4, Zenon
  <2> HIDE DEF x
  <2> QED
    BY <2>5, RightlyComputed, Zenon
<1> QED
  BY <1>5, <1>6

\* wolfSPDM_NegotiateAlgorithms: ParseAlgorithms accepts exactly an answer.
LEMMA NegotiateAlgorithmsLast ==
  ASSUME IInv, NegotiateAlgorithms
  PROVE  LastOK'
<1> DEFINE R(o) == o.reply
           Ans(o) == R(o).t = "ALGORITHMS"
           OK(o) == Ans(o) /\ ParseAlgorithms(ctx, R(o))
           Rec(o) == [t |-> "ALGORITHMS", got |-> OK(o),
                      want |-> AnswersOffer(ctx, R(o))]
<1>1. PICK g \in IF Len(rs.vca) >= 4 THEN rs.world.algs ELSE {ERROR} :
        \E o \in Outcomes(g) : last' = IF ~Ans(o) THEN NoLast ELSE Rec(o)
  BY Zenon DEF NegotiateAlgorithms
<1>2. PICK o \in Outcomes(g) : last' = IF ~Ans(o) THEN NoLast ELSE Rec(o)
  BY <1>1, Zenon
<1>3. g \in Replies \union {ERROR}
  <2>1. g = ERROR \/ g \in AlgorithmsMsgs
    BY Before1, WorldsAssumption DEF Responders
  <2> QED
    BY <2>1, Zenon DEF Replies
<1>4. o.reply \in Replies \union {LOST, ERROR}
  BY <1>3, Before1, OutcomeFacts
<1>5. CASE ~Ans(o)
  BY <1>2, <1>5, NothingComputed, Zenon
<1>6. CASE Ans(o)
  <2> DEFINE r == o.reply
             x == AnswersOffer(ctx, r)
             y == OK(o)
  <2>1. r \in AlgorithmsMsgs
    BY <1>4, <1>6, ReplyKinds
  <2>2. Negotiates(ctx)
    BY Before1 DEF Ctxs, Negotiates, Versions
  <2>3. ParseAlgorithms(ctx, r) <=> x
    BY <2>1, <2>2, ParseAlgorithmsIsAnswer, Zenon
  <2>4. x \in BOOLEAN /\ y \in BOOLEAN
    BY Zenon DEF AnswersOffer, ParseAlgorithms
  <2>5. y <=> x
    BY <1>6, <2>3, Zenon
  <2>6. last' = [t |-> "ALGORITHMS", got |-> y, want |-> x]
    BY <1>2, <1>6, Zenon
  <2> HIDE DEF x, y
  <2>7. y = x
    BY <2>4, <2>5, Zenon
  <2> QED
    BY <2>6, <2>7, RightlyComputed, Zenon
<1> QED
  BY <1>5, <1>6

\* wolfSPDM_ValidateCertChain accepts exactly what is vouched for.
LEMMA ValidateLast ==
  ASSUME IInv, Validate
  PROVE  LastOK'
<1> DEFINE x == Vouched(ctx, ctx.chain, pin)
           y == ValidateCertChain(ctx).ok
<1>1. last' = [t |-> "VALIDATE", got |-> y, want |-> x]
  BY Zenon DEF Validate
<1>2. y \in BOOLEAN /\ (y <=> x)
  BY ValidatedOK, Zenon DEF Validated
<1>3. x \in BOOLEAN
  BY Zenon DEF Vouched
<1> HIDE DEF x, y
<1>4. y = x
  BY <1>2, <1>3
<1> QED
  BY <1>1, <1>4, RightlyComputed, Zenon

\* The loop of wolfSPDM_GetCertificate: a chain that fits and is fetched
\* undisturbed is returned whole, and no other than a whole one is accepted.
LEMMA FetchStepLast ==
  ASSUME IInv, FetchStep
  PROVE  LastOK'
<1>1. PICK g, o, c, more, done, clean : FetchRound(g, o, c, more, done, clean)
  BY FetchRoundFacts, Zenon
<1>2. CASE more
  BY <1>1, <1>2, FetchMore, NothingComputed, Zenon
<1>3. CASE ~more
  <2> DEFINE ch == c.chain
             w == IF clean THEN ChainIn(ctx.slot) ELSE <<>>
  <2>1. /\ last' = [t |-> "CHAIN", ok |-> done, got |-> ch, want |-> w]
        /\ done => FitsChain(ch)
        /\ clean /\ FitsChain(ChainIn(ctx.slot)) => done /\ ch = ChainIn(ctx.slot)
    BY <1>1, <1>3, FetchEnds
  <2>2. w # <<>> => clean /\ w = ChainIn(ctx.slot)
    OBVIOUS
  <2> HIDE DEF ch, w
  <2>3. /\ last'.t = "CHAIN" /\ last'.ok = done /\ last'.got = ch /\ last'.want = w
    BY <2>1
  <2>4. done => FitsChain(ch)
    BY <2>1
  <2>5. w # <<>> /\ FitsChain(w) => done /\ ch = w
    BY <2>1, <2>2
  <2>6. ChainComplete'
    BY <2>3, <2>4, <2>5, Zenon DEF ChainComplete, FitsChain
  <2> QED
    BY <2>3, <2>6 DEF LastOK, VersionBest, AlgorithmsAnswerOffer, ValidateIsVouched
<1> QED
  BY <1>2, <1>3

\* Every step.
LEMMA NextLast ==
  ASSUME IInv, LastOK, [Next]_vars
  PROVE  LastOK'
<1>1. CASE GetVersion
  BY <1>1, GetVersionLast
<1>2. CASE NegotiateAlgorithms
  BY <1>2, NegotiateAlgorithmsLast
<1>3. CASE Validate
  BY <1>3, ValidateLast
<1>4. CASE FetchStep
  BY <1>4, FetchStepLast
<1>5. CASE \/ Connect \/ GetCapabilities \/ NegotiateNothing \/ GetDigests
           \/ GetCertificate \/ KeyExchange \/ KeyExchangeRefused \/ Finish
           \/ Reprovision
  <2>1. last' = NoLast
    BY <1>5, Zenon DEF Connect, GetCapabilities, NegotiateNothing, GetDigests,
       GetCertificate, KeyExchange, KeyExchangeRefused, Finish, Reprovision
  <2> QED
    BY <2>1, NothingComputed
<1>6. CASE \/ SetTrustedCAs \/ AllowUntrustedCerts \/ SetResponderPubKey
           \/ SetMaxVersion \/ SetKeyExchangePref
  <2>1. last' = NoLast
    BY <1>6, Zenon DEF SetTrustedCAs, AllowUntrustedCerts, SetResponderPubKey,
       SetMaxVersion, SetKeyExchangePref, Configure
  <2> QED
    BY <2>1, NothingComputed
<1>7. CASE UNCHANGED vars
  BY <1>7 DEF vars, LastOK, VersionBest, AlgorithmsAnswerOffer, ChainComplete,
              ValidateIsVouched
<1> QED
  BY <1>1, <1>2, <1>3, <1>4, <1>5, <1>6, <1>7, Zenon DEF Next

\* So it is with every step of every behaviour.
LEMMA AlwaysLast == Spec => []LastOK
<1>1. Init => LastOK
  BY DEF Init, NoLast, None, LastOK, VersionBest, AlgorithmsAnswerOffer,
         ChainComplete, ValidateIsVouched
<1>2. IInv /\ LastOK /\ [Next]_vars => LastOK'
  BY NextLast
<1> QED
  BY <1>1, <1>2, AlwaysIInv, PTL DEF Spec

\* wolfSPDM_GetVersion settles on the highest version both sides support within
\* SetMaxVersion, for every VERSION message that is received: whatever the
\* order of its entries, and whatever number it claims.
THEOREM VersionIsBest == Spec => []VersionBest
<1>1. LastOK => VersionBest
  BY DEF LastOK
<1> QED
  BY <1>1, AlwaysLast, PTL

\* wolfSPDM_NegotiateAlgorithms accepts an ALGORITHMS message exactly if it
\* answers the offer, for every message and every offer.
THEOREM AlgorithmsAreAnOffer == Spec => []AlgorithmsAnswerOffer
<1>1. LastOK => AlgorithmsAnswerOffer
  BY DEF LastOK
<1> QED
  BY <1>1, AlwaysLast, PTL

\* wolfSPDM_GetCertificate returns the whole chain of the slot when nothing
\* disturbs it, for every DataTransferSize and every length within the buffer,
\* and accepts only a chain as long as its header says.
THEOREM ChainIsComplete == Spec => []ChainComplete
<1>1. LastOK => ChainComplete
  BY DEF LastOK
<1> QED
  BY <1>1, AlwaysLast, PTL

\* wolfSPDM_ValidateCertChain accepts exactly the chains the configuration
\* vouches for, for chains of every length and every configuration.
THEOREM ValidatedIsVouched == Spec => []ValidateIsVouched
<1>1. LastOK => ValidateIsVouched
  BY DEF LastOK
<1> QED
  BY <1>1, AlwaysLast, PTL

-----------------------------------------------------------------------------
(* The key exchange and its policy *)

\* The configuration calls neither touch TH1 nor connect.
LEMMA ConfigQuiet ==
  ASSUME IInv,
         \/ SetTrustedCAs \/ AllowUntrustedCerts \/ SetResponderPubKey
         \/ SetMaxVersion \/ SetKeyExchangePref
  PROVE  Quiet
<1>1. ctx \in Ctxs
  BY Before1
<1>2. CASE SetTrustedCAs
  BY <1>1, <1>2 DEF SetTrustedCAs, Configure, Ctxs, Quiet
<1>3. CASE AllowUntrustedCerts
  BY <1>1, <1>3 DEF AllowUntrustedCerts, Configure, Ctxs, Quiet
<1>4. CASE SetResponderPubKey
  BY <1>1, <1>4 DEF SetResponderPubKey, Configure, Ctxs, Quiet
<1>5. CASE SetMaxVersion
  BY <1>1, <1>5 DEF SetMaxVersion, Configure, Ctxs, Quiet
<1>6. CASE SetKeyExchangePref
  BY <1>1, <1>6 DEF SetKeyExchangePref, Configure, Ctxs, Quiet
<1> QED
  BY <1>2, <1>3, <1>4, <1>5, <1>6

\* Nor does any step but KeyExchange and Finish.
LEMMA QuietSteps ==
  ASSUME IInv, [Next]_vars, ~KeyExchange, ~Finish
  PROVE  Quiet
<1>1. CASE Connect
  BY <1>1, ConnectIInv
<1>2. CASE GetVersion
  BY <1>2, GetVersionIInv
<1>3. CASE GetCapabilities
  BY <1>3, GetCapabilitiesIInv
<1>4. CASE NegotiateAlgorithms \/ NegotiateNothing
  BY <1>4, NegotiateAlgorithmsIInv, NegotiateNothingIInv
<1>5. CASE GetDigests
  BY <1>5, GetDigestsIInv
<1>6. CASE GetCertificate
  BY <1>6, GetCertificateIInv
<1>7. CASE FetchStep
  BY <1>7, FetchStepIInv
<1>8. CASE Validate
  BY <1>8, ValidateIInv
<1>9. CASE KeyExchangeRefused
  BY <1>9, KeyExchangeRefusedIInv
<1>10. CASE \/ SetTrustedCAs \/ AllowUntrustedCerts \/ SetResponderPubKey
            \/ SetMaxVersion \/ SetKeyExchangePref
  BY <1>10, ConfigQuiet
<1>11. CASE Reprovision
  BY <1>11 DEF Reprovision, Quiet
<1>12. CASE UNCHANGED vars
  BY <1>12 DEF vars, Quiet
<1> QED
  BY <1>1, <1>2, <1>3, <1>4, <1>5, <1>6, <1>7, <1>8, <1>9, <1>10, <1>11, <1>12,
     Zenon DEF Next

\* After KeyExchange the key is one the configuration of this moment trusts:
\* it was validated again before the request was sent.
LEMMA KeyExchangeTrusts ==
  ASSUME IInv, KeyExchange
  PROVE  /\ Trusted(ctx')
         /\ ctx'.state = "CONNECTED" => ctx.state = "CONNECTED"
<1>1. PICK c, n, g, o, after, res : KexStep(c, n, g, o, after, res)
  BY KexStepFacts, Zenon
<1>2. /\ Trusted(c) /\ c.state = ctx.state /\ KexParsed(c, o.reply, res)
      /\ Return("KEY_EXCHANGE", res)
  BY <1>1 DEF KexStep
<1> DEFINE d == res.ctx
<1>3. /\ d \in Ctxs /\ d.state \in {c.state, "KEY_EX"}
      /\ SameConf(c, d) /\ SameAlgs(c, d) /\ SameChain(c, d) /\ SameKey(c, d)
  BY <1>2 DEF KexParsed
<1>4. /\ Same(d, ctx')
      /\ ctx'.state = "CONNECTED" =>
           \/ d.state = "CONNECTED"
           \/ res.ok /\ "KEY_EXCHANGE" = "FINISH" /\ pc # "IDLE"
  BY <1>2, <1>3, Before1, ReturnFacts, Zenon
<1> HIDE DEF d
<1>5. /\ ctx'.chain = c.chain /\ ctx'.key = c.key /\ ctx'.trustedCA = c.trustedCA
      /\ ctx'.allow = c.allow /\ ctx'.pqcAsymSel = c.pqcAsymSel
  BY <1>3, <1>4 DEF Same, SameConf, SameAlgs, SameChain, SameKey
<1>6. Vouched(c, c.chain, None) <=> Vouched(ctx', ctx'.chain, None)
  <2>1. LeafAlg(ctx') = LeafAlg(c)
    BY <1>5 DEF LeafAlg
  <2> DEFINE e == ctx'
  <2>2. LeafAlg(e) = LeafAlg(c) /\ e.chain = c.chain /\ e.trustedCA = c.trustedCA
        /\ e.allow = c.allow
    BY <1>5, <2>1
  <2> HIDE DEF e
  <2>3. Vouched(c, c.chain, None) <=> Vouched(e, e.chain, None)
    BY <2>2, VouchedIs
  <2> QED
    BY <2>3 DEF e
<1>7. Trusted(ctx')
  BY <1>2, <1>5, <1>6 DEF Trusted
<1> QED
  BY <1>2, <1>3, <1>4, <1>7

\* Finish leaves TH1 alone.
LEMMA FinishKeepsTH1 ==
  ASSUME IInv, Finish
  PROVE  ctx'.th1 = ctx.th1
<1>1. PICK g, o, after, res : FinishStep(g, o, after, res)
  BY FinishStepFacts, Zenon
<1>2. Return("FINISH", res) /\ StepOK(res.ctx) /\ res.ctx.th1 = ctx.th1
  BY <1>1 DEF FinishStep
<1>3. res.ctx \in Ctxs
  BY <1>2 DEF StepOK
<1>4. Same(res.ctx, ctx')
  BY <1>2, <1>3, Before1, ReturnFacts, Zenon
<1> QED
  BY <1>2, <1>4 DEF Same, SameTrans

\* Whenever wolfSPDM_KeyExchange accepts a KEY_EXCHANGE_RSP, it is signed by
\* the pinned key or by the leaf of a chain the configuration of this moment
\* vouches for, in whatever order the application configures, fetches,
\* validates and exchanges.
THEOREM KexFollowsPolicy == Spec => KexUnderPolicy
<1> DEFINE Policy == ctx'.th1 \notin {ctx.th1, <<>>} =>
                       IF pin # None THEN ctx'.key = pin
                       ELSE /\ Vouched(ctx', ctx'.chain, None)
                            /\ ctx'.key = Last(ctx'.chain).key
<1>1. IInv /\ [Next]_vars => [Policy]_vars
  <2> SUFFICES ASSUME IInv, [Next]_vars PROVE Policy
    OBVIOUS
  <2>1. CASE KeyExchange
    BY <2>1, KeyExchangeTrusts, Zenon DEF Trusted
  <2>2. CASE Finish
    BY <2>2, FinishKeepsTH1
  <2>3. CASE ~KeyExchange /\ ~Finish
    BY <2>3, QuietSteps DEF Quiet
  <2> QED
    BY <2>1, <2>2, <2>3
<1> QED
  BY <1>1, AlwaysIInv, PTL DEF Spec, KexUnderPolicy

-----------------------------------------------------------------------------
(* Agreement *)

\* A best version that is not 0 is the best of the common ones.
LEMMA BestOfSome ==
  ASSUME NEW S \in SUBSET (12 .. 14), Max({0} \union S) # 0
  PROVE  Max({0} \union S) = Max(S)
<1> DEFINE T == {0} \union S
<1>1. \E x \in T : \A y \in T : x >= y
  <2>1. CASE 14 \in S
    BY <2>1
  <2>2. CASE 14 \notin S /\ 13 \in S
    BY <2>2
  <2>3. CASE 14 \notin S /\ 13 \notin S
    BY <2>3
  <2> QED
    BY <2>1, <2>2, <2>3
<1>2. Max(T) \in T /\ \A y \in T : Max(T) >= y
  <2> HIDE DEF T
  <2> QED
    BY <1>1, Zenon DEF Max
<1>3. Max(T) \in S /\ \A y \in S : Max(T) >= y
  BY <1>2
<1>4. Max(S) \in S /\ \A y \in S : Max(S) >= y
  <2>1. \E x \in S : \A y \in S : x >= y
    BY <1>3
  <2> QED
    BY <2>1, Zenon DEF Max
<1> HIDE DEF T
<1>5. Max(T) = Max(S)
  <2>1. \A a \in 12 .. 14, b \in 12 .. 14 : a >= b /\ b >= a => a = b
    OBVIOUS
  <2>2. Max(T) \in 12 .. 14 /\ Max(S) \in 12 .. 14
    BY <1>3, <1>4, Zenon
  <2> QED
    BY <1>3, <1>4, <2>1, <2>2, Zenon
<1> QED
  BY <1>5 DEF T

\* u is tr, of 10 messages, and a and b.
TwoMore(tr, a, b, u) ==
  /\ u \in Seq(Msgs) /\ Len(u) = 12 /\ u[11] = a /\ u[12] = b
  /\ \A i \in 1 .. 10 : u[i] = tr[i]
  /\ \A i \in 1 .. 12 : u[i] \in Msgs
  /\ u = tr \o <<a, b>>

\* Append twice adds both.
LEMMA AppendedTwice ==
  ASSUME NEW tr \in Seq(Msgs), NEW a \in Msgs, NEW b \in Msgs, Len(tr) = 10
  PROVE  TwoMore(tr, a, b, Append(Append(tr, a), b))
<1> DEFINE v == Append(tr, a)
           u == Append(v, b)
<1>1. OneMore(tr, a, 10, v)
  BY Appended, Zenon
<1>2. u = tr \o <<a, b>>
  OBVIOUS
<1>3. u = Append(v, b)
  OBVIOUS
<1> HIDE DEF v, u
<1>4. v \in Seq(Msgs) /\ Len(v) = 11 /\ v[11] = a /\ \A i \in 1 .. 10 : v[i] = tr[i]
  <2>1. 10 + 1 = 11
    OBVIOUS
  <2> QED
    BY <1>1, <2>1, Zenon DEF OneMore
<1>5. OneMore(v, b, 11, u)
  BY <1>3, <1>4, Appended, Zenon
<1>6. u \in Seq(Msgs) /\ Len(u) = 12 /\ u[12] = b /\ \A i \in 1 .. 11 : u[i] = v[i]
  <2>1. 11 + 1 = 12
    OBVIOUS
  <2> QED
    BY <1>5, <2>1, Zenon DEF OneMore
<1>7. u[11] = a /\ \A i \in 1 .. 10 : u[i] = tr[i]
  <2>1. 11 \in 1 .. 11 /\ \A i \in 1 .. 10 : i \in 1 .. 11
    OBVIOUS
  <2> QED
    BY <1>4, <1>6, <2>1, Zenon
<1>8. \A i \in 1 .. 12 : u[i] \in Msgs
  <2>1. \A q \in Seq(Msgs) : \A i \in 1 .. Len(q) : q[i] \in Msgs
    OBVIOUS
  <2> QED
    BY <1>6, <2>1, Zenon
<1> QED
  BY <1>2, <1>6, <1>7, <1>8, Zenon DEF TwoMore, u, v

\* The types of the handshake, with the last two messages.
LEMMA FullHandshake ==
  ASSUME NEW tr \in Seq(Msgs), Len(tr) = 10,
         \A i \in 1 .. 10 : tr[i].t = TheHandshake[i]
  PROVE  /\ Append(Append(tr, FINISH), FINISH_RSP) = tr \o <<FINISH, FINISH_RSP>>
         /\ TypesOf(Append(Append(tr, FINISH), FINISH_RSP)) = TheHandshake
<1> DEFINE u == Append(Append(tr, FINISH), FINISH_RSP)
<1>1. FINISH \in Msgs /\ FINISH_RSP \in Msgs
  BY MsgKinds
<1>2. FINISH.t = "FINISH" /\ FINISH_RSP.t = "FINISH_RSP"
  BY DEF FINISH, FINISH_RSP
<1>9. TwoMore(tr, FINISH, FINISH_RSP, u)
  BY <1>1, AppendedTwice, Zenon
<1> HIDE DEF u
<1>3. /\ u \in Seq(Msgs) /\ Len(u) = 12 /\ u[11] = FINISH /\ u[12] = FINISH_RSP
      /\ (\A i \in 1 .. 10 : u[i] = tr[i]) /\ (\A i \in 1 .. 12 : u[i] \in Msgs)
  BY <1>9, Zenon DEF TwoMore
<1>4. u = tr \o <<FINISH, FINISH_RSP>>
  BY <1>9, Zenon DEF TwoMore
<1>5. TheHandshake \in Seq(Tokens) /\ Len(TheHandshake) = 12
      /\ TheHandshake[11] = "FINISH" /\ TheHandshake[12] = "FINISH_RSP"
  BY DEF TheHandshake, Tokens
<1>6. ASSUME NEW i \in 1 .. 12
      PROVE  u[i].t = TheHandshake[i] /\ u[i].t \in Tokens
  <2>1. i \in 1 .. 10 \/ i = 11 \/ i = 12
    OBVIOUS
  <2>2. u[i] \in Msgs
    BY <1>3, Zenon
  <2> QED
    BY <1>2, <1>3, <1>5, <2>1, <2>2, MsgTags
<1> DEFINE ty == [i \in 1 .. 12 |-> u[i].t]
<1>7. TypesOf(u) = ty
  BY <1>3 DEF TypesOf
<1>8. ty = TheHandshake
  <2>1. ty \in Seq(Tokens) /\ Len(ty) = 12 /\ \A i \in 1 .. 12 : ty[i] = u[i].t
    BY <1>6
  <2> HIDE DEF ty
  <2>2. \A i \in 1 .. 12 : ty[i] = TheHandshake[i]
    BY <1>6, <2>1
  <2> QED
    BY <1>5, <2>1, <2>2
<1> QED
  BY <1>4, <1>7, <1>8 DEF u

\* wolfSPDM_Finish inside wolfSPDM_Connect: the FINISH_RSP accepted is the
\* answer to this FINISH, so the responder has hashed what the requester has.
LEMMA FinishAgrees ==
  ASSUME IInv, Finish, ctx.state # "CONNECTED", ctx'.state = "CONNECTED"
  PROVE  /\ ctx'.trans = rs'.sess
         /\ TypesOf(ctx'.trans) = TheHandshake
         /\ ctx'.version = Max(CommonVersions(ctx', rs'.vca[2]))
<1>1. PICK g, o, after, res : FinishStep(g, o, after, res)
  BY FinishStepFacts, Zenon
<1>2. /\ At("FINISH") /\ o \in Outcomes(g) /\ Transport(o, g, after)
      /\ Return("FINISH", res) /\ StepOK(res.ctx)
      /\ res.ctx.state \in {"KEY_EX", "FINISH"}
      /\ res.ok => /\ o.reply.t = "FINISH_RSP" /\ o.reply.th1 = ctx.th1
                   /\ res.ctx.trans = Append(Append(ctx.trans, FINISH), FINISH_RSP)
  BY <1>1 DEF FinishStep
<1>3. /\ res.ctx \in Ctxs /\ res.ctx.version = ctx.version
      /\ res.ctx.maxVersion = ctx.maxVersion
  BY <1>2 DEF StepOK
<1>4. /\ Same(res.ctx, ctx')
      /\ ctx'.state = "CONNECTED" =>
           \/ res.ctx.state = "CONNECTED"
           \/ res.ok /\ "FINISH" = "FINISH" /\ pc # "IDLE"
  BY <1>2, <1>3, Before1, ReturnFacts, Zenon
<1>5. res.ok /\ pc = "FINISH"
  BY <1>2, <1>4 DEF At
<1>6. /\ Len(rs.vca) = 6 /\ Len(ctx.trans) = 10 /\ rs.sess = ctx.trans
      /\ \A i \in 1 .. 6 : ctx.trans[i] = rs.vca[i]
      /\ \A i \in 1 .. 10 : ctx.trans[i].t = TheHandshake[i]
      /\ \A r \in rsps : r.t = "FINISH_RSP" => r.th1 # ctx.th1
  BY <1>5 DEF IInv, FinishPart
<1>7. /\ g \in Replies \union {ERROR}
      /\ g # ERROR => SessSet(rs, rs.sess \o <<FINISH, FINISH_RSP>>, after)
  BY <1>1, FinishPeer, Zenon
<1>8. o.reply \notin rsps /\ o.reply # LOST /\ o.reply # ERROR
  BY <1>2, <1>5, <1>6 DEF LOST, ERROR
<1>9. o.reply = g /\ g # ERROR /\ o.reached
  <2>1. /\ (o.reply = g /\ g \notin rsps) => o.reached
        /\ o.reply = g \/ o.reply \in rsps \/ o.reply = LOST
    BY <1>2, <1>7, Before1, OutcomeFacts, Zenon
  <2> QED
    BY <1>8, <2>1, Zenon
<1>10. rs' = after
  BY <1>2, <1>7, <1>9, Before1, TransportFacts, Zenon
<1>11. /\ rs'.sess = ctx.trans \o <<FINISH, FINISH_RSP>> /\ rs'.vca = rs.vca
  BY <1>6, <1>7, <1>9, <1>10, Zenon DEF SessSet
<1>12. ctx'.trans = Append(Append(ctx.trans, FINISH), FINISH_RSP)
  BY <1>2, <1>4, <1>5, Zenon DEF Same, SameTrans
<1>13. ctx.trans \in Seq(Msgs)
  BY Before1
<1>14. /\ ctx'.trans = ctx.trans \o <<FINISH, FINISH_RSP>>
       /\ TypesOf(ctx'.trans) = TheHandshake
  BY <1>6, <1>12, <1>13, FullHandshake, Zenon
<1>15. ctx'.version = Max(CommonVersions(ctx', rs'.vca[2]))
  <2> DEFINE m == ctx.trans[2]
             S == CommonVersions(ctx, m)
  <2>1. ctx.version = Max({0} \union S)
    BY <1>5, Before1 DEF VersionOK
  <2>2. ctx'.version = ctx.version /\ ctx'.maxVersion = ctx.maxVersion
    BY <1>3, <1>4 DEF Same, SameConf, SameAlgs
  <2>3. rs'.vca[2] = m
    BY <1>6, <1>11
  <2>4. CommonVersions(ctx', rs'.vca[2]) = S
    BY <2>2, <2>3 DEF CommonVersions
  <2>5. ctx.version # 0
    BY Before1 DEF Ctxs, Versions, MIN_SPDM_VERSION
  <2>6. S \in SUBSET (12 .. 14)
    BY DEF CommonVersions
  <2> HIDE DEF S
  <2>7. ctx.version = Max(S)
    BY <2>1, <2>5, <2>6, BestOfSome, Zenon
  <2> QED
    BY <2>2, <2>4, <2>7, Zenon
<1> QED
  BY <1>11, <1>14, <1>15, Zenon

\* When wolfSPDM_Connect returns success both sides hold the same transcript,
\* the documented handshake, and the version is the best the responder
\* offered: whatever was lost, late or called before, for every responder,
\* every chain and any number of connections.
THEOREM ConnectedAgrees == Spec => ConnectAgrees
<1> DEFINE Agree == ctx.state # "CONNECTED" /\ ctx'.state = "CONNECTED" =>
                      /\ ctx'.trans = rs'.sess
                      /\ TypesOf(ctx'.trans) = TheHandshake
                      /\ ctx'.version = Max(CommonVersions(ctx', rs'.vca[2]))
<1>1. IInv /\ [Next]_vars => [Agree]_vars
  <2> SUFFICES ASSUME IInv, [Next]_vars PROVE Agree
    OBVIOUS
  <2>1. CASE KeyExchange
    BY <2>1, KeyExchangeTrusts, Zenon
  <2>2. CASE Finish
    BY <2>2, FinishAgrees, Zenon
  <2>3. CASE ~KeyExchange /\ ~Finish
    BY <2>3, QuietSteps DEF Quiet
  <2> QED
    BY <2>1, <2>2, <2>3
<1> QED
  BY <1>1, AlwaysIInv, PTL DEF Spec, ConnectAgrees

-----------------------------------------------------------------------------
(* The GET_CERTIFICATE loop makes progress *)

\* A round that is followed by another moves the offset on, and within the
\* buffer: what bounds the number of rounds.
RoundsAdvance ==
  [][FetchStep /\ fetch'.on =>
       fetch.offset < fetch'.offset /\ fetch'.offset <= MaxChain]_vars

\* Every round of the loop of wolfSPDM_GetCertificate ends it or moves the
\* offset on, never past the chain buffer and never around its 16 bits,
\* whatever the responder puts in its replies: at most WOLFSPDM_MAX_CERT_CHAIN
\* + 1 rounds.
THEOREM FetchAdvances == Spec => RoundsAdvance
<1> DEFINE Advance == FetchStep /\ fetch'.on =>
                        fetch.offset < fetch'.offset /\ fetch'.offset <= MaxChain
<1>1. IInv /\ [Next]_vars => [Advance]_vars
  <2> SUFFICES ASSUME IInv, FetchStep, fetch'.on
               PROVE  fetch.offset < fetch'.offset /\ fetch'.offset <= MaxChain
    OBVIOUS
  <2>1. PICK g, o, c, more, done, clean : FetchRound(g, o, c, more, done, clean)
    BY FetchRoundFacts, Zenon
  <2>2. CASE more
    <3>1. IInv' /\ fetch'.offset \in Nat /\ fetch'.offset > fetch.offset
      BY <2>1, <2>2, FetchMore, Zenon
    <3>2. fetch'.offset <= MaxChain
      BY <3>1 DEF IInv, FetchPart
    <3>3. fetch.offset \in Nat
      BY Before1 DEF Fetches
    <3> QED
      BY <3>1, <3>2, <3>3
  <2>3. CASE ~more
    BY <2>1, <2>3, FetchEnds
  <2> QED
    BY <2>2, <2>3
<1> QED
  BY <1>1, AlwaysIInv, PTL DEF Spec, RoundsAdvance

=============================================================================
