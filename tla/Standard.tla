------------------------------ MODULE Standard ------------------------------
(***************************************************************************)
(* The standard (certificate) requester: wolfSPDM_Connect in AUTO mode,    *)
(* the handshake steps called one by one, the trust configuration, the     *)
(* GET_CERTIFICATE loop and the validation of the chain it fetched.        *)
(*                                                                         *)
(* The responder and the transport are external.  A context belongs to one *)
(* thread and a responder only answers, so an exchange is one step: the    *)
(* reply is the responder's, none (request or reply lost), or a late reply *)
(* of an earlier exchange.  A chain is a sequence of cells, the header and *)
(* then one certificate each; the transcript is the sequence of messages.  *)
(***************************************************************************)
EXTENDS Negotiate

CONSTANTS
  Worlds,       \* the responders and applications considered, see Init
  Roots,        \* certificates the application may set as trusted root
  Pins,         \* keys the application may pin
  PortionSz,    \* WOLFSPDM_CERT_PORTION_SZ, in cells
  MinDts,       \* MinDataTransferSize; the CERTIFICATE header takes 1
  MaxChain,     \* WOLFSPDM_MAX_CERT_CHAIN, in cells
  Word16        \* the range of the 16-bit offset

ASSUME StandardAssumption ==
  /\ {PortionSz, MinDts, MaxChain, Word16} \subseteq Nat
  /\ PortionSz > 0 /\ MinDts > 1 /\ MaxChain < Word16

VARIABLES
  ctx,      \* the requester's context
  pc,       \* the step Connect is at, IDLE outside Connect
  fetch,    \* the GET_CERTIFICATE loop: on, offset, undisturbed so far, and
            \* the parity of the round (a round that changes nothing is a step)
  rs,       \* external: the responder
  rsps,     \* external: replies still under way
  used,     \* how often each bounded event has happened
  kexes,    \* KEY_EXCHANGE requests so far: the freshness of the next
  last,     \* history: what the last step computed and what it should have
  pin       \* history: the key the application pinned last

vars == <<ctx, pc, fetch, rs, rsps, used, kexes, last, pin>>

None == "NONE"
NoCert == [kind |-> None]
NoLast == [t |-> None]
NoFetch == [on |-> FALSE, offset |-> 0, clean |-> TRUE, round |-> 0]
Slots == {0, 1}

\* A cell of a chain: the header names the length and the root, a certificate
\* its key, the key it is signed by, the CA flag and the key's algorithm.
IsCert(cell) == cell.kind = "CERT"
IsHeader(cell) == cell.kind = "HEADER"

Keys == STRING \ {None}
Headers == [kind : {"HEADER"}, len : Nat, root : STRING]
Certs ==
  [kind : {"CERT"}, key : Keys, by : STRING, ca : BOOLEAN, alg : STRING]
Cells == Headers \union Certs \union [kind : {"JUNK"}]

\* What a slot may hold: nothing, or a header and certificates that need not
\* be as many as the header says, nor issued by one another.
StoredChains ==
  {ch \in Seq(Headers \union Certs) : ch # <<>> => IsHeader(ch[1])}

\* The worlds: well-formed messages, with whatever in them.
ASSUME WorldsAssumption ==
  /\ \A w \in Worlds :
       /\ w.versions \subseteq VersionMsgs /\ w.caps \subseteq CapabilitiesMsgs
       /\ w.algs \subseteq AlgorithmsMsgs
       /\ w.slots \subseteq StoredChains \X StoredChains
       /\ w.chains \subseteq StoredChains
       /\ w.odd \in BOOLEAN /\ w.mut \in BOOLEAN
  /\ Roots \subseteq Certs /\ Pins \subseteq Keys

\* Init: wolfSPDM_Init, and a responder that has not been spoken to.  A world
\* is what the responder may send (versions, caps, algs; slots: its two chains;
\* odd: wrong CERTIFICATE replies too; mut: it asks for mutual authentication;
\* chains: what it may be given later), the functions the application calls,
\* and the bounds on calls, configurations, faults and new chains.
Init ==
  /\ ctx = [state |-> "INIT", version |-> 12, maxVersion |-> 0,
            kexAdvDhe |-> TRUE, kexAdvKem |-> MLKEM_SETS, pqcAsymSel |-> {},
            kemAlgSel |-> {}, dts |-> 0, trans |-> <<>>, th1 |-> <<>>,
            slot |-> 0, slotMask |-> {}, chain |-> <<>>,
            trustedCA |-> NoCert, allow |-> FALSE, key |-> None,
            fromCert |-> FALSE]
  /\ pc = "IDLE" /\ fetch = NoFetch /\ rsps = {} /\ kexes = 0
  /\ used = [calls |-> 0, confs |-> 0, faults |-> 0, chains |-> 0]
  /\ last = NoLast /\ pin = None
  /\ \E w \in Worlds : \E chains \in w.slots :
       rs = [world |-> w, vca |-> <<>>, chains |-> chains, sess |-> <<>>]

Spend(event) == used[event] < rs.world.max[event]
Spent(event) == [used EXCEPT ![event] = @ + 1]

-----------------------------------------------------------------------------
(* External: the responder and the transport *)

LOST == [t |-> "LOST"]
ERROR == [t |-> "ERROR"]

\* What becomes of an exchange whose reply is g.
Outcomes(g) ==
  {[reached |-> TRUE, reply |-> g]}
    \union IF ~Spend("faults") THEN {}
           ELSE {[reached |-> b, reply |-> r] : b \in BOOLEAN,
                                                r \in rsps \union {LOST}}

\* The responder, when reached, answers g and becomes after.
Transport(o, g, after) ==
  /\ rs' = IF o.reached THEN after ELSE rs
  /\ rsps' = IF o.reached /\ o.reply # g /\ g # ERROR THEN rsps \union {g}
             ELSE rsps

\* The counters: an application's call of a step, a fault.
Count(o, g) ==
  used' = [used EXCEPT !.calls = IF pc = "IDLE" /\ ~fetch.on THEN @ + 1 ELSE @,
                       !.faults = IF o.reply = g THEN @ ELSE @ + 1]

ChainIn(slot) == rs.chains[slot + 1]
Owner(chain) == IF chain # <<>> /\ IsCert(Last(chain)) THEN Last(chain).key
                ELSE None

\* The responder is given another chain.
Reprovision ==
  /\ Spend("chains")
  /\ \E s \in Slots : \E ch \in rs.world.chains :
       rs' = [rs EXCEPT !.chains[s + 1] = ch]
  /\ used' = Spent("chains")
  /\ fetch' = [fetch EXCEPT !.clean = FALSE]
  /\ last' = NoLast
  /\ UNCHANGED <<ctx, pc, rsps, kexes, pin>>

-----------------------------------------------------------------------------
(* Calls and their results *)

Steps == <<"GET_VERSION", "GET_CAPABILITIES", "NEGOTIATE_ALGORITHMS",
           "GET_DIGESTS", "GET_CERTIFICATE", "VALIDATE", "KEY_EXCHANGE",
           "FINISH">>
AfterStep(step) ==
  LET i == CHOOSE j \in DOMAIN Steps : Steps[j] = step
  IN  IF i = Len(Steps) THEN "IDLE" ELSE Steps[i + 1]

\* Connect is at this step, or the application calls it.
At(step) ==
  /\ ~fetch.on
  /\ pc = step \/ (pc = "IDLE" /\ Spend("calls") /\ step \in rs.world.does)

Ok(c) == [ok |-> TRUE, ctx |-> c]
Failed(c) == [ok |-> FALSE, ctx |-> c]

\* The step ends with result res: SPDM_CONNECT_STEP in Connect.
Return(step, res) ==
  IF pc = "IDLE"
  THEN ctx' = res.ctx /\ pc' = "IDLE"
  ELSE /\ ctx' = [res.ctx EXCEPT
                    !.state = IF ~res.ok THEN "ERROR"
                              ELSE IF step = "FINISH" THEN "CONNECTED" ELSE @]
       /\ pc' = IF res.ok THEN AfterStep(step) ELSE "IDLE"

\* wolfSPDM_TranscriptAdd
Add(c, msg) == [c EXCEPT !.trans = Append(@, msg)]

\* wolfSPDM_ExchangeMsg: both messages are hashed, and dropped again when the
\* exchange fails; c2 is the context after parsing.
ExchangeMsgKeeps(c, c2, ok, req, rsp) ==   \* mutant: no roll back
  IF ok
  THEN Ok([c2 EXCEPT !.trans = c.trans \o <<req, rsp>>])
  ELSE Failed([c2 EXCEPT !.trans = Append(c.trans, req)])
ExchangeMsg(c, c2, ok, req, rsp) ==
  IF ok
  THEN Ok([c2 EXCEPT !.trans = c.trans \o <<req, rsp>>])
  ELSE Failed(c2)

\* A key taken from an earlier chain is dropped, a pinned one stays.
DropCertKey(c) == IF c.fromCert THEN [c EXCEPT !.key = None, !.fromCert = FALSE]
                  ELSE c

\* wolfSPDM_Connect and the start of wolfSPDM_ConnectStandard.
Connect ==
  /\ pc = "IDLE" /\ ~fetch.on /\ Spend("calls") /\ "CONNECT" \in rs.world.does
  /\ ctx' = [DropCertKey(ctx) EXCEPT !.state = "INIT", !.dts = 0,
                                     !.th1 = <<>>, !.trans = <<>>]
  /\ pc' = "GET_VERSION"
  /\ used' = Spent("calls")
  /\ last' = NoLast
  /\ UNCHANGED <<fetch, rs, rsps, kexes, pin>>

-----------------------------------------------------------------------------
(* Version, capabilities, algorithms *)

GET_VERSION == [t |-> "GET_VERSION"]
GET_CAPABILITIES == [t |-> "GET_CAPABILITIES", version |-> ctx.version]
NEGOTIATE_ALGORITHMS == [t |-> "NEGOTIATE_ALGORITHMS", offer |-> Offer(ctx)]

GetVersion ==
  /\ At("GET_VERSION")
  /\ \E g \in rs.world.versions : \E o \in Outcomes(g) :
       LET r == o.reply
           v == IF r.t = "VERSION" THEN ParseVersion(ctx, r) ELSE 0
           c == IF v = 0 THEN ctx
                ELSE [ctx EXCEPT !.version = v, !.state = "VERSION"]
       IN  /\ Transport(o, g, [rs EXCEPT !.vca = <<GET_VERSION, g>>,
                                         !.sess = <<>>])
           /\ Count(o, g)
           /\ Return("GET_VERSION", ExchangeMsg(ctx, c, v # 0, GET_VERSION, r))
           /\ last' = IF r.t # "VERSION" THEN NoLast
                      ELSE [t |-> "VERSION", got |-> v,
                            want |-> Max({0} \union CommonVersions(ctx, r))]
  /\ UNCHANGED <<fetch, kexes, pin>>

\* The responder's VCA with this exchange: NEGOTIATE_ALGORITHMS follows
\* GET_CAPABILITIES, which follows GET_VERSION; a repeat replaces the former.
WithVca(n, req, g) ==
  [rs EXCEPT !.vca = SubSeq(@, 1, n) \o <<req, g>>, !.sess = <<>>]

GetCapabilities ==
  /\ At("GET_CAPABILITIES")
  /\ \E g \in IF Len(rs.vca) >= 2 THEN rs.world.caps ELSE {ERROR} :
     \E o \in Outcomes(g) :
       LET r  == o.reply
           ok == r.t = "CAPABILITIES" /\ ParseCapabilities(ctx, r, MinDts)
           c  == IF ok THEN [ctx EXCEPT !.dts = r.dts] ELSE ctx
       IN  /\ Transport(o, g, IF g = ERROR THEN rs
                              ELSE WithVca(2, GET_CAPABILITIES, g))
           /\ Count(o, g)
           /\ Return("GET_CAPABILITIES",
                     ExchangeMsg(ctx, c, ok, GET_CAPABILITIES, r))
  /\ last' = NoLast
  /\ UNCHANGED <<fetch, kexes, pin>>

NegotiateAlgorithms ==
  /\ At("NEGOTIATE_ALGORITHMS") /\ CanOffer(ctx)
  /\ \E g \in IF Len(rs.vca) >= 4 THEN rs.world.algs ELSE {ERROR} :
     \E o \in Outcomes(g) :
       LET r   == o.reply
           ans == r.t = "ALGORITHMS"
           ok  == ans /\ ParseAlgorithms(ctx, r)
           c   == IF ans THEN AfterAlgorithms(ctx, r) ELSE ctx
       IN  /\ Transport(o, g, IF g = ERROR THEN rs
                              ELSE WithVca(4, NEGOTIATE_ALGORITHMS, g))
           /\ Count(o, g)
           /\ Return("NEGOTIATE_ALGORITHMS",
                     ExchangeMsg(ctx, c, ok, NEGOTIATE_ALGORITHMS, r))
           /\ last' = IF ~ans THEN NoLast
                      ELSE [t |-> "ALGORITHMS", got |-> ok,
                            want |-> AnswersOffer(ctx, r)]
  /\ UNCHANGED <<fetch, kexes, pin>>

\* Nothing to offer: BuildNegotiateAlgorithms fails and nothing is sent.
NegotiateNothing ==
  /\ At("NEGOTIATE_ALGORITHMS") /\ ~CanOffer(ctx)
  /\ Return("NEGOTIATE_ALGORITHMS", Failed(ctx))
  /\ used' = IF pc = "IDLE" THEN Spent("calls") ELSE used
  /\ last' = NoLast
  /\ UNCHANGED <<fetch, rs, rsps, kexes, pin>>

-----------------------------------------------------------------------------
(* GET_DIGESTS, GET_CERTIFICATE *)

GetDigests ==
  /\ At("GET_DIGESTS")
  /\ LET g == [t |-> "DIGESTS", mask |-> {s \in Slots : ChainIn(s) # <<>>}]
     IN  \E o \in Outcomes(g) :
           /\ Transport(o, g, rs)
           /\ Count(o, g)
           /\ Return("GET_DIGESTS",
                     IF o.reply.t = "DIGESTS"
                     THEN Ok([ctx EXCEPT !.slotMask = o.reply.mask])
                     ELSE Failed(ctx))
  /\ last' = NoLast
  /\ UNCHANGED <<fetch, kexes, pin>>

\* Connect takes the lowest populated slot, slot 0 if the mask is empty.
ConnectSlot == IF ctx.slotMask = {} THEN 0 ELSE Min(ctx.slotMask)

\* wolfSPDM_GetCertificate up to its loop.
GetCertificate ==
  /\ At("GET_CERTIFICATE")
  /\ \E s \in IF pc = "IDLE" THEN Slots ELSE {ConnectSlot} :
       ctx' = [DropCertKey(ctx) EXCEPT !.slot = s, !.chain = <<>>]
  /\ fetch' = [NoFetch EXCEPT !.on = TRUE]
  /\ used' = IF pc = "IDLE" THEN Spent("calls") ELSE used
  /\ last' = NoLast
  /\ UNCHANGED <<pc, rs, rsps, kexes, pin>>

\* A CERTIFICATE reply, a header of 1 and the portion, fits DataTransferSize.
ReqLen(c) == IF c.dts # 0 /\ c.dts < PortionSz + 1 THEN c.dts - 1 ELSE PortionSz

\* The genuine answer to a request for len cells from off on.
Portion(slot, off, len) ==
  LET ch == ChainIn(slot)
      to == Min({off + len, Len(ch)})
  IN  IF off >= Len(ch) THEN ERROR
      ELSE [t |-> "CERTIFICATE", slot |-> slot,
            portion |-> SubSeq(ch, off + 1, to), rem |-> Len(ch) - to]

OddPortions(slot) ==
  {[t |-> "CERTIFICATE", slot |-> slot, portion |-> p, rem |-> rem] :
     p \in {<<>>, <<[kind |-> "JUNK"]>>}, rem \in {0, 1}}

\* wolfSPDM_ParseCertificate
ParseCertificateLoose(c, r) ==   \* mutant: the portion alone fits the buffer
  /\ r.t = "CERTIFICATE" /\ r.slot = c.slot
  /\ Len(r.portion) <= MaxChain
ParseCertificate(c, r) ==
  /\ r.t = "CERTIFICATE" /\ r.slot = c.slot
  /\ Len(r.portion) <= MaxChain - Len(c.chain)

\* Every portion but the last must make progress.
StallsNever(r) == FALSE   \* mutant: an empty portion asks for the next
Stalls(r) == r.portion = <<>> /\ r.rem > 0

\* The length field of the header is the chain's; Ct is added to TH.
WholeAny(chain) == Len(chain) > 1   \* mutant: the length field is not compared
Whole(chain) ==
  Len(chain) > 1 /\ IsHeader(chain[1]) /\ chain[1].len = Len(chain)

\* One round of the loop of wolfSPDM_GetCertificate, and what follows it.
FetchStep ==
  /\ fetch.on
  /\ LET genuine == Portion(ctx.slot, fetch.offset, ReqLen(ctx))
     IN  \E g \in {genuine} \union
                    (IF rs.world.odd THEN OddPortions(ctx.slot) ELSE {}) :
         \E o \in Outcomes(g) :
           LET r     == o.reply
               ok    == ParseCertificate(ctx, r)
               c     == IF ok THEN [ctx EXCEPT !.chain = @ \o r.portion] ELSE ctx
               more  == ok /\ ~Stalls(r) /\ r.rem > 0
               done  == ok /\ r.rem = 0 /\ Whole(c.chain)
               clean == fetch.clean /\ r = genuine
           IN  /\ Transport(o, g, rs)
               /\ Count(o, g)
               /\ IF more
                  THEN /\ ctx' = c /\ pc' = pc
                       /\ fetch' = [fetch EXCEPT
                                      !.offset = (@ + Len(r.portion)) % Word16,
                                      !.clean = clean, !.round = 1 - @]
                       /\ last' = NoLast
                  ELSE /\ Return("GET_CERTIFICATE",
                                 IF done
                                 THEN Ok([Add(c, [t |-> "Ct", chain |-> c.chain])
                                            EXCEPT !.state = "CERT"])
                                 ELSE Failed(c))
                       /\ fetch' = NoFetch
                       /\ last' = [t |-> "CHAIN", ok |-> done, got |-> c.chain,
                                   want |-> IF clean THEN ChainIn(ctx.slot)
                                            ELSE <<>>]
  /\ UNCHANGED <<kexes, pin>>

-----------------------------------------------------------------------------
(* wolfSPDM_ValidateCertChain *)

\* CertKey, CertSignedBy: a readable certificate, signed by the CA before it.
SignedBy(cell, issuer) == issuer.ca /\ cell.by = issuer.key

\* The walk: whether all is well so far, and the certificate last read.
WalkAnyIssuer(w, cell) ==   \* mutant: the CA flag is not looked at
  [ok |-> w.ok /\ IsCert(cell) /\ (IsCert(w.at) => cell.by = w.at.key),
   at |-> cell]
Walk(w, cell) ==
  [ok |-> w.ok /\ IsCert(cell) /\ (IsCert(w.at) => SignedBy(cell, w.at)),
   at |-> cell]

\* RootHash must name the configured root, which then signs the first.
WalkFrom(c) ==
  [ok |-> c.trustedCA = NoCert
            \/ (IsHeader(c.chain[1]) /\ c.chain[1].root = c.trustedCA.key),
   at |-> c.trustedCA]

\* wolfSPDM_LeafKey: of the negotiated algorithm; a pinned key is P-384.
LeafAlg(c) == IF c.pqcAsymSel = {} THEN {"P384"} ELSE c.pqcAsymSel

ValidateCertChain(c0) ==
  LET c    == DropCertKey(c0)
      w    == FoldLeft(Walk, WalkFrom(c), Tail(c.chain))
      leaf == w.at
  IN  IF Len(c.chain) <= 1 \/ ~w.ok \/ {leaf.alg} # LeafAlg(c) THEN Failed(c)
      ELSE IF c.key # None
           THEN IF c.pqcAsymSel = {} /\ leaf.key = c.key THEN Ok(c) ELSE Failed(c)
      ELSE IF c.trustedCA = NoCert /\ ~c.allow THEN Failed(c)
      ELSE Ok([c EXCEPT !.key = leaf.key, !.fromCert = TRUE])

\* What it should accept: every certificate issued by the one before it, the
\* first by the configured root, and a leaf the configuration vouches for.
Vouched(c, chain, pinned) ==
  LET n == Len(chain)
  IN  /\ n > 1 /\ \A i \in 2 .. n : IsCert(chain[i])
      /\ \A i \in 2 .. n - 1 : chain[i].ca /\ chain[i + 1].by = chain[i].key
      /\ c.trustedCA # NoCert =>
           /\ IsHeader(chain[1]) /\ chain[1].root = c.trustedCA.key
           /\ c.trustedCA.ca /\ chain[2].by = c.trustedCA.key
      /\ chain[n].alg \in LeafAlg(c)
      /\ IF pinned # None THEN chain[n].key = pinned /\ chain[n].alg = "P384"
         ELSE c.trustedCA # NoCert \/ c.allow

Validate ==
  /\ At("VALIDATE")
  /\ LET res == ValidateCertChain(ctx)
     IN  /\ Return("VALIDATE", res)
         /\ last' = [t |-> "VALIDATE", got |-> res.ok,
                     want |-> Vouched(ctx, ctx.chain, pin)]
  /\ used' = IF pc = "IDLE" THEN Spent("calls") ELSE used
  /\ UNCHANGED <<fetch, rs, rsps, kexes, pin>>

-----------------------------------------------------------------------------
(* KEY_EXCHANGE, FINISH *)

SIGNATURE == [t |-> "SIGNATURE"]    \* the signature and ResponderVerifyData
FINISH == [t |-> "FINISH"]
FINISH_RSP == [t |-> "FINISH_RSP"]

\* External: the owner of the slot's leaf key signs what it has hashed.
KexReply(n) ==
  IF Len(rs.vca) < 6 \/ Owner(ChainIn(ctx.slot)) = None THEN ERROR
  ELSE [t |-> "KEY_EXCHANGE_RSP", n |-> n, mut |-> rs.world.mut,
        signer |-> Owner(ChainIn(ctx.slot)),
        th |-> rs.vca \o <<[t |-> "Ct", chain |-> ChainIn(ctx.slot)],
                           [t |-> "KEY_EXCHANGE", n |-> n],
                           [t |-> "KEY_EXCHANGE_RSP", n |-> n]>>]

\* The responder key of KeyExchange: a key from a chain is validated again,
\* the configuration may have changed since.
KexKeyOld(c) ==   \* mutant: a key from a chain is taken as it is
  IF c.key = None THEN Failed(c) ELSE Ok(c)
KexKey(c) ==
  IF c.key = None THEN Failed(c)
  ELSE IF c.fromCert THEN ValidateCertChain(c) ELSE Ok(c)

\* wolfSPDM_ParseKeyExchangeRsp: the response is hashed before its signature
\* is checked.
VerifyRspSig(c, r) == r.signer = c.key /\ r.th = c.trans
ParseKeyExchangeRsp(c, r) ==
  IF r.t # "KEY_EXCHANGE_RSP" THEN Failed(c)
  ELSE IF r.mut THEN Failed(c)
  ELSE LET c1 == Add(c, [t |-> "KEY_EXCHANGE_RSP", n |-> r.n])
       IN  IF ~VerifyRspSig(c1, r) THEN Failed(c1)
           ELSE Ok([Add(c1, SIGNATURE) EXCEPT !.th1 = Append(c1.trans, SIGNATURE),
                                              !.state = "KEY_EX"])

KeyExchange ==
  /\ At("KEY_EXCHANGE") /\ KexKey(ctx).ok
  /\ LET n == kexes + 1
         c == Add(KexKey(ctx).ctx, [t |-> "KEY_EXCHANGE", n |-> n])
         g == KexReply(n)
     IN  \E o \in Outcomes(g) :
           /\ Transport(o, g, IF g = ERROR THEN rs
                              ELSE [rs EXCEPT !.sess = Append(g.th, SIGNATURE)])
           /\ Count(o, g)
           /\ Return("KEY_EXCHANGE", ParseKeyExchangeRsp(c, o.reply))
           /\ kexes' = n
  /\ last' = NoLast
  /\ UNCHANGED <<fetch, pin>>

\* Without a trusted responder key nothing is sent.
KeyExchangeRefused ==
  /\ At("KEY_EXCHANGE") /\ ~KexKey(ctx).ok
  /\ Return("KEY_EXCHANGE", KexKey(ctx))
  /\ used' = IF pc = "IDLE" THEN Spent("calls") ELSE used
  /\ last' = NoLast
  /\ UNCHANGED <<fetch, rs, rsps, kexes, pin>>

\* wolfSPDM_FinishXfer: FINISH_RSP must be a record under the keys of th1.
FinishXferClear(c, r) == r.t = "FINISH_RSP"   \* mutant: taken in the clear
FinishXfer(c, r) == r.t = "FINISH_RSP" /\ r.th1 = c.th1

\* wolfSPDM_Finish.  The responder answers a FINISH whose RequesterVerifyData
\* covers its own transcript.
Finish ==
  /\ At("FINISH") /\ ctx.state = "KEY_EX"
  /\ LET c == Add(ctx, FINISH)
         g == IF rs.sess # <<>> /\ c.trans = Append(rs.sess, FINISH)
              THEN [t |-> "FINISH_RSP", th1 |-> rs.sess] ELSE ERROR
     IN  \E o \in Outcomes(g) :
           /\ Transport(o, g, IF g = ERROR THEN rs
                              ELSE [rs EXCEPT !.sess = @ \o <<FINISH, FINISH_RSP>>])
           /\ Count(o, g)
           /\ Return("FINISH",
                     IF FinishXfer(ctx, o.reply)
                     THEN Ok([Add(c, FINISH_RSP) EXCEPT !.state = "FINISH"])
                     ELSE Failed(c))
  /\ last' = NoLast
  /\ UNCHANGED <<fetch, kexes, pin>>

-----------------------------------------------------------------------------
(* Configuration, at any time the application is not inside a call *)

Configure(call, c) ==
  /\ pc = "IDLE" /\ ~fetch.on /\ Spend("confs") /\ call \in rs.world.does
  /\ ctx' = c
  /\ used' = Spent("confs")
  /\ last' = NoLast
  /\ UNCHANGED <<pc, fetch, rs, rsps, kexes>>

SetTrustedCAs ==
  \E root \in Roots :
    Configure("TRUST", [ctx EXCEPT !.trustedCA = root]) /\ UNCHANGED pin

AllowUntrustedCerts ==
  \E b \in BOOLEAN :
    Configure("ALLOW", [ctx EXCEPT !.allow = b]) /\ UNCHANGED pin

SetResponderPubKey ==
  \E key \in Pins :
    /\ Configure("PIN", [ctx EXCEPT !.key = key, !.fromCert = FALSE])
    /\ pin' = key

SetMaxVersion ==
  \E v \in {0} \union MIN_SPDM_VERSION .. MAX_SPDM_VERSION :
    Configure("MAX", [ctx EXCEPT !.maxVersion = v]) /\ UNCHANGED pin

\* Both empty is an invalid argument.
SetKeyExchangePref ==
  \E dhe \in BOOLEAN, kem \in {{}, {"ML_KEM_768"}, MLKEM_SETS} :
    /\ dhe \/ kem # {}
    /\ Configure("PREF", [ctx EXCEPT !.kexAdvDhe = dhe, !.kexAdvKem = kem])
    /\ UNCHANGED pin

Next ==
  \/ Connect \/ GetVersion \/ GetCapabilities \/ NegotiateAlgorithms
  \/ NegotiateNothing \/ GetDigests \/ GetCertificate \/ FetchStep \/ Validate
  \/ KeyExchange \/ KeyExchangeRefused \/ Finish
  \/ SetTrustedCAs \/ AllowUntrustedCerts \/ SetResponderPubKey
  \/ SetMaxVersion \/ SetKeyExchangePref \/ Reprovision

\* A call of the library runs to its end.
Spec == Init /\ [][Next]_vars /\ WF_vars(FetchStep)

-----------------------------------------------------------------------------
(* Properties *)

Tokens == {"GET_VERSION", "VERSION", "GET_CAPABILITIES", "CAPABILITIES",
           "NEGOTIATE_ALGORITHMS", "ALGORITHMS", "Ct", "KEY_EXCHANGE",
           "KEY_EXCHANGE_RSP", "SIGNATURE", "FINISH", "FINISH_RSP"}

\* Type correctness.  The chain never outgrows its buffer, the offset is its
\* length and a responder key is marked as taken from a chain or pinned.
StandardTypeOK ==
  /\ ctx.state \in {"INIT", "VERSION", "CERT", "KEY_EX", "FINISH", "CONNECTED",
                    "ERROR"}
  /\ ctx.version \in MIN_SPDM_VERSION .. MAX_SPDM_VERSION
  /\ ctx.pqcAsymSel \subseteq MLDSA_SETS /\ Cardinality(ctx.pqcAsymSel) <= 1
  /\ ctx.kemAlgSel \subseteq MLKEM_SETS /\ Cardinality(ctx.kemAlgSel) <= 1
  /\ \A i \in DOMAIN ctx.trans : ctx.trans[i].t \in Tokens
  /\ ctx.slot \in Slots /\ ctx.slotMask \subseteq Slots
  /\ Len(ctx.chain) <= MaxChain
  /\ fetch.on => fetch.offset = Len(ctx.chain)
  /\ ctx.key = None => ~ctx.fromCert
  /\ pc \in Range(Steps) \union {"IDLE"}

\* GetVersion settles on the highest version both sides support, within
\* SetMaxVersion, in whatever order the responder lists them, and refuses a
\* list that holds none or claims more entries than it has.
VersionBest == last.t = "VERSION" => last.got = last.want

\* NegotiateAlgorithms accepts exactly the answers to its offer: one key
\* exchange and one signature algorithm, each of them offered.
AlgorithmsAnswerOffer == last.t = "ALGORITHMS" => last.got = last.want

\* GetCertificate without loss, stale reply or wrong portion returns the whole
\* chain of the slot, in whatever portions DataTransferSize makes of it; and
\* only a chain as long as its header says is ever accepted.
ChainComplete ==
  last.t = "CHAIN" =>
    LET fits(ch) == Len(ch) \in 2 .. MaxChain /\ ch[1].len = Len(ch)
    IN  /\ last.ok => fits(last.got)
        /\ last.want # <<>> /\ fits(last.want) => last.ok /\ last.got = last.want

\* ValidateCertChain accepts exactly the chains the configuration vouches for.
ValidateIsVouched == last.t = "VALIDATE" => last.got = last.want

\* Whenever a KEY_EXCHANGE_RSP is accepted, it is signed by the pinned key or,
\* with none pinned, by the leaf of a chain that the configuration of this
\* moment (and not of the moment it was validated) vouches for.
KexUnderPolicy ==
  [][ctx'.th1 \notin {ctx.th1, <<>>} =>
       IF pin # None THEN ctx'.key = pin
       ELSE /\ Vouched(ctx', ctx'.chain, None)
            /\ ctx'.key = Last(ctx'.chain).key]_vars

\* When Connect returns success both sides hold the same transcript, of the
\* shape spdm_transcript.c documents, whatever was lost, late or called before;
\* and the version is the best of what the responder really offered.
TheHandshake == <<"GET_VERSION", "VERSION", "GET_CAPABILITIES", "CAPABILITIES",
                  "NEGOTIATE_ALGORITHMS", "ALGORITHMS", "Ct", "KEY_EXCHANGE",
                  "KEY_EXCHANGE_RSP", "SIGNATURE", "FINISH", "FINISH_RSP">>
TypesOf(trans) == [i \in DOMAIN trans |-> trans[i].t]
ConnectAgrees ==
  [][ctx.state # "CONNECTED" /\ ctx'.state = "CONNECTED" =>
       /\ ctx'.trans = rs'.sess
       /\ TypesOf(ctx'.trans) = TheHandshake
       /\ ctx'.version = Max(CommonVersions(ctx', rs'.vca[2]))]_vars

\* A failed exchange leaves no half message for a retry to build on: every
\* request of the VCA part in the transcript is followed by its response.
NoHalfMessage ==
  \A i \in DOMAIN ctx.trans :
    \A j \in {1, 3, 5} :
      ctx.trans[i].t = TheHandshake[j] =>
        i < Len(ctx.trans) /\ ctx.trans[i + 1].t = TheHandshake[j + 1]

\* The GET_CERTIFICATE loop ends, whatever the responder puts in its replies.
FetchTerminates == fetch.on ~> ~fetch.on

\* The same of every request, after a handshake that went as documented up to
\* the certificate: once it is followed by anything, a KEY_EXCHANGE or FINISH
\* in the transcript is followed by its response, so that TH1 and TH2 are the
\* hashes spdm_transcript.c documents also when a step of spdm.h is repeated.
RetryBuildsOnNothing ==
  LET types == TypesOf(ctx.trans)
  IN  IsPrefix(SubSeq(TheHandshake, 1, 7), types) =>
        \A i \in 1 .. Len(types) - 1 :
          \A j \in {1, 3, 5, 8, 11} :
            types[i] = TheHandshake[j] => types[i + 1] = TheHandshake[j + 1]

=============================================================================
