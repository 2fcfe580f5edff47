------------------------------- MODULE Attest -------------------------------
(***************************************************************************)
(* Attestation by the standard requester: the running hashes M1 (signed in *)
(* CHALLENGE_AUTH) and L1/L2 (signed in MEASUREMENTS), and every call that *)
(* extends, restarts or ends one.  What the calls do otherwise is in       *)
(* Standard and SecuredSession.                                            *)
(*                                                                         *)
(* A run is the sequence of exchanges hashed since it started; the part it *)
(* starts with, the VCA, is its first element.  An exchange is the number  *)
(* of the request and the number of the request its reply answers.  The    *)
(* responder is external and keeps both runs as the peer of the unit test  *)
(* does: M1 restarts at KEY_EXCHANGE and after CHALLENGE_AUTH, L1/L2 after *)
(* any request but GET_MEASUREMENTS, after a signature and after an ERROR. *)
(***************************************************************************)
EXTENDS Integers, Sequences, FiniteSets

CONSTANTS
  Offers,       \* versions and measurement capabilities to be negotiated
  FirstChain,   \* the responder's chain: id, key and whether trusted
  Chains,       \* the chains it may be given later
  Portions,     \* GET_CERTIFICATE exchanges a chain takes
  MaxReq,       \* bound: requests sent
  MaxFaults,    \* bound: requests or replies lost, late or not usable
  MaxReprov     \* bound: chains the responder replaces

ASSUME AttestAssumption ==
  /\ Offers \subseteq [version : 12 .. 14, caps : {"NONE", "NO_SIG", "SIG"}]
  /\ Portions \in Nat \ {0}
  /\ {MaxReq, MaxFaults, MaxReprov} \subseteq Nat

VARIABLES
  ctx,      \* the requester's context
  pc,       \* the step Connect is at, IDLE outside Connect
  left,     \* portions the GET_CERTIFICATE loop still asks for, 0 outside it
  rs,       \* external: the responder
  late,     \* external: replies in the clear still under way
  sync,     \* both sides have the session and their sequence numbers match
  req,      \* the number of the last request
  faults, reprovs,   \* what the bounds count
  clean,    \* history: M1 undisturbed, L1/L2 not out of step
  last,     \* history: the CHALLENGE, if that was the last call
  asked     \* history: the last GET_MEASUREMENTS sent since the reset

vars == <<ctx, pc, left, rs, late, sync, req, faults, reprovs, clean, last,
          asked>>

None == "NONE"
NoLast == [t |-> None, req |-> 0]
NoMeas == [req |-> 0]
NoRun == [st |-> "NONE", run |-> <<>>]

\* The first element of a run: the VCA of the negotiation with this number.
VCA(n) == [req |-> n, rsp |-> 0]
Exch(n, r) == [req |-> n, rsp |-> r.req]

Init ==
  /\ ctx = [state |-> "INIT", vca |-> <<>>, m1 |-> NoRun, l1l2 |-> NoRun,
            chain |-> <<>>, hash |-> <<>>, key |-> None, fresh |-> TRUE,
            version |-> 12, caps |-> "NONE", meas |-> NoMeas]
  /\ pc = "IDLE" /\ left = 0 /\ late = {} /\ sync = FALSE
  /\ rs = [vca |-> <<>>, m1 |-> <<>>, l1l2 |-> <<>>, chain |-> FirstChain]
  /\ req = 0 /\ faults = 0 /\ reprovs = 0
  /\ clean = [m1 |-> FALSE, l1l2 |-> TRUE] /\ last = NoLast /\ asked = 0

-----------------------------------------------------------------------------
(* External: the transport and the responder *)

LOST == [t |-> "LOST", req |-> 0]

\* What becomes of an exchange in the clear answered with g.
Outcomes(g) ==
  {[reached |-> TRUE, reply |-> g]}
    \union (IF faults = MaxFaults THEN {}
            ELSE {[reached |-> b, reply |-> r] : b \in BOOLEAN,
                                                 r \in late \union {LOST}})

Clear(o, g, after) ==
  /\ req' = req + 1
  /\ rs' = IF o.reached THEN after ELSE rs
  /\ late' = IF o.reached /\ o.reply # g THEN late \union {g} ELSE late
  /\ faults' = IF o.reply = g THEN faults ELSE faults + 1

\* The responder after a request in the clear: L1/L2 restarts, M1 is m1.
Heard(m1) == [rs EXCEPT !.m1 = m1, !.l1l2 = <<>>]

\* M1 stays undisturbed: the reply is the genuine one, or nothing arrived.
M1Clean(o, g) == clean.m1 /\ (o.reply = g \/ (o.reply = LOST /\ ~o.reached))

\* A request in the clear that is heard restarts L1/L2 at the responder alone:
\* in step with a requester that has no run open.
L1L2Clean(o) == IF o.reached THEN ctx.l1l2.st # "OPEN" ELSE clean.l1l2

\* Whether a request in a record arrives, is answered, and the answer, which
\* opens, can be used: fits the buffer and parses.  A loss leaves the sequence
\* numbers apart, and nothing opens any more; an unusable answer does not.
Sealed(arrives, answered, usable) ==
  /\ req' = req + 1
  /\ arrives => sync
  /\ answered => arrives
  /\ usable \/ answered
  /\ sync => (answered /\ usable) \/ faults < MaxFaults
  /\ faults' = IF sync /\ ~(answered /\ usable) THEN faults + 1 ELSE faults
  /\ sync' = (sync /\ answered)
  /\ late' = late

Reprovision ==
  /\ reprovs < MaxReprov
  /\ \E ch \in Chains \ {rs.chain} : rs' = [rs EXCEPT !.chain = ch]
  /\ reprovs' = reprovs + 1
  /\ last' = NoLast
  /\ UNCHANGED <<ctx, pc, left, late, sync, req, faults, clean, asked>>

-----------------------------------------------------------------------------
(* Runs *)

\* wolfSPDM_RunStart: at the VCA.
RunStart(c) == [st |-> "LIVE", run |-> c.vca]
RunAdd(r, e) == [r EXCEPT !.run = Append(@, e)]

\* wolfSPDM_M1Add: a run that is not live is left alone.
M1Add(c, e) == IF c.m1.st = "NONE" THEN c.m1 ELSE RunAdd(c.m1, e)

\* wolfSPDM_AttestFree
AttestFree(c) == [c EXCEPT !.m1 = NoRun, !.l1l2 = NoRun]

\* wolfSPDM_ResetSession
ResetSessionKeeps(c) ==   \* mutant: the measurements stay exposed
  [AttestFree(c) EXCEPT !.state = "INIT", !.caps = "NONE"]
ResetSession(c) ==
  [AttestFree(c) EXCEPT !.state = "INIT", !.caps = "NONE", !.meas = NoMeas]

\* wolfSPDM_SecuredExchange: only back-to-back GET_MEASUREMENTS extend L1/L2.
SecuredExchangeKeeps(l) == l   \* mutant: an open run stays open
SecuredExchange(l) == IF l.st = "OPEN" THEN [l EXCEPT !.st = "LIVE"] ELSE l

-----------------------------------------------------------------------------
(* The handshake, as far as the runs see it *)

\* Connect is at this step, or the application calls it.
At(step) == left = 0 /\ pc \in {step, "IDLE"} /\ req < MaxReq

\* SPDM_CONNECT_STEP
Return(ok, c, next) ==
  /\ ctx' = IF ok \/ pc = "IDLE" THEN c ELSE [c EXCEPT !.state = "ERROR"]
  /\ pc' = IF ok /\ pc # "IDLE" THEN next ELSE "IDLE"

Connect ==
  /\ pc = "IDLE" /\ left = 0 /\ req < MaxReq
  /\ ctx' = [ResetSession(ctx) EXCEPT !.fresh = TRUE, !.hash = <<>>, !.key = None]
  /\ pc' = "NEGOTIATE" /\ sync' = FALSE /\ last' = NoLast /\ asked' = 0
  /\ clean' = [m1 |-> FALSE, l1l2 |-> TRUE]
  /\ UNCHANGED <<left, rs, late, req, faults, reprovs>>

\* GET_VERSION to ALGORITHMS as one exchange: vcaLen is the length of the
\* transcript, so what an earlier handshake left there is part of the VCA.
\* When it fails after VERSION, the state and the version are set already.
Negotiate ==
  /\ At("NEGOTIATE")
  /\ LET n == req + 1
         g == [t |-> "ALGORITHMS", req |-> n]
     IN  \E offer \in Offers : \E o \in Outcomes(g) :
           LET ok    == o.reply = g
               vca   == (IF ctx.fresh THEN <<>> ELSE <<VCA(0)>>) \o <<VCA(n)>>
               early == [ctx EXCEPT !.version = offer.version,
                                    !.state = "VERSION", !.fresh = FALSE]
               c     == [early EXCEPT !.vca = vca, !.caps = offer.caps]
           IN  /\ Clear(o, g, [Heard(<<VCA(n)>>) EXCEPT !.vca = <<VCA(n)>>])
               /\ \/ ok /\ Return(TRUE, [c EXCEPT !.m1 = RunStart(c)], "DIGESTS")
                  \/ /\ ~ok
                     /\ \/ Return(FALSE, ctx, "")
                        \/ o.reached /\ Return(FALSE, early, "")
               /\ clean' = [m1 |-> ok /\ ctx.fresh, l1l2 |-> L1L2Clean(o)]
               /\ sync' = (sync /\ ~o.reached)   \* GET_VERSION ends the session
  /\ last' = NoLast
  /\ UNCHANGED <<left, reprovs, asked>>

GetDigests ==
  /\ At("DIGESTS")
  /\ LET n == req + 1
         g == [t |-> "DIGESTS", req |-> n]
     IN  \E o \in Outcomes(g) :
           LET r  == o.reply
               ok == r.t = "DIGESTS"
           IN  /\ Clear(o, g, Heard(Append(rs.m1, Exch(n, g))))
               /\ Return(ok, IF ok THEN [ctx EXCEPT !.m1 = M1Add(ctx, Exch(n, r))]
                             ELSE ctx, "CERTIFICATE")
               /\ clean' = [m1 |-> M1Clean(o, g), l1l2 |-> L1L2Clean(o)]
  /\ last' = NoLast
  /\ UNCHANGED <<left, sync, reprovs, asked>>

\* The portions a chain is sent in.
PortionsOf(ch) == [i \in 1 .. Portions |-> [at |-> i, chain |-> ch]]

\* wolfSPDM_GetCertificate up to its loop.
GetCertificate ==
  /\ At("CERTIFICATE")
  /\ left' = Portions
  /\ ctx' = [ctx EXCEPT !.chain = <<>>, !.key = None]
  /\ last' = NoLast
  /\ UNCHANGED <<pc, rs, late, sync, req, faults, reprovs, clean, asked>>

\* One portion, which is part of M1 whether or not the loop succeeds.  The
\* result starts with its header and has the length that says.
FetchStep ==
  /\ left > 0 /\ req < MaxReq
  /\ LET n == req + 1
         g == [t |-> "CERTIFICATE", req |-> n,
               portion |-> PortionsOf(rs.chain)[Portions + 1 - left]]
     IN  \E o \in Outcomes(g) :
           LET r  == o.reply
               ok == r.t = "CERTIFICATE"
               c  == IF ~ok THEN ctx
                     ELSE [ctx EXCEPT !.m1 = M1Add(ctx, Exch(n, r)),
                                      !.chain = Append(@, r.portion)]
               whole == ok /\ \A i \in 1 .. Portions : c.chain[i].at = i
           IN  /\ Clear(o, g, Heard(Append(rs.m1, Exch(n, g))))
               /\ clean' = [m1 |-> M1Clean(o, g), l1l2 |-> L1L2Clean(o)]
               /\ IF ok /\ left > 1
                  THEN ctx' = c /\ left' = left - 1 /\ pc' = pc
                  ELSE /\ left' = 0
                       /\ Return(whole, IF ~whole THEN c
                                        ELSE [c EXCEPT !.hash = c.chain,
                                                !.state = "CERT", !.fresh = FALSE],
                                 "KEY_EXCHANGE")
  /\ last' = NoLast
  /\ UNCHANGED <<sync, reprovs, asked>>

\* wolfSPDM_ValidateCertChain: the key of the leaf, None when refused.  The
\* first portions alone may end with a certificate of the CA.
ValidateCertChain(c) ==
  IF c.chain = <<>> \/ \E i \in DOMAIN c.chain : ~c.chain[i].chain.trusted THEN None
  ELSE IF Len(c.chain) < Portions THEN "CA"
  ELSE c.chain[Portions].chain.key

\* KEY_EXCHANGE drops DIGESTS and CERTIFICATE from M1.
M1AtKexKept(c) == c.m1   \* mutant: they stay
M1AtKex(c) == IF c.m1.st = "NONE" THEN c.m1 ELSE RunStart(c)

\* Validation, KEY_EXCHANGE and FINISH, as one exchange: M1 restarts before it.
KeyExchange ==
  /\ pc = "KEY_EXCHANGE" /\ left = 0 /\ req < MaxReq
  /\ LET n   == req + 1
         g   == [t |-> "FINISH_RSP", req |-> n]
         key == ValidateCertChain(ctx)
         c   == [ctx EXCEPT !.key = key, !.m1 = M1AtKex(ctx)]
     IN  IF key = None
         THEN Return(FALSE, ctx, "") /\ UNCHANGED <<rs, late, sync, req, faults, clean>>
         ELSE \E o \in Outcomes(g) :
                LET ok == /\ o.reply = g /\ key = rs.chain.key
                          /\ ctx.hash = PortionsOf(rs.chain) /\ ctx.vca = rs.vca
                IN  /\ Clear(o, g, Heard(rs.vca))
                    /\ Return(ok, IF ok THEN [c EXCEPT !.state = "CONNECTED"] ELSE c,
                              "IDLE")
                    /\ sync' = ok
                    /\ clean' = [m1 |-> o.reached /\ ctx.vca = rs.vca, l1l2 |-> TRUE]
  /\ last' = NoLast
  /\ UNCHANGED <<left, reprovs, asked>>

-----------------------------------------------------------------------------
(* wolfSPDM_Challenge *)

\* wolfSPDM_ParseChallengeAuth: the chain, and from 1.3 on the RequesterContext
\* that ties the reply to this request.
ParseChallengeAuthNoEcho(c, n, r) ==   \* mutant: the echo is not compared
  r.t = "CHALLENGE_AUTH" /\ r.hash = c.hash
ParseChallengeAuthNoHash(c, n, r) ==   \* mutant: the chain is not compared
  r.t = "CHALLENGE_AUTH" /\ (c.version >= 13 => r.req = n)
ParseChallengeAuth(c, n, r) ==
  r.t = "CHALLENGE_AUTH" /\ r.hash = c.hash /\ (c.version >= 13 => r.req = n)

\* wolfSPDM_RunVerify: closes the run with this exchange and checks that the
\* signature is of this key over it.
RunVerify(run, key, n, r) ==
  r.signer = key /\ r.run = Append(run.run, Exch(n, r))

Challenge ==
  /\ pc = "IDLE" /\ left = 0 /\ req < MaxReq
  /\ ctx.state \in {"CERT", "CONNECTED"} /\ ctx.m1.st # "NONE"
  /\ LET n   == req + 1
         g   == [t |-> "CHALLENGE_AUTH", req |-> n, hash |-> PortionsOf(rs.chain),
                 signer |-> rs.chain.key, run |-> Append(rs.m1, [req |-> n, rsp |-> n])]
         key == ValidateCertChain(ctx)
         c   == [ctx EXCEPT !.key = key]
     IN  IF key = None
         THEN /\ ctx' = c /\ last' = NoLast
              /\ UNCHANGED <<rs, late, req, faults, clean>>
         ELSE \E o \in Outcomes(g) :
                LET r  == o.reply
                    ok == ParseChallengeAuth(c, n, r) /\ RunVerify(c.m1, key, n, r)
                IN  /\ Clear(o, g, Heard(rs.vca))
                    /\ ctx' = [c EXCEPT !.m1 =
                                 IF ~ParseChallengeAuth(c, n, r) THEN @
                                 ELSE IF ok THEN RunStart(c) ELSE NoRun]
                    /\ clean' = [m1 |-> IF ok THEN ctx.vca = rs.vca
                                         ELSE clean.m1 /\ ~o.reached,
                                 l1l2 |-> L1L2Clean(o)]
                    /\ last' = [t |-> "CHALLENGE", req |-> n, ok |-> ok, answers |-> r.req,
                                held |-> ctx.hash = PortionsOf(rs.chain)]
  /\ UNCHANGED <<pc, left, sync, reprovs, asked>>

-----------------------------------------------------------------------------
(* The secured session *)

InSession == pc = "IDLE" /\ left = 0 /\ req < MaxReq /\ ctx.state = "CONNECTED"

\* What a call that returned m leaves exposed.
ExposedOld(ok, old, m) == IF ok THEN m ELSE old   \* mutant: no reset first
Exposed(ok, old, m) == IF ok THEN m ELSE NoMeas

\* Only a responder with MEAS_CAP_SIG is asked for a signature.
MayMeasure(signed) == ctx.caps = "SIG" \/ (ctx.caps = "NO_SIG" /\ ~signed)

\* wolfSPDM_GetMeasurements that sends nothing: NOT_CONNECTED, CAPS_MISMATCH.
\* It returns before the clear, so blocks exposed earlier stay.
MeasurementsRefused(signed) ==
  /\ pc = "IDLE" /\ left = 0
  /\ ctx.state # "CONNECTED" \/ ~MayMeasure(signed)
  /\ last' = NoLast
  /\ UNCHANGED <<ctx, pc, left, rs, late, sync, req, faults, reprovs, clean,
                 asked>>

\* wolfSPDM_GetMeasurements.  What was exposed is cleared; a run that is not
\* open starts again.  The responder answers, or reports ERROR.  An answer
\* that is not usable was hashed by the responder and not by the requester,
\* whose run stays closed.
GetMeasurements(signed) ==
  /\ InSession /\ MayMeasure(signed)
  /\ \E arrives, answered, error, usable, fits \in BOOLEAN :
       LET n    == req + 1
           open == ctx.l1l2.st = "OPEN"
           l    == SecuredExchange(IF open THEN ctx.l1l2 ELSE RunStart(ctx))
           r    == [req |-> n, signer |-> rs.chain.key,
                    run |-> Append(rs.vca \o rs.l1l2, [req |-> n, rsp |-> n])]
           got  == answered /\ ~error /\ usable
           ok   == got /\ (signed => ctx.key # None /\ RunVerify(l, ctx.key, n, r))
           e    == Exch(n, r)
       IN  /\ Sealed(arrives, answered, usable)
           /\ error => answered /\ usable
           /\ fits \/ ok
           /\ rs' = IF ~arrives THEN rs
                    ELSE [rs EXCEPT !.l1l2 = IF error \/ signed THEN <<>>
                                             ELSE Append(@, e)]
           /\ ctx' = [ctx EXCEPT
                        !.l1l2 = IF ~got THEN l
                                 ELSE IF signed THEN NoRun
                                 ELSE [RunAdd(l, e) EXCEPT !.st = "OPEN"],
                        !.meas = Exposed(ok /\ fits, @,
                                   [req |-> n, signed |-> signed,
                                    agreed |-> r.run = Append(l.run, e)])]
           /\ clean' = [clean EXCEPT
                          !.l1l2 = arrives => error \/ signed \/ (@ /\ got)]
           /\ asked' = n
  /\ last' = NoLast
  /\ UNCHANGED <<pc, left, reprovs>>

\* Any other request of the session: HEARTBEAT, END_SESSION, vendor commands
\* and VERIFY_NEW_KEY pass through SecuredExchange; the first message of
\* KEY_UPDATE and what the application seals with EncryptMessage do not.
OtherRequest(l, bypass) ==
  /\ InSession
  /\ \E arrives, answered \in BOOLEAN :
       /\ Sealed(arrives, answered, TRUE)
       /\ rs' = IF arrives THEN [rs EXCEPT !.l1l2 = <<>>] ELSE rs
       /\ ctx' = [ctx EXCEPT !.l1l2 = l]
       /\ clean' = [clean EXCEPT
                      !.l1l2 = arrives => ~(bypass /\ ctx.l1l2.st = "OPEN")]
  /\ last' = NoLast
  /\ UNCHANGED <<pc, left, reprovs, asked>>

Heartbeat == OtherRequest(SecuredExchange(ctx.l1l2), FALSE)

\* A KEY_UPDATE that is refused or lost ends there; an accepted one goes on
\* with VERIFY_NEW_KEY.
KeyUpdate ==
  \E accepted \in BOOLEAN :
    /\ OtherRequest(IF accepted THEN SecuredExchange(ctx.l1l2) ELSE ctx.l1l2,
                    ~accepted)
    /\ accepted => sync /\ rs'.l1l2 = <<>>

Disconnect ==
  /\ pc = "IDLE" /\ left = 0 /\ req < MaxReq
  /\ \E arrives, answered \in BOOLEAN :
       IF ctx.state = "CONNECTED"
       THEN /\ Sealed(arrives, answered, TRUE)
            /\ rs' = IF arrives THEN [rs EXCEPT !.l1l2 = <<>>] ELSE rs
       ELSE UNCHANGED <<req, faults, late, sync, rs>>
  /\ ctx' = ResetSession(ctx)
  /\ clean' = [m1 |-> FALSE, l1l2 |-> TRUE]
  /\ last' = NoLast /\ asked' = 0
  /\ UNCHANGED <<pc, left, reprovs>>

Next ==
  \/ Connect \/ Negotiate \/ GetDigests \/ GetCertificate \/ FetchStep
  \/ KeyExchange \/ Challenge \/ Disconnect
  \/ \E signed \in BOOLEAN : GetMeasurements(signed) \/ MeasurementsRefused(signed)
  \/ Heartbeat \/ KeyUpdate \/ Reprovision

Spec == Init /\ [][Next]_vars

-----------------------------------------------------------------------------
(* Properties *)

\* Type correctness.  A live M1 starts at the VCA; an open L1/L2 run has at
\* least one exchange, and only a session has one.
AttestTypeOK ==
  /\ ctx.state \in {"INIT", "VERSION", "CERT", "CONNECTED", "ERROR"}
  /\ ctx.m1.st \in {"NONE", "LIVE"}
  /\ ctx.m1.st = "LIVE" => Len(ctx.vca) > 0 /\ Len(ctx.m1.run) >= Len(ctx.vca)
  /\ ctx.l1l2.st \in {"NONE", "LIVE", "OPEN"}
  /\ ctx.l1l2.st = "OPEN" => Len(ctx.l1l2.run) > 1
  /\ left \in 0 .. Portions /\ Len(ctx.chain) <= Portions
  /\ ctx.meas # NoMeas => ctx.state # "INIT"

\* The run that the next GET_MEASUREMENTS extends (the open one, or a new one
\* at the VCA) is the run the responder will extend, so that its signature
\* will verify: unless, since both last restarted, a request bypassed
\* SecuredExchange while the run was open or an unsigned MEASUREMENTS came
\* that the requester could not use.
RunAgrees ==
  ctx.state = "CONNECTED" /\ sync /\ clean.l1l2 =>
    (IF ctx.l1l2.st = "OPEN" THEN ctx.l1l2.run ELSE ctx.vca) = rs.vca \o rs.l1l2

\* M1 is the responder's M1 unless a reply was lost, stale or a CHALLENGE_AUTH
\* refused: lost requests, late CHALLENGE_AUTHs, a replaced chain, a repeated
\* fetch, a session in between do not disturb it.
M1Agrees == ctx.m1.st = "LIVE" /\ clean.m1 => ctx.m1.run = rs.m1

\* A CHALLENGE succeeds only on the answer to this very request (fresh nonce)
\* by a responder that still has the chain the requester fetched.
ChallengeBinds ==
  last.t = "CHALLENGE" /\ last.ok => last.answers = last.req /\ last.held

\* From 1.3 on a CHALLENGE_AUTH of an earlier, given up CHALLENGE never ends
\* M1: only the reply to this call, Connect or Disconnect do.
LateKeepsM1 ==
  [][ctx.version >= 13 /\ ctx.m1.st = "LIVE" /\ ctx'.m1.st = "NONE" =>
       \/ last'.t = "CHALLENGE" /\ last'.answers = last'.req
       \/ ctx'.state = "INIT"]_vars

\* The measurements exposed are those of the last GET_MEASUREMENTS sent in
\* this session, through failed calls, other requests and a session given up
\* half-way; and signed ones were signed over exactly the exchanges the
\* requester has hashed.
MeasVerified ==
  ctx.meas # NoMeas =>
    /\ ctx.meas.req = asked
    /\ ctx.meas.signed => ctx.meas.agreed

\* Any other request restarts L1/L2 on both sides: an open run is always the
\* run of the responder.
OpenRunAgrees ==
  ctx.l1l2.st = "OPEN" /\ ctx.state = "CONNECTED" /\ sync =>
    ctx.l1l2.run = rs.vca \o rs.l1l2

=============================================================================
