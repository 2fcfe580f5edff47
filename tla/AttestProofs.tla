---------------------------- MODULE AttestProofs ----------------------------
(***************************************************************************)
(* The runs M1 and L1/L2 of module Attest, for every set of offers and     *)
(* chains, every number of portions and every bound: both sides hash the   *)
(* same, a CHALLENGE_AUTH is accepted only as the answer to this CHALLENGE *)
(* and what is exposed of the measurements was verified.                   *)
(***************************************************************************)
EXTENDS Attest, TLAPS

AllChains == Chains \union {FirstChain}
LeafKeys  == {None, "CA"} \union {ch.key : ch \in AllChains}
Parts     == [at : 1 .. Portions, chain : AllChains]
Exchs     == [req : Nat, rsp : Nat]
Runs      == Seq(Exchs)
Measures  == {NoMeas} \union [req : Nat, signed : BOOLEAN, agreed : BOOLEAN]

Contexts ==
  [state : {"INIT", "VERSION", "CERT", "CONNECTED", "ERROR"}, vca : Runs,
   m1 : [st : {"NONE", "LIVE"}, run : Runs],
   l1l2 : [st : {"NONE", "LIVE", "OPEN"}, run : Runs],
   chain : Seq(Parts), hash : Seq(Parts), key : LeafKeys, fresh : BOOLEAN,
   version : Nat, caps : {"NONE", "NO_SIG", "SIG"}, meas : Measures]

Peers == [vca : Runs, m1 : Runs, l1l2 : Runs, chain : AllChains]

Steps == {"IDLE", "NEGOTIATE", "DIGESTS", "CERTIFICATE", "KEY_EXCHANGE"}

-----------------------------------------------------------------------------
(* The inductive invariant, in parts *)

\* A reply of a request up to n.  A CHALLENGE_AUTH is signed over a run that
\* ends with its own exchange.
ReplyOK(r, n) ==
  /\ r.req \in Nat /\ r.req <= n
  /\ r.t = "CERTIFICATE" => r.portion \in Parts
  /\ r.t = "CHALLENGE_AUTH" =>
       /\ r.run \in Runs /\ Len(r.run) > 0
       /\ r.run[Len(r.run)].req = r.req

TypeInv ==
  /\ ctx \in Contexts
  /\ pc \in Steps
  /\ left \in 0 .. Portions
  /\ rs \in Peers
  /\ req \in Nat
  /\ \A r \in late : ReplyOK(r, req)
  /\ clean \in [m1 : BOOLEAN, l1l2 : BOOLEAN]
  /\ sync \in BOOLEAN

\* What is there by the time a step needs it.
FlowInv ==
  /\ \/ pc \in {"DIGESTS", "CERTIFICATE", "KEY_EXCHANGE"}
     \/ ctx.state = "CONNECTED"
     \/ ctx.m1.st = "LIVE"
     => Len(ctx.vca) > 0
  /\ ctx.m1.st = "LIVE" => Len(ctx.m1.run) >= Len(ctx.vca)
  /\ ctx.l1l2.st = "OPEN" => Len(ctx.l1l2.run) > 1
  /\ pc # "IDLE" => ctx.l1l2.st # "OPEN"
  /\ left > 0 => /\ Len(ctx.chain) = Portions - left
                 /\ pc \in {"IDLE", "CERTIFICATE"}
  /\ Len(ctx.chain) <= Portions
  /\ ctx.meas # NoMeas => ctx.state # "INIT"

\* Both sides of a session start their runs at the same VCA.
VcaAgrees == ctx.state = "CONNECTED" /\ sync => ctx.vca = rs.vca

AttestInv ==
  /\ TypeInv /\ FlowInv /\ VcaAgrees
  /\ RunAgrees /\ M1Agrees /\ ChallengeBinds /\ MeasVerified

-----------------------------------------------------------------------------
(* Records *)

\* The fields of the requester's context, one by one.
LEMMA ContextFields ==
  ASSUME NEW c \in Contexts
  PROVE  /\ c.state \in {"INIT", "VERSION", "CERT", "CONNECTED", "ERROR"}
         /\ c.vca \in Runs
         /\ c.m1.st \in {"NONE", "LIVE"} /\ c.m1.run \in Runs
         /\ c.l1l2.st \in {"NONE", "LIVE", "OPEN"} /\ c.l1l2.run \in Runs
         /\ c.chain \in Seq(Parts) /\ c.hash \in Seq(Parts)
         /\ c.key \in LeafKeys /\ c.fresh \in BOOLEAN /\ c.version \in Nat
         /\ c.meas \in Measures
BY DEF Contexts

\* The fields of the responder.
LEMMA PeerFields ==
  ASSUME NEW p \in Peers
  PROVE  /\ p.vca \in Runs /\ p.m1 \in Runs /\ p.l1l2 \in Runs
         /\ p.chain \in AllChains
BY DEF Peers

\* The first element of a run, and an exchange of request n.
LEMMA ExchType ==
  ASSUME NEW n \in Nat, NEW k \in Nat
  PROVE  [req |-> n, rsp |-> k] \in Exchs
BY DEF Exchs

\* A run with one more exchange ends in it.
LEMMA AppendExch ==
  ASSUME NEW s \in Runs, NEW e \in Exchs
  PROVE  /\ Append(s, e) \in Runs
         /\ Len(Append(s, e)) = Len(s) + 1
         /\ Append(s, e)[Len(Append(s, e))] = e
BY DEF Runs

\* Appending to the second part of a run.
LEMMA AppendConcat ==
  ASSUME NEW s \in Runs, NEW t \in Runs, NEW e \in Exchs
  PROVE  Append(s \o t, e) = s \o Append(t, e)
<1> DEFINE a == Append(s \o t, e)
           b == s \o Append(t, e)
<1>1. s \o t \in Seq(Exchs) /\ Append(t, e) \in Seq(Exchs)
  BY DEF Runs
<1>2. a \in Seq(Exchs) /\ b \in Seq(Exchs)
  BY <1>1 DEF Runs
<1>3. Len(a) = Len(s) + Len(t) + 1 /\ Len(b) = Len(s) + Len(t) + 1
  BY <1>1 DEF Runs
<1>4. \A i \in 1 .. Len(a) : a[i] = b[i]
  <2> SUFFICES ASSUME NEW i \in 1 .. Len(a) PROVE a[i] = b[i]
    OBVIOUS
  <2>1. Len(s) \in Nat /\ Len(t) \in Nat
    BY DEF Runs
  <2>2. CASE i \in 1 .. Len(s)
    BY <1>1, <1>3, <2>1, <2>2 DEF Runs
  <2>3. CASE i \in Len(s) + 1 .. Len(s) + Len(t)
    BY <1>1, <1>3, <2>1, <2>3 DEF Runs
  <2>4. CASE i = Len(s) + Len(t) + 1
    BY <1>1, <1>3, <2>1, <2>4 DEF Runs
  <2> QED
    BY <1>3, <2>1, <2>2, <2>3, <2>4
<1> HIDE DEF a, b
<1>5. a = b
  BY <1>2, <1>3, <1>4
<1> QED
  BY <1>5 DEF a, b

\* A VCA with and without the remains of an earlier handshake.
LEMMA VcaRuns ==
  ASSUME NEW a \in Exchs, NEW b \in Exchs
  PROVE  /\ <<b>> \in Runs /\ Len(<<b>>) = 1
         /\ <<>> \o <<b>> = <<b>>
         /\ <<a>> \o <<b>> \in Runs /\ Len(<<a>> \o <<b>>) = 2
BY DEF Runs

\* The portions of one of the responder's chains.
LEMMA PortionType ==
  ASSUME NEW ch \in AllChains, NEW i \in 1 .. Portions
  PROVE  PortionsOf(ch)[i] \in Parts
BY DEF PortionsOf, Parts

\* The responder after a request in the clear.
LEMMA HeardType ==
  ASSUME rs \in Peers, NEW m \in Runs
  PROVE  /\ Heard(m) \in Peers
         /\ Heard(m).m1 = m /\ Heard(m).l1l2 = <<>>
         /\ Heard(m).vca = rs.vca /\ Heard(m).chain = rs.chain
<1>1. <<>> \in Runs
  BY DEF Runs
<1> QED
  BY <1>1 DEF Heard, Peers

\* What a call in the clear may get back for a genuine reply g, and what it
\* leaves under way.
LEMMA ClearOutcome ==
  ASSUME TypeInv, NEW g, ReplyOK(g, req + 1), g.req = req + 1,
         NEW after \in Peers, NEW o \in Outcomes(g), Clear(o, g, after)
  PROVE  /\ req' = req + 1
         /\ rs' \in Peers
         /\ rs' = (IF o.reached THEN after ELSE rs)
         /\ o.reached \in BOOLEAN
         /\ \A r \in late' : ReplyOK(r, req')
         /\ ReplyOK(o.reply, req + 1)
         /\ o.reply = g => o.reached
         /\ o.reply # g => o.reply.req # req + 1
<1>1. req \in Nat /\ \A r \in late : ReplyOK(r, req)
  BY DEF TypeInv
<1>2. \A r \in late : ReplyOK(r, req + 1) /\ r.req # req + 1
  BY <1>1 DEF ReplyOK
<1>3. ReplyOK(LOST, req + 1) /\ LOST.req # req + 1
  BY <1>1 DEF LOST, ReplyOK
<1>4. CASE o = [reached |-> TRUE, reply |-> g]
  BY <1>1, <1>2, <1>4 DEF Clear, TypeInv
<1>5. CASE o \in {[reached |-> b, reply |-> r] : b \in BOOLEAN,
                                               r \in late \union {LOST}}
  <2>1. o.reached \in BOOLEAN /\ o.reply \in late \union {LOST}
    BY <1>5
  <2>2. ReplyOK(o.reply, req + 1) /\ o.reply.req # req + 1
    BY <1>2, <1>3, <2>1
  <2>3. o.reply # g
    BY <2>2
  <2> QED
    BY <1>1, <1>2, <2>1, <2>2, <2>3 DEF Clear, TypeInv
<1> QED
  BY <1>4, <1>5 DEF Outcomes

\* SPDM_CONNECT_STEP: context c, or c with its state ERROR; the next step, or
\* none.
LEMMA ReturnFields ==
  ASSUME TypeInv, NEW ok \in BOOLEAN, NEW c \in Contexts, NEW next,
         Return(ok, c, next), ok => next \in Steps
  PROVE  /\ ctx' \in Contexts /\ pc' \in Steps
         /\ ctx'.vca = c.vca /\ ctx'.m1 = c.m1 /\ ctx'.l1l2 = c.l1l2
         /\ ctx'.chain = c.chain /\ ctx'.meas = c.meas
         /\ ctx'.version = c.version
         /\ ctx'.state = "ERROR" \/ (ctx'.state = c.state /\ (ok \/ pc = "IDLE"))
         /\ pc' = "IDLE" \/ (pc' = next /\ ok /\ pc # "IDLE")
<1>1. /\ [c EXCEPT !.state = "ERROR"] \in Contexts
      /\ [c EXCEPT !.state = "ERROR"].vca = c.vca
      /\ [c EXCEPT !.state = "ERROR"].m1 = c.m1
      /\ [c EXCEPT !.state = "ERROR"].l1l2 = c.l1l2
      /\ [c EXCEPT !.state = "ERROR"].chain = c.chain
      /\ [c EXCEPT !.state = "ERROR"].meas = c.meas
      /\ [c EXCEPT !.state = "ERROR"].version = c.version
      /\ [c EXCEPT !.state = "ERROR"].state = "ERROR"
  BY DEF Contexts
<1>2. "IDLE" \in Steps
  BY DEF Steps
<1>3. CASE ok \/ pc = "IDLE"
  BY <1>2, <1>3 DEF Return
<1>4. CASE ~(ok \/ pc = "IDLE")
  BY <1>1, <1>2, <1>4 DEF Return
<1> QED
  BY <1>3, <1>4

\* Extending M1: only a live run grows.
LEMMA M1AddType ==
  ASSUME NEW c \in Contexts, NEW e \in Exchs
  PROVE  /\ M1Add(c, e) \in [st : {"NONE", "LIVE"}, run : Runs]
         /\ M1Add(c, e).st = c.m1.st
         /\ c.m1.st = "LIVE" =>
              /\ M1Add(c, e).run = Append(c.m1.run, e)
              /\ Len(M1Add(c, e).run) = Len(c.m1.run) + 1
<1>1. c.m1 \in [st : {"NONE", "LIVE"}, run : Runs]
  BY DEF Contexts
<1>2. Append(c.m1.run, e) \in Runs /\ Len(Append(c.m1.run, e)) = Len(c.m1.run) + 1
  BY <1>1, AppendExch
<1>3. CASE c.m1.st = "NONE"
  BY <1>1, <1>3 DEF M1Add
<1>4. CASE c.m1.st = "LIVE"
  BY <1>1, <1>2, <1>4 DEF M1Add, RunAdd
<1> QED
  BY <1>1, <1>3, <1>4

\* A run that starts at the VCA.
LEMMA RunStartType ==
  ASSUME NEW c \in Contexts
  PROVE  /\ RunStart(c) \in [st : {"NONE", "LIVE"}, run : Runs]
         /\ RunStart(c).st = "LIVE" /\ RunStart(c).run = c.vca
BY ContextFields DEF RunStart

\* The contexts that hold no run.
LEMMA NoRunType ==
  /\ NoRun \in [st : {"NONE", "LIVE"}, run : Runs]
  /\ NoRun \in [st : {"NONE", "LIVE", "OPEN"}, run : Runs]
  /\ NoRun.st = "NONE"
<1>1. <<>> \in Runs
  BY DEF Runs
<1> QED
  BY <1>1 DEF NoRun

\* wolfSPDM_ResetSession
LEMMA ResetType ==
  ASSUME NEW c \in Contexts
  PROVE  /\ ResetSession(c) \in Contexts
         /\ ResetSession(c).state = "INIT" /\ ResetSession(c).vca = c.vca
         /\ ResetSession(c).m1 = NoRun /\ ResetSession(c).l1l2 = NoRun
         /\ ResetSession(c).chain = c.chain /\ ResetSession(c).meas = NoMeas
         /\ ResetSession(c).version = c.version
<1>1. NoMeas \in Measures
  BY DEF Measures
<1>2. /\ AttestFree(c) \in Contexts
      /\ AttestFree(c).m1 = NoRun /\ AttestFree(c).l1l2 = NoRun
      /\ AttestFree(c).vca = c.vca /\ AttestFree(c).chain = c.chain
      /\ AttestFree(c).version = c.version
  BY NoRunType DEF AttestFree, Contexts
<1> QED
  BY <1>1, <1>2 DEF ResetSession, Contexts

-----------------------------------------------------------------------------
(* The initial state *)

\* Nothing has been signed or verified before the first request.
LEMMA AttestInit ==
  ASSUME Init
  PROVE  AttestInv
<1>0. 12 \in Nat /\ Portions \in Nat \ {0}
  BY AttestAssumption
<1>1. <<>> \in Runs /\ <<>> \in Seq(Parts)
  BY DEF Runs
<1>2. None \in LeafKeys /\ NoMeas \in Measures /\ FirstChain \in AllChains
  BY DEF LeafKeys, Measures, AllChains
<1>3. ctx \in Contexts
  BY <1>0, <1>1, <1>2, NoRunType DEF Init, Contexts
<1>4. rs \in Peers
  BY <1>1, <1>2 DEF Init, Peers
<1>5. TypeInv
  <2>1. clean \in [m1 : BOOLEAN, l1l2 : BOOLEAN]
    BY DEF Init
  <2>2. left \in 0 .. Portions
    BY <1>0 DEF Init
  <2>3. pc \in Steps /\ req \in Nat /\ late = {} /\ sync \in BOOLEAN
    BY DEF Init, Steps
  <2> QED
    BY <1>3, <1>4, <2>1, <2>2, <2>3 DEF TypeInv
<1>6. /\ ctx.state = "INIT" /\ ctx.m1.st = "NONE" /\ ctx.l1l2.st = "NONE"
      /\ ctx.meas = NoMeas /\ ctx.chain = <<>>
  BY NoRunType DEF Init
<1>7. FlowInv /\ VcaAgrees
  BY <1>0, <1>6 DEF Init, FlowInv, VcaAgrees
<1>8. last.t = None
  BY DEF Init, NoLast
<1>9. RunAgrees /\ M1Agrees /\ ChallengeBinds /\ MeasVerified
  BY <1>6, <1>8 DEF RunAgrees, M1Agrees, ChallengeBinds, MeasVerified, None
<1> QED
  BY <1>5, <1>7, <1>9 DEF AttestInv

-----------------------------------------------------------------------------
(* One step *)

\* M1 stops in this step.
M1Ends == ctx.m1.st = "LIVE" /\ ctx'.m1.st = "NONE"

\* A step that makes no call of its own to remember: nothing new is exposed.
LEMMA NoLastKeeps ==
  ASSUME MeasVerified, last' = NoLast,
         (ctx'.meas = ctx.meas /\ asked' = asked) \/ ctx'.meas = NoMeas
  PROVE  ChallengeBinds' /\ MeasVerified'
<1>1. last'.t = None
  BY DEF NoLast
<1> QED
  BY <1>1 DEF ChallengeBinds, MeasVerified, None

\* The requester's run is not touched, nor the responder's, or the responder's
\* restarts; or the context is not connected.
LEMMA SameRuns ==
  ASSUME RunAgrees, VcaAgrees, rs.vca \in Runs,
         ctx'.state = "CONNECTED" =>
           /\ ctx.state = "CONNECTED"
           /\ ctx'.vca = ctx.vca /\ ctx'.l1l2 = ctx.l1l2,
         sync' => sync /\ rs'.vca = rs.vca,
         \/ rs'.l1l2 = rs.l1l2 /\ (clean'.l1l2 => clean.l1l2)
         \/ rs'.l1l2 = <<>> /\ (clean'.l1l2 => ctx.l1l2.st # "OPEN")
  PROVE  RunAgrees' /\ VcaAgrees'
<1>1. rs.vca \o <<>> = rs.vca
  BY DEF Runs
<1>2. VcaAgrees'
  BY DEF VcaAgrees
<1>3. RunAgrees'
  BY <1>1, <1>2 DEF RunAgrees, VcaAgrees
<1> QED
  BY <1>2, <1>3

\* wolfSPDM_Connect resets the session.
LEMMA ConnectStep ==
  ASSUME AttestInv, Connect
  PROVE  AttestInv' /\ ctx'.state = "INIT"
<1>0. ctx \in Contexts /\ TypeInv /\ FlowInv /\ MeasVerified
  BY DEF AttestInv, TypeInv
<1>1. None \in LeafKeys /\ <<>> \in Seq(Parts)
  BY DEF LeafKeys
<1>2. ctx' = [ResetSession(ctx) EXCEPT !.fresh = TRUE, !.hash = <<>>, !.key = None]
  BY DEF Connect
<1>3. /\ ctx' \in Contexts
      /\ ctx'.state = "INIT" /\ ctx'.m1 = NoRun /\ ctx'.l1l2 = NoRun
      /\ ctx'.chain = ctx.chain /\ ctx'.meas = NoMeas
  BY <1>0, <1>1, <1>2, ResetType DEF Contexts
<1>4. clean' \in [m1 : BOOLEAN, l1l2 : BOOLEAN]
  BY DEF Connect
<1>5. TypeInv'
  BY <1>0, <1>3, <1>4 DEF Connect, TypeInv, Steps
<1>6. FlowInv' /\ VcaAgrees'
  BY <1>0, <1>3, NoRunType DEF Connect, FlowInv, VcaAgrees
<1>7. RunAgrees' /\ M1Agrees'
  BY <1>3, NoRunType DEF RunAgrees, M1Agrees
<1>8. ChallengeBinds' /\ MeasVerified'
  BY <1>0, <1>3, NoLastKeeps DEF Connect
<1> QED
  BY <1>3, <1>5, <1>6, <1>7, <1>8 DEF AttestInv

\* GET_VERSION to ALGORITHMS.
LEMMA NegotiateStep ==
  ASSUME AttestInv, Negotiate
  PROVE  AttestInv' /\ ~M1Ends
<1> DEFINE n == req + 1
           g == [t |-> "ALGORITHMS", req |-> n]
           vca == (IF ctx.fresh THEN <<>> ELSE <<VCA(0)>>) \o <<VCA(n)>>
           early(f) == [ctx EXCEPT !.version = f.version,
                                   !.state = "VERSION", !.fresh = FALSE]
           new(f) == [early(f) EXCEPT !.vca = vca, !.caps = f.caps]
           after == [Heard(<<VCA(n)>>) EXCEPT !.vca = <<VCA(n)>>]
<1>0. /\ TypeInv /\ FlowInv /\ MeasVerified /\ RunAgrees /\ VcaAgrees
      /\ ctx \in Contexts /\ rs \in Peers /\ req \in Nat
  BY DEF AttestInv, TypeInv
<1>1. PICK f \in Offers : \E o \in Outcomes(g) :
        /\ Clear(o, g, after)
        /\ \/ o.reply = g /\ Return(TRUE, [new(f) EXCEPT !.m1 = RunStart(new(f))],
                                    "DIGESTS")
           \/ /\ o.reply # g
              /\ Return(FALSE, ctx, "") \/ Return(FALSE, early(f), "")
        /\ clean' = [m1 |-> o.reply = g /\ ctx.fresh, l1l2 |-> L1L2Clean(o)]
        /\ sync' = (sync /\ ~o.reached)
  BY DEF Negotiate
<1>2. PICK o \in Outcomes(g) :
        /\ Clear(o, g, after)
        /\ \/ o.reply = g /\ Return(TRUE, [new(f) EXCEPT !.m1 = RunStart(new(f))],
                                    "DIGESTS")
           \/ /\ o.reply # g
              /\ Return(FALSE, ctx, "") \/ Return(FALSE, early(f), "")
        /\ clean' = [m1 |-> o.reply = g /\ ctx.fresh, l1l2 |-> L1L2Clean(o)]
        /\ sync' = (sync /\ ~o.reached)
  BY <1>1
<1>3. VCA(n) \in Exchs /\ VCA(0) \in Exchs
  BY <1>0, ExchType DEF VCA
<1>4. <<VCA(n)>> \in Runs /\ vca \in Runs /\ Len(vca) > 0
      /\ (ctx.fresh => vca = <<VCA(n)>>)
  <2>1. CASE ctx.fresh
    BY <1>3, <2>1, VcaRuns
  <2>2. CASE ~ctx.fresh
    BY <1>3, <2>2, VcaRuns
  <2> QED
    BY <2>1, <2>2
<1>5. /\ after \in Peers /\ after.vca = <<VCA(n)>> /\ after.m1 = <<VCA(n)>>
      /\ after.l1l2 = <<>>
  BY <1>0, <1>4, HeardType DEF Peers
<1>6. ReplyOK(g, n) /\ g.req = n
  BY <1>0 DEF ReplyOK
<1> HIDE DEF g, after, vca
<1>7. /\ req' = n /\ rs' \in Peers /\ rs' = (IF o.reached THEN after ELSE rs)
      /\ o.reached \in BOOLEAN /\ \A r \in late' : ReplyOK(r, req')
      /\ o.reply = g => o.reached
  BY <1>0, <1>2, <1>5, <1>6, ClearOutcome
<1>8. /\ left' = left /\ left = 0 /\ last' = NoLast /\ asked' = asked
      /\ pc \in {"NEGOTIATE", "IDLE"}
  BY DEF Negotiate, At
<1>9. clean' \in [m1 : BOOLEAN, l1l2 : BOOLEAN] /\ clean'.l1l2 = L1L2Clean(o)
      /\ (clean'.m1 <=> o.reply = g /\ ctx.fresh)
  BY <1>0, <1>2, <1>7 DEF L1L2Clean, TypeInv
<1>10. sync' \in BOOLEAN
  BY <1>2
<1>11. CASE o.reply = g
  <2> DEFINE c == new(f)
  <2>1. f.version \in Nat /\ f.caps \in {"NONE", "NO_SIG", "SIG"}
    BY AttestAssumption
  <2>2. c \in Contexts /\ c.vca = vca /\ c.state = "VERSION"
        /\ c.l1l2 = ctx.l1l2 /\ c.chain = ctx.chain /\ c.meas = ctx.meas
    BY <1>0, <1>4, <2>1 DEF Contexts
  <2> HIDE DEF c
  <2> DEFINE d == [c EXCEPT !.m1 = RunStart(c)]
  <2>3. d \in Contexts /\ d.vca = vca /\ d.state = "VERSION"
        /\ d.l1l2 = ctx.l1l2 /\ d.chain = ctx.chain /\ d.meas = ctx.meas
        /\ d.m1.st = "LIVE" /\ d.m1.run = vca
    BY <2>2, RunStartType DEF Contexts
  <2> HIDE DEF d
  <2>4. Return(TRUE, d, "DIGESTS") /\ "DIGESTS" \in Steps
    BY <1>2, <1>11 DEF c, d, Steps
  <2>5. /\ ctx' \in Contexts /\ pc' \in Steps
        /\ ctx'.vca = vca /\ ctx'.m1 = d.m1 /\ ctx'.l1l2 = ctx.l1l2
        /\ ctx'.chain = ctx.chain /\ ctx'.meas = ctx.meas
        /\ ctx'.state \in {"ERROR", "VERSION"}
        /\ pc' # "IDLE" => pc # "IDLE"
    BY <1>0, <2>3, <2>4, ReturnFields
  <2>6. TypeInv'
    BY <1>0, <1>7, <1>8, <1>9, <1>10, <2>5 DEF TypeInv
  <2>7. FlowInv'
    BY <1>0, <1>4, <1>8, <2>3, <2>5 DEF FlowInv
  <2>8. VcaAgrees' /\ RunAgrees'
    BY <2>5 DEF VcaAgrees, RunAgrees
  <2>9. M1Agrees'
    BY <1>4, <1>5, <1>7, <1>9, <1>11, <2>3, <2>5 DEF M1Agrees
  <2>10. ChallengeBinds' /\ MeasVerified'
    BY <1>0, <1>8, <2>5, NoLastKeeps
  <2> QED
    BY <2>3, <2>5, <2>6, <2>7, <2>8, <2>9, <2>10 DEF AttestInv, M1Ends
<1>12. CASE o.reply # g
  <2>1. PICK c \in {ctx, early(f)} : Return(FALSE, c, "")
    BY <1>2, <1>12
  <2>2. f.version \in Nat
    BY AttestAssumption
  <2>3. /\ c \in Contexts /\ c.vca = ctx.vca /\ c.m1 = ctx.m1
        /\ c.l1l2 = ctx.l1l2 /\ c.chain = ctx.chain /\ c.meas = ctx.meas
        /\ c.state \in {ctx.state, "VERSION"}
    BY <1>0, <2>1, <2>2 DEF Contexts
  <2>4. /\ ctx' \in Contexts /\ pc' = "IDLE" /\ pc' \in Steps
        /\ ctx'.vca = ctx.vca /\ ctx'.m1 = ctx.m1 /\ ctx'.l1l2 = ctx.l1l2
        /\ ctx'.chain = ctx.chain /\ ctx'.meas = ctx.meas
        /\ ctx'.state \in {"ERROR", "VERSION", ctx.state}
    BY <1>0, <2>1, <2>3, ReturnFields
  <2>5. TypeInv'
    BY <1>0, <1>7, <1>8, <1>9, <1>10, <2>4 DEF TypeInv
  <2>6. FlowInv'
    BY <1>0, <1>8, <2>4 DEF FlowInv
  <2>7. M1Agrees'
    BY <1>9, <1>12 DEF M1Agrees
  <2>8. ChallengeBinds' /\ MeasVerified'
    BY <1>0, <1>8, <2>4, NoLastKeeps
  <2>9. sync' => sync /\ rs'.vca = rs.vca
    BY <1>2, <1>7
  <2>10. \/ rs'.l1l2 = rs.l1l2 /\ (clean'.l1l2 => clean.l1l2)
         \/ rs'.l1l2 = <<>> /\ (clean'.l1l2 => ctx.l1l2.st # "OPEN")
    BY <1>5, <1>7, <1>9 DEF L1L2Clean
  <2>11. VcaAgrees' /\ RunAgrees'
    BY <1>0, <2>4, <2>9, <2>10, PeerFields, SameRuns
  <2> QED
    BY <2>4, <2>5, <2>6, <2>7, <2>8, <2>11 DEF AttestInv, M1Ends
<1> QED
  BY <1>11, <1>12

\* What GET_DIGESTS and each portion have in common: a clear request whose
\* exchange joins M1 on both sides, or on neither.
LEMMA ExtendsM1 ==
  ASSUME AttestInv, NEW g, ReplyOK(g, req + 1), g.req = req + 1,
         g.t \in {"DIGESTS", "CERTIFICATE"}, NEW o \in Outcomes(g),
         Clear(o, g, Heard(Append(rs.m1, Exch(req + 1, g)))),
         clean' = [m1 |-> M1Clean(o, g), l1l2 |-> L1L2Clean(o)],
         last' = NoLast, asked' = asked, sync' = sync, left' \in 0 .. Portions,
         ctx' \in Contexts, pc' \in Steps,
         ctx'.vca = ctx.vca, ctx'.l1l2 = ctx.l1l2, ctx'.meas = ctx.meas,
         ctx'.m1 = IF o.reply.t = g.t THEN M1Add(ctx, Exch(req + 1, o.reply))
                   ELSE ctx.m1,
         ctx'.state \in {ctx.state, "ERROR", "CERT"}
  PROVE  /\ TypeInv' /\ VcaAgrees' /\ RunAgrees' /\ M1Agrees'
         /\ ChallengeBinds' /\ MeasVerified'
         /\ ctx'.m1.st = ctx.m1.st
         /\ ctx.m1.st = "LIVE" => Len(ctx'.m1.run) >= Len(ctx.m1.run)
<1> DEFINE after == Heard(Append(rs.m1, Exch(req + 1, g)))
<1>0. /\ TypeInv /\ MeasVerified /\ RunAgrees /\ VcaAgrees /\ M1Agrees
      /\ ctx \in Contexts /\ rs \in Peers /\ req \in Nat
      /\ rs.m1 \in Runs /\ ctx.m1.run \in Runs
      /\ ctx.m1.st \in {"NONE", "LIVE"}
  BY ContextFields, PeerFields DEF AttestInv, TypeInv
<1>1. Exch(req + 1, g) \in Exchs /\ Append(rs.m1, Exch(req + 1, g)) \in Runs
  <2>1. Exch(req + 1, g) \in Exchs
    BY <1>0, ExchType DEF Exch, ReplyOK
  <2> QED
    BY <1>0, <2>1, AppendExch
<1>2. /\ after \in Peers /\ after.vca = rs.vca /\ after.l1l2 = <<>>
      /\ after.m1 = Append(rs.m1, Exch(req + 1, g))
  BY <1>0, <1>1, HeardType
<1> HIDE DEF after
<1>3. Clear(o, g, after)
  BY DEF after
<1>4. /\ req' = req + 1 /\ rs' \in Peers
      /\ rs' = (IF o.reached THEN after ELSE rs)
      /\ o.reached \in BOOLEAN /\ \A r \in late' : ReplyOK(r, req')
      /\ o.reply = g => o.reached
      /\ ReplyOK(o.reply, req + 1)
  BY <1>0, <1>2, <1>3, ClearOutcome
<1>5. Exch(req + 1, o.reply) \in Exchs
  BY <1>0, <1>4, ExchType DEF Exch, ReplyOK
<1>6. /\ ctx'.m1.st = ctx.m1.st
      /\ ctx.m1.st = "LIVE" => Len(ctx'.m1.run) >= Len(ctx.m1.run)
  <2>1. Len(ctx.m1.run) \in Nat
    BY <1>0 DEF Runs
  <2>2. CASE o.reply.t = g.t
    <3>1. ctx'.m1 = M1Add(ctx, Exch(req + 1, o.reply))
      BY <2>2
    <3> QED
      BY <1>0, <1>5, <2>1, <3>1, M1AddType
  <2>3. CASE o.reply.t # g.t
    BY <2>1, <2>3
  <2> QED
    BY <2>2, <2>3
<1>7. clean' \in [m1 : BOOLEAN, l1l2 : BOOLEAN] /\ clean'.l1l2 = L1L2Clean(o)
      /\ clean'.m1 = M1Clean(o, g)
  BY <1>0, <1>4 DEF L1L2Clean, M1Clean, TypeInv
<1>8. TypeInv'
  BY <1>0, <1>4, <1>7 DEF TypeInv
<1>9. \/ rs'.l1l2 = rs.l1l2 /\ (clean'.l1l2 => clean.l1l2)
      \/ rs'.l1l2 = <<>> /\ (clean'.l1l2 => ctx.l1l2.st # "OPEN")
  BY <1>2, <1>4, <1>7 DEF L1L2Clean
<1>10. VcaAgrees' /\ RunAgrees'
  <2>1. rs'.vca = rs.vca
    BY <1>2, <1>4
  <2> QED
    BY <1>0, <1>9, <2>1, PeerFields, SameRuns
<1>11. M1Agrees'
  <2> SUFFICES ASSUME ctx'.m1.st = "LIVE", M1Clean(o, g)
               PROVE  ctx'.m1.run = rs'.m1
    BY <1>7 DEF M1Agrees
  <2>1. ctx.m1.run = rs.m1 /\ ctx.m1.st = "LIVE"
    BY <1>0, <1>6 DEF M1Agrees, M1Clean
  <2>2. CASE o.reply = g
    <3>1. ctx'.m1 = M1Add(ctx, Exch(req + 1, g))
      BY <2>2
    <3>2. ctx'.m1.run = Append(ctx.m1.run, Exch(req + 1, g))
      BY <1>0, <1>1, <2>1, <3>1, M1AddType
    <3> QED
      BY <1>2, <1>4, <2>1, <2>2, <3>2
  <2>3. CASE o.reply = LOST /\ ~o.reached
    <3>1. ctx'.m1 = ctx.m1
      BY <2>3 DEF LOST
    <3> QED
      BY <1>4, <2>1, <2>3, <3>1
  <2> QED
    BY <2>2, <2>3 DEF M1Clean
<1>12. ChallengeBinds' /\ MeasVerified'
  BY <1>0, NoLastKeeps
<1> QED
  BY <1>6, <1>8, <1>10, <1>11, <1>12

\* GET_DIGESTS
LEMMA DigestsStep ==
  ASSUME AttestInv, GetDigests
  PROVE  AttestInv' /\ ~M1Ends
<1> DEFINE n == req + 1
           g == [t |-> "DIGESTS", req |-> n]
           new(r) == IF r.t = "DIGESTS"
                     THEN [ctx EXCEPT !.m1 = M1Add(ctx, Exch(n, r))] ELSE ctx
<1>0. /\ TypeInv /\ FlowInv /\ ctx \in Contexts /\ rs \in Peers /\ req \in Nat
      /\ left \in 0 .. Portions /\ rs.m1 \in Runs
  BY PeerFields DEF AttestInv, TypeInv
<1>1. PICK o \in Outcomes(g) :
        /\ Clear(o, g, Heard(Append(rs.m1, Exch(n, g))))
        /\ Return(o.reply.t = "DIGESTS", new(o.reply), "CERTIFICATE")
        /\ clean' = [m1 |-> M1Clean(o, g), l1l2 |-> L1L2Clean(o)]
  BY DEF GetDigests
<1>2. /\ left' = left /\ left = 0 /\ last' = NoLast /\ asked' = asked
      /\ sync' = sync
      /\ pc \in {"DIGESTS", "IDLE"}
  BY DEF GetDigests, At
<1>3. ReplyOK(g, n) /\ g.req = n /\ g.t = "DIGESTS"
  BY <1>0 DEF ReplyOK
<1> HIDE DEF g
<1>4. Exch(n, g) \in Exchs
  BY <1>0, <1>3, ExchType DEF Exch
<1>5. Heard(Append(rs.m1, Exch(n, g))) \in Peers
  BY <1>0, <1>4, AppendExch, HeardType
<1>6. ReplyOK(o.reply, n)
  BY <1>0, <1>1, <1>3, <1>5, ClearOutcome
<1>7. Exch(n, o.reply) \in Exchs
  BY <1>0, <1>6, ExchType DEF Exch, ReplyOK
<1> DEFINE c == new(o.reply)
<1>8. /\ c \in Contexts /\ c.vca = ctx.vca /\ c.l1l2 = ctx.l1l2
      /\ c.chain = ctx.chain /\ c.meas = ctx.meas /\ c.state = ctx.state
      /\ c.m1 = IF o.reply.t = g.t THEN M1Add(ctx, Exch(n, o.reply)) ELSE ctx.m1
  BY <1>0, <1>3, <1>7, M1AddType DEF Contexts
<1> HIDE DEF c
<1>9. Return(o.reply.t = "DIGESTS", c, "CERTIFICATE") /\ "CERTIFICATE" \in Steps
      /\ (o.reply.t = "DIGESTS") \in BOOLEAN
  BY <1>1 DEF c, Steps
<1>10. /\ ctx' \in Contexts /\ pc' \in Steps
       /\ ctx'.vca = c.vca /\ ctx'.m1 = c.m1 /\ ctx'.l1l2 = c.l1l2
       /\ ctx'.chain = c.chain /\ ctx'.meas = c.meas
       /\ ctx'.state = "ERROR" \/ ctx'.state = c.state
       /\ pc' # "IDLE" => pc # "IDLE"
  BY <1>0, <1>8, <1>9, ReturnFields
<1>11. /\ TypeInv' /\ VcaAgrees' /\ RunAgrees' /\ M1Agrees'
       /\ ChallengeBinds' /\ MeasVerified'
       /\ ctx'.m1.st = ctx.m1.st
       /\ ctx.m1.st = "LIVE" => Len(ctx'.m1.run) >= Len(ctx.m1.run)
  BY <1>0, <1>1, <1>2, <1>3, <1>8, <1>10, ExtendsM1
<1>12. FlowInv'
  BY <1>0, <1>2, <1>8, <1>10, <1>11 DEF FlowInv
<1> QED
  BY <1>11, <1>12 DEF AttestInv, M1Ends

\* wolfSPDM_GetCertificate up to its loop.
LEMMA CertificateStep ==
  ASSUME AttestInv, GetCertificate
  PROVE  AttestInv' /\ ~M1Ends
<1>0. /\ TypeInv /\ FlowInv /\ MeasVerified /\ VcaAgrees /\ RunAgrees /\ M1Agrees
      /\ ctx \in Contexts /\ Portions \in Nat
  BY AttestAssumption DEF AttestInv, TypeInv
<1>1. None \in LeafKeys /\ <<>> \in Seq(Parts) /\ Len(<<>>) = 0
  BY DEF LeafKeys
<1>2. /\ ctx' \in Contexts /\ ctx'.state = ctx.state /\ ctx'.vca = ctx.vca
      /\ ctx'.m1 = ctx.m1 /\ ctx'.l1l2 = ctx.l1l2 /\ ctx'.meas = ctx.meas
      /\ ctx'.chain = <<>>
  BY <1>0, <1>1 DEF GetCertificate, Contexts
<1>3. TypeInv'
  BY <1>0, <1>2 DEF GetCertificate, TypeInv
<1>4. FlowInv'
  BY <1>0, <1>1, <1>2 DEF GetCertificate, At, FlowInv
<1>5. VcaAgrees' /\ RunAgrees' /\ M1Agrees'
  BY <1>0, <1>2 DEF GetCertificate, VcaAgrees, RunAgrees, M1Agrees
<1>6. ChallengeBinds' /\ MeasVerified'
  BY <1>0, <1>2, NoLastKeeps DEF GetCertificate
<1> QED
  BY <1>2, <1>3, <1>4, <1>5, <1>6 DEF AttestInv, M1Ends

\* One portion of the chain.
LEMMA PortionStep ==
  ASSUME AttestInv, FetchStep
  PROVE  AttestInv' /\ ~M1Ends
<1> DEFINE n == req + 1
           g == [t |-> "CERTIFICATE", req |-> n,
                 portion |-> PortionsOf(rs.chain)[Portions + 1 - left]]
           ok(r) == r.t = "CERTIFICATE"
           new(r) == IF ~ok(r) THEN ctx
                     ELSE [ctx EXCEPT !.m1 = M1Add(ctx, Exch(n, r)),
                                      !.chain = Append(@, r.portion)]
           whole(r) == ok(r) /\ \A i \in 1 .. Portions : new(r).chain[i].at = i
           held(c) == [c EXCEPT !.hash = c.chain, !.state = "CERT", !.fresh = FALSE]
<1>0. /\ TypeInv /\ FlowInv /\ ctx \in Contexts /\ rs \in Peers /\ req \in Nat
      /\ rs.m1 \in Runs /\ rs.chain \in AllChains /\ ctx.chain \in Seq(Parts)
  BY PeerFields, ContextFields DEF AttestInv, TypeInv
<1>1. PICK o \in Outcomes(g) :
        /\ Clear(o, g, Heard(Append(rs.m1, Exch(n, g))))
        /\ clean' = [m1 |-> M1Clean(o, g), l1l2 |-> L1L2Clean(o)]
        /\ IF ok(o.reply) /\ left > 1
           THEN ctx' = new(o.reply) /\ left' = left - 1 /\ pc' = pc
           ELSE /\ left' = 0
                /\ Return(whole(o.reply), IF ~whole(o.reply) THEN new(o.reply)
                                          ELSE held(new(o.reply)), "KEY_EXCHANGE")
  BY DEF FetchStep
<1>2. /\ left \in 1 .. Portions /\ last' = NoLast /\ asked' = asked
      /\ sync' = sync
      /\ Portions \in Nat \ {0}
  BY <1>0, AttestAssumption DEF FetchStep, TypeInv
<1>3. ReplyOK(g, n) /\ g.req = n /\ g.t = "CERTIFICATE"
  <2>1. Portions + 1 - left \in 1 .. Portions
    BY <1>2
  <2>2. PortionsOf(rs.chain)[Portions + 1 - left] \in Parts
    BY <1>0, <2>1, PortionType
  <2> QED
    BY <1>0, <2>2 DEF ReplyOK
<1> HIDE DEF g
<1>4. Exch(n, g) \in Exchs
  BY <1>0, <1>3, ExchType DEF Exch
<1>5. Heard(Append(rs.m1, Exch(n, g))) \in Peers
  BY <1>0, <1>4, AppendExch, HeardType
<1>6. ReplyOK(o.reply, n)
  BY <1>0, <1>1, <1>3, <1>5, ClearOutcome
<1>7. Exch(n, o.reply) \in Exchs
  BY <1>0, <1>6, ExchType DEF Exch, ReplyOK
<1> DEFINE c == new(o.reply)
<1>8. ok(o.reply) => /\ Append(ctx.chain, o.reply.portion) \in Seq(Parts)
                     /\ Len(Append(ctx.chain, o.reply.portion)) = Len(ctx.chain) + 1
  BY <1>0, <1>6 DEF ReplyOK
<1>9. /\ c \in Contexts /\ c.vca = ctx.vca /\ c.l1l2 = ctx.l1l2
      /\ c.meas = ctx.meas /\ c.state = ctx.state
      /\ c.m1 = IF o.reply.t = g.t THEN M1Add(ctx, Exch(n, o.reply)) ELSE ctx.m1
      /\ c.chain = IF ok(o.reply) THEN Append(ctx.chain, o.reply.portion)
                   ELSE ctx.chain
  <2>1. CASE ok(o.reply)
    BY <1>0, <1>3, <1>7, <1>8, <2>1, M1AddType DEF Contexts
  <2>2. CASE ~ok(o.reply)
    BY <1>0, <1>3, <2>2
  <2> QED
    BY <2>1, <2>2
<1>10. Len(ctx.chain) = Portions - left /\ pc \in {"IDLE", "CERTIFICATE"}
  BY <1>0, <1>2 DEF FlowInv
<1> DEFINE done == whole(o.reply)
<1> HIDE DEF c, done
<1>11. /\ ctx' \in Contexts /\ pc' \in Steps /\ left' \in 0 .. Portions
       /\ ctx'.vca = c.vca /\ ctx'.m1 = c.m1 /\ ctx'.l1l2 = c.l1l2
       /\ ctx'.chain = c.chain /\ ctx'.meas = c.meas
       /\ ctx'.state \in {ctx.state, "ERROR", "CERT"}
       /\ ctx'.state = "INIT" => ctx.state = "INIT"
       /\ pc' # "IDLE" => pc = "CERTIFICATE"
       /\ left' > 0 => Len(c.chain) = Portions - left' /\ pc' = pc
       /\ Len(c.chain) <= Portions
  <2>1. ok(o.reply) => Len(c.chain) = Portions - left + 1
    BY <1>8, <1>9, <1>10
  <2>2. ~ok(o.reply) => Len(c.chain) = Portions - left
    BY <1>9, <1>10
  <2>3. Len(c.chain) <= Portions
    BY <1>2, <2>1, <2>2
  <2>4. CASE ok(o.reply) /\ left > 1
    <3>1. ctx' = c /\ left' = left - 1 /\ pc' = pc
      BY <1>1, <2>4 DEF c
    <3>2. left' \in 0 .. Portions /\ Len(c.chain) = Portions - left'
      BY <1>2, <2>1, <2>4, <3>1
    <3>3. pc' \in Steps
      BY <1>0, <3>1 DEF TypeInv
    <3> QED
      BY <1>9, <1>10, <2>3, <3>1, <3>2, <3>3
  <2>5. CASE ~(ok(o.reply) /\ left > 1)
    <3> DEFINE d == IF ~done THEN c ELSE held(c)
    <3>1. left' = 0 /\ Return(done, d, "KEY_EXCHANGE") /\ "KEY_EXCHANGE" \in Steps
      BY <1>1, <2>5 DEF c, done, Steps
    <3>2. /\ held(c) \in Contexts /\ held(c).vca = c.vca /\ held(c).m1 = c.m1
          /\ held(c).l1l2 = c.l1l2 /\ held(c).chain = c.chain
          /\ held(c).meas = c.meas /\ held(c).state = "CERT"
      BY <1>9 DEF Contexts
    <3>3. /\ d \in Contexts /\ d.vca = c.vca /\ d.m1 = c.m1
          /\ d.l1l2 = c.l1l2 /\ d.chain = c.chain
          /\ d.meas = c.meas /\ d.state \in {c.state, "CERT"}
      BY <1>9, <3>2
    <3>4. done \in BOOLEAN
      BY DEF done
    <3> HIDE DEF d
    <3>5. /\ ctx' \in Contexts /\ pc' \in Steps
          /\ ctx'.vca = d.vca /\ ctx'.m1 = d.m1 /\ ctx'.l1l2 = d.l1l2
          /\ ctx'.chain = d.chain /\ ctx'.meas = d.meas
          /\ ctx'.state = "ERROR" \/ ctx'.state = d.state
          /\ pc' # "IDLE" => pc # "IDLE"
      BY <1>0, <3>1, <3>3, <3>4, ReturnFields
    <3>6. left' \in 0 .. Portions /\ ~(left' > 0)
      BY <1>2, <3>1
    <3> QED
      BY <1>9, <1>10, <2>3, <3>3, <3>5, <3>6
  <2> QED
    BY <2>4, <2>5
<1>12. /\ TypeInv' /\ VcaAgrees' /\ RunAgrees' /\ M1Agrees'
       /\ ChallengeBinds' /\ MeasVerified'
       /\ ctx'.m1.st = ctx.m1.st
       /\ ctx.m1.st = "LIVE" => Len(ctx'.m1.run) >= Len(ctx.m1.run)
  BY <1>0, <1>1, <1>2, <1>3, <1>9, <1>11, ExtendsM1
<1>13. FlowInv'
  BY <1>0, <1>2, <1>9, <1>11, <1>12 DEF FlowInv
<1> QED
  BY <1>12, <1>13 DEF AttestInv, M1Ends

\* The key a chain is validated to.
LEMMA ValidateType ==
  ASSUME NEW c \in Contexts, Len(c.chain) <= Portions
  PROVE  ValidateCertChain(c) \in LeafKeys
<1>0. c.chain \in Seq(Parts) /\ Portions \in Nat \ {0}
  BY ContextFields, AttestAssumption
<1>1. None \in LeafKeys /\ "CA" \in LeafKeys
  BY DEF LeafKeys
<1>2. ASSUME Len(c.chain) >= Portions PROVE c.chain[Portions].chain.key \in LeafKeys
  <2>1. c.chain[Portions] \in Parts
    BY <1>0, <1>2
  <2>2. c.chain[Portions].chain \in AllChains
    BY <2>1 DEF Parts
  <2> QED
    BY <2>2 DEF LeafKeys
<1>3. Len(c.chain) \in Nat
  BY <1>0
<1> QED
  BY <1>0, <1>1, <1>2, <1>3 DEF ValidateCertChain

\* Validation, KEY_EXCHANGE and FINISH.
LEMMA KeyExchangeStep ==
  ASSUME AttestInv, KeyExchange
  PROVE  AttestInv' /\ ~M1Ends
<1> DEFINE n == req + 1
           g == [t |-> "FINISH_RSP", req |-> n]
           key == ValidateCertChain(ctx)
           c == [ctx EXCEPT !.key = key, !.m1 = M1AtKex(ctx)]
           up == [c EXCEPT !.state = "CONNECTED"]
           ok(o) == /\ o.reply = g /\ key = rs.chain.key
                    /\ ctx.hash = PortionsOf(rs.chain) /\ ctx.vca = rs.vca
<1>0. /\ TypeInv /\ FlowInv /\ MeasVerified /\ RunAgrees /\ VcaAgrees /\ M1Agrees
      /\ ctx \in Contexts /\ rs \in Peers /\ req \in Nat /\ rs.vca \in Runs
      /\ ctx.vca \in Runs
  BY PeerFields, ContextFields DEF AttestInv, TypeInv
<1>1. /\ left' = left /\ left = 0 /\ last' = NoLast /\ asked' = asked
      /\ pc = "KEY_EXCHANGE"
      /\ Len(ctx.vca) > 0 /\ ctx.l1l2.st # "OPEN"
  BY <1>0 DEF KeyExchange, FlowInv
<1>2. CASE key = None
  <2>1. Return(FALSE, ctx, "") /\ UNCHANGED <<rs, late, sync, req, faults, clean>>
    BY <1>2 DEF KeyExchange
  <2>2. /\ ctx' \in Contexts /\ pc' = "IDLE" /\ pc' \in Steps
        /\ ctx'.vca = ctx.vca /\ ctx'.m1 = ctx.m1 /\ ctx'.l1l2 = ctx.l1l2
        /\ ctx'.chain = ctx.chain /\ ctx'.meas = ctx.meas
        /\ ctx'.state = "ERROR"
    BY <1>0, <1>1, <2>1, ReturnFields
  <2>3. TypeInv' /\ FlowInv'
    BY <1>0, <1>1, <2>1, <2>2 DEF TypeInv, FlowInv
  <2>4. VcaAgrees' /\ RunAgrees' /\ M1Agrees'
    BY <1>0, <2>1, <2>2 DEF VcaAgrees, RunAgrees, M1Agrees
  <2>5. ChallengeBinds' /\ MeasVerified'
    BY <1>0, <1>1, <2>2, NoLastKeeps
  <2> QED
    BY <2>2, <2>3, <2>4, <2>5 DEF AttestInv, M1Ends
<1>3. CASE key # None
  <2>1. PICK o \in Outcomes(g) :
          /\ Clear(o, g, Heard(rs.vca))
          /\ Return(ok(o), IF ok(o) THEN up ELSE c, "IDLE")
          /\ sync' = ok(o)
          /\ clean' = [m1 |-> o.reached /\ ctx.vca = rs.vca, l1l2 |-> TRUE]
    BY <1>3 DEF KeyExchange
  <2>2. ReplyOK(g, n) /\ g.req = n
    BY <1>0 DEF ReplyOK
  <2>3. /\ Heard(rs.vca) \in Peers /\ Heard(rs.vca).vca = rs.vca
        /\ Heard(rs.vca).m1 = rs.vca /\ Heard(rs.vca).l1l2 = <<>>
    BY <1>0, HeardType
  <2> DEFINE fine == ok(o)
  <2>4. /\ fine \in BOOLEAN /\ sync' = fine
        /\ fine => o.reply = g /\ ctx.vca = rs.vca
    BY <2>1
  <2> HIDE DEF g, fine
  <2>5. /\ req' = n /\ rs' \in Peers /\ rs' = (IF o.reached THEN Heard(rs.vca) ELSE rs)
        /\ o.reached \in BOOLEAN /\ \A r \in late' : ReplyOK(r, req')
        /\ o.reply = g => o.reached
    BY <1>0, <2>1, <2>2, <2>3, ClearOutcome
  <2>6. key \in LeafKeys
    BY <1>0, ValidateType DEF FlowInv
  <2>7. /\ M1AtKex(ctx) \in [st : {"NONE", "LIVE"}, run : Runs]
        /\ M1AtKex(ctx).st = ctx.m1.st
        /\ ctx.m1.st = "LIVE" => M1AtKex(ctx).run = ctx.vca
    BY <1>0, RunStartType, ContextFields DEF M1AtKex, Contexts
  <2> HIDE DEF key
  <2>8. /\ c \in Contexts /\ c.vca = ctx.vca /\ c.m1 = M1AtKex(ctx)
        /\ c.l1l2 = ctx.l1l2 /\ c.chain = ctx.chain /\ c.meas = ctx.meas
        /\ c.state = ctx.state
    BY <1>0, <2>6, <2>7 DEF Contexts
  <2> HIDE DEF c
  <2>9. /\ up \in Contexts /\ up.vca = c.vca /\ up.m1 = c.m1 /\ up.l1l2 = c.l1l2
        /\ up.chain = c.chain /\ up.meas = c.meas /\ up.state = "CONNECTED"
    BY <2>8 DEF Contexts
  <2> HIDE DEF up
  <2> DEFINE d == IF fine THEN up ELSE c
  <2>10. /\ d \in Contexts /\ d.vca = c.vca /\ d.m1 = c.m1 /\ d.l1l2 = c.l1l2
         /\ d.chain = c.chain /\ d.meas = c.meas
         /\ d.state \in {c.state, "CONNECTED"}
    BY <2>8, <2>9
  <2>11. Return(fine, d, "IDLE") /\ "IDLE" \in Steps
    BY <2>1 DEF fine, d, g, Steps, key, c, up
  <2> HIDE DEF d
  <2>12. /\ ctx' \in Contexts /\ pc' = "IDLE" /\ pc' \in Steps
         /\ ctx'.vca = d.vca /\ ctx'.m1 = d.m1 /\ ctx'.l1l2 = d.l1l2
         /\ ctx'.chain = d.chain /\ ctx'.meas = d.meas
         /\ ctx'.state = "ERROR" \/ (ctx'.state = d.state /\ fine)
    BY <1>0, <1>1, <2>4, <2>10, <2>11, ReturnFields
  <2>13. clean' \in [m1 : BOOLEAN, l1l2 : BOOLEAN]
         /\ (clean'.m1 <=> o.reached /\ ctx.vca = rs.vca)
    BY <2>1, <2>5
  <2>14. TypeInv'
    BY <1>0, <1>1, <2>4, <2>5, <2>12, <2>13 DEF TypeInv
  <2>15. FlowInv'
    BY <1>0, <1>1, <2>7, <2>8, <2>10, <2>12 DEF FlowInv
  <2>16. VcaAgrees' /\ RunAgrees'
    <3>1. rs.vca \o <<>> = rs.vca
      BY <1>0 DEF Runs
    <3> QED
      BY <1>1, <2>3, <2>4, <2>5, <2>8, <2>10, <2>12, <3>1 DEF VcaAgrees, RunAgrees
  <2>17. M1Agrees'
    BY <2>3, <2>5, <2>7, <2>8, <2>10, <2>12, <2>13 DEF M1Agrees
  <2>18. ChallengeBinds' /\ MeasVerified'
    BY <1>0, <1>1, <2>8, <2>10, <2>12, NoLastKeeps
  <2> QED
    BY <2>7, <2>8, <2>10, <2>12, <2>14, <2>15, <2>16, <2>17, <2>18
    DEF AttestInv, M1Ends
<1> QED
  BY <1>2, <1>3

\* wolfSPDM_Challenge.  A signature that verifies is over a run that ends with
\* this request, so its reply is the genuine one.
LEMMA ChallengeStep ==
  ASSUME AttestInv, Challenge
  PROVE  /\ AttestInv'
         /\ ctx.version >= 13 /\ M1Ends =>
              last'.t = "CHALLENGE" /\ last'.answers = last'.req
<1> DEFINE n == req + 1
           g == [t |-> "CHALLENGE_AUTH", req |-> n, hash |-> PortionsOf(rs.chain),
                 signer |-> rs.chain.key,
                 run |-> Append(rs.m1, [req |-> n, rsp |-> n])]
           key == ValidateCertChain(ctx)
           c == [ctx EXCEPT !.key = key]
           parse(o) == ParseChallengeAuth(c, n, o.reply)
           ok(o) == parse(o) /\ RunVerify(c.m1, key, n, o.reply)
<1>0. /\ TypeInv /\ FlowInv /\ MeasVerified /\ RunAgrees /\ VcaAgrees /\ M1Agrees
      /\ ctx \in Contexts /\ rs \in Peers /\ req \in Nat /\ rs.vca \in Runs
      /\ ctx.vca \in Runs /\ rs.m1 \in Runs /\ ctx.m1.run \in Runs
      /\ ctx.m1.st \in {"NONE", "LIVE"}
  BY PeerFields, ContextFields DEF AttestInv, TypeInv
<1>1. /\ left' = left /\ left = 0 /\ pc' = pc /\ pc = "IDLE" /\ sync' = sync
      /\ ctx.m1.st # "NONE" /\ asked' = asked
  BY DEF Challenge
<1>2. key \in LeafKeys
  BY <1>0, ValidateType DEF FlowInv
<1>3. /\ c \in Contexts /\ c.vca = ctx.vca /\ c.m1 = ctx.m1 /\ c.l1l2 = ctx.l1l2
      /\ c.chain = ctx.chain /\ c.meas = ctx.meas /\ c.state = ctx.state
      /\ c.hash = ctx.hash /\ c.version = ctx.version
  <2> HIDE DEF key
  <2> QED
    BY <1>0, <1>2 DEF Contexts
<1>4. CASE key = None
  <2>1. ctx' = c /\ last' = NoLast /\ UNCHANGED <<rs, late, req, faults, clean>>
    BY <1>4 DEF Challenge
  <2> HIDE DEF c, key
  <2>2. TypeInv' /\ FlowInv'
    BY <1>0, <1>1, <1>3, <2>1 DEF TypeInv, FlowInv
  <2>3. VcaAgrees' /\ RunAgrees' /\ M1Agrees'
    BY <1>0, <1>1, <1>3, <2>1 DEF VcaAgrees, RunAgrees, M1Agrees
  <2>4. ChallengeBinds' /\ MeasVerified'
    BY <1>0, <1>1, <1>3, <2>1, NoLastKeeps
  <2> QED
    BY <1>3, <2>1, <2>2, <2>3, <2>4 DEF AttestInv, M1Ends
<1>5. CASE key # None
  <2>1. PICK o \in Outcomes(g) :
          /\ Clear(o, g, Heard(rs.vca))
          /\ ctx' = [c EXCEPT !.m1 = IF ~parse(o) THEN @
                                     ELSE IF ok(o) THEN RunStart(c) ELSE NoRun]
          /\ clean' = [m1 |-> IF ok(o) THEN ctx.vca = rs.vca
                              ELSE clean.m1 /\ ~o.reached,
                       l1l2 |-> L1L2Clean(o)]
          /\ last' = [t |-> "CHALLENGE", req |-> n, ok |-> ok(o),
                      answers |-> o.reply.req,
                      held |-> ctx.hash = PortionsOf(rs.chain)]
    BY <1>5 DEF Challenge
  <2> DEFINE fits == parse(o)
             fine == ok(o)
  <2>2. [req |-> n, rsp |-> n] \in Exchs /\ n \in Nat
    BY <1>0, ExchType
  <2>3. ReplyOK(g, n) /\ g.req = n /\ g.hash = PortionsOf(rs.chain)
    BY <1>0, <2>2, AppendExch DEF ReplyOK
  <2>4. /\ Heard(rs.vca) \in Peers /\ Heard(rs.vca).vca = rs.vca
        /\ Heard(rs.vca).m1 = rs.vca /\ Heard(rs.vca).l1l2 = <<>>
    BY <1>0, HeardType
  <2> HIDE DEF g, c, key
  <2>5. /\ req' = n /\ rs' \in Peers /\ rs' = (IF o.reached THEN Heard(rs.vca) ELSE rs)
        /\ o.reached \in BOOLEAN /\ \A r \in late' : ReplyOK(r, req')
        /\ o.reply = g => o.reached
        /\ ReplyOK(o.reply, n) /\ (o.reply # g => o.reply.req # n)
    BY <1>0, <2>1, <2>3, <2>4, ClearOutcome
  <2>6. Exch(n, o.reply) \in Exchs /\ Exch(n, o.reply).req = n
    BY <2>2, <2>5, ExchType DEF Exch, ReplyOK
  <2>7. fine => /\ o.reply = g /\ o.reached /\ fits
                /\ ctx.hash = PortionsOf(rs.chain)
    <3> SUFFICES ASSUME fine PROVE o.reply = g /\ ctx.hash = PortionsOf(rs.chain)
      BY <2>5
    <3>1. /\ o.reply.t = "CHALLENGE_AUTH" /\ o.reply.hash = c.hash
          /\ o.reply.run = Append(ctx.m1.run, Exch(n, o.reply))
      BY <1>3 DEF ParseChallengeAuth, RunVerify
    <3>2. o.reply.run[Len(o.reply.run)] = Exch(n, o.reply)
      BY <1>0, <2>6, <3>1, AppendExch
    <3>3. o.reply.req = n
      BY <2>5, <2>6, <3>1, <3>2 DEF ReplyOK
    <3> QED
      BY <1>3, <2>3, <2>5, <3>1, <3>3
  <2>8. fits /\ ctx.version >= 13 => o.reply.req = n
    BY <1>3 DEF ParseChallengeAuth
  <2>9. fine \in BOOLEAN /\ fits \in BOOLEAN /\ (fine => fits)
    BY DEF ParseChallengeAuth
  <2> HIDE DEF fits, fine
  <2> DEFINE m1 == IF ~fits THEN c.m1 ELSE IF fine THEN RunStart(c) ELSE NoRun
  <2>10. ctx' = [c EXCEPT !.m1 = m1]
    BY <2>1 DEF fits, fine
  <2>11. /\ m1 \in [st : {"NONE", "LIVE"}, run : Runs]
         /\ fine => m1.st = "LIVE" /\ m1.run = ctx.vca
         /\ ~fine => m1 = ctx.m1 \/ m1.st = "NONE"
         /\ ~fits => m1 = ctx.m1
    BY <1>0, <1>3, <2>9, RunStartType, NoRunType DEF Contexts
  <2> HIDE DEF m1
  <2>12. /\ ctx' \in Contexts /\ ctx'.vca = ctx.vca /\ ctx'.m1 = m1
         /\ ctx'.l1l2 = ctx.l1l2 /\ ctx'.chain = ctx.chain
         /\ ctx'.meas = ctx.meas /\ ctx'.state = ctx.state
    BY <1>3, <2>10, <2>11 DEF Contexts
  <2>13. /\ last'.t = "CHALLENGE" /\ last'.req = n /\ last'.ok = fine
         /\ last'.answers = o.reply.req
         /\ last'.held = (ctx.hash = PortionsOf(rs.chain))
    BY <2>1 DEF fine, fits
  <2>14. /\ clean' \in [m1 : BOOLEAN, l1l2 : BOOLEAN]
         /\ clean'.l1l2 = L1L2Clean(o)
         /\ fine => clean'.m1 = (ctx.vca = rs.vca)
         /\ ~fine => clean'.m1 = (clean.m1 /\ ~o.reached)
    BY <1>0, <2>1, <2>5 DEF fine, fits, L1L2Clean, TypeInv
  <2>15. TypeInv'
    BY <1>0, <1>1, <2>5, <2>12, <2>14 DEF TypeInv
  <2>16. FlowInv'
    BY <1>0, <1>1, <2>9, <2>11, <2>12 DEF FlowInv
  <2>17. \/ rs'.l1l2 = rs.l1l2 /\ (clean'.l1l2 => clean.l1l2)
         \/ rs'.l1l2 = <<>> /\ (clean'.l1l2 => ctx.l1l2.st # "OPEN")
    BY <2>4, <2>5, <2>14 DEF L1L2Clean
  <2>18. VcaAgrees' /\ RunAgrees'
    <3>1. rs'.vca = rs.vca
      BY <2>4, <2>5
    <3> QED
      BY <1>0, <1>1, <2>12, <2>17, <3>1, SameRuns
  <2>19. M1Agrees'
    <3>1. CASE fine
      BY <2>4, <2>5, <2>7, <2>11, <2>12, <2>14, <3>1 DEF M1Agrees
    <3>2. CASE ~fine
      BY <1>0, <2>5, <2>11, <2>12, <2>14, <3>2 DEF M1Agrees
    <3> QED
      BY <3>1, <3>2
  <2>20. ChallengeBinds'
    BY <2>3, <2>7, <2>13 DEF ChallengeBinds
  <2>21. MeasVerified'
    BY <1>0, <1>1, <2>12 DEF MeasVerified
  <2>22. ctx.version >= 13 /\ M1Ends =>
           last'.t = "CHALLENGE" /\ last'.answers = last'.req
    BY <2>8, <2>11, <2>12, <2>13 DEF M1Ends
  <2> QED
    BY <2>15, <2>16, <2>18, <2>19, <2>20, <2>21, <2>22 DEF AttestInv
<1> QED
  BY <1>4, <1>5

\* Whatever passes through SecuredExchange leaves no run open.
LEMMA ExchangeCloses ==
  ASSUME NEW l \in [st : {"NONE", "LIVE", "OPEN"}, run : Runs]
  PROVE  /\ SecuredExchange(l) \in [st : {"NONE", "LIVE", "OPEN"}, run : Runs]
         /\ SecuredExchange(l).st # "OPEN" /\ SecuredExchange(l).run = l.run
BY DEF SecuredExchange

\* A sealed request that is answered arrived, and the numbers still match.
LEMMA SealedFields ==
  ASSUME TypeInv, NEW arrives \in BOOLEAN, NEW answered \in BOOLEAN,
         NEW usable \in BOOLEAN, Sealed(arrives, answered, usable)
  PROVE  /\ req' = req + 1 /\ req' \in Nat
         /\ \A r \in late' : ReplyOK(r, req')
         /\ sync' \in BOOLEAN
         /\ sync' => sync /\ arrives /\ answered
         /\ answered => arrives
<1>1. req \in Nat /\ \A r \in late : ReplyOK(r, req)
  BY DEF TypeInv
<1>2. \A r \in late : ReplyOK(r, req + 1)
  BY <1>1 DEF ReplyOK
<1> QED
  BY <1>1, <1>2 DEF Sealed

\* wolfSPDM_GetMeasurements.  Both sides append this exchange to the same run,
\* or both end it.
LEMMA MeasurementsStep ==
  ASSUME AttestInv, NEW signed \in BOOLEAN, GetMeasurements(signed)
  PROVE  AttestInv' /\ ctx'.m1 = ctx.m1
<1> DEFINE n == req + 1
           open == ctx.l1l2.st = "OPEN"
           l == SecuredExchange(IF open THEN ctx.l1l2 ELSE RunStart(ctx))
           r == [req |-> n, signer |-> rs.chain.key,
                 run |-> Append(rs.vca \o rs.l1l2, [req |-> n, rsp |-> n])]
           e == Exch(n, r)
           ok(got) ==
             got /\ (signed => ctx.key # None /\ RunVerify(l, ctx.key, n, r))
           newl(got) == IF ~got THEN l ELSE IF signed THEN NoRun
                        ELSE [RunAdd(l, e) EXCEPT !.st = "OPEN"]
           m == [req |-> n, signed |-> signed, agreed |-> r.run = Append(l.run, e)]
<1>0. /\ TypeInv /\ FlowInv /\ MeasVerified /\ RunAgrees /\ VcaAgrees /\ M1Agrees
      /\ ctx \in Contexts /\ rs \in Peers /\ req \in Nat /\ rs.vca \in Runs
      /\ rs.l1l2 \in Runs /\ ctx.vca \in Runs
      /\ ctx.l1l2 \in [st : {"NONE", "LIVE", "OPEN"}, run : Runs]
  BY PeerFields, ContextFields DEF AttestInv, TypeInv, Contexts
<1>1. PICK arrives, answered, error, usable, fits \in BOOLEAN :
        /\ Sealed(arrives, answered, usable)
        /\ error => answered /\ usable
        /\ fits \/ ok(answered /\ ~error /\ usable)
        /\ rs' = IF ~arrives THEN rs
                 ELSE [rs EXCEPT !.l1l2 = IF error \/ signed THEN <<>>
                                          ELSE Append(@, e)]
        /\ ctx' = [ctx EXCEPT !.l1l2 = newl(answered /\ ~error /\ usable),
                              !.meas = Exposed(ok(answered /\ ~error /\ usable)
                                                 /\ fits, @, m)]
        /\ clean' = [clean EXCEPT
                       !.l1l2 = arrives => error \/ signed \/
                                             (@ /\ (answered /\ ~error /\ usable))]
        /\ asked' = n
  BY DEF GetMeasurements
<1>2. /\ ctx.state = "CONNECTED" /\ pc = "IDLE" /\ left = 0
      /\ pc' = pc /\ left' = left /\ last' = NoLast /\ Len(ctx.vca) > 0
  BY <1>0 DEF GetMeasurements, InSession, FlowInv
<1>3. /\ l \in [st : {"NONE", "LIVE", "OPEN"}, run : Runs] /\ l.st # "OPEN"
      /\ open => l.run = ctx.l1l2.run
      /\ ~open => l.run = ctx.vca
      /\ Len(l.run) > 0
  <2>1. RunStart(ctx) \in [st : {"NONE", "LIVE", "OPEN"}, run : Runs]
        /\ RunStart(ctx).run = ctx.vca
    BY <1>0 DEF RunStart
  <2>2. CASE open
    BY <1>0, <2>2, ExchangeCloses DEF FlowInv, Runs
  <2>3. CASE ~open
    BY <1>2, <2>1, <2>3, ExchangeCloses
  <2> QED
    BY <2>2, <2>3
<1>4. e = [req |-> n, rsp |-> n] /\ e \in Exchs /\ n \in Nat
  BY <1>0, ExchType DEF Exch
<1> HIDE DEF l, e
<1> DEFINE ol == [RunAdd(l, e) EXCEPT !.st = "OPEN"]
<1>5. /\ ol \in [st : {"NONE", "LIVE", "OPEN"}, run : Runs]
      /\ ol.st = "OPEN" /\ ol.run = Append(l.run, e) /\ Len(ol.run) > 1
  <2>1. Append(l.run, e) \in Runs /\ Len(Append(l.run, e)) = Len(l.run) + 1
    BY <1>3, <1>4, AppendExch
  <2>2. Len(Append(l.run, e)) > 1
    BY <1>3, <2>1 DEF Runs
  <2> QED
    BY <1>3, <2>1, <2>2 DEF RunAdd
<1> HIDE DEF ol
<1>6. /\ req' = req + 1 /\ req' \in Nat /\ \A x \in late' : ReplyOK(x, req')
      /\ sync' \in BOOLEAN /\ (sync' => sync /\ arrives /\ answered)
  BY <1>0, <1>1, SealedFields
<1> DEFINE gotIt == answered /\ ~error /\ usable
           fine == ok(gotIt) /\ fits
           meas == Exposed(fine, ctx.meas, m)
           l2 == newl(gotIt)
<1>7. /\ gotIt \in BOOLEAN /\ (gotIt <=> answered /\ ~error /\ usable)
      /\ fine \in BOOLEAN
      /\ fine /\ signed => r.run = Append(l.run, e)
  BY DEF RunVerify, e
<1>8. /\ m \in Measures /\ m.req = n /\ m.signed = signed
      /\ m.agreed = (r.run = Append(l.run, e))
  BY <1>4 DEF Measures
<1> HIDE DEF gotIt, fine, m, r
<1>9. meas \in Measures /\ (meas = NoMeas \/ (meas = m /\ fine))
  BY <1>7, <1>8 DEF Exposed, Measures
<1>10. /\ l2 \in [st : {"NONE", "LIVE", "OPEN"}, run : Runs]
       /\ l2.st = "OPEN" => gotIt /\ ~signed /\ l2 = ol
       /\ l2.st # "OPEN" => ~gotIt \/ signed
  BY <1>3, <1>5, <1>7, NoRunType DEF ol
<1>11. ctx' = [ctx EXCEPT !.l1l2 = l2, !.meas = meas]
  BY <1>1 DEF gotIt, fine, m
<1> HIDE DEF l2, meas
<1>12. /\ ctx' \in Contexts /\ ctx'.vca = ctx.vca /\ ctx'.m1 = ctx.m1
       /\ ctx'.l1l2 = l2 /\ ctx'.chain = ctx.chain /\ ctx'.meas = meas
       /\ ctx'.state = "CONNECTED"
  BY <1>0, <1>2, <1>9, <1>10, <1>11 DEF Contexts
<1>13. /\ rs' \in Peers /\ rs'.vca = rs.vca /\ rs'.m1 = rs.m1
       /\ ~arrives => rs' = rs
       /\ arrives /\ (error \/ signed) => rs'.l1l2 = <<>>
       /\ arrives /\ ~(error \/ signed) => rs'.l1l2 = Append(rs.l1l2, e)
  <2>1. Append(rs.l1l2, e) \in Runs /\ <<>> \in Runs
    BY <1>0, <1>4, AppendExch DEF Runs
  <2>2. CASE ~arrives
    BY <1>0, <1>1, <2>2
  <2>3. CASE arrives /\ (error \/ signed)
    BY <1>0, <1>1, <2>1, <2>3 DEF Peers
  <2>4. CASE arrives /\ ~(error \/ signed)
    BY <1>0, <1>1, <2>1, <2>4 DEF Peers
  <2> QED
    BY <2>2, <2>3, <2>4
<1>14. /\ clean' \in [m1 : BOOLEAN, l1l2 : BOOLEAN] /\ clean'.m1 = clean.m1
       /\ clean'.l1l2 = (arrives => error \/ signed \/ (clean.l1l2 /\ gotIt))
  BY <1>0, <1>1 DEF TypeInv, gotIt
<1>15. last'.t = None /\ asked' = n
  BY <1>1, <1>2 DEF NoLast
<1>16. TypeInv'
  <2>1. left' \in 0 .. Portions /\ pc' \in Steps
    BY <1>0, <1>2 DEF TypeInv
  <2> QED
    BY <1>6, <1>12, <1>13, <1>14, <2>1 DEF TypeInv
<1>17. FlowInv'
  BY <1>0, <1>2, <1>5, <1>10, <1>12 DEF FlowInv
<1>18. VcaAgrees'
  BY <1>0, <1>2, <1>6, <1>12, <1>13 DEF VcaAgrees
<1>19. RunAgrees'
  <2> SUFFICES ASSUME sync', clean'.l1l2
               PROVE  (IF l2.st = "OPEN" THEN l2.run ELSE ctx.vca)
                        = rs.vca \o rs'.l1l2
    BY <1>12, <1>13 DEF RunAgrees
  <2>1. arrives /\ answered /\ sync /\ ctx.vca = rs.vca
    BY <1>0, <1>2, <1>6 DEF VcaAgrees
  <2>2. CASE error \/ signed
    <3>1. l2.st # "OPEN" /\ rs'.l1l2 = <<>>
      BY <1>7, <1>10, <1>13, <2>1, <2>2
    <3>2. rs.vca \o <<>> = rs.vca
      BY <1>0 DEF Runs
    <3> QED
      BY <2>1, <3>1, <3>2
  <2>3. CASE ~(error \/ signed)
    <3>1. gotIt /\ clean.l1l2
      BY <1>14, <2>1, <2>3
    <3>2. l2.run = Append(l.run, e) /\ rs'.l1l2 = Append(rs.l1l2, e)
          /\ l2.st = "OPEN"
      BY <1>5, <1>10, <1>13, <2>1, <2>3, <3>1
    <3>3. l.run = rs.vca \o rs.l1l2
      BY <1>0, <1>2, <1>3, <2>1, <3>1 DEF RunAgrees
    <3>4. Append(rs.vca \o rs.l1l2, e) = rs.vca \o Append(rs.l1l2, e)
      BY <1>0, <1>4, AppendConcat
    <3> QED
      BY <3>2, <3>3, <3>4
  <2> QED
    BY <2>2, <2>3
<1>20. M1Agrees'
  BY <1>0, <1>12, <1>13, <1>14 DEF M1Agrees
<1>21. ChallengeBinds'
  BY <1>15 DEF ChallengeBinds, None
<1>22. MeasVerified'
  BY <1>7, <1>8, <1>9, <1>12, <1>15 DEF MeasVerified
<1> QED
  BY <1>12, <1>16, <1>17, <1>18, <1>19, <1>20, <1>21, <1>22 DEF AttestInv

\* A GET_MEASUREMENTS that is not sent changes nothing.
LEMMA RefusedStep ==
  ASSUME AttestInv, NEW signed \in BOOLEAN, MeasurementsRefused(signed)
  PROVE  AttestInv' /\ ctx' = ctx
<1>0. /\ TypeInv /\ FlowInv /\ MeasVerified /\ RunAgrees /\ VcaAgrees /\ M1Agrees
  BY DEF AttestInv
<1>1. /\ ctx' = ctx /\ pc' = pc /\ left' = left /\ rs' = rs /\ late' = late
      /\ sync' = sync /\ req' = req /\ clean' = clean /\ last' = NoLast
      /\ asked' = asked
  BY DEF MeasurementsRefused
<1>2. TypeInv' /\ FlowInv'
  BY <1>0, <1>1 DEF TypeInv, FlowInv
<1>3. VcaAgrees' /\ RunAgrees' /\ M1Agrees'
  BY <1>0, <1>1 DEF VcaAgrees, RunAgrees, M1Agrees
<1>4. ChallengeBinds' /\ MeasVerified'
  BY <1>0, <1>1, NoLastKeeps
<1> QED
  BY <1>1, <1>2, <1>3, <1>4 DEF AttestInv

\* Any other request of the session.
LEMMA OtherStep ==
  ASSUME AttestInv, NEW l \in {ctx.l1l2, SecuredExchange(ctx.l1l2)},
         NEW bypass \in BOOLEAN,
         l.st = "OPEN" => bypass,
         OtherRequest(l, bypass)
  PROVE  AttestInv' /\ ctx'.m1 = ctx.m1
<1>0. /\ TypeInv /\ FlowInv /\ MeasVerified /\ RunAgrees /\ VcaAgrees /\ M1Agrees
      /\ ctx \in Contexts /\ rs \in Peers
      /\ ctx.l1l2 \in [st : {"NONE", "LIVE", "OPEN"}, run : Runs]
  BY DEF AttestInv, TypeInv, Contexts
<1>1. PICK arrives \in BOOLEAN, answered \in BOOLEAN :
        /\ Sealed(arrives, answered, TRUE)
        /\ rs' = IF arrives THEN [rs EXCEPT !.l1l2 = <<>>] ELSE rs
        /\ ctx' = [ctx EXCEPT !.l1l2 = l]
        /\ clean' = [clean EXCEPT
                       !.l1l2 = arrives => ~(bypass /\ ctx.l1l2.st = "OPEN")]
  BY DEF OtherRequest
<1>2. /\ ctx.state = "CONNECTED" /\ pc = "IDLE" /\ left = 0
      /\ pc' = pc /\ left' = left /\ last' = NoLast /\ asked' = asked
  BY DEF OtherRequest, InSession
<1>3. /\ l \in [st : {"NONE", "LIVE", "OPEN"}, run : Runs]
      /\ l.st = "OPEN" => l = ctx.l1l2
  BY <1>0, ExchangeCloses
<1>4. /\ req' = req + 1 /\ req' \in Nat /\ \A x \in late' : ReplyOK(x, req')
      /\ sync' \in BOOLEAN /\ (sync' => sync /\ arrives /\ answered)
  BY <1>0, <1>1, SealedFields
<1>5. /\ ctx' \in Contexts /\ ctx'.vca = ctx.vca /\ ctx'.m1 = ctx.m1
      /\ ctx'.l1l2 = l /\ ctx'.chain = ctx.chain /\ ctx'.meas = ctx.meas
      /\ ctx'.state = "CONNECTED"
  BY <1>0, <1>1, <1>2, <1>3 DEF Contexts
<1>6. /\ rs' \in Peers /\ rs'.vca = rs.vca /\ rs'.m1 = rs.m1
      /\ arrives => rs'.l1l2 = <<>>
  <2>1. <<>> \in Runs
    BY DEF Runs
  <2> QED
    BY <1>0, <1>1, <2>1 DEF Peers
<1>7. /\ clean' \in [m1 : BOOLEAN, l1l2 : BOOLEAN] /\ clean'.m1 = clean.m1
      /\ arrives /\ clean'.l1l2 => ~(bypass /\ ctx.l1l2.st = "OPEN")
  BY <1>0, <1>1 DEF TypeInv
<1>8. TypeInv'
  <2>1. left' \in 0 .. Portions /\ pc' \in Steps
    BY <1>0, <1>2 DEF TypeInv
  <2> QED
    BY <1>4, <1>5, <1>6, <1>7, <2>1 DEF TypeInv
<1>9. FlowInv'
  BY <1>0, <1>2, <1>3, <1>5 DEF FlowInv
<1>10. VcaAgrees' /\ RunAgrees'
  <2>1. rs.vca \o <<>> = rs.vca
    BY <1>0, PeerFields DEF Runs
  <2>2. VcaAgrees'
    BY <1>0, <1>2, <1>4, <1>5, <1>6 DEF VcaAgrees
  <2>3. sync' /\ clean'.l1l2 => l.st # "OPEN" /\ rs'.l1l2 = <<>>
    BY <1>3, <1>4, <1>6, <1>7
  <2> QED
    BY <1>5, <1>6, <2>1, <2>2, <2>3 DEF VcaAgrees, RunAgrees
<1>11. M1Agrees'
  BY <1>0, <1>5, <1>6, <1>7 DEF M1Agrees
<1>12. ChallengeBinds' /\ MeasVerified'
  BY <1>0, <1>2, <1>5, NoLastKeeps
<1> QED
  BY <1>5, <1>8, <1>9, <1>10, <1>11, <1>12 DEF AttestInv

\* HEARTBEAT, END_SESSION, vendor commands; KEY_UPDATE.
LEMMA OtherRequestsStep ==
  ASSUME AttestInv, Heartbeat \/ KeyUpdate
  PROVE  AttestInv' /\ ctx'.m1 = ctx.m1
<1>1. SecuredExchange(ctx.l1l2).st # "OPEN"
  BY ExchangeCloses DEF AttestInv, TypeInv, Contexts
<1>2. CASE Heartbeat
  BY <1>1, <1>2, OtherStep DEF Heartbeat
<1>3. CASE KeyUpdate
  <2>1. CASE OtherRequest(SecuredExchange(ctx.l1l2), FALSE)
    BY <1>1, <2>1, OtherStep
  <2>2. CASE OtherRequest(ctx.l1l2, TRUE)
    BY <2>2, OtherStep
  <2> QED
    BY <1>3, <2>1, <2>2 DEF KeyUpdate
<1> QED
  BY <1>2, <1>3

\* wolfSPDM_Disconnect resets the session, whatever becomes of END_SESSION.
LEMMA DisconnectStep ==
  ASSUME AttestInv, Disconnect
  PROVE  AttestInv' /\ ctx'.state = "INIT"
<1>0. /\ TypeInv /\ FlowInv /\ MeasVerified /\ ctx \in Contexts /\ rs \in Peers
      /\ req \in Nat
  BY DEF AttestInv, TypeInv
<1>1. /\ ctx' = ResetSession(ctx) /\ last' = NoLast /\ pc' = pc /\ left' = left
      /\ pc = "IDLE" /\ clean' = [m1 |-> FALSE, l1l2 |-> TRUE]
  BY DEF Disconnect
<1>2. /\ ctx' \in Contexts /\ ctx'.state = "INIT" /\ ctx'.m1.st = "NONE"
      /\ ctx'.l1l2.st = "NONE" /\ ctx'.chain = ctx.chain /\ ctx'.meas = NoMeas
  BY <1>0, <1>1, ResetType, NoRunType
<1>3. /\ rs' \in Peers /\ req' \in Nat /\ \A x \in late' : ReplyOK(x, req')
      /\ sync' \in BOOLEAN
  <2>1. CASE ctx.state = "CONNECTED"
    <3>1. PICK arrives \in BOOLEAN, answered \in BOOLEAN :
            /\ Sealed(arrives, answered, TRUE)
            /\ rs' = IF arrives THEN [rs EXCEPT !.l1l2 = <<>>] ELSE rs
      BY <2>1 DEF Disconnect
    <3>2. <<>> \in Runs
      BY DEF Runs
    <3>3. rs' \in Peers
      BY <1>0, <3>1, <3>2 DEF Peers
    <3> QED
      BY <1>0, <3>1, <3>3, SealedFields
  <2>2. CASE ctx.state # "CONNECTED"
    BY <1>0, <2>2 DEF Disconnect, TypeInv
  <2> QED
    BY <2>1, <2>2
<1>4. clean' \in [m1 : BOOLEAN, l1l2 : BOOLEAN]
  BY <1>1
<1>5. TypeInv' /\ FlowInv'
  BY <1>0, <1>1, <1>2, <1>3, <1>4 DEF TypeInv, FlowInv
<1>6. VcaAgrees' /\ RunAgrees' /\ M1Agrees'
  BY <1>2 DEF VcaAgrees, RunAgrees, M1Agrees
<1>7. ChallengeBinds' /\ MeasVerified'
  BY <1>0, <1>1, <1>2, NoLastKeeps
<1> QED
  BY <1>2, <1>5, <1>6, <1>7 DEF AttestInv

\* The responder is given another chain.
LEMMA ReprovisionStep ==
  ASSUME AttestInv, Reprovision
  PROVE  AttestInv' /\ ctx' = ctx
<1>0. /\ TypeInv /\ FlowInv /\ MeasVerified /\ RunAgrees /\ VcaAgrees /\ M1Agrees
      /\ rs \in Peers
  BY DEF AttestInv, TypeInv
<1>1. PICK ch \in AllChains : rs' = [rs EXCEPT !.chain = ch]
  BY DEF Reprovision, AllChains
<1>2. rs' \in Peers /\ rs'.vca = rs.vca /\ rs'.m1 = rs.m1 /\ rs'.l1l2 = rs.l1l2
  BY <1>0, <1>1 DEF Peers
<1>3. /\ ctx' = ctx /\ pc' = pc /\ left' = left /\ late' = late /\ sync' = sync
      /\ req' = req /\ clean' = clean /\ last' = NoLast
      /\ asked' = asked
  BY DEF Reprovision
<1>4. TypeInv' /\ FlowInv'
  BY <1>0, <1>2, <1>3 DEF TypeInv, FlowInv
<1>5. VcaAgrees' /\ RunAgrees' /\ M1Agrees'
  BY <1>0, <1>2, <1>3 DEF VcaAgrees, RunAgrees, M1Agrees
<1>6. ChallengeBinds' /\ MeasVerified'
  BY <1>0, <1>3, NoLastKeeps
<1> QED
  BY <1>3, <1>4, <1>5, <1>6 DEF AttestInv

-----------------------------------------------------------------------------
(* Theorems *)

\* Every step keeps the invariant, and only the steps LateKeepsM1 names end M1.
LEMMA AttestNext ==
  ASSUME AttestInv, Next
  PROVE  /\ AttestInv'
         /\ ctx.version >= 13 /\ M1Ends =>
              \/ last'.t = "CHALLENGE" /\ last'.answers = last'.req
              \/ ctx'.state = "INIT"
<1>1. CASE Connect
  BY <1>1, ConnectStep
<1>2. CASE Negotiate
  BY <1>2, NegotiateStep
<1>3. CASE GetDigests
  BY <1>3, DigestsStep
<1>4. CASE GetCertificate
  BY <1>4, CertificateStep
<1>5. CASE FetchStep
  BY <1>5, PortionStep
<1>6. CASE KeyExchange
  BY <1>6, KeyExchangeStep
<1>7. CASE Challenge
  BY <1>7, ChallengeStep
<1>8. CASE Disconnect
  BY <1>8, DisconnectStep
<1>9. CASE \E signed \in BOOLEAN : GetMeasurements(signed)
  BY <1>9, MeasurementsStep DEF M1Ends
<1>10. CASE \E signed \in BOOLEAN : MeasurementsRefused(signed)
  BY <1>10, RefusedStep DEF M1Ends
<1>11. CASE Heartbeat \/ KeyUpdate
  BY <1>11, OtherRequestsStep DEF M1Ends
<1>12. CASE Reprovision
  BY <1>12, ReprovisionStep DEF M1Ends
<1> QED
  BY <1>1, <1>2, <1>3, <1>4, <1>5, <1>6, <1>7, <1>8, <1>9, <1>10, <1>11, <1>12
  DEF Next

\* AttestInv is inductive, so it holds in every reachable state.
THEOREM AttestInvariant == Spec => []AttestInv
<1>1. Init => AttestInv
  BY AttestInit
<1>2. AttestInv /\ [Next]_vars => AttestInv'
  <2> SUFFICES ASSUME AttestInv, [Next]_vars PROVE AttestInv'
    OBVIOUS
  <2>1. CASE Next
    BY <2>1, AttestNext
  <2>2. CASE UNCHANGED vars
    <3>1. TypeInv'
      BY <2>2 DEF vars, AttestInv, TypeInv
    <3>2. FlowInv'
      BY <2>2 DEF vars, AttestInv, FlowInv
    <3>3. VcaAgrees'
      BY <2>2 DEF vars, AttestInv, VcaAgrees
    <3>4. RunAgrees'
      BY <2>2 DEF vars, AttestInv, RunAgrees
    <3>5. M1Agrees'
      BY <2>2 DEF vars, AttestInv, M1Agrees
    <3>6. ChallengeBinds'
      BY <2>2 DEF vars, AttestInv, ChallengeBinds
    <3>7. MeasVerified'
      BY <2>2 DEF vars, AttestInv, MeasVerified
    <3> QED
      BY <3>1, <3>2, <3>3, <3>4, <3>5, <3>6, <3>7 DEF AttestInv
  <2> QED
    BY <2>1, <2>2
<1> QED
  BY <1>1, <1>2, PTL DEF Spec

\* The context has its type, a live M1 starts at the VCA, an open L1/L2 run has
\* an exchange.
THEOREM AttestTypeCorrect == Spec => []AttestTypeOK
<1>1. AttestInv => AttestTypeOK
  <2> SUFFICES ASSUME AttestInv PROVE AttestTypeOK
    OBVIOUS
  <2>1. /\ ctx.state \in {"INIT", "VERSION", "CERT", "CONNECTED", "ERROR"}
        /\ ctx.m1.st \in {"NONE", "LIVE"}
        /\ ctx.l1l2.st \in {"NONE", "LIVE", "OPEN"}
    BY ContextFields DEF AttestInv, TypeInv
  <2> QED
    BY <2>1 DEF AttestInv, TypeInv, FlowInv, AttestTypeOK
<1> QED
  BY <1>1, AttestInvariant, PTL

\* The L1/L2 run the next GET_MEASUREMENTS extends is the responder's, unless a
\* request bypassed SecuredExchange or an unsigned answer was not usable.
THEOREM L1L2Agreement == Spec => []RunAgrees
<1>1. AttestInv => RunAgrees
  BY DEF AttestInv
<1> QED
  BY <1>1, AttestInvariant, PTL

\* M1 is the responder's M1, unless a reply was lost, stale or refused.
THEOREM M1Agreement == Spec => []M1Agrees
<1>1. AttestInv => M1Agrees
  BY DEF AttestInv
<1> QED
  BY <1>1, AttestInvariant, PTL

\* A CHALLENGE succeeds only on its own answer, for the chain that was fetched.
THEOREM ChallengeBinding == Spec => []ChallengeBinds
<1>1. AttestInv => ChallengeBinds
  BY DEF AttestInv
<1> QED
  BY <1>1, AttestInvariant, PTL

\* Exposed measurements are those of the last GET_MEASUREMENTS sent, and verified
\* when signed.
THEOREM MeasurementsVerified == Spec => []MeasVerified
<1>1. AttestInv => MeasVerified
  BY DEF AttestInv
<1> QED
  BY <1>1, AttestInvariant, PTL

\* A late CHALLENGE_AUTH never ends M1 from 1.3 on.
THEOREM LateNeverEndsM1 == Spec => LateKeepsM1
<1>1. AttestInv /\ [Next]_vars =>
        [ctx.version >= 13 /\ ctx.m1.st = "LIVE" /\ ctx'.m1.st = "NONE" =>
           \/ last'.t = "CHALLENGE" /\ last'.answers = last'.req
           \/ ctx'.state = "INIT"]_vars
  BY AttestNext DEF M1Ends
<1> QED
  BY <1>1, AttestInvariant, PTL DEF Spec, LateKeepsM1

=============================================================================
