----------------------------- MODULE Handshake -----------------------------
(***************************************************************************)
(* A requester (wolfSPDM_Connect in its TCG, Nuvoton and PSK modes, a      *)
(* secured command, wolfSPDM_Disconnect) against the in-tree responder     *)
(* over a transport that loses, delays and repeats frames.                 *)
(*                                                                         *)
(* Each exchange is split at the I/O callback.  The requester's context    *)
(* belongs to one thread, so only the responder and the transport move     *)
(* while a call waits.  A late frame is one of an earlier exchange, given  *)
(* to either side in place of, or in addition to, the expected one.        *)
(***************************************************************************)
EXTENDS Responder

CONSTANTS
  Modes,        \* modes the requester may connect in: TCG, NUVOTON, PSK
  HostKeys,     \* whether the requester has a key pair for GIVE_PUB
  MaxAttempts,  \* bound: Connect calls
  MaxCommands,  \* bound: secured commands and Disconnect calls
  MaxLost,      \* bound: frames lost
  MaxLate       \* bound: late frames delivered

ASSUME HandshakeAssumption ==
  /\ Modes \subseteq {"TCG", "NUVOTON", "PSK"}
  /\ HostKeys \subseteq BOOLEAN
  /\ {MaxAttempts, MaxCommands, MaxLost, MaxLate} \subseteq Nat

VARIABLES
  ctx,       \* the requester: state, mode, transcript, keys, counters, PSK
  wait,      \* the request it waits for an answer to
  link,      \* where that exchange is: IDLE, SENT, ANSWERED, SILENT
  answer,    \* the responder's reply to it
  reqs,      \* every request sent
  rsps,      \* every reply sent
  attempts, commands, lost, late,  \* what the bounds count
  accepted,  \* history: application keys of sessions the responder accepted
  adopted    \* history: application keys of sessions the requester adopted

reqVars == <<ctx, wait, link, answer, reqs, rsps, attempts, commands, lost,
             late, adopted>>
vars == <<respVars, reqVars, accepted>>

-----------------------------------------------------------------------------
(* Requests *)

NoRequest == [t |-> "NONE"]

\* Version 1 stands for the one both sides select; n makes a key exchange
\* unique, as its random and its ephemeral key do.
ClearRequest(t, n) == [sec |-> FALSE, t |-> t, v |-> 1, n |-> n, psk |-> 0,
                       auth |-> 0, lock |-> FALSE]

\* A record under the current keys; mac is the RequesterVerifyData.
SecuredRequest(t, th) ==
  [sec |-> TRUE, t |-> t, key |-> ctx.key, seq |-> ctx.reqSeq,
   mac |-> [key |-> ctx.key, th |-> th], psk |-> 0, auth |-> 0,
   lock |-> FALSE]

Send(m) == /\ wait' = m
           /\ link' = "SENT"
           /\ reqs' = reqs \union {m}

\* The call waits on with another request, context c.
Continue(c, m) == ctx' = c /\ Send(m) /\ UNCHANGED adopted

\* The call returns, context c.
Return(c) == /\ ctx' = c
             /\ wait' = NoRequest /\ link' = "IDLE"
             /\ UNCHANGED <<reqs, adopted>>

\* wolfSPDM_ResetSession, in mode m: the transcript and what is configured
\* stay.
ResetSessionKeepsSeq(m) ==   \* mutant: a counter forgotten
  [ctx EXCEPT !.state = "INIT", !.mode = m, !.key = NoKey, !.rspSeq = 0]
ResetSession(m) ==
  [ctx EXCEPT !.state = "INIT", !.mode = m, !.key = NoKey, !.reqSeq = 0,
              !.rspSeq = 0]

\* A failed Connect.  What it leaves in the transcript is not followed: the
\* next Connect starts a new one.
Fail == Return([ctx EXCEPT !.state = "ERROR"])

-----------------------------------------------------------------------------
(* wolfSPDM_Connect *)

\* SPDM_CONNECT_STEP 1, after the reset.  PSK mode needs a PSK.
Connect(mode) ==
  /\ link = "IDLE" /\ attempts < MaxAttempts
  /\ mode = "PSK" => ctx.psk # 0
  /\ attempts' = attempts + 1
  /\ Continue([ResetSession(mode) EXCEPT
                 !.trans = <<Token("GET_VERSION", 0)>>],
              ClearRequest("GET_VERSION", 0))
  /\ UNCHANGED <<answer, rsps, commands, lost, late>>

\* wolfSPDM_ConnectPsk without a PSK: BAD_STATE after the reset.
ConnectNoPsk ==
  /\ link = "IDLE"
  /\ "PSK" \in Modes /\ ctx.psk = 0
  /\ Return(ResetSession("PSK"))
  /\ UNCHANGED <<answer, rsps, attempts, commands, lost, late>>

\* wolfSPDM_SetPSK, before a PSK connection.
SetPSK ==
  /\ link = "IDLE" /\ "PSK" \in Modes /\ ctx.psk = 0
  /\ ctx' = [ctx EXCEPT !.psk = 1]
  /\ UNCHANGED <<wait, link, answer, reqs, rsps, attempts, commands, lost, late,
                 adopted>>

\* The next request of the mode once message t is done, and its first tokens.
AfterStep(t) ==
  CASE t = "GET_VERSION" /\ ctx.mode = "TCG" -> "GET_CAPABILITIES"
    [] t = "GET_VERSION" /\ ctx.mode = "NUVOTON" -> "GET_PUBK"
    [] t = "GET_VERSION" /\ ctx.mode = "PSK" -> "PSK_EXCHANGE"
    [] t = "GET_CAPABILITIES" -> "NEGOTIATE_ALGORITHMS"
    [] t = "NEGOTIATE_ALGORITHMS" -> "GET_PUBK"
    [] t = "GET_PUBK" -> "KEY_EXCHANGE"

\* Ask the next clear request; vendor requests are not hashed.
AskNext(c, t) ==
  LET next == AfterStep(t)
      n    == IF next \in {"KEY_EXCHANGE", "PSK_EXCHANGE"} THEN attempts ELSE 0
  IN  Continue([c EXCEPT !.trans = IF next = "GET_PUBK" THEN c.trans
                                   ELSE Append(c.trans, Token(next, n))],
               ClearRequest(next, n))

Reply(t) == CASE t = "GET_VERSION" -> "VERSION"
              [] t = "GET_CAPABILITIES" -> "CAPABILITIES"
              [] t = "NEGOTIATE_ALGORITHMS" -> "ALGORITHMS"

\* VERSION, CAPABILITIES, ALGORITHMS: hashed, then the next request.
NegotiateReturn(r) ==
  /\ wait.t \in {"GET_VERSION", "GET_CAPABILITIES", "NEGOTIATE_ALGORITHMS"}
  /\ \/ /\ r.t = Reply(wait.t)
        /\ AskNext([ctx EXCEPT !.trans = Append(ctx.trans, Token(r.t, 0)),
                               !.state = "VERSION"], wait.t)
     \/ r.t # Reply(wait.t) /\ Fail

\* GET_PUBK: the responder's key must be the pinned one; Ct is hashed.
Pinned == 1
GetPubKeyReturn(r) ==
  /\ wait.t = "GET_PUBK"
  /\ \/ /\ r.t = "GET_PUBK" /\ r.id = Pinned
        /\ AskNext([ctx EXCEPT !.trans = Append(ctx.trans, Token("Ct", r.id)),
                               !.state = "CERT"], wait.t)
     \/ ~(r.t = "GET_PUBK" /\ r.id = Pinned) /\ Fail

\* wolfSPDM_BuildFinish: FINISH is hashed, verify data over that transcript.
AskFinish(c, t) ==
  LET th2 == Append(c.trans, Token(t, 0))
  IN  /\ ctx' = [c EXCEPT !.trans = th2, !.reqSeq = c.reqSeq + 1]
      /\ Send([sec |-> TRUE, t |-> t, key |-> c.key, seq |-> c.reqSeq,
               mac |-> [key |-> c.key, th |-> th2], psk |-> 0, auth |-> 0,
               lock |-> FALSE])
      /\ UNCHANGED adopted

\* wolfSPDM_ParseKeyExchangeRsp: the signature covers the transcript, the
\* verify data proves the secret.  GIVE_PUB follows when there is a key.
SignedKeyExchange(r, th1) ==
  /\ r.t = "KEY_EXCHANGE_RSP"
  /\ r.id = Pinned /\ r.key.th = th1
  /\ r.key.secret = Secret("DH", attempts, r.n)

KeyExchangeReturn(r) ==
  LET th1 == Append(ctx.trans, Token("KEY_EXCHANGE_RSP", r.n))
      c   == [ctx EXCEPT !.trans = th1, !.state = "KEY_EX",
                         !.key = Key("HS", Secret("DH", attempts, r.n), th1)]
  IN
  /\ wait.t = "KEY_EXCHANGE"
  /\ \/ /\ SignedKeyExchange(r, th1) /\ ctx.hasReqKeyPair
        /\ Continue([c EXCEPT !.reqSeq = 1],
             [sec |-> TRUE, t |-> "GIVE_PUB", key |-> c.key, seq |-> 0,
              mac |-> [key |-> NoKey, th |-> <<>>], psk |-> 0, auth |-> 0,
              lock |-> FALSE])
     \/ SignedKeyExchange(r, th1) /\ ~ctx.hasReqKeyPair /\ AskFinish(c, "FINISH")
     \/ ~SignedKeyExchange(r, th1) /\ Fail

\* wolfSPDM_ParsePskExchangeRsp: the PSK is wiped as soon as the keys are
\* derived, whether or not the verify data then matches.
PskExchangeReturn(r) ==
  LET th1 == Append(ctx.trans, Token("PSK_EXCHANGE_RSP", r.n))
      key == Key("HS", Secret("PSK", ctx.psk, 0), th1)
      c   == [ctx EXCEPT !.trans = th1, !.psk = 0, !.key = key]
  IN
  /\ wait.t = "PSK_EXCHANGE"
  /\ \/ /\ r.t = "PSK_EXCHANGE_RSP" /\ r.key = key
        /\ AskFinish([c EXCEPT !.state = "KEY_EX"], "PSK_FINISH")
     \/ /\ r.t = "PSK_EXCHANGE_RSP" /\ r.key # key
        /\ Return([c EXCEPT !.state = "ERROR"])
     \/ r.t # "PSK_EXCHANGE_RSP" /\ Fail

\* wolfSPDM_DecryptRecord.
ReqOpensAny(r) == r.sec /\ r.key = ctx.key   \* mutant: counter not checked
ReqOpensUnverified(r) == r.sec /\ r.seq = ctx.rspSeq   \* mutant: tag ignored
ReqOpens(r) == r.sec /\ r.key = ctx.key /\ r.seq = ctx.rspSeq

\* A record that opens counts, whatever it says.
Opened == [ctx EXCEPT !.rspSeq = ctx.rspSeq + 1]
AfterOpen(r) == IF ReqOpens(r) THEN Opened ELSE ctx

FailAfter(r) == Return([AfterOpen(r) EXCEPT !.state = "ERROR"])

GivePubReturn(r) ==
  /\ wait.t = "GIVE_PUB"
  /\ \/ /\ ReqOpens(r) /\ r.t # "ERROR"
        /\ AskFinish(Opened, "FINISH")
     \/ ~(ReqOpens(r) /\ r.t # "ERROR") /\ FailAfter(r)

\* FINISH_RSP is hashed, then the application keys replace the others.
FinishReturn(r) ==
  LET th == Append(ctx.trans, Token("FINISH_RSP", 0))
      c  == [ctx EXCEPT !.trans = th, !.state = "CONNECTED",
                        !.key = Key("APP", ctx.key.secret, th),
                        !.reqSeq = 0, !.rspSeq = 0]
  IN
  /\ wait.t \in {"FINISH", "PSK_FINISH"}
  /\ \/ /\ ReqOpens(r) /\ r.t = "FINISH_RSP"
        /\ ctx' = c /\ wait' = NoRequest /\ link' = "IDLE"
        /\ adopted' = adopted \union {c.key}
        /\ UNCHANGED reqs
     \/ ~(ReqOpens(r) /\ r.t = "FINISH_RSP") /\ FailAfter(r)

-----------------------------------------------------------------------------
(* A connected requester *)

\* A TPM command, or END_SESSION.
Command(t) ==
  /\ link = "IDLE" /\ ctx.state = "CONNECTED" /\ commands < MaxCommands
  /\ commands' = commands + 1
  /\ Continue([ctx EXCEPT !.reqSeq = ctx.reqSeq + 1], SecuredRequest(t, <<>>))
  /\ UNCHANGED <<answer, rsps, attempts, lost, late>>

CommandReturn(r) ==
  \/ /\ wait.t = "TPM2_CMD"
     /\ Return(AfterOpen(r))
  \/ /\ wait.t = "END_SESSION"
     /\ Return(ResetSession(ctx.mode))

\* What the blocked call does with the frame r it is handed.
Receive(r) ==
  \/ NegotiateReturn(r) \/ GetPubKeyReturn(r) \/ KeyExchangeReturn(r)
  \/ PskExchangeReturn(r) \/ GivePubReturn(r) \/ FinishReturn(r)
  \/ CommandReturn(r)

\* The I/O callback fails: the call ends as on any error.
IoFail ==
  /\ link = "SILENT"
  /\ CASE wait.t = "TPM2_CMD" -> Return(ctx)
       [] wait.t = "END_SESSION" -> Return(ResetSession(ctx.mode))
       [] OTHER -> Fail
  /\ UNCHANGED <<answer, rsps, attempts, commands, lost, late>>

-----------------------------------------------------------------------------
(* External: the transport *)

Handle(m) == IF m.sec THEN HandleSecured(m) ELSE HandleClear(m)

Accepts == accepted' = IF rs'.key.ph = "APP" THEN accepted \union {rs'.key}
                       ELSE accepted

Deliver ==
  /\ link = "SENT"
  /\ \/ /\ Handle(wait)
        /\ Accepts
        /\ answer' = out'
        /\ link' = IF out'.t = "NONE" THEN "SILENT" ELSE "ANSWERED"
        /\ rsps' = IF out'.t = "NONE" THEN rsps ELSE rsps \union {out'}
     \/ /\ wait.sec /\ ~RespOpens(wait)
        /\ link' = "SILENT"
        /\ UNCHANGED <<respVars, accepted, answer, rsps>>
  /\ UNCHANGED <<ctx, wait, reqs, attempts, commands, lost, late, adopted>>

DeliverReply ==
  /\ link = "ANSWERED"
  /\ Receive(answer)
  /\ UNCHANGED <<answer, rsps, attempts, commands, lost, late>>

Lose ==
  /\ link \in {"SENT", "ANSWERED"} /\ lost < MaxLost
  /\ lost' = lost + 1
  /\ link' = "SILENT"
  /\ UNCHANGED <<ctx, wait, answer, reqs, rsps, attempts, commands, late,
                 adopted>>

\* An earlier request reaches the responder, again or at last.
LateRequest ==
  /\ late < MaxLate
  /\ late' = late + 1
  /\ \E m \in reqs :
       /\ Handle(m)
       /\ Accepts
       /\ rsps' = IF out'.t = "NONE" THEN rsps ELSE rsps \union {out'}
  /\ UNCHANGED <<ctx, wait, link, answer, reqs, attempts, commands, lost,
                 adopted>>

\* An earlier reply reaches the requester in place of the expected one.
LateReply ==
  /\ link # "IDLE" /\ late < MaxLate
  /\ late' = late + 1
  /\ \E r \in rsps : Receive(r)
  /\ UNCHANGED <<answer, rsps, attempts, commands, lost>>

-----------------------------------------------------------------------------
(* The specification *)

Init ==
  /\ RespInit
  /\ prov = [psk |-> 1, provisioned |-> TRUE, clearAuth |-> 0, lock |-> FALSE,
             id |-> Pinned]
  /\ \E has \in HostKeys :
       ctx = [state |-> "INIT", mode |-> "NONE", trans |-> <<>>, key |-> NoKey,
              reqSeq |-> 0, rspSeq |-> 0, hasReqKeyPair |-> has,
              psk |-> IF "PSK" \in Modes THEN 1 ELSE 0]
  /\ wait = NoRequest /\ link = "IDLE" /\ answer = NoReply
  /\ reqs = {} /\ rsps = {}
  /\ attempts = 0 /\ commands = 0 /\ lost = 0 /\ late = 0
  /\ accepted = {} /\ adopted = {}

\* Steps in which the responder takes no part.
Requester == /\ \/ \E mode \in Modes : Connect(mode)
                \/ ConnectNoPsk
                \/ SetPSK
                \/ \E t \in {"TPM2_CMD", "END_SESSION"} : Command(t)
                \/ DeliverReply
                \/ IoFail
                \/ LateReply
                \/ Lose
             /\ UNCHANGED <<respVars, accepted>>

Next == Requester \/ Deliver \/ LateRequest

\* Every frame the transport does not lose arrives, a silent exchange ends in
\* the I/O callback's timeout, and the caller retries a failed Connect, with
\* a new PSK where the last one is used up.
Retries == /\ ctx.state # "CONNECTED"
           /\ \/ \E mode \in Modes : Connect(mode)
              \/ SetPSK
           /\ UNCHANGED <<respVars, accepted>>

Arrives == (DeliverReply \/ IoFail) /\ UNCHANGED <<respVars, accepted>>

Fairness == WF_vars(Retries) /\ WF_vars(Arrives) /\ WF_vars(Deliver)

Spec == Init /\ [][Next]_vars /\ Fairness

-----------------------------------------------------------------------------
(* Properties *)

HandshakeTypeOK ==
  /\ ctx.state \in {"INIT", "VERSION", "CERT", "KEY_EX", "CONNECTED", "ERROR"}
  /\ ctx.mode \in Modes \union {"NONE"}
  /\ link \in {"IDLE", "SENT", "ANSWERED", "SILENT"}
  /\ link = "IDLE" => wait = NoRequest /\ ctx.state \in {"INIT", "CONNECTED", "ERROR"}
  /\ ctx.key.ph = "NONE" => ctx.reqSeq = 0 /\ ctx.rspSeq = 0

\* The session the requester ends up in is one the responder accepted, over
\* the same transcript and secret, and none is entered twice, whatever late
\* frames either side is handed: the handshake implements SessionSpec.
S == INSTANCE SessionSpec WITH
       current <- IF ctx.state = "CONNECTED" THEN {ctx.key} ELSE {}
ImplementsSession == S!Spec

\* Under shared keys neither side has opened a record the other has not
\* sealed yet: the counters never cross.
CountersNeverCross ==
  ctx.key = rs.key /\ ctx.key # NoKey =>
    /\ rs.reqSeq <= ctx.reqSeq
    /\ ctx.rspSeq <= rs.rspSeq

\* As long as the transport delivers everything, in order and once, a
\* connected requester shares its keys and both counters with the responder
\* after every call: the next record will open.
InStep ==
  lost = 0 /\ late = 0 /\ link = "IDLE" /\ ctx.state = "CONNECTED" =>
    /\ rs.state = "CONNECTED" /\ rs.key = ctx.key
    /\ rs.reqSeq = ctx.reqSeq /\ rs.rspSeq = ctx.rspSeq

\* From a failed Connect, whatever either side was left with, retrying leads
\* to a session: an attempt fails only when the transport spends a fault on
\* it.
FaultsLeft == (MaxLost - lost) + (MaxLate - late)
Recovers ==
  (ctx.state = "ERROR" /\ MaxAttempts - attempts > FaultsLeft)
    ~> ctx.state = "CONNECTED"

\* What wolfSPDM_ResetSession says of the PSK it does not wipe: configured
\* secrets "stay for a later connection" (spdm_context.c:423-424).  Init has
\* one configured.
PskStays ==
  "PSK" \in Modes /\ link = "IDLE" /\ ctx.state = "INIT" => ctx.psk # 0

=============================================================================
