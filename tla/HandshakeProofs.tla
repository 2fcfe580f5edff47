-------------------------- MODULE HandshakeProofs --------------------------
(***************************************************************************)
(* The handshake of module Handshake against the in-tree responder, for    *)
(* every set of modes, every fault of the responder and every number of    *)
(* attempts, commands, lost and late frames: it implements SessionSpec,    *)
(* and the counters of the two sides agree as far as the transport lets    *)
(* them.                                                                   *)
(***************************************************************************)
EXTENDS Handshake, ResponderProofs

ClearTypes == {"GET_VERSION", "GET_CAPABILITIES", "NEGOTIATE_ALGORITHMS",
               "GET_PUBK", "KEY_EXCHANGE", "PSK_EXCHANGE"}
ExchangeTypes == {"KEY_EXCHANGE", "PSK_EXCHANGE"}
FinishTypes == {"FINISH", "PSK_FINISH"}
ConnectTypes == ClearTypes \union {"GIVE_PUB"} \union FinishTypes
CommandTypes == {"TPM2_CMD", "END_SESSION"}

Contexts ==
  [state : {"INIT", "VERSION", "CERT", "KEY_EX", "CONNECTED", "ERROR"},
   mode : Modes \union {"NONE"}, trans : Seq(Tokens), key : Keys,
   reqSeq : Nat, rspSeq : Nat, hasReqKeyPair : BOOLEAN, psk : Nat]

-----------------------------------------------------------------------------
(* The inductive invariant, in parts *)

\* A request on the wire.
ReqOK(m) ==
  /\ m.sec \in BOOLEAN
  /\ ~m.sec => m.t \in ClearTypes /\ m.n \in Nat
  /\ m.sec => /\ m.t \in {"GIVE_PUB"} \union FinishTypes \union CommandTypes
              /\ m.key \in Keys /\ m.seq \in Nat

\* A reply on the wire; what it seals, the responder remembers.
RspOK(r) ==
  /\ r.sec \in BOOLEAN /\ r.n \in Nat
  /\ r.sec => <<r.key, r.seq>> \in sealed

\* Each side's frames are kept, and a call waits for one of them.
WireInv ==
  /\ ctx \in Contexts
  /\ attempts \in Nat /\ lost \in Nat /\ late \in Nat
  /\ \A m \in reqs : ReqOK(m)
  /\ \A r \in rsps : RspOK(r)
  /\ link \in {"IDLE", "SENT", "ANSWERED", "SILENT"}
  /\ link = "IDLE" => wait = NoRequest
  /\ link # "IDLE" => wait \in reqs /\ wait.t \in ConnectTypes \union CommandTypes
  /\ link = "ANSWERED" => answer \in rsps

\* The attempt a key belongs to: the exchange that both sides hashed before
\* the response the handshake key is derived over, which FINISH and its
\* response follow for the application key.
Attempt(k) == IF k.ph = "HS" THEN k.th[Len(k.th) - 1].n ELSE k.th[Len(k.th) - 3].n

\* The handshake key of this attempt.
CurrentKey ==
  /\ ctx.key.ph = "HS" /\ Len(ctx.key.th) >= 2
  /\ Attempt(ctx.key) = attempts

\* What Connect has in its context, step by step.
CallInv ==
  /\ link = "IDLE" => ctx.state \in {"INIT", "CONNECTED", "ERROR"}
  /\ ctx.key.ph = "NONE" => ctx.reqSeq = 0 /\ ctx.rspSeq = 0
  /\ ctx.key.ph # "MIXED"
  /\ ctx.state = "CONNECTED" => ctx.key.ph = "APP" /\ ctx.key \in adopted
  /\ wait.t \in CommandTypes => ctx.state = "CONNECTED"
  /\ wait.t \in ConnectTypes => ctx.state # "CONNECTED" /\ ctx.mode \in Modes
  /\ wait.t \in ClearTypes => ctx.key = NoKey
  /\ wait.t \in ExchangeTypes =>
       Len(ctx.trans) > 0 /\ ctx.trans[Len(ctx.trans)].n = attempts
  /\ wait.t = "GIVE_PUB" => CurrentKey /\ ctx.trans = ctx.key.th
  /\ wait.t \in FinishTypes =>
       /\ CurrentKey
       /\ ctx.trans = Append(ctx.key.th, Token(wait.t, 0))
       /\ wait.sec /\ wait.key = ctx.key /\ wait.mac.th = ctx.trans

\* Keys of earlier attempts: what this attempt derives is new.
FreshInv ==
  /\ \A m \in reqs : m.sec =>
       /\ m.key.ph \in {"HS", "APP"}
       /\ Attempt(m.key) \in 0..attempts
       /\ wait.t \in ConnectTypes /\ Attempt(m.key) = attempts =>
            /\ wait.t \notin ClearTypes /\ m.key.ph = "HS"
            /\ wait.t = "GIVE_PUB" => m.t \notin FinishTypes
  /\ \A k \in adopted :
       /\ Attempt(k) \in 0..attempts
       /\ wait.t \in ConnectTypes => Attempt(k) # attempts

\* A key seals one FINISH, and the responder that answered it accepted the
\* session that FINISH asked for.
FinishInv ==
  /\ \A m, q \in reqs :
       m.t \in FinishTypes /\ q.t \in FinishTypes /\ m.key = q.key =>
         m.mac.th = q.mac.th
  /\ \A r \in rsps : r.sec /\ r.t = "FINISH_RSP" =>
       \E m \in reqs :
         /\ m.t \in FinishTypes /\ m.key = r.key
         /\ Key("APP", r.key.secret, Append(m.mac.th, Token("FINISH_RSP", 0)))
              \in accepted

\* A counter has moved only past records of the other side.
CountInv ==
  /\ rs.reqSeq > 0 /\ rs.key.ph # "MIXED" =>
       \E m \in reqs : m.sec /\ m.key = rs.key /\ rs.reqSeq = m.seq + 1
  /\ \A m \in reqs : m.sec /\ m.key = ctx.key => m.seq < ctx.reqSeq
  /\ ctx.rspSeq > 0 =>
       \E r \in rsps : r.sec /\ r.key = ctx.key /\ ctx.rspSeq = r.seq + 1

\* Both sides are at the same keys and counters, d records of the requester
\* unopened and e replies unread.
Level(d, e) ==
  /\ rs.state = "CONNECTED" /\ rs.key = ctx.key
  /\ ctx.reqSeq = rs.reqSeq + d /\ rs.rspSeq = ctx.rspSeq + e

\* What a transport that has delivered everything leaves them at.
StepInv ==
  lost = 0 /\ late = 0 =>
    /\ link = "IDLE" /\ ctx.state = "CONNECTED" => Level(0, 0)
    /\ wait.t = "TPM2_CMD" =>
         /\ wait.sec /\ wait.key = ctx.key /\ wait.seq + 1 = ctx.reqSeq
         /\ link = "SENT" => Level(1, 0)
         /\ link = "SILENT" => Level(0, 0)
         /\ link = "ANSWERED" =>
              /\ Level(0, 1)
              /\ answer.sec /\ answer.key = ctx.key /\ answer.seq = ctx.rspSeq
    /\ /\ wait.t \in FinishTypes /\ link = "ANSWERED"
       /\ answer.sec /\ answer.t = "FINISH_RSP"
       => /\ rs.state = "CONNECTED" /\ rs.reqSeq = 0 /\ rs.rspSeq = 0
          /\ rs.key = Key("APP", answer.key.secret,
                          Append(wait.mac.th, Token("FINISH_RSP", 0)))

HandshakeInv == /\ RespInv /\ WireInv /\ CallInv /\ FreshInv
                /\ FinishInv /\ CountInv /\ StepInv

-----------------------------------------------------------------------------
(* What the responder does with a frame *)

\* A clear reply seals nothing, and a counter that is not reset belongs to the
\* key it belonged to before.
LEMMA ClearReplies ==
  ASSUME RespInv, NEW m, ClearMsgOK(m), HandleClear(m)
  PROVE  /\ out'.sec = FALSE /\ out'.n \in Nat
         /\ sealed' = sealed
         /\ \/ rs'.reqSeq = rs.reqSeq /\ rs'.key = rs.key
            \/ rs'.reqSeq = 0
<1>0. /\ rs \in Sessions /\ rnd \in Nat
      /\ rs.state \in {"INIT", "VERSION", "KEY_EX", "CONNECTED"}
  BY SessionFields DEF RespInv, TypeInv
<1>a. ASSUME NEW v, NEW th,
             \/ rs' = [rs EXCEPT !.version = v]
             \/ rs' = [rs EXCEPT !.version = v, !.trans = th]
      PROVE  rs'.reqSeq = rs.reqSeq /\ rs'.key = rs.key
  <2>1. CASE rs' = [rs EXCEPT !.version = v]
    BY <1>0, <2>1 DEF Sessions
  <2>2. CASE rs' = [rs EXCEPT !.version = v, !.trans = th]
    BY <1>0, <2>2 DEF Sessions
  <2> QED
    BY <1>a, <2>1, <2>2
<1>b. ASSUME NEW t, NEW n \in Nat
      PROVE  /\ ClearReply(t, n).sec = FALSE /\ ClearReply(t, n).n \in Nat
             /\ NoReply.sec = FALSE /\ NoReply.n \in Nat
  BY DEF ClearReply, NoReply
<1>1. CASE GetVersion(m)
  <2>1. NewSession(0) \in Sessions /\ NewSession(0).reqSeq = 0
    BY NewSessionType DEF NewSession
  <2>2. ASSUME NEW s, NEW th
        PROVE  [NewSession(0) EXCEPT !.state = s, !.trans = th].reqSeq = 0
    BY <2>1 DEF Sessions
  <2>3. rs'.reqSeq = 0
    BY <1>1, <2>2 DEF GetVersion, Answer, RespReset
  <2>4. out'.sec = FALSE /\ out'.n \in Nat /\ sealed' = sealed
    BY <1>1, <1>b DEF GetVersion, Answer
  <2> QED
    BY <2>3, <2>4
<1>2. CASE RefuseVersion(m)
  BY <1>2, <1>b DEF RefuseVersion, Answer
<1>3. CASE Negotiate(m)
  <2> DEFINE rsp == IF m.t = "GET_CAPABILITIES" THEN "CAPABILITIES"
                    ELSE "ALGORITHMS"
  <2>1. rs'.reqSeq = rs.reqSeq /\ rs'.key = rs.key
    BY <1>3, <1>a DEF Negotiate, Answer
  <2>2. out' = ClearReply(rsp, 0) /\ sealed' = sealed
    BY <1>3 DEF Negotiate, Answer
  <2> QED
    BY <1>b, <2>1, <2>2
<1>4. CASE Unsupported(m)
  BY <1>4, <1>a, <1>b DEF Unsupported, Answer
<1>5. CASE RefuseExchange(m)
  BY <1>5, <1>a, <1>b DEF RefuseExchange, Answer
<1>6. CASE ExchangeUnconfigured(m)
  BY <1>6, <1>a, <1>b DEF ExchangeUnconfigured, Answer
<1>7. ASSUME NEW rsp, NEW secret, NEW asym, OpenHandshake(m, rsp, secret, asym)
      PROVE  /\ out'.sec = FALSE /\ out'.n \in Nat
             /\ sealed' = sealed
             /\ rs'.reqSeq = 0
  <2>1. rs.reqSeq = 0
    BY <1>0, <1>7 DEF OpenHandshake, MayStart, RespInv, KeyInv
  <2>2. rs'.reqSeq = rs.reqSeq
    BY <1>0, <1>7 DEF OpenHandshake, Sessions
  <2>3. out'.sec = FALSE /\ out'.n = rnd
    BY <1>7 DEF OpenHandshake, NoReply
  <2> QED
    BY <1>0, <1>7, <2>1, <2>2, <2>3 DEF OpenHandshake
<1>8. CASE KeyExchange(m)
  BY <1>7, <1>8 DEF KeyExchange
<1>9. CASE PskExchange(m)
  BY <1>7, <1>9 DEF PskExchange
<1>10. ASSUME NEW rsp, NEW secret, FailHandshake(m, rsp, secret)
       PROVE  /\ out'.sec = FALSE /\ out'.n \in Nat
              /\ sealed' = sealed
              /\ rs'.reqSeq = 0
  <2>1. rs.reqSeq = 0
    BY <1>0, <1>10 DEF FailHandshake, MayStart, RespInv, KeyInv
  <2>2. rs'.reqSeq = rs.reqSeq
    BY <1>0, <1>10 DEF FailHandshake, Sessions
  <2> QED
    BY <1>10, <1>b, <2>1, <2>2 DEF FailHandshake
<1>11. CASE ExchangeFails(m)
  BY <1>10, <1>11 DEF ExchangeFails
<1>12. CASE VendorClear(m)
  <2>1. /\ rs'.reqSeq = rs.reqSeq /\ rs'.key = rs.key
        /\ sealed' = sealed
    <3>1. sealed' = sealed
      BY <1>12 DEF VendorClear
    <3>2. \/ rs' = [rs EXCEPT !.version = Selected(m),
                             !.trans = AfterVendor(m, FALSE)]
          \/ rs' = [rs EXCEPT !.version = Selected(m)]
      BY <1>12 DEF VendorClear
    <3> QED
      BY <1>a, <3>1, <3>2
  <2>2. out' = NoReply \/ out' = [ClearReply(m.t, 0) EXCEPT !.id = prov.id]
    BY <1>12 DEF VendorClear
  <2>3. CASE out' = NoReply
    BY <1>b, <2>1, <2>3
  <2>4. CASE out' = [ClearReply(m.t, 0) EXCEPT !.id = prov.id]
    BY <2>1, <2>4 DEF ClearReply, NoReply
  <2> QED
    BY <2>2, <2>3, <2>4
<1> QED
  BY <1>1, <1>2, <1>3, <1>4, <1>5, <1>6, <1>8, <1>9, <1>11, <1>12
  DEF HandleClear

\* Sealing a reply that is not FINISH_RSP, or failing to.
LEMMA SendSealedReplies ==
  ASSUME RespInv, NEW t, NEW r, NEW failed, SendSealed(t, r, failed)
  PROVE  /\ out'.sec \in BOOLEAN /\ out'.n \in Nat
         /\ out'.sec => /\ <<out'.key, out'.seq>> \in sealed'
                        /\ out'.t = t /\ out'.key = rs.key
                        /\ out'.seq = rs.rspSeq /\ rs' = r
         /\ out'.t = "NONE" \/ out'.sec
         /\ ~out'.sec => rs' = failed
         /\ sealed \subseteq sealed'
         /\ rs' \in {r, failed}
<1>1. CASE Seal /\ rs' = r /\ out' = SealedReply(t)
  BY <1>1 DEF Seal, SealedReply
<1>2. CASE rs' = failed /\ out' = NoReply /\ UNCHANGED sealed
  BY <1>2 DEF NoReply
<1> QED
  BY <1>1, <1>2 DEF SendSealed

\* The session that the answer to a finish m leaves: the one m asked for.
Finished(m) ==
  /\ m.t \in FinishTypes /\ out'.key = m.key
  /\ rs'.state = "CONNECTED" /\ rs'.reqSeq = 0 /\ rs'.rspSeq = 0
  /\ rs'.key = Key("APP", m.key.secret, Append(m.mac.th, Token("FINISH_RSP", 0)))

\* The counter after a secured frame m: reset, or one past m under its key.
Past(m) == \/ rs'.reqSeq = 0
           \/ rs'.key.ph = "MIXED"
           \/ rs'.key = m.key /\ rs'.reqSeq = m.seq + 1

\* Silence is no sealed reply.
LEMMA SilentReplies ==
  ASSUME out' = NoReply
  PROVE  out'.sec \in BOOLEAN /\ out'.n \in Nat /\ ~out'.sec
BY DEF NoReply

\* A finish is answered by FINISH_RSP once it has led to its session.
LEMMA FinishReplies ==
  ASSUME RespInv, NEW m, Finish(m)
  PROVE  /\ out'.sec \in BOOLEAN /\ out'.n \in Nat
         /\ out'.sec => <<out'.key, out'.seq>> \in sealed' /\ Finished(m)
         /\ sealed \subseteq sealed'
         /\ Past(m)
<1> DEFINE th2  == Append(rs.trans, Token(m.t, 0))
           th   == Append(th2, Token("FINISH_RSP", 0))
           done == [Counted EXCEPT !.trans = th, !.state = "CONNECTED",
                                   !.sessionAsym = (m.t = "FINISH")]
           app  == Key("APP", rs.key.secret, th)
           new  == [done EXCEPT !.key = app, !.reqSeq = 0, !.rspSeq = 0]
<1>0. /\ rs \in Sessions /\ rs.trans \in Seq(Tokens) /\ rs.key \in Keys
      /\ Counted \in Sessions
  BY SessionFields, CountedType DEF RespInv, TypeInv
<1>1. m.t \in FinishTypes /\ m.key = rs.key /\ m.seq = rs.reqSeq
  BY DEF Finish, RespOpens, FinishTypes
<1>2. Counted.key = m.key /\ Counted.reqSeq = m.seq + 1
  BY <1>0, <1>1, CountedFields
<1>3. th2 \in Seq(Tokens) /\ th \in Seq(Tokens)
  <2>1. Token(m.t, 0) \in Tokens /\ Token("FINISH_RSP", 0) \in Tokens
    BY <1>1, TokenType DEF FinishTypes, TokenNames
  <2>2. th2 \in Seq(Tokens)
    BY <1>0, <2>1, AppendToken
  <2> HIDE DEF th2
  <2> QED
    BY <2>1, <2>2, AppendToken
<1>4. \/ Drop(Counted)
      \/ Drop([Counted EXCEPT !.trans = th2])
      \/ /\ SendSealed("FINISH_RSP", new, done)
         /\ m.mac = [key |-> rs.key, th |-> th2]
      \/ /\ Seal /\ out' = NoReply
         /\ \E ph \in {"HS", "MIXED"} :
              /\ rs.key.ph = "HS"
              /\ rs' = [done EXCEPT !.key = Key(ph, rs.key.secret, rs.key.th),
                                    !.rspSeq = rs.rspSeq + 1]
  BY DEF Finish, FinishFits, RespInv, KeyInv
<1>t. (m.t = "FINISH") \in BOOLEAN
  OBVIOUS
<1> HIDE DEF th2, th, app
<1>5. done \in Sessions
  BY <1>0, <1>3, <1>t DEF Sessions
<1>6. done.key = m.key /\ done.reqSeq = m.seq + 1 /\ done.state = "CONNECTED"
  BY <1>0, <1>2 DEF Sessions
<1> HIDE DEF done
<1>7. /\ new.key = app /\ new.reqSeq = 0 /\ new.rspSeq = 0
      /\ new.state = "CONNECTED"
  BY <1>5, <1>6 DEF Sessions
<1> HIDE DEF new
<1>8. ASSUME NEW c, Drop(c), Past(m)
      PROVE  /\ out'.sec \in BOOLEAN /\ out'.n \in Nat /\ ~out'.sec
             /\ sealed \subseteq sealed' /\ Past(m)
  BY <1>8, SilentReplies DEF Drop
<1>9. CASE Drop(Counted)
  <2>1. Past(m)
    BY <1>2, <1>9 DEF Drop, Past
  <2> QED
    BY <1>8, <1>9, <2>1
<1>10. CASE Drop([Counted EXCEPT !.trans = th2])
  <2>1. rs'.key = m.key /\ rs'.reqSeq = m.seq + 1
    BY <1>0, <1>2, <1>10 DEF Drop, Sessions
  <2>2. Past(m)
    BY <2>1 DEF Past
  <2> QED
    BY <1>8, <1>10, <2>2
<1>11. CASE SendSealed("FINISH_RSP", new, done) /\ m.mac = [key |-> rs.key, th |-> th2]
  <2>1. m.mac.th = th2
    BY <1>11
  <2>2. app = Key("APP", m.key.secret, Append(m.mac.th, Token("FINISH_RSP", 0)))
    BY <1>1, <2>1 DEF app, th
  <2>3. ASSUME out'.sec PROVE Finished(m)
    BY <1>1, <1>7, <1>11, <2>2, <2>3, SendSealedReplies DEF Finished
  <2>4. Past(m)
    BY <1>6, <1>7, <1>11, SendSealedReplies DEF Past
  <2> QED
    BY <1>11, <2>3, <2>4, SendSealedReplies
<1>12. ASSUME Seal, out' = NoReply, NEW ph \in {"HS", "MIXED"}, rs.key.ph = "HS",
              rs' = [done EXCEPT !.key = Key(ph, rs.key.secret, rs.key.th),
                                 !.rspSeq = rs.rspSeq + 1]
       PROVE  /\ out'.sec \in BOOLEAN /\ out'.n \in Nat /\ ~out'.sec
              /\ sealed \subseteq sealed' /\ Past(m)
  <2> DEFINE k == Key(ph, rs.key.secret, rs.key.th)
  <2>1. k.ph = ph /\ (ph = "HS" => k = rs.key)
    BY <1>0, <1>12, KeyParts, KeyWhole
  <2> HIDE DEF k
  <2>2. rs'.key = k /\ rs'.reqSeq = m.seq + 1
    BY <1>5, <1>6, <1>12 DEF k, Sessions
  <2>3. Past(m)
    BY <1>1, <1>12, <2>1, <2>2 DEF Past
  <2> QED
    BY <1>12, <2>3, SilentReplies DEF Seal
<1>13. CASE /\ Seal /\ out' = NoReply
            /\ \E ph \in {"HS", "MIXED"} :
                 /\ rs.key.ph = "HS"
                 /\ rs' = [done EXCEPT !.key = Key(ph, rs.key.secret, rs.key.th),
                                       !.rspSeq = rs.rspSeq + 1]
  BY <1>12, <1>13
<1> QED
  BY <1>4, <1>9, <1>10, <1>11, <1>13

\* What a secured frame leaves and sends, whatever it is.
LEMMA SecuredReplies ==
  ASSUME RespInv, NEW m, HandleSecured(m)
  PROVE  /\ out'.sec \in BOOLEAN /\ out'.n \in Nat
         /\ out'.sec => <<out'.key, out'.seq>> \in sealed'
         /\ out'.sec /\ out'.t = "FINISH_RSP" => Finished(m)
         /\ sealed \subseteq sealed'
         /\ Past(m)
<1>0. rs \in Sessions
  BY DEF RespInv, TypeInv
<1>2. ASSUME RespOpens(m)
      PROVE  /\ Counted.key = m.key /\ Counted.reqSeq = m.seq + 1
             /\ Replied.key = m.key /\ Replied.reqSeq = m.seq + 1
  BY <1>0, <1>2, CountedFields DEF RespOpens
<1>3. CASE Finish(m)
  BY <1>3, FinishReplies
<1>4. CASE EndSession(m)
  <2>1. RespOpens(m) /\ SendSealed("END_SESSION_ACK", NewSession(rs.version), Counted)
    BY <1>4 DEF EndSession, RespReset
  <2>2. NewSession(rs.version).reqSeq = 0
    BY DEF NewSession
  <2>3. Past(m)
    BY <1>2, <2>1, <2>2, SendSealedReplies DEF Past
  <2> QED
    BY <2>1, <2>3, SendSealedReplies
<1>5. ASSUME NEW t, t # "FINISH_RSP", RespOpens(m),
             SendSealed(t, Replied, Counted) \/ Drop(Counted)
      PROVE  /\ out'.sec \in BOOLEAN /\ out'.n \in Nat
             /\ out'.sec => <<out'.key, out'.seq>> \in sealed'
             /\ ~(out'.sec /\ out'.t = "FINISH_RSP")
             /\ sealed \subseteq sealed'
             /\ Past(m)
  <2>1. CASE SendSealed(t, Replied, Counted)
    <3>1. Past(m)
      BY <1>2, <1>5, <2>1, SendSealedReplies DEF Past
    <3> QED
      BY <1>5, <2>1, <3>1, SendSealedReplies
  <2>2. CASE Drop(Counted)
    <3>1. Past(m)
      BY <1>2, <1>5, <2>2 DEF Drop, Past
    <3> QED
      BY <2>2, <3>1, SilentReplies DEF Drop
  <2> QED
    BY <1>5, <2>1, <2>2
<1>6. CASE VendorSecured(m)
  <2>1. m.t # "FINISH_RSP"
    BY <1>6 DEF VendorSecured, Vendor
  <2>2. RespOpens(m) /\ (SendSealed(m.t, Replied, Counted) \/ Drop(Counted))
    BY <1>6 DEF VendorSecured
  <2> QED
    BY <1>5, <2>1, <2>2
<1>7. CASE UnsupportedSecured(m)
  BY <1>5, <1>7 DEF UnsupportedSecured
<1> QED
  BY <1>3, <1>4, <1>6, <1>7 DEF HandleSecured

\* A TPM command that opens counts, and so does its reply if there is one.
LEMMA CommandReplies ==
  ASSUME RespInv, NEW m, m.t = "TPM2_CMD", HandleSecured(m)
  PROVE  /\ rs'.state = rs.state /\ rs'.key = rs.key
         /\ rs'.reqSeq = rs.reqSeq + 1
         /\ \/ out'.t = "NONE" /\ rs'.rspSeq = rs.rspSeq
            \/ /\ out'.t # "NONE" /\ rs'.rspSeq = rs.rspSeq + 1
               /\ out'.sec /\ out'.key = rs.key /\ out'.seq = rs.rspSeq
<1>0. rs \in Sessions
  BY DEF RespInv, TypeInv
<1>1. VendorSecured(m)
  BY DEF HandleSecured, Finish, EndSession, UnsupportedSecured
<1>2. SendSealed("TPM2_CMD", Replied, Counted) \/ Drop(Counted)
  BY <1>1 DEF VendorSecured
<1>3. NoReply.t = "NONE"
  BY DEF NoReply
<1>4. CASE rs' = Counted /\ out' = NoReply
  BY <1>0, <1>3, <1>4, CountedFields
<1>5. CASE rs' = Replied /\ out' = SealedReply("TPM2_CMD")
  <2>1. /\ out'.t = "TPM2_CMD" /\ out'.sec /\ out'.key = rs.key
        /\ out'.seq = rs.rspSeq
    BY <1>5 DEF SealedReply
  <2> QED
    BY <1>0, <1>5, <2>1, CountedFields
<1> QED
  BY <1>2, <1>4, <1>5 DEF SendSealed, Drop

-----------------------------------------------------------------------------
(* Steps the responder takes no part in *)

\* They leave its invariant alone.
LEMMA RespStutter ==
  ASSUME RespInv, UNCHANGED respVars
  PROVE  RespInv'
<1>1. TypeInv' /\ KeyInv'
  BY DEF RespInv, TypeInv, KeyInv, respVars
<1>2. SealInv'
  BY DEF RespInv, SealInv, respVars
<1>3. IdInv' /\ ActInv'
  BY DEF RespInv, IdInv, ActInv, respVars
<1> QED
  BY <1>1, <1>2, <1>3 DEF RespInv

-----------------------------------------------------------------------------
(* The responder's steps *)

\* A request of the requester has the shape the responder's parser lets
\* through, so its handler keeps the responder's invariant.
LEMMA HandleReplies ==
  ASSUME RespInv, NEW m, ReqOK(m), Handle(m)
  PROVE  /\ RespInv'
         /\ out'.sec \in BOOLEAN /\ out'.n \in Nat
         /\ out'.sec => <<out'.key, out'.seq>> \in sealed'
         /\ out'.sec /\ out'.t = "FINISH_RSP" => Finished(m)
         /\ sealed \subseteq sealed'
         /\ \/ rs'.reqSeq = 0
            \/ rs'.key.ph = "MIXED"
            \/ rs'.reqSeq = rs.reqSeq /\ rs'.key = rs.key
            \/ m.sec /\ rs'.key = m.key /\ rs'.reqSeq = m.seq + 1
<1>1. BodyOK(m)
  BY DEF ReqOK, BodyOK, ClearTypes, FinishTypes, CommandTypes
<1>2. CASE m.sec
  <2>1. HandleSecured(m)
    BY <1>2 DEF Handle
  <2> QED
    BY <1>1, <1>2, <2>1, SecuredKeepsInv, SecuredReplies DEF Past
<1>3. CASE ~m.sec
  <2>1. HandleClear(m)
    BY <1>3 DEF Handle
  <2>2. ClearMsgOK(m)
    BY <1>1, <1>3 DEF ReqOK, ClearMsgOK
  <2> QED
    BY <2>1, <2>2, ClearKeepsInv, ClearReplies
<1> QED
  BY <1>2, <1>3

\* What is handed out, remembered and counted when the responder serves a
\* request of the requester, in time or late.
LEMMA Serves ==
  ASSUME HandshakeInv, NEW m \in reqs, Handle(m), Accepts,
         rsps' = IF out'.t = "NONE" THEN rsps ELSE rsps \union {out'},
         UNCHANGED <<ctx, reqs>>
  PROVE  /\ RespInv' /\ FinishInv' /\ CountInv'
         /\ \A r \in rsps' : RspOK(r)'
<1>1. ReqOK(m) /\ RespInv
  BY DEF HandshakeInv, WireInv
<1>2. RespInv'
  BY <1>1, HandleReplies
<1>3. rsps \subseteq rsps' /\ \A r \in rsps' : r \in rsps \/ r = out'
  OBVIOUS
<1>4. accepted \subseteq accepted'
  BY DEF Accepts
<1>5. \A r \in rsps' : RspOK(r)'
  <2>1. sealed \subseteq sealed'
    BY <1>1, HandleReplies
  <2>2. RspOK(out)'
    BY <1>1, HandleReplies DEF RspOK
  <2>3. ASSUME NEW r \in rsps PROVE RspOK(r)'
    BY <2>1 DEF HandshakeInv, WireInv, RspOK
  <2> QED
    BY <1>3, <2>2, <2>3
<1>6. FinishInv'
  <2>1. ASSUME NEW r \in rsps', r.sec, r.t = "FINISH_RSP"
        PROVE  \E q \in reqs :
                 /\ q.t \in FinishTypes /\ q.key = r.key
                 /\ Key("APP", r.key.secret, Append(q.mac.th, Token("FINISH_RSP", 0)))
                      \in accepted'
    <3>1. CASE r \in rsps
      BY <1>4, <2>1, <3>1 DEF HandshakeInv, FinishInv
    <3>2. CASE r = out'
      <4>1. Finished(m)
        BY <1>1, <2>1, <3>2, HandleReplies
      <4>2. rs'.key.ph = "APP"
        BY <4>1, KeyParts DEF Finished
      <4>3. rs'.key \in accepted'
        BY <4>2 DEF Accepts
      <4> QED
        BY <3>2, <4>1, <4>3 DEF Finished
    <3> QED
      BY <1>3, <2>1, <3>1, <3>2
  <2> QED
    BY <2>1 DEF HandshakeInv, FinishInv
<1>7. CountInv'
  <2>1. ASSUME rs'.reqSeq > 0, rs'.key.ph # "MIXED"
        PROVE  \E q \in reqs : q.sec /\ q.key = rs'.key /\ rs'.reqSeq = q.seq + 1
    <3>1. rs'.reqSeq # 0
      BY <2>1
    <3>2. CASE rs'.reqSeq = rs.reqSeq /\ rs'.key = rs.key
      BY <2>1, <3>2 DEF HandshakeInv, CountInv
    <3>3. CASE m.sec /\ rs'.key = m.key /\ rs'.reqSeq = m.seq + 1
      BY <3>3
    <3> QED
      BY <1>1, <2>1, <3>1, <3>2, <3>3, HandleReplies
  <2> QED
    BY <1>3, <2>1 DEF HandshakeInv, CountInv
<1> QED
  BY <1>2, <1>5, <1>6, <1>7

\* A request reaches the responder.
LEMMA DeliverInv ==
  ASSUME HandshakeInv, Deliver
  PROVE  HandshakeInv'
<1>0. /\ link = "SENT" /\ wait \in reqs /\ ReqOK(wait)
      /\ UNCHANGED <<ctx, wait, reqs, attempts, commands, lost, late, adopted>>
  BY DEF Deliver, HandshakeInv, WireInv
<1>1. CallInv' /\ FreshInv'
  <2>1. link' # "IDLE"
    BY DEF Deliver
  <2>2. CallInv'
    BY <1>0, <2>1 DEF HandshakeInv, CallInv, CurrentKey
  <2>3. FreshInv'
    BY <1>0 DEF HandshakeInv, FreshInv
  <2> QED
    BY <2>2, <2>3
<1>2. CASE /\ Handle(wait) /\ Accepts /\ answer' = out'
           /\ link' = IF out'.t = "NONE" THEN "SILENT" ELSE "ANSWERED"
           /\ rsps' = IF out'.t = "NONE" THEN rsps ELSE rsps \union {out'}
  <2>1. /\ RespInv' /\ FinishInv' /\ CountInv'
        /\ \A r \in rsps' : RspOK(r)'
    BY <1>0, <1>2, Serves
  <2>2. WireInv'
    <3>1. \A m \in reqs' : ReqOK(m)'
      BY <1>0 DEF HandshakeInv, WireInv, ReqOK
    <3>2. link' = "ANSWERED" => answer' \in rsps'
      BY <1>2
    <3>3. link' \in {"SILENT", "ANSWERED"}
      BY <1>2
    <3>4. wait'.t \in ConnectTypes \union CommandTypes
      BY <1>0 DEF HandshakeInv, WireInv
    <3> QED
      BY <1>0, <2>1, <3>1, <3>2, <3>3, <3>4 DEF HandshakeInv, WireInv
  <2>3. ASSUME lost = 0, late = 0, wait.t = "TPM2_CMD"
        PROVE  /\ wait.sec /\ wait.key = ctx.key /\ wait.seq + 1 = ctx.reqSeq
               /\ link' = "SILENT" => Level(0, 0)'
               /\ link' = "ANSWERED" =>
                    /\ Level(0, 1)'
                    /\ out'.sec /\ out'.key = ctx.key /\ out'.seq = ctx.rspSeq
    <3>1. /\ wait.sec /\ wait.key = ctx.key /\ wait.seq + 1 = ctx.reqSeq
          /\ Level(1, 0)
      BY <1>0, <2>3 DEF HandshakeInv, StepInv
    <3>2. HandleSecured(wait)
      BY <1>2, <3>1 DEF Handle
    <3>3. RespInv
      BY DEF HandshakeInv
    <3>4. /\ rs'.state = rs.state /\ rs'.key = rs.key
          /\ rs'.reqSeq = rs.reqSeq + 1
          /\ \/ out'.t = "NONE" /\ rs'.rspSeq = rs.rspSeq
             \/ /\ out'.t # "NONE" /\ rs'.rspSeq = rs.rspSeq + 1
                /\ out'.sec /\ out'.key = rs.key /\ out'.seq = rs.rspSeq
      BY <2>3, <3>2, <3>3, CommandReplies
    <3>5. rs.reqSeq \in Nat /\ rs.rspSeq \in Nat /\ ctx.rspSeq \in Nat
      BY SessionFields DEF HandshakeInv, RespInv, TypeInv, WireInv, Contexts
    <3>6. rs.rspSeq = ctx.rspSeq /\ ctx.reqSeq = rs.reqSeq + 1
      BY <3>1, <3>5 DEF Level
    <3>7. CASE out'.t = "NONE"
      BY <1>0, <1>2, <3>1, <3>4, <3>5, <3>6, <3>7 DEF Level
    <3>8. CASE out'.t # "NONE"
      BY <1>0, <1>2, <3>1, <3>4, <3>5, <3>6, <3>8 DEF Level
    <3> QED
      BY <3>7, <3>8
  <2>4. ASSUME wait.t \in FinishTypes, out'.sec, out'.t = "FINISH_RSP"
        PROVE  /\ rs'.state = "CONNECTED" /\ rs'.reqSeq = 0 /\ rs'.rspSeq = 0
               /\ rs'.key = Key("APP", out'.key.secret,
                                Append(wait.mac.th, Token("FINISH_RSP", 0)))
    <3>1. Finished(wait)
      BY <1>0, <1>2, <2>4, HandleReplies DEF HandshakeInv
    <3> QED
      BY <3>1 DEF Finished
  <2>5. link' # "IDLE" /\ link' # "SENT"
    BY <1>2
  <2>6. StepInv'
    BY <1>0, <1>2, <2>3, <2>4, <2>5 DEF StepInv
  <2> QED
    BY <1>1, <2>1, <2>2, <2>6 DEF HandshakeInv
<1>3. CASE /\ wait.sec /\ ~RespOpens(wait) /\ link' = "SILENT"
           /\ UNCHANGED <<respVars, accepted, answer, rsps>>
  <2>1. RespInv'
    BY <1>3, RespStutter DEF HandshakeInv
  <2>2. WireInv'
    BY <1>0, <1>3 DEF HandshakeInv, WireInv, ReqOK, RspOK, respVars
  <2>3. FinishInv' /\ CountInv'
    BY <1>0, <1>3 DEF HandshakeInv, FinishInv, CountInv, respVars
  <2>4. StepInv'
    <3>1. ASSUME lost = 0, late = 0, wait.t = "TPM2_CMD" PROVE FALSE
      <4>1. wait.key = ctx.key /\ wait.seq + 1 = ctx.reqSeq /\ Level(1, 0)
        BY <1>0, <3>1 DEF HandshakeInv, StepInv
      <4>2. rs.reqSeq \in Nat /\ wait.seq \in Nat
        BY <1>0, <1>3, SessionFields DEF HandshakeInv, RespInv, TypeInv, ReqOK
      <4>3. wait.seq = rs.reqSeq
        BY <4>1, <4>2 DEF Level
      <4> QED
        BY <1>3, <4>1, <4>3 DEF Level, RespOpens
    <3> QED
      BY <1>0, <1>3, <3>1 DEF StepInv
  <2> QED
    BY <1>1, <2>1, <2>2, <2>3, <2>4 DEF HandshakeInv
<1> QED
  BY <1>2, <1>3 DEF Deliver

\* A late request reaches it.
LEMMA LateRequestInv ==
  ASSUME HandshakeInv, LateRequest
  PROVE  HandshakeInv'
<1>0. /\ late' = late + 1
      /\ UNCHANGED <<ctx, wait, link, answer, reqs, attempts, lost, adopted>>
  BY DEF LateRequest
<1>1. PICK m \in reqs :
        /\ Handle(m) /\ Accepts
        /\ rsps' = IF out'.t = "NONE" THEN rsps ELSE rsps \union {out'}
  BY DEF LateRequest
<1>2. /\ RespInv' /\ FinishInv' /\ CountInv'
      /\ \A r \in rsps' : RspOK(r)'
  BY <1>0, <1>1, Serves
<1>3. late' \in Nat /\ late' # 0
  BY <1>0 DEF HandshakeInv, WireInv
<1>4. WireInv'
  <2>1. \A q \in reqs' : ReqOK(q)'
    BY <1>0 DEF HandshakeInv, WireInv, ReqOK
  <2>2. rsps \subseteq rsps'
    BY <1>1
  <2> QED
    BY <1>0, <1>2, <1>3, <2>1, <2>2 DEF HandshakeInv, WireInv
<1>5. CallInv' /\ FreshInv'
  BY <1>0 DEF HandshakeInv, CallInv, CurrentKey, FreshInv
<1>6. StepInv'
  BY <1>3 DEF StepInv
<1> QED
  BY <1>2, <1>4, <1>5, <1>6 DEF HandshakeInv

-----------------------------------------------------------------------------
(* The requester's steps *)

\* The fields of its context, one by one.
LEMMA ContextFields ==
  ASSUME NEW c \in Contexts
  PROVE  /\ c.state \in {"INIT", "VERSION", "CERT", "KEY_EX", "CONNECTED", "ERROR"}
         /\ c.mode \in Modes \union {"NONE"}
         /\ c.trans \in Seq(Tokens) /\ c.key \in Keys
         /\ c.reqSeq \in Nat /\ c.rspSeq \in Nat
         /\ c.hasReqKeyPair \in BOOLEAN /\ c.psk \in Nat
BY DEF Contexts

\* What every step of the requester leaves alone.
Aside == /\ UNCHANGED <<respVars, accepted, rsps>>
         /\ lost' \in Nat /\ late' \in Nat

\* The counters fit the key: one past every request under it, and past a
\* reply that was received under it.
Counts(c, sent, received) ==
  /\ \A m \in sent : m.sec /\ m.key = c.key => m.seq < c.reqSeq
  /\ c.rspSeq > 0 =>
       \E r \in received : r.sec /\ r.key = c.key /\ c.rspSeq = r.seq + 1

\* A call that returns without a new session.
LEMMA ReturnInv ==
  ASSUME HandshakeInv, Aside, attempts' = attempts,
         Return(ctx'), ctx' \in Contexts,
         ctx'.key.ph = "NONE" => ctx'.reqSeq = 0 /\ ctx'.rspSeq = 0,
         ctx'.key.ph # "MIXED",
         \/ ctx'.state \in {"INIT", "ERROR"}
         \/ ctx'.state = "CONNECTED" /\ ctx.state = "CONNECTED" /\ ctx'.key = ctx.key,
         Counts(ctx', reqs, rsps),
         lost' = 0 /\ late' = 0 /\ ctx'.state = "CONNECTED" => Level(0, 0)'
  PROVE  HandshakeInv'
<1>0. /\ wait' = NoRequest /\ link' = "IDLE"
      /\ UNCHANGED <<reqs, rsps, adopted, accepted>>
  BY DEF Return, Aside
<1>1. /\ wait'.t = "NONE"
      /\ "NONE" \notin ConnectTypes \union CommandTypes
      /\ "NONE" \notin ConnectTypes /\ "NONE" \notin CommandTypes
      /\ "NONE" \notin ClearTypes /\ "NONE" \notin ExchangeTypes
      /\ "NONE" \notin FinishTypes
  BY <1>0 DEF NoRequest, ConnectTypes, ClearTypes, ExchangeTypes, FinishTypes,
              CommandTypes
<1>2. RespInv'
  BY RespStutter DEF HandshakeInv, Aside
<1>3. WireInv'
  BY <1>0 DEF HandshakeInv, WireInv, Aside, ReqOK, RspOK, respVars
<1>4. CallInv'
  BY <1>0, <1>1 DEF HandshakeInv, CallInv
<1>5. FreshInv'
  BY <1>0, <1>1 DEF HandshakeInv, FreshInv
<1>6. FinishInv' /\ CountInv'
  BY <1>0 DEF HandshakeInv, FinishInv, CountInv, Counts, Aside, respVars
<1>7. StepInv'
  BY <1>0, <1>1 DEF StepInv
<1> QED
  BY <1>2, <1>3, <1>4, <1>5, <1>6, <1>7 DEF HandshakeInv

\* Connect goes on with a clear request: there is no key yet, and nothing
\* was sealed in this attempt.
LEMMA AskInv ==
  ASSUME HandshakeInv, Aside, attempts' \in Nat, attempts' >= attempts,
         NEW m, ReqOK(m), ~m.sec, Send(m), adopted' = adopted,
         ctx' \in Contexts, ctx'.state # "CONNECTED", ctx'.mode \in Modes,
         ctx'.key = NoKey, ctx'.reqSeq = 0, ctx'.rspSeq = 0,
         m.t \in ExchangeTypes =>
           Len(ctx'.trans) > 0 /\ ctx'.trans[Len(ctx'.trans)].n = attempts',
         \/ attempts' > attempts
         \/ attempts' = attempts /\ wait.t \in ClearTypes
  PROVE  HandshakeInv'
<1>0. /\ wait' = m /\ link' = "SENT" /\ reqs' = reqs \union {m}
      /\ UNCHANGED <<rsps, adopted, accepted>>
  BY DEF Send, Aside
<1>1. m.t \in ClearTypes
  BY DEF ReqOK
<1>2. m.t \in ConnectTypes /\ m.t \notin CommandTypes /\ m.t \notin FinishTypes
        /\ m.t # "GIVE_PUB"
  BY <1>1 DEF ConnectTypes, ClearTypes, CommandTypes, FinishTypes
<1>3. wait.t \in ClearTypes => wait.t \in ConnectTypes
  BY DEF ConnectTypes
<1>4. RespInv'
  BY RespStutter DEF HandshakeInv, Aside
<1>5. WireInv'
  BY <1>0, <1>2 DEF HandshakeInv, WireInv, Aside, ReqOK, RspOK, respVars
<1>6. CallInv'
  BY <1>0, <1>1, <1>2, NoKeyType DEF HandshakeInv, CallInv
<1>7. attempts \in Nat
  BY DEF HandshakeInv, WireInv
<1>8. ASSUME NEW q \in reqs', q.sec
      PROVE  /\ q \in reqs
             /\ q.key.ph \in {"HS", "APP"}
             /\ Attempt(q.key) \in 0..attempts
             /\ Attempt(q.key) # attempts'
  <2>1. q \in reqs
    BY <1>0, <1>8
  <2>2. /\ q.key.ph \in {"HS", "APP"} /\ Attempt(q.key) \in 0..attempts
        /\ wait.t \in ClearTypes => Attempt(q.key) # attempts
    BY <1>3, <1>8, <2>1 DEF HandshakeInv, FreshInv
  <2> HIDE DEF Attempt
  <2> QED
    BY <1>7, <2>1, <2>2
<1>9. \A k \in adopted : Attempt(k) \in 0..attempts /\ Attempt(k) # attempts'
  <2>1. ASSUME NEW k \in adopted
        PROVE  /\ Attempt(k) \in 0..attempts
               /\ wait.t \in ClearTypes => Attempt(k) # attempts
    BY <1>3 DEF HandshakeInv, FreshInv
  <2> QED
    BY <1>7, <2>1
<1>10. 0..attempts \subseteq 0..attempts'
  BY <1>7
<1>11. FreshInv'
  <2>1. \A k \in adopted' : Attempt(k) \in 0..attempts' /\ Attempt(k) # attempts'
    BY <1>0, <1>9, <1>10
  <2>2. \A q \in reqs' : q.sec =>
          /\ q.key.ph \in {"HS", "APP"} /\ Attempt(q.key) \in 0..attempts'
          /\ Attempt(q.key) # attempts'
    BY <1>8, <1>10
  <2> QED
    BY <2>1, <2>2, Zenon DEF FreshInv
<1>12. FinishInv'
  BY <1>0, <1>2 DEF HandshakeInv, FinishInv
<1>13. CountInv'
  <2>1. \A q \in reqs' : q.sec => q.key # ctx'.key
    BY <1>8, NoKeyType
  <2>2. rs' = rs
    BY DEF Aside, respVars
  <2> QED
    BY <1>0, <2>1, <2>2 DEF HandshakeInv, CountInv
<1>14. StepInv'
  BY <1>0, <1>2 DEF StepInv, CommandTypes
<1> QED
  BY <1>4, <1>5, <1>6, <1>11, <1>12, <1>13, <1>14 DEF HandshakeInv

\* Connect goes on with GIVE_PUB or a finish, under the handshake key of this
\* attempt: the first record under it, or a finish after GIVE_PUB.
LEMMA SealAskInv ==
  ASSUME HandshakeInv, Aside, attempts' = attempts,
         NEW m, ReqOK(m), m.sec, Send(m), adopted' = adopted,
         m.t \in {"GIVE_PUB"} \union FinishTypes,
         ctx' \in Contexts, ctx'.state # "CONNECTED", ctx'.mode \in Modes,
         CurrentKey',
         m.key = ctx'.key, ctx'.reqSeq = m.seq + 1,
         m.t = "GIVE_PUB" => ctx'.trans = ctx'.key.th,
         m.t \in FinishTypes =>
           /\ ctx'.trans = Append(ctx'.key.th, Token(m.t, 0))
           /\ m.mac.th = ctx'.trans,
         \/ wait.t \in ClearTypes /\ ctx'.rspSeq = 0
         \/ /\ wait.t = "GIVE_PUB" /\ m.t \in FinishTypes
            /\ ctx'.key = ctx.key /\ m.seq = ctx.reqSeq
            /\ Counts(ctx', {}, rsps)
  PROVE  HandshakeInv'
<1>0. /\ wait' = m /\ link' = "SENT" /\ reqs' = reqs \union {m}
      /\ UNCHANGED <<rsps, adopted, accepted>>
  BY DEF Send, Aside
<1>1. /\ m.t \in ConnectTypes /\ m.t \notin CommandTypes /\ m.t \notin ClearTypes
      /\ m.t \notin ExchangeTypes
      /\ m.t = "GIVE_PUB" => m.t \notin FinishTypes
  BY DEF ConnectTypes, ClearTypes, CommandTypes, FinishTypes, ExchangeTypes
<1>2. wait.t \in ConnectTypes
  BY DEF ConnectTypes
<1>3. ctx'.key.ph = "HS" /\ Attempt(ctx'.key) = attempts
  BY DEF CurrentKey
<1>4. RespInv'
  BY RespStutter DEF HandshakeInv, Aside
<1>5. WireInv'
  BY <1>0, <1>1 DEF HandshakeInv, WireInv, Aside, ReqOK, RspOK, respVars
<1>6. CallInv'
  BY <1>0, <1>1, <1>3 DEF HandshakeInv, CallInv
<1>7. attempts \in Nat /\ m.seq \in Nat
  BY DEF HandshakeInv, WireInv, ReqOK
<1>8. ASSUME NEW q \in reqs, q.sec
      PROVE  /\ q.key.ph \in {"HS", "APP"}
             /\ Attempt(q.key) \in 0..attempts
             /\ Attempt(q.key) = attempts =>
                  /\ wait.t = "GIVE_PUB" /\ q.key.ph = "HS"
                  /\ q.t \notin FinishTypes
  BY <1>2, <1>8 DEF HandshakeInv, FreshInv
<1>9. FreshInv'
  <2>1. attempts \in 0..attempts
    BY <1>7
  <2>2. \A k \in adopted' : Attempt(k) \in 0..attempts' /\ Attempt(k) # attempts'
    BY <1>0, <1>2 DEF HandshakeInv, FreshInv
  <2>3. ASSUME NEW q \in reqs', q.sec
        PROVE  /\ q.key.ph \in {"HS", "APP"}
               /\ Attempt(q.key) \in 0..attempts'
               /\ Attempt(q.key) = attempts' =>
                    /\ m.t \notin ClearTypes /\ q.key.ph = "HS"
                    /\ m.t = "GIVE_PUB" => q.t \notin FinishTypes
    <3>1. CASE q \in reqs
      BY <1>1, <1>8, <2>3, <3>1
    <3>2. CASE q = m
      BY <1>1, <1>3, <2>1, <3>2
    <3> QED
      BY <1>0, <2>3, <3>1, <3>2
  <2> QED
    BY <1>0, <2>2, <2>3, Zenon DEF FreshInv
<1>10. FinishInv'
  <2>1. ASSUME NEW q \in reqs, q.t \in FinishTypes, q.key = m.key PROVE FALSE
    <3>1. ReqOK(q)
      BY DEF HandshakeInv, WireInv
    <3>2. q.sec
      BY <2>1, <3>1 DEF ReqOK, ClearTypes, FinishTypes
    <3> QED
      BY <1>3, <1>8, <2>1, <3>2
  <2> QED
    BY <1>0, <2>1 DEF HandshakeInv, FinishInv
<1>11. CountInv'
  <2>1. ASSUME NEW q \in reqs', q.sec, q.key = ctx'.key
        PROVE  q.seq < ctx'.reqSeq
    <3>1. CASE q = m
      BY <1>7, <3>1
    <3>2. CASE q \in reqs
      <4>1. wait.t = "GIVE_PUB"
        BY <1>3, <1>8, <2>1, <3>2
      <4>2. wait.t \notin ClearTypes
        BY <4>1 DEF ClearTypes
      <4>3. ctx'.key = ctx.key /\ m.seq = ctx.reqSeq
        BY <4>2
      <4>4. q.seq < ctx.reqSeq
        BY <2>1, <3>2, <4>3 DEF HandshakeInv, CountInv
      <4>5. q.seq \in Nat
        BY <2>1, <3>2 DEF HandshakeInv, WireInv, ReqOK
      <4> QED
        BY <1>7, <4>3, <4>4, <4>5
    <3> QED
      BY <1>0, <2>1, <3>1, <3>2
  <2>2. ctx'.rspSeq > 0 =>
          \E r \in rsps : r.sec /\ r.key = ctx'.key /\ ctx'.rspSeq = r.seq + 1
    BY DEF Counts
  <2>3. rs' = rs
    BY DEF Aside, respVars
  <2> QED
    BY <1>0, <2>1, <2>2, <2>3 DEF HandshakeInv, CountInv
<1>12. StepInv'
  BY <1>0, <1>1 DEF StepInv, CommandTypes
<1> QED
  BY <1>4, <1>5, <1>6, <1>9, <1>10, <1>11, <1>12 DEF HandshakeInv

\* A connected requester sends a record.
LEMMA CommandInv ==
  ASSUME HandshakeInv, UNCHANGED <<respVars, accepted>>,
         NEW t \in CommandTypes, Command(t)
  PROVE  HandshakeInv'
<1> DEFINE m == SecuredRequest(t, <<>>)
<1>0. /\ link = "IDLE" /\ ctx.state = "CONNECTED"
      /\ ctx' = [ctx EXCEPT !.reqSeq = ctx.reqSeq + 1]
      /\ wait' = m /\ link' = "SENT" /\ reqs' = reqs \union {m}
      /\ UNCHANGED <<rsps, attempts, lost, late, adopted, answer>>
  BY DEF Command, Continue, Send
<1>1. ctx \in Contexts /\ ctx.reqSeq \in Nat /\ ctx.rspSeq \in Nat /\ ctx.key \in Keys
  BY ContextFields DEF HandshakeInv, WireInv
<1>2. m.sec /\ m.t = t /\ m.key = ctx.key /\ m.seq = ctx.reqSeq
  BY DEF SecuredRequest
<1> HIDE DEF m
<1>3. /\ ctx' \in Contexts /\ ctx'.state = "CONNECTED" /\ ctx'.key = ctx.key
      /\ ctx'.reqSeq = ctx.reqSeq + 1 /\ ctx'.rspSeq = ctx.rspSeq
  BY <1>0, <1>1 DEF Contexts
<1>4. /\ t \notin ConnectTypes /\ t \notin ClearTypes /\ t \notin ExchangeTypes
      /\ t \notin FinishTypes /\ t # "GIVE_PUB"
  BY DEF CommandTypes, ConnectTypes, ClearTypes, ExchangeTypes, FinishTypes
<1>5. ReqOK(m)
  BY <1>1, <1>2 DEF ReqOK
<1>6. RespInv'
  BY RespStutter DEF HandshakeInv
<1>7. WireInv'
  BY <1>0, <1>2, <1>3, <1>5 DEF HandshakeInv, WireInv, ReqOK, RspOK, respVars
<1>8. ctx.key.ph = "APP" /\ ctx.key \in adopted
  BY <1>0 DEF HandshakeInv, CallInv
<1>9. CallInv'
  BY <1>0, <1>2, <1>3, <1>4, <1>8 DEF CallInv
<1>10. FreshInv'
  <2>1. ASSUME NEW q \in reqs', q.sec
        PROVE  q.key.ph \in {"HS", "APP"} /\ Attempt(q.key) \in 0..attempts'
    <3>1. CASE q = m
      BY <1>0, <1>2, <1>8, <3>1 DEF HandshakeInv, FreshInv
    <3>2. CASE q \in reqs
      BY <1>0, <2>1, <3>2 DEF HandshakeInv, FreshInv
    <3> QED
      BY <1>0, <3>1, <3>2
  <2>2. wait'.t \notin ConnectTypes
    BY <1>0, <1>2, <1>4
  <2>3. \A k \in adopted' : Attempt(k) \in 0..attempts'
    BY <1>0 DEF HandshakeInv, FreshInv
  <2> QED
    BY <2>1, <2>2, <2>3, Zenon DEF FreshInv
<1>11. FinishInv'
  BY <1>0, <1>2, <1>4 DEF HandshakeInv, FinishInv
<1>12. CountInv'
  <2>1. ASSUME NEW q \in reqs', q.sec, q.key = ctx'.key
        PROVE  q.seq < ctx'.reqSeq
    <3>1. CASE q = m
      BY <1>1, <1>2, <1>3, <3>1
    <3>2. CASE q \in reqs
      <4>1. q.seq < ctx.reqSeq /\ q.seq \in Nat
        BY <1>3, <2>1, <3>2 DEF HandshakeInv, CountInv, WireInv, ReqOK
      <4> QED
        BY <1>1, <1>3, <4>1
    <3> QED
      BY <1>0, <3>1, <3>2
  <2>2. rs' = rs
    BY DEF respVars
  <2> QED
    BY <1>0, <1>3, <2>1, <2>2 DEF HandshakeInv, CountInv
<1>13. StepInv'
  <2>1. ASSUME lost = 0, late = 0 PROVE Level(1, 0)'
    <3>1. Level(0, 0)
      BY <1>0, <2>1 DEF HandshakeInv, StepInv
    <3>2. rs' = rs /\ rs.reqSeq \in Nat /\ rs.rspSeq \in Nat
      BY SessionFields DEF respVars, HandshakeInv, RespInv, TypeInv
    <3> QED
      BY <1>1, <1>3, <3>1, <3>2 DEF Level
  <2> QED
    BY <1>0, <1>2, <1>3, <1>4, <2>1 DEF StepInv
<1> QED
  BY <1>6, <1>7, <1>9, <1>10, <1>11, <1>12, <1>13 DEF HandshakeInv

\* wolfSPDM_ResetSession leaves no key and no counter.
LEMMA ResetType ==
  ASSUME ctx \in Contexts, NEW mode \in Modes \union {"NONE"}, NEW th \in Seq(Tokens)
  PROVE  /\ ResetSession(mode) \in Contexts
         /\ ResetSession(mode).state = "INIT" /\ ResetSession(mode).mode = mode
         /\ ResetSession(mode).key = NoKey
         /\ ResetSession(mode).reqSeq = 0 /\ ResetSession(mode).rspSeq = 0
         /\ [ResetSession(mode) EXCEPT !.trans = th] \in Contexts
         /\ [ResetSession(mode) EXCEPT !.trans = th].state = "INIT"
         /\ [ResetSession(mode) EXCEPT !.trans = th].mode = mode
         /\ [ResetSession(mode) EXCEPT !.trans = th].key = NoKey
         /\ [ResetSession(mode) EXCEPT !.trans = th].reqSeq = 0
         /\ [ResetSession(mode) EXCEPT !.trans = th].rspSeq = 0
<1>1. /\ ResetSession(mode) \in Contexts
      /\ ResetSession(mode).state = "INIT" /\ ResetSession(mode).mode = mode
      /\ ResetSession(mode).key = NoKey
      /\ ResetSession(mode).reqSeq = 0 /\ ResetSession(mode).rspSeq = 0
  BY NoKeyType DEF ResetSession, Contexts
<1> HIDE DEF ResetSession
<1> QED
  BY <1>1 DEF Contexts

\* A call that returns with a reset session.
LEMMA ResetReturns ==
  ASSUME HandshakeInv, Aside, attempts' = attempts,
         NEW mode \in Modes \union {"NONE"}, Return(ResetSession(mode))
  PROVE  HandshakeInv'
<1>0. ctx \in Contexts /\ ctx' = ResetSession(mode)
  BY DEF HandshakeInv, WireInv, Return
<1>1. /\ ctx' \in Contexts /\ ctx'.state = "INIT" /\ ctx'.key = NoKey
      /\ ctx'.reqSeq = 0 /\ ctx'.rspSeq = 0
  <2>1. <<>> \in Seq(Tokens)
    OBVIOUS
  <2> QED
    BY <1>0, <2>1, ResetType
<1>2. Counts(ctx', reqs, rsps)
  <2>1. \A m \in reqs : m.sec => m.key # NoKey
    BY NoKeyType DEF HandshakeInv, FreshInv
  <2> QED
    BY <1>1, <2>1 DEF Counts
<1>3. Return(ctx')
  BY DEF Return
<1> QED
  BY <1>1, <1>2, <1>3, NoKeyType, ReturnInv

\* wolfSPDM_Connect begins.
LEMMA ConnectInv ==
  ASSUME HandshakeInv, UNCHANGED <<respVars, accepted>>,
         NEW mode \in Modes, Connect(mode)
  PROVE  HandshakeInv'
<1> DEFINE th == <<Token("GET_VERSION", 0)>>
           m  == ClearRequest("GET_VERSION", 0)
<1>0. /\ attempts' = attempts + 1
      /\ ctx' = [ResetSession(mode) EXCEPT !.trans = th]
      /\ Send(m) /\ UNCHANGED <<adopted, rsps, lost, late>>
  BY DEF Connect, Continue
<1>1. /\ ctx \in Contexts /\ attempts \in Nat /\ lost \in Nat /\ late \in Nat
  BY DEF HandshakeInv, WireInv
<1>2. Aside
  BY <1>0, <1>1 DEF Aside
<1>3. th \in Seq(Tokens)
  <2>1. Token("GET_VERSION", 0) \in Tokens
    BY TokenType DEF TokenNames
  <2> QED
    BY <2>1
<1>4. ~m.sec /\ ReqOK(m) /\ m.t \notin ExchangeTypes
  BY DEF ClearRequest, ReqOK, ClearTypes, ExchangeTypes
<1> HIDE DEF th, m
<1>5. /\ ctx' \in Contexts /\ ctx'.state = "INIT" /\ ctx'.mode = mode
      /\ ctx'.key = NoKey /\ ctx'.reqSeq = 0 /\ ctx'.rspSeq = 0
  BY <1>0, <1>1, <1>3, ResetType
<1>6. attempts' \in Nat /\ attempts' >= attempts /\ attempts' > attempts
  BY <1>0, <1>1
<1> QED
  BY <1>0, <1>2, <1>4, <1>5, <1>6, AskInv

\* wolfSPDM_ConnectPsk without a PSK, and wolfSPDM_SetPSK.
LEMMA PskCallsInv ==
  ASSUME HandshakeInv, UNCHANGED <<respVars, accepted>>, ConnectNoPsk \/ SetPSK
  PROVE  HandshakeInv'
<1>0. /\ ctx \in Contexts /\ lost \in Nat /\ late \in Nat
  BY DEF HandshakeInv, WireInv
<1>1. CASE ConnectNoPsk
  <2>1. Aside /\ attempts' = attempts /\ "PSK" \in Modes
    BY <1>0, <1>1 DEF ConnectNoPsk, Aside
  <2> QED
    BY <1>1, <2>1, ResetReturns DEF ConnectNoPsk
<1>2. CASE SetPSK
  <2>1. /\ link = "IDLE" /\ ctx' = [ctx EXCEPT !.psk = 1]
        /\ UNCHANGED <<wait, link, answer, reqs, rsps, attempts, lost, late, adopted>>
    BY <1>2 DEF SetPSK
  <2>2. /\ ctx' \in Contexts
        /\ ctx'.state = ctx.state /\ ctx'.mode = ctx.mode /\ ctx'.key = ctx.key
        /\ ctx'.trans = ctx.trans
        /\ ctx'.reqSeq = ctx.reqSeq /\ ctx'.rspSeq = ctx.rspSeq
    BY <1>0, <2>1 DEF Contexts
  <2>3. RespInv'
    BY RespStutter DEF HandshakeInv
  <2>4. rs' = rs /\ sealed' = sealed /\ accepted' = accepted
    BY DEF respVars
  <2>5. WireInv'
    BY <2>1, <2>2, <2>4 DEF HandshakeInv, WireInv, ReqOK, RspOK
  <2>6. CallInv'
    BY <2>1, <2>2 DEF HandshakeInv, CallInv, CurrentKey
  <2>7. FreshInv' /\ FinishInv'
    BY <2>1, <2>4 DEF HandshakeInv, FreshInv, FinishInv
  <2>8. CountInv'
    BY <2>1, <2>2, <2>4 DEF HandshakeInv, CountInv
  <2>9. StepInv'
    BY <2>1, <2>2, <2>4 DEF HandshakeInv, StepInv, Level
  <2> QED
    BY <2>3, <2>5, <2>6, <2>7, <2>8, <2>9 DEF HandshakeInv
<1> QED
  BY <1>1, <1>2

\* A frame is lost.
LEMMA LoseInv ==
  ASSUME HandshakeInv, UNCHANGED <<respVars, accepted>>, Lose
  PROVE  HandshakeInv'
<1>0. /\ lost' = lost + 1 /\ link # "IDLE" /\ link' = "SILENT"
      /\ UNCHANGED <<ctx, wait, answer, reqs, rsps, attempts, late, adopted>>
  BY DEF Lose
<1>1. lost' \in Nat /\ lost' # 0
  BY <1>0 DEF HandshakeInv, WireInv
<1>2. RespInv'
  BY RespStutter DEF HandshakeInv
<1>3. WireInv'
  BY <1>0, <1>1 DEF HandshakeInv, WireInv, ReqOK, RspOK, respVars
<1>4. CallInv'
  BY <1>0 DEF HandshakeInv, CallInv, CurrentKey
<1>5. FreshInv' /\ FinishInv' /\ CountInv'
  BY <1>0 DEF HandshakeInv, FreshInv, FinishInv, CountInv, respVars
<1>6. StepInv'
  BY <1>1 DEF StepInv
<1> QED
  BY <1>2, <1>3, <1>4, <1>5, <1>6 DEF HandshakeInv

\* A failed Connect: only the state changes.
LEMMA FailInv ==
  ASSUME HandshakeInv, Aside, attempts' = attempts, Fail
  PROVE  HandshakeInv'
<1>0. ctx \in Contexts /\ ctx' = [ctx EXCEPT !.state = "ERROR"] /\ Return(ctx')
  BY DEF HandshakeInv, WireInv, Fail, Return
<1>1. /\ ctx' \in Contexts /\ ctx'.state = "ERROR" /\ ctx'.key = ctx.key
      /\ ctx'.reqSeq = ctx.reqSeq /\ ctx'.rspSeq = ctx.rspSeq
  BY <1>0 DEF Contexts
<1>2. Counts(ctx', reqs, rsps)
  BY <1>1 DEF HandshakeInv, CountInv, Counts
<1>3. /\ ctx'.key.ph # "MIXED"
      /\ ctx'.key.ph = "NONE" => ctx'.reqSeq = 0 /\ ctx'.rspSeq = 0
  BY <1>1 DEF HandshakeInv, CallInv
<1> QED
  BY <1>0, <1>1, <1>2, <1>3, ReturnInv

\* The I/O callback fails.
LEMMA IoFailInv ==
  ASSUME HandshakeInv, UNCHANGED <<respVars, accepted>>, IoFail
  PROVE  HandshakeInv'
<1>0. /\ ctx \in Contexts /\ lost \in Nat /\ late \in Nat
      /\ link = "SILENT" /\ UNCHANGED <<rsps, attempts, lost, late>>
  BY DEF HandshakeInv, WireInv, IoFail
<1>1. Aside /\ attempts' = attempts
  BY <1>0 DEF Aside
<1>2. CASE wait.t = "TPM2_CMD"
  <2>1. Return(ctx) /\ ctx' = ctx
    BY <1>2 DEF IoFail, Return
  <2>2. ctx.state = "CONNECTED" /\ ctx.key.ph = "APP"
    BY <1>2 DEF HandshakeInv, CallInv, CommandTypes
  <2>3. Counts(ctx, reqs, rsps)
    BY DEF HandshakeInv, CountInv, Counts
  <2>4. lost' = 0 /\ late' = 0 => Level(0, 0)'
    BY <1>0, <1>2, <2>1 DEF HandshakeInv, StepInv, Level, respVars
  <2>5. Return(ctx')
    BY <2>1
  <2> QED
    BY <1>0, <1>1, <2>1, <2>2, <2>3, <2>4, <2>5, ReturnInv
<1>3. CASE wait.t = "END_SESSION"
  <2>1. ctx.mode \in Modes \union {"NONE"}
    BY <1>0, ContextFields
  <2>2. Return(ResetSession(ctx.mode))
    BY <1>3 DEF IoFail
  <2> QED
    BY <1>1, <2>1, <2>2, ResetReturns
<1>4. CASE wait.t \notin {"TPM2_CMD", "END_SESSION"}
  <2>1. Fail
    BY <1>4 DEF IoFail
  <2> QED
    BY <1>1, <2>1, FailInv
<1> QED
  BY <1>2, <1>3, <1>4

-----------------------------------------------------------------------------
(* The requester, reply by reply *)

\* The next clear request of the mode.
LEMMA AskNextInv ==
  ASSUME HandshakeInv, Aside, attempts' = attempts,
         wait.t \in {"GET_VERSION", "GET_CAPABILITIES", "NEGOTIATE_ALGORITHMS",
                     "GET_PUBK"},
         NEW tok \in Tokens, NEW s \in {"VERSION", "CERT"},
         AskNext([ctx EXCEPT !.trans = Append(ctx.trans, tok), !.state = s], wait.t)
  PROVE  HandshakeInv'
<1> DEFINE c    == [ctx EXCEPT !.trans = Append(ctx.trans, tok), !.state = s]
           next == AfterStep(wait.t)
           n    == IF next \in {"KEY_EXCHANGE", "PSK_EXCHANGE"} THEN attempts ELSE 0
           th   == IF next = "GET_PUBK" THEN c.trans
                   ELSE Append(c.trans, Token(next, n))
           m    == ClearRequest(next, n)
<1>0. ctx \in Contexts /\ ctx.trans \in Seq(Tokens) /\ attempts \in Nat
  BY ContextFields DEF HandshakeInv, WireInv
<1>1. /\ wait.t \in ClearTypes /\ ctx.mode \in Modes /\ ctx.key = NoKey
      /\ ctx.reqSeq = 0 /\ ctx.rspSeq = 0
  <2>1. wait.t \in ClearTypes /\ wait.t \in ConnectTypes
    BY DEF ClearTypes, ConnectTypes
  <2> QED
    BY <2>1, NoKeyType DEF HandshakeInv, CallInv
<1>2. next \in ClearTypes
  <2>1. ctx.mode \in {"TCG", "NUVOTON", "PSK"}
    BY <1>1, HandshakeAssumption
  <2> QED
    BY <2>1 DEF AfterStep, ClearTypes
<1>3. Append(ctx.trans, tok) \in Seq(Tokens)
  BY <1>0, AppendToken
<1>4. /\ c \in Contexts /\ c.state = s /\ c.mode = ctx.mode
      /\ c.trans \in Seq(Tokens) /\ c.key = NoKey /\ c.reqSeq = 0 /\ c.rspSeq = 0
  BY <1>0, <1>1, <1>3 DEF Contexts
<1>5. ctx' = [c EXCEPT !.trans = th] /\ Send(m) /\ adopted' = adopted
  BY DEF AskNext, Continue
<1> HIDE DEF c, next
<1>6. n \in Nat /\ (next \in ExchangeTypes => n = attempts)
  BY <1>0 DEF ExchangeTypes
<1> HIDE DEF n
<1>7. next # "GET_PUBK" => Token(next, n) \in Tokens /\ Token(next, n).n = n
  <2>1. next # "GET_PUBK" => next \in TokenNames
    BY <1>2 DEF ClearTypes, TokenNames
  <2> QED
    BY <1>6, <2>1, TokenType DEF Token
<1>8. /\ th \in Seq(Tokens)
      /\ next # "GET_PUBK" => Len(th) = Len(c.trans) + 1 /\ th[Len(th)].n = n
  BY <1>4, <1>7, AppendToken
<1>9. next \in ExchangeTypes => Len(th) > 0 /\ th[Len(th)].n = attempts
  <2>1. next \in ExchangeTypes => next # "GET_PUBK"
    BY DEF ExchangeTypes
  <2>2. Len(c.trans) \in Nat
    BY <1>4
  <2> QED
    BY <1>6, <1>8, <2>1, <2>2
<1> HIDE DEF th
<1>10. /\ ctx' \in Contexts /\ ctx'.state = s /\ ctx'.mode = ctx.mode
       /\ ctx'.trans = th
       /\ ctx'.key = NoKey /\ ctx'.reqSeq = 0 /\ ctx'.rspSeq = 0
  BY <1>4, <1>5, <1>8 DEF Contexts
<1>11. ~m.sec /\ m.t = next /\ ReqOK(m)
  BY <1>2, <1>6 DEF ClearRequest, ReqOK
<1> HIDE DEF m
<1>12. /\ m.t \in ExchangeTypes =>
            Len(ctx'.trans) > 0 /\ ctx'.trans[Len(ctx'.trans)].n = attempts'
       /\ ctx'.state # "CONNECTED" /\ ctx'.mode \in Modes
       /\ attempts' \in Nat /\ attempts' >= attempts
  BY <1>0, <1>1, <1>9, <1>10, <1>11
<1> QED
  BY <1>1, <1>5, <1>10, <1>11, <1>12, AskInv

\* VERSION, CAPABILITIES and ALGORITHMS.
LEMMA NegotiateReturnInv ==
  ASSUME HandshakeInv, Aside, attempts' = attempts, NEW r, NegotiateReturn(r)
  PROVE  HandshakeInv'
<1>1. CASE Fail
  BY <1>1, FailInv
<1>2. CASE /\ r.t = Reply(wait.t)
           /\ AskNext([ctx EXCEPT !.trans = Append(ctx.trans, Token(r.t, 0)),
                                  !.state = "VERSION"], wait.t)
  <2>1. wait.t \in {"GET_VERSION", "GET_CAPABILITIES", "NEGOTIATE_ALGORITHMS"}
    BY DEF NegotiateReturn
  <2>2. r.t \in TokenNames
    BY <1>2, <2>1 DEF Reply, TokenNames
  <2>3. Token(r.t, 0) \in Tokens
    BY <2>2, TokenType
  <2> QED
    BY <1>2, <2>1, <2>3, AskNextInv
<1> QED
  BY <1>1, <1>2 DEF NegotiateReturn

\* GET_PUBK.
LEMMA GetPubKeyReturnInv ==
  ASSUME HandshakeInv, Aside, attempts' = attempts, NEW r, GetPubKeyReturn(r)
  PROVE  HandshakeInv'
<1>1. CASE Fail
  BY <1>1, FailInv
<1>2. CASE /\ r.id = Pinned
           /\ AskNext([ctx EXCEPT !.trans = Append(ctx.trans, Token("Ct", r.id)),
                                  !.state = "CERT"], wait.t)
  <2>1. wait.t = "GET_PUBK"
    BY DEF GetPubKeyReturn
  <2>2. Token("Ct", r.id) \in Tokens
    BY <1>2, TokenType DEF Pinned, TokenNames
  <2> QED
    BY <1>2, <2>1, <2>2, AskNextInv
<1> QED
  BY <1>1, <1>2 DEF GetPubKeyReturn

\* The finish that follows the exchange or GIVE_PUB, from context c.
LEMMA AskFinishInv ==
  ASSUME HandshakeInv, Aside, attempts' = attempts,
         NEW c \in Contexts, c.state # "CONNECTED", c.mode \in Modes,
         c.key.ph = "HS", Len(c.key.th) >= 2, Attempt(c.key) = attempts,
         c.trans = c.key.th, NEW t \in FinishTypes, AskFinish(c, t),
         \/ wait.t \in ClearTypes /\ c.rspSeq = 0
         \/ /\ wait.t = "GIVE_PUB" /\ c.key = ctx.key /\ c.reqSeq = ctx.reqSeq
            /\ Counts(c, {}, rsps)
  PROVE  HandshakeInv'
<1> DEFINE th2 == Append(c.trans, Token(t, 0))
           m   == [sec |-> TRUE, t |-> t, key |-> c.key, seq |-> c.reqSeq,
                   mac |-> [key |-> c.key, th |-> th2], psk |-> 0, auth |-> 0,
                   lock |-> FALSE]
<1>0. /\ c.trans \in Seq(Tokens) /\ c.key \in Keys
      /\ c.reqSeq \in Nat /\ c.rspSeq \in Nat
  BY ContextFields
<1>1. th2 \in Seq(Tokens)
  <2>1. Token(t, 0) \in Tokens
    BY TokenType DEF FinishTypes, TokenNames
  <2> QED
    BY <1>0, <2>1, AppendToken
<1>2. /\ ctx' = [c EXCEPT !.trans = th2, !.reqSeq = c.reqSeq + 1]
      /\ Send(m) /\ adopted' = adopted
  BY DEF AskFinish
<1>3. th2 = Append(c.key.th, Token(t, 0))
  OBVIOUS
<1> HIDE DEF th2
<1>4. /\ m.sec /\ m.t = t /\ m.key = c.key /\ m.seq = c.reqSeq /\ m.mac.th = th2
  OBVIOUS
<1> HIDE DEF m
<1>5. c.reqSeq + 1 \in Nat
  BY <1>0
<1>6. /\ ctx' \in Contexts /\ ctx'.state = c.state /\ ctx'.mode = c.mode
      /\ ctx'.trans = th2 /\ ctx'.key = c.key
      /\ ctx'.reqSeq = c.reqSeq + 1 /\ ctx'.rspSeq = c.rspSeq
  BY <1>1, <1>2, <1>5 DEF Contexts
<1>7. ReqOK(m)
  BY <1>0, <1>4 DEF ReqOK
<1>8. CurrentKey'
  BY <1>6 DEF CurrentKey
<1>9. m.t # "GIVE_PUB"
  BY <1>4 DEF FinishTypes
<1>10. \/ wait.t \in ClearTypes /\ ctx'.rspSeq = 0
       \/ /\ wait.t = "GIVE_PUB" /\ m.t \in FinishTypes
          /\ ctx'.key = ctx.key /\ m.seq = ctx.reqSeq
          /\ Counts(ctx', {}, rsps)
  BY <1>4, <1>6 DEF Counts
<1> QED
  BY <1>2, <1>3, <1>4, <1>6, <1>7, <1>8, <1>9, <1>10, SealAskInv

\* While an exchange waits there is no key, and the transcript ends with its
\* request.
LEMMA ExchangeContext ==
  ASSUME HandshakeInv, wait.t \in ExchangeTypes
  PROVE  /\ wait.t \in ClearTypes /\ wait.t \in ConnectTypes
         /\ ctx.mode \in Modes /\ ctx.state # "CONNECTED"
         /\ ctx.reqSeq = 0 /\ ctx.rspSeq = 0
         /\ Len(ctx.trans) > 0 /\ ctx.trans[Len(ctx.trans)].n = attempts
<1>1. wait.t \in ClearTypes /\ wait.t \in ConnectTypes
  BY DEF ExchangeTypes, ClearTypes, ConnectTypes
<1>2. /\ Len(ctx.trans) > 0 /\ ctx.trans[Len(ctx.trans)].n = attempts
      /\ ctx.key = NoKey /\ ctx.mode \in Modes /\ ctx.state # "CONNECTED"
  BY <1>1 DEF HandshakeInv, CallInv
<1>3. ctx.reqSeq = 0 /\ ctx.rspSeq = 0
  BY <1>2, NoKeyType DEF HandshakeInv, CallInv
<1> QED
  BY <1>1, <1>2, <1>3

\* The key that the response tok leads to: new, and of this attempt.
LEMMA ExchangeKey ==
  ASSUME HandshakeInv, wait.t \in ExchangeTypes,
         NEW tok \in Tokens, NEW sec \in Secrets,
         NEW key, key = Key("HS", sec, Append(ctx.trans, tok))
  PROVE  /\ key \in Keys
         /\ key.ph = "HS" /\ key.th = Append(ctx.trans, tok)
         /\ Append(ctx.trans, tok) \in Seq(Tokens)
         /\ Len(key.th) >= 2 /\ Attempt(key) = attempts
         /\ \A m \in reqs : m.sec => m.key # key
<1> DEFINE th == Append(ctx.trans, tok)
<1>0. ctx.trans \in Seq(Tokens) /\ attempts \in Nat
  BY ContextFields DEF HandshakeInv, WireInv
<1>1. /\ th \in Seq(Tokens) /\ Len(th) = Len(ctx.trans) + 1
      /\ \A i \in 1..Len(ctx.trans) : th[i] = ctx.trans[i]
  BY <1>0, AppendToken
<1>2. key = Key("HS", sec, th)
  OBVIOUS
<1> HIDE DEF th
<1>3. key \in Keys /\ key.ph = "HS" /\ key.th = th
  <2>1. "HS" \in Phases
    BY DEF Phases
  <2>2. key \in Keys
    BY <1>1, <1>2, <2>1, KeyType
  <2>3. key.ph = "HS" /\ key.th = th
    BY <1>2 DEF Key
  <2> QED
    BY <2>2, <2>3
<1>4. /\ Len(th) >= 2 /\ Len(th) - 1 = Len(ctx.trans)
      /\ Len(ctx.trans) \in 1..Len(ctx.trans)
  BY <1>0, <1>1, ExchangeContext
<1>5. Attempt(key) = attempts
  BY <1>1, <1>3, <1>4, ExchangeContext DEF Attempt
<1>6. \A m \in reqs : m.sec => m.key # key
  BY <1>5, ExchangeContext DEF HandshakeInv, FreshInv
<1> QED
  BY <1>1, <1>3, <1>4, <1>5, <1>6 DEF th

\* KEY_EXCHANGE_RSP.
LEMMA KeyExchangeReturnInv ==
  ASSUME HandshakeInv, Aside, attempts' = attempts, NEW r \in rsps,
         KeyExchangeReturn(r)
  PROVE  HandshakeInv'
<1> DEFINE th1 == Append(ctx.trans, Token("KEY_EXCHANGE_RSP", r.n))
           sec == Secret("DH", attempts, r.n)
           key == Key("HS", sec, th1)
           c   == [ctx EXCEPT !.trans = th1, !.state = "KEY_EX", !.key = key]
           m   == [sec |-> TRUE, t |-> "GIVE_PUB", key |-> c.key, seq |-> 0,
                   mac |-> [key |-> NoKey, th |-> <<>>], psk |-> 0, auth |-> 0,
                   lock |-> FALSE]
<1>0. /\ ctx \in Contexts /\ attempts \in Nat /\ r.n \in Nat
      /\ wait.t \in ExchangeTypes
  BY DEF HandshakeInv, WireInv, RspOK, KeyExchangeReturn, ExchangeTypes
<1>1. sec \in Secrets
  BY <1>0 DEF Secret, Secrets
<1>2. \/ Fail
      \/ Continue([c EXCEPT !.reqSeq = 1], m)
      \/ AskFinish(c, "FINISH")
  BY DEF KeyExchangeReturn
<1> HIDE DEF sec
<1> DEFINE tok == Token("KEY_EXCHANGE_RSP", r.n)
<1>a. tok \in Tokens
  BY <1>0, TokenType DEF TokenNames
<1>b. th1 = Append(ctx.trans, tok) /\ key = Key("HS", sec, Append(ctx.trans, tok))
  OBVIOUS
<1> HIDE DEF th1, key, tok
<1>3. /\ th1 \in Seq(Tokens) /\ key \in Keys
      /\ key.ph = "HS" /\ key.th = th1 /\ Len(key.th) >= 2
      /\ Attempt(key) = attempts
      /\ wait.t \in ClearTypes /\ ctx.mode \in Modes
      /\ ctx.reqSeq = 0 /\ ctx.rspSeq = 0
  BY <1>0, <1>1, <1>a, <1>b, ExchangeKey, ExchangeContext
<1>4. /\ c \in Contexts /\ c.state = "KEY_EX" /\ c.mode = ctx.mode
      /\ c.trans = th1 /\ c.key = key /\ c.reqSeq = 0 /\ c.rspSeq = 0
  BY <1>0, <1>3 DEF Contexts
<1> HIDE DEF c
<1>5. CASE Fail
  BY <1>5, FailInv
<1>6. CASE AskFinish(c, "FINISH")
  <2>1. "FINISH" \in FinishTypes
    BY DEF FinishTypes
  <2>2. c.state # "CONNECTED" /\ c.mode \in Modes
    BY <1>3, <1>4
  <2> QED
    BY <1>3, <1>4, <1>6, <2>1, <2>2, AskFinishInv
<1>7. CASE Continue([c EXCEPT !.reqSeq = 1], m)
  <2>1. ctx' = [c EXCEPT !.reqSeq = 1] /\ Send(m) /\ adopted' = adopted
    BY <1>7 DEF Continue
  <2>2. m.sec /\ m.t = "GIVE_PUB" /\ m.key = key /\ m.seq = 0
    BY <1>4
  <2> HIDE DEF m
  <2>3. /\ ctx' \in Contexts /\ ctx'.state = "KEY_EX" /\ ctx'.mode = ctx.mode
        /\ ctx'.trans = th1 /\ ctx'.key = key
        /\ ctx'.reqSeq = 1 /\ ctx'.rspSeq = 0
    BY <1>4, <2>1 DEF Contexts
  <2>4. ReqOK(m)
    BY <1>3, <2>2 DEF ReqOK
  <2>5. CurrentKey'
    BY <1>3, <2>3 DEF CurrentKey
  <2>6. m.t \notin FinishTypes /\ ctx'.reqSeq = m.seq + 1
    BY <2>2, <2>3 DEF FinishTypes
  <2>7. ctx'.state # "CONNECTED" /\ ctx'.mode \in Modes /\ ctx'.trans = ctx'.key.th
    BY <1>3, <2>3
  <2> QED
    BY <1>3, <2>1, <2>2, <2>3, <2>4, <2>5, <2>6, <2>7, SealAskInv
<1> QED
  BY <1>2, <1>5, <1>6, <1>7

\* PSK_EXCHANGE_RSP.
LEMMA PskExchangeReturnInv ==
  ASSUME HandshakeInv, Aside, attempts' = attempts, NEW r \in rsps,
         PskExchangeReturn(r)
  PROVE  HandshakeInv'
<1> DEFINE th1 == Append(ctx.trans, Token("PSK_EXCHANGE_RSP", r.n))
           sec == Secret("PSK", ctx.psk, 0)
           key == Key("HS", sec, th1)
           c   == [ctx EXCEPT !.trans = th1, !.psk = 0, !.key = key]
           d   == [c EXCEPT !.state = "KEY_EX"]
           e   == [c EXCEPT !.state = "ERROR"]
<1>0. /\ ctx \in Contexts /\ ctx.psk \in Nat /\ r.n \in Nat
      /\ wait.t \in ExchangeTypes
  BY ContextFields
  DEF HandshakeInv, WireInv, RspOK, PskExchangeReturn, ExchangeTypes
<1>1. sec \in Secrets
  BY <1>0 DEF Secret, Secrets
<1>2. Fail \/ AskFinish(d, "PSK_FINISH") \/ Return(e)
  BY DEF PskExchangeReturn
<1> HIDE DEF sec
<1> DEFINE tok == Token("PSK_EXCHANGE_RSP", r.n)
<1>a. tok \in Tokens
  BY <1>0, TokenType DEF TokenNames
<1>b. th1 = Append(ctx.trans, tok) /\ key = Key("HS", sec, Append(ctx.trans, tok))
  OBVIOUS
<1> HIDE DEF th1, key, tok
<1>3. /\ th1 \in Seq(Tokens) /\ key \in Keys
      /\ key.ph = "HS" /\ key.th = th1 /\ Len(key.th) >= 2
      /\ Attempt(key) = attempts
      /\ wait.t \in ClearTypes /\ ctx.mode \in Modes
      /\ ctx.reqSeq = 0 /\ ctx.rspSeq = 0
      /\ \A m \in reqs : m.sec => m.key # key
  BY <1>0, <1>1, <1>a, <1>b, ExchangeKey, ExchangeContext
<1>4. /\ c \in Contexts /\ c.mode = ctx.mode
      /\ c.trans = th1 /\ c.key = key /\ c.reqSeq = 0 /\ c.rspSeq = 0
  BY <1>0, <1>3 DEF Contexts
<1> HIDE DEF c
<1>5. CASE Fail
  BY <1>5, FailInv
<1>6. CASE AskFinish(d, "PSK_FINISH")
  <2>1. /\ d \in Contexts /\ d.state = "KEY_EX" /\ d.mode = ctx.mode
        /\ d.trans = th1 /\ d.key = key /\ d.reqSeq = 0 /\ d.rspSeq = 0
    BY <1>4 DEF Contexts
  <2> HIDE DEF d
  <2>2. "PSK_FINISH" \in FinishTypes
    BY DEF FinishTypes
  <2>3. d.state # "CONNECTED" /\ d.mode \in Modes
    BY <1>3, <2>1
  <2> QED
    BY <1>3, <1>6, <2>1, <2>2, <2>3, AskFinishInv
<1>7. CASE Return(e)
  <2>1. ctx' = e /\ Return(ctx')
    BY <1>7 DEF Return
  <2>2. /\ ctx' \in Contexts /\ ctx'.state = "ERROR" /\ ctx'.key = key
        /\ ctx'.reqSeq = 0 /\ ctx'.rspSeq = 0
    BY <1>4, <2>1 DEF Contexts
  <2>3. Counts(ctx', reqs, rsps)
    BY <1>3, <2>2 DEF Counts
  <2> QED
    BY <1>3, <2>1, <2>2, <2>3, ReturnInv
<1> QED
  BY <1>2, <1>5, <1>6, <1>7

\* A record that opens moves the counter, any other leaves the context alone.
LEMMA AfterOpenFits ==
  ASSUME HandshakeInv, NEW r \in rsps
  PROVE  /\ AfterOpen(r) \in Contexts
         /\ AfterOpen(r).state = ctx.state /\ AfterOpen(r).mode = ctx.mode
         /\ AfterOpen(r).trans = ctx.trans /\ AfterOpen(r).key = ctx.key
         /\ AfterOpen(r).reqSeq = ctx.reqSeq
         /\ AfterOpen(r).rspSeq =
              IF ReqOpens(r) THEN ctx.rspSeq + 1 ELSE ctx.rspSeq
         /\ Counts(AfterOpen(r), reqs, rsps)
<1>0. ctx \in Contexts /\ ctx.rspSeq \in Nat
  BY ContextFields DEF HandshakeInv, WireInv
<1>1. Counts(ctx, reqs, rsps)
  BY DEF HandshakeInv, CountInv, Counts
<1>2. ctx.rspSeq + 1 \in Nat
  BY <1>0
<1>3. CASE ReqOpens(r)
  <2>1. /\ Opened \in Contexts
        /\ Opened.state = ctx.state /\ Opened.mode = ctx.mode
        /\ Opened.trans = ctx.trans /\ Opened.key = ctx.key
        /\ Opened.reqSeq = ctx.reqSeq /\ Opened.rspSeq = ctx.rspSeq + 1
    BY <1>0, <1>2 DEF Opened, Contexts
  <2>2. r.sec /\ r.key = ctx.key /\ r.seq = ctx.rspSeq
    BY <1>3 DEF ReqOpens
  <2>3. Counts(Opened, reqs, rsps)
    BY <1>1, <2>1, <2>2 DEF Counts
  <2> QED
    BY <1>3, <2>1, <2>3 DEF AfterOpen
<1>4. CASE ~ReqOpens(r)
  BY <1>0, <1>1, <1>4 DEF AfterOpen
<1> QED
  BY <1>3, <1>4

\* Connect fails on a reply it may have opened.
LEMMA FailAfterInv ==
  ASSUME HandshakeInv, Aside, attempts' = attempts, NEW r \in rsps,
         ctx.key.ph = "HS", FailAfter(r)
  PROVE  HandshakeInv'
<1> DEFINE a == AfterOpen(r)
<1>0. a \in Contexts /\ a.key = ctx.key /\ Counts(a, reqs, rsps)
  BY AfterOpenFits
<1>1. ctx' = [a EXCEPT !.state = "ERROR"] /\ Return(ctx')
  BY DEF FailAfter, Return
<1> HIDE DEF a
<1>2. /\ ctx' \in Contexts /\ ctx'.state = "ERROR" /\ ctx'.key = a.key
      /\ ctx'.reqSeq = a.reqSeq /\ ctx'.rspSeq = a.rspSeq
  BY <1>0, <1>1 DEF Contexts
<1>3. Counts(ctx', reqs, rsps)
  BY <1>0, <1>2 DEF Counts
<1> QED
  BY <1>0, <1>1, <1>2, <1>3, ReturnInv

\* The answer to GIVE_PUB.
LEMMA GivePubReturnInv ==
  ASSUME HandshakeInv, Aside, attempts' = attempts, NEW r \in rsps,
         GivePubReturn(r)
  PROVE  HandshakeInv'
<1>0. wait.t = "GIVE_PUB" /\ wait.t \in ConnectTypes
  BY DEF GivePubReturn, ConnectTypes
<1>1. /\ ctx.key.ph = "HS" /\ Len(ctx.key.th) >= 2 /\ Attempt(ctx.key) = attempts
      /\ ctx.trans = ctx.key.th /\ ctx.state # "CONNECTED" /\ ctx.mode \in Modes
  BY <1>0 DEF HandshakeInv, CallInv, CurrentKey
<1>2. CASE FailAfter(r)
  BY <1>1, <1>2, FailAfterInv
<1>3. CASE ReqOpens(r) /\ AskFinish(Opened, "FINISH")
  <2>1. Opened = AfterOpen(r)
    BY <1>3 DEF AfterOpen
  <2>2. /\ Opened \in Contexts
        /\ Opened.state = ctx.state /\ Opened.mode = ctx.mode
        /\ Opened.trans = ctx.trans /\ Opened.key = ctx.key
        /\ Opened.reqSeq = ctx.reqSeq
        /\ Counts(Opened, reqs, rsps)
    BY <2>1, AfterOpenFits
  <2>3. Counts(Opened, {}, rsps)
    BY <2>2 DEF Counts
  <2>4. "FINISH" \in FinishTypes
    BY DEF FinishTypes
  <2> QED
    BY <1>0, <1>1, <1>3, <2>2, <2>3, <2>4, AskFinishInv
<1> QED
  BY <1>2, <1>3 DEF GivePubReturn

\* The answer to a command, or to END_SESSION.
LEMMA CommandReturnInv ==
  ASSUME HandshakeInv, Aside, attempts' = attempts, NEW r \in rsps,
         lost' = 0 /\ late' = 0 =>
           lost = 0 /\ late = 0 /\ link = "ANSWERED" /\ r = answer,
         CommandReturn(r)
  PROVE  HandshakeInv'
<1>1. CASE wait.t = "TPM2_CMD" /\ Return(AfterOpen(r))
  <2>1. ctx' = AfterOpen(r) /\ Return(ctx')
    BY <1>1 DEF Return
  <2>2. ctx.state = "CONNECTED" /\ ctx.key.ph = "APP"
    BY <1>1 DEF HandshakeInv, CallInv, CommandTypes
  <2>3. /\ ctx' \in Contexts /\ ctx'.state = ctx.state /\ ctx'.key = ctx.key
        /\ ctx'.reqSeq = ctx.reqSeq
        /\ ctx'.rspSeq = IF ReqOpens(r) THEN ctx.rspSeq + 1 ELSE ctx.rspSeq
        /\ Counts(ctx', reqs, rsps)
    BY <2>1, AfterOpenFits
  <2>4. ASSUME lost' = 0, late' = 0 PROVE Level(0, 0)'
    <3>1. /\ Level(0, 1)
          /\ r.sec /\ r.key = ctx.key /\ r.seq = ctx.rspSeq
      BY <1>1, <2>4 DEF HandshakeInv, StepInv
    <3>2. ReqOpens(r)
      BY <3>1 DEF ReqOpens
    <3>3. /\ rs' = rs /\ ctx.rspSeq \in Nat /\ rs.rspSeq \in Nat
          /\ rs.reqSeq \in Nat /\ ctx.reqSeq \in Nat
      BY SessionFields, ContextFields
      DEF Aside, respVars, HandshakeInv, RespInv, TypeInv, WireInv
    <3>4. ctx'.rspSeq = ctx.rspSeq + 1
      BY <2>3, <3>2
    <3> QED
      BY <2>3, <3>1, <3>3, <3>4 DEF Level
  <2> QED
    BY <2>1, <2>2, <2>3, <2>4, ReturnInv
<1>2. CASE Return(ResetSession(ctx.mode))
  <2>1. ctx.mode \in Modes \union {"NONE"}
    BY ContextFields DEF HandshakeInv, WireInv
  <2> QED
    BY <1>2, <2>1, ResetReturns
<1> QED
  BY <1>1, <1>2 DEF CommandReturn

\* The session that FINISH_RSP ends the handshake with: one the responder
\* accepted, and a new one.
LEMMA AdoptedKey ==
  ASSUME HandshakeInv, NEW r \in rsps, link # "IDLE", wait.t \in FinishTypes,
         ReqOpens(r), r.t = "FINISH_RSP",
         NEW th, th = Append(ctx.trans, Token("FINISH_RSP", 0)),
         NEW app, app = Key("APP", ctx.key.secret, th)
  PROVE  /\ th \in Seq(Tokens) /\ app \in Keys /\ app.ph = "APP"
         /\ app \in accepted /\ app \notin adopted
         /\ Attempt(app) = attempts
         /\ \A m \in reqs : m.sec => m.key # app
         /\ ctx.state # "CONNECTED"
<1>0. /\ ctx.trans \in Seq(Tokens) /\ ctx.key \in Keys /\ ctx.key.th \in Seq(Tokens)
      /\ ctx.key.secret \in Secrets /\ attempts \in Nat /\ wait \in reqs
  BY ContextFields, KeyFields DEF HandshakeInv, WireInv
<1>1. wait.t \in ConnectTypes
  BY DEF ConnectTypes
<1>2. /\ ctx.key.ph = "HS" /\ Len(ctx.key.th) >= 2 /\ Attempt(ctx.key) = attempts
      /\ ctx.trans = Append(ctx.key.th, Token(wait.t, 0))
      /\ wait.key = ctx.key /\ wait.mac.th = ctx.trans
      /\ ctx.state # "CONNECTED"
  BY <1>1 DEF HandshakeInv, CallInv, CurrentKey
<1>3. Token(wait.t, 0) \in Tokens /\ Token("FINISH_RSP", 0) \in Tokens
  BY TokenType DEF FinishTypes, TokenNames
<1>4. /\ Len(ctx.trans) = Len(ctx.key.th) + 1
      /\ \A i \in 1..Len(ctx.key.th) : ctx.trans[i] = ctx.key.th[i]
  BY <1>0, <1>2, <1>3, AppendToken
<1>5. /\ th \in Seq(Tokens) /\ Len(th) = Len(ctx.trans) + 1
      /\ \A i \in 1..Len(ctx.trans) : th[i] = ctx.trans[i]
  BY <1>0, <1>3, AppendToken
<1>6. app \in Keys /\ app.ph = "APP" /\ app.th = th
  <2>1. "APP" \in Phases
    BY DEF Phases
  <2>2. app \in Keys
    BY <1>0, <1>5, <2>1, KeyType
  <2>3. app.ph = "APP" /\ app.th = th
    BY DEF Key
  <2> QED
    BY <2>2, <2>3
<1>7. Attempt(app) = attempts
  <2> DEFINE n == Len(ctx.key.th)
  <2>1. n \in Nat /\ n >= 2 /\ Len(th) - 3 = n - 1
    BY <1>0, <1>2, <1>4, <1>5
  <2>2. n - 1 \in 1..n /\ n - 1 \in 1..Len(ctx.trans)
    BY <1>4, <2>1
  <2>3. th[n - 1] = ctx.key.th[n - 1]
    BY <1>4, <1>5, <2>2
  <2>4. Attempt(ctx.key) = ctx.key.th[n - 1].n
    BY <1>2 DEF Attempt
  <2>5. Attempt(app) = th[Len(th) - 3].n
    BY <1>6 DEF Attempt
  <2> QED
    BY <1>2, <2>1, <2>3, <2>4, <2>5
<1>8. app \notin adopted
  BY <1>1, <1>7 DEF HandshakeInv, FreshInv
<1>9. \A m \in reqs : m.sec => m.key # app
  BY <1>1, <1>6, <1>7 DEF HandshakeInv, FreshInv
<1>10. app \in accepted
  <2>1. r.sec /\ r.key = ctx.key
    BY DEF ReqOpens
  <2>2. PICK m \in reqs :
          /\ m.t \in FinishTypes /\ m.key = r.key
          /\ Key("APP", r.key.secret, Append(m.mac.th, Token("FINISH_RSP", 0)))
               \in accepted
    BY <2>1 DEF HandshakeInv, FinishInv
  <2>3. m.mac.th = wait.mac.th
    BY <1>0, <1>2, <2>1, <2>2 DEF HandshakeInv, FinishInv
  <2> QED
    BY <1>2, <2>1, <2>2, <2>3
<1> QED
  BY <1>2, <1>5, <1>6, <1>7, <1>8, <1>9, <1>10

\* The answer to a finish.
LEMMA FinishReturnInv ==
  ASSUME HandshakeInv, Aside, attempts' = attempts, NEW r \in rsps, link # "IDLE",
         lost' = 0 /\ late' = 0 =>
           lost = 0 /\ late = 0 /\ link = "ANSWERED" /\ r = answer,
         FinishReturn(r)
  PROVE  HandshakeInv'
<1> DEFINE th  == Append(ctx.trans, Token("FINISH_RSP", 0))
           app == Key("APP", ctx.key.secret, th)
           c   == [ctx EXCEPT !.trans = th, !.state = "CONNECTED", !.key = app,
                              !.reqSeq = 0, !.rspSeq = 0]
<1>0. /\ wait.t \in FinishTypes /\ ctx \in Contexts /\ attempts \in Nat
      /\ wait.t \in ConnectTypes
  BY DEF FinishReturn, FinishTypes, ConnectTypes, HandshakeInv, WireInv
<1>1. CASE FailAfter(r)
  <2>1. ctx.key.ph = "HS"
    BY <1>0 DEF HandshakeInv, CallInv, CurrentKey
  <2> QED
    BY <1>1, <2>1, FailAfterInv
<1>2. CASE /\ ReqOpens(r) /\ r.t = "FINISH_RSP"
           /\ ctx' = c /\ wait' = NoRequest /\ link' = "IDLE"
           /\ adopted' = adopted \union {c.key} /\ reqs' = reqs
  <2>1. /\ th \in Seq(Tokens) /\ app \in Keys /\ app.ph = "APP"
        /\ Attempt(app) = attempts
        /\ \A m \in reqs : m.sec => m.key # app
    <3>1. ASSUME NEW h, h = th, NEW a, a = app
          PROVE  /\ h \in Seq(Tokens) /\ a \in Keys /\ a.ph = "APP"
                 /\ Attempt(a) = attempts
                 /\ \A m \in reqs : m.sec => m.key # a
      BY <1>0, <1>2, <3>1, AdoptedKey
    <3> QED
      BY <3>1
  <2>2. /\ wait.mac.th = ctx.trans
    BY <1>0 DEF HandshakeInv, CallInv
  <2>3. app = Key("APP", ctx.key.secret,
                  Append(wait.mac.th, Token("FINISH_RSP", 0)))
    BY <2>2
  <2> HIDE DEF th, app
  <2>4. /\ ctx' \in Contexts /\ ctx'.state = "CONNECTED" /\ ctx'.key = app
        /\ ctx'.reqSeq = 0 /\ ctx'.rspSeq = 0 /\ c.key = app
    BY <1>0, <1>2, <2>1 DEF Contexts
  <2> HIDE DEF c
  <2>5. /\ wait'.t = "NONE"
        /\ "NONE" \notin ConnectTypes /\ "NONE" \notin CommandTypes
        /\ "NONE" \notin ClearTypes /\ "NONE" \notin ExchangeTypes
        /\ "NONE" \notin FinishTypes
    BY <1>2 DEF NoRequest, ConnectTypes, ClearTypes, ExchangeTypes, FinishTypes,
                CommandTypes
  <2>6. RespInv'
    BY RespStutter DEF HandshakeInv, Aside
  <2>7. WireInv'
    BY <1>0, <1>2, <2>4 DEF HandshakeInv, WireInv, Aside, ReqOK, RspOK, respVars
  <2>8. CallInv'
    BY <1>2, <2>1, <2>4, <2>5 DEF CallInv
  <2>9. FreshInv'
    <3>1. attempts \in 0..attempts
      BY <1>0
    <3>2. \A k \in adopted' : Attempt(k) \in 0..attempts'
      BY <1>2, <2>1, <2>4, <3>1 DEF HandshakeInv, FreshInv
    <3>3. \A m \in reqs' : m.sec =>
            m.key.ph \in {"HS", "APP"} /\ Attempt(m.key) \in 0..attempts'
      BY <1>2 DEF HandshakeInv, FreshInv
    <3> QED
      BY <2>5, <3>2, <3>3, Zenon DEF FreshInv
  <2>10. FinishInv'
    BY <1>2 DEF HandshakeInv, FinishInv, Aside
  <2>11. CountInv'
    BY <1>2, <2>1, <2>4 DEF HandshakeInv, CountInv, Aside, respVars
  <2>12. StepInv'
    <3>1. ASSUME lost' = 0, late' = 0 PROVE Level(0, 0)'
      <4>1. r.sec /\ r.key = ctx.key
        BY <1>2 DEF ReqOpens
      <4>2. /\ rs.state = "CONNECTED" /\ rs.reqSeq = 0 /\ rs.rspSeq = 0
            /\ rs.key = Key("APP", r.key.secret,
                            Append(wait.mac.th, Token("FINISH_RSP", 0)))
        BY <1>0, <1>2, <3>1, <4>1 DEF HandshakeInv, StepInv
      <4>3. rs' = rs
        BY DEF Aside, respVars
      <4> QED
        BY <2>3, <2>4, <4>1, <4>2, <4>3 DEF Level
    <3> QED
      BY <1>2, <2>5, <3>1 DEF StepInv
  <2> QED
    BY <2>6, <2>7, <2>8, <2>9, <2>10, <2>11, <2>12 DEF HandshakeInv
<1> QED
  BY <1>1, <1>2 DEF FinishReturn

\* Whatever reply the blocked call is handed.
LEMMA ReceiveInv ==
  ASSUME HandshakeInv, Aside, attempts' = attempts, NEW r \in rsps, link # "IDLE",
         lost' = 0 /\ late' = 0 =>
           lost = 0 /\ late = 0 /\ link = "ANSWERED" /\ r = answer,
         Receive(r)
  PROVE  HandshakeInv'
BY NegotiateReturnInv, GetPubKeyReturnInv, KeyExchangeReturnInv,
   PskExchangeReturnInv, GivePubReturnInv, FinishReturnInv, CommandReturnInv
DEF Receive

\* The replies that arrive in time, and the late ones.
LEMMA RepliesInv ==
  ASSUME HandshakeInv, UNCHANGED <<respVars, accepted>>, DeliverReply \/ LateReply
  PROVE  HandshakeInv'
<1>0. lost \in Nat /\ late \in Nat
  BY DEF HandshakeInv, WireInv
<1>1. CASE DeliverReply
  <2>1. /\ link = "ANSWERED" /\ answer \in rsps /\ Receive(answer)
        /\ attempts' = attempts /\ lost' = lost /\ late' = late /\ rsps' = rsps
    BY <1>1 DEF DeliverReply, HandshakeInv, WireInv
  <2>2. Aside
    BY <1>0, <2>1 DEF Aside
  <2> QED
    BY <2>1, <2>2, ReceiveInv
<1>2. CASE LateReply
  <2>1. /\ link # "IDLE" /\ late' = late + 1
        /\ attempts' = attempts /\ lost' = lost /\ rsps' = rsps
    BY <1>2 DEF LateReply
  <2>2. PICK r \in rsps : Receive(r)
    BY <1>2 DEF LateReply
  <2>3. late' \in Nat /\ late' # 0
    BY <1>0, <2>1
  <2>4. Aside
    BY <1>0, <2>1, <2>3 DEF Aside
  <2> QED
    BY <2>1, <2>2, <2>3, <2>4, ReceiveInv
<1> QED
  BY <1>1, <1>2

-----------------------------------------------------------------------------
(* The invariant of the handshake *)

\* A fresh responder and a fresh requester.
LEMMA HandshakeInit ==
  ASSUME Init
  PROVE  HandshakeInv
<1>1. /\ reqs = {} /\ rsps = {} /\ adopted = {} /\ accepted = {}
      /\ wait = NoRequest /\ link = "IDLE"
      /\ attempts = 0 /\ lost = 0 /\ late = 0
  BY DEF Init
<1>2. PICK has \in HostKeys :
        ctx = [state |-> "INIT", mode |-> "NONE", trans |-> <<>>, key |-> NoKey,
               reqSeq |-> 0, rspSeq |-> 0, hasReqKeyPair |-> has,
               psk |-> IF "PSK" \in Modes THEN 1 ELSE 0]
  BY DEF Init
<1>3. has \in BOOLEAN /\ <<>> \in Seq(Tokens)
  BY HandshakeAssumption
<1>4. /\ ctx \in Contexts /\ ctx.state = "INIT" /\ ctx.key = NoKey
      /\ ctx.reqSeq = 0 /\ ctx.rspSeq = 0
  BY <1>2, <1>3, NoKeyType DEF Contexts
<1>5. RespInv
  <2>1. prov \in Provs /\ prov.clearAuth = 0
    BY DEF Init, Provs, Pinned
  <2> QED
    BY <2>1, InitInv DEF Init
<1>6. rs.reqSeq = 0
  BY DEF Init, RespInit, NewSession
<1>7. wait.t = "NONE"
  BY <1>1 DEF NoRequest
<1>8. WireInv
  BY <1>1, <1>4 DEF WireInv
<1>9. CallInv
  BY <1>1, <1>4, <1>7, NoKeyType
  DEF CallInv, CommandTypes, ConnectTypes, ClearTypes, ExchangeTypes, FinishTypes
<1>10. FreshInv /\ FinishInv
  BY <1>1 DEF FreshInv, FinishInv
<1>11. CountInv
  BY <1>1, <1>4, <1>6 DEF CountInv
<1>12. StepInv
  BY <1>1, <1>4, <1>7 DEF StepInv, FinishTypes
<1> QED
  BY <1>5, <1>8, <1>9, <1>10, <1>11, <1>12 DEF HandshakeInv

\* Every step keeps the invariant.
LEMMA HandshakeNext ==
  ASSUME HandshakeInv, [Next]_vars
  PROVE  HandshakeInv'
<1>1. CASE Deliver
  BY <1>1, DeliverInv
<1>2. CASE LateRequest
  BY <1>2, LateRequestInv
<1>3. CASE Requester
  <2>0. UNCHANGED <<respVars, accepted>>
    BY <1>3 DEF Requester
  <2>1. ASSUME NEW mode \in Modes, Connect(mode) PROVE HandshakeInv'
    BY <2>0, <2>1, ConnectInv
  <2>2. ASSUME NEW t \in {"TPM2_CMD", "END_SESSION"}, Command(t) PROVE HandshakeInv'
    BY <2>0, <2>2, CommandInv DEF CommandTypes
  <2>3. CASE ConnectNoPsk \/ SetPSK
    BY <2>0, <2>3, PskCallsInv
  <2>4. CASE DeliverReply \/ LateReply
    BY <2>0, <2>4, RepliesInv
  <2>5. CASE IoFail
    BY <2>0, <2>5, IoFailInv
  <2>6. CASE Lose
    BY <2>0, <2>6, LoseInv
  <2> QED
    BY <1>3, <2>1, <2>2, <2>3, <2>4, <2>5, <2>6 DEF Requester
<1>4. CASE UNCHANGED vars
  <2>1. /\ UNCHANGED respVars
        /\ UNCHANGED <<ctx, wait, link, answer, reqs, rsps, attempts, lost, late,
                       adopted, accepted>>
    BY <1>4 DEF vars, reqVars
  <2>2. RespInv'
    BY <2>1, RespStutter DEF HandshakeInv
  <2>3. rs' = rs /\ sealed' = sealed
    BY <2>1 DEF respVars
  <2>4. WireInv' /\ CallInv'
    BY <2>1, <2>3 DEF HandshakeInv, WireInv, ReqOK, RspOK, CallInv, CurrentKey
  <2>5. FreshInv' /\ FinishInv' /\ CountInv'
    BY <2>1, <2>3 DEF HandshakeInv, FreshInv, FinishInv, CountInv
  <2>6. StepInv'
    BY <2>1, <2>3 DEF HandshakeInv, StepInv, Level
  <2> QED
    BY <2>2, <2>4, <2>5, <2>6 DEF HandshakeInv
<1> QED
  BY <1>1, <1>2, <1>3, <1>4 DEF Next

\* The inductive invariant of the handshake, against a transport that loses,
\* repeats and delays frames.
THEOREM HandshakeInvariant == Spec => []HandshakeInv
<1>1. Init => HandshakeInv
  BY HandshakeInit
<1>2. HandshakeInv /\ [Next]_vars => HandshakeInv'
  BY HandshakeNext
<1> QED
  BY <1>1, <1>2, PTL DEF Spec

\* The context, the call and the wire keep their types: no call is left half
\* done, and counters start with the keys.
THEOREM HandshakeTypes == Spec => []HandshakeTypeOK
<1>1. HandshakeInv => HandshakeTypeOK
  BY ContextFields DEF HandshakeInv, WireInv, CallInv, HandshakeTypeOK
<1> QED
  BY <1>1, HandshakeInvariant, PTL

\* Under shared keys neither side of wolfSPDM_DecryptRecord and RespDecrypt
\* has opened a record the other has not sealed.
THEOREM HandshakeCounters == Spec => []CountersNeverCross
<1>1. ASSUME HandshakeInv PROVE CountersNeverCross
  <2>1. SUFFICES ASSUME ctx.key = rs.key, ctx.key # NoKey
                 PROVE  rs.reqSeq <= ctx.reqSeq /\ ctx.rspSeq <= rs.rspSeq
    BY DEF CountersNeverCross
  <2>2. /\ rs.reqSeq \in Nat /\ rs.rspSeq \in Nat
        /\ ctx.reqSeq \in Nat /\ ctx.rspSeq \in Nat
    BY <1>1, SessionFields, ContextFields
    DEF HandshakeInv, RespInv, TypeInv, WireInv
  <2>3. rs.reqSeq <= ctx.reqSeq
    <3>1. CASE rs.reqSeq > 0
      <4>1. rs.key.ph # "MIXED"
        BY <1>1, <2>1 DEF HandshakeInv, CallInv
      <4>2. PICK m \in reqs : m.sec /\ m.key = rs.key /\ rs.reqSeq = m.seq + 1
        BY <1>1, <3>1, <4>1 DEF HandshakeInv, CountInv
      <4>3. m.seq < ctx.reqSeq /\ m.seq \in Nat
        BY <1>1, <2>1, <4>2 DEF HandshakeInv, CountInv, WireInv, ReqOK
      <4> QED
        BY <2>2, <4>2, <4>3
    <3>2. CASE rs.reqSeq = 0
      BY <2>2, <3>2
    <3> QED
      BY <2>2, <3>1, <3>2
  <2>4. ctx.rspSeq <= rs.rspSeq
    <3>1. CASE ctx.rspSeq > 0
      <4>1. PICK r \in rsps : r.sec /\ r.key = ctx.key /\ ctx.rspSeq = r.seq + 1
        BY <1>1, <3>1 DEF HandshakeInv, CountInv
      <4>2. <<r.key, r.seq>> \in sealed
        BY <1>1, <4>1 DEF HandshakeInv, WireInv, RspOK
      <4>3. r.seq < rs.rspSeq /\ r.seq \in Nat
        BY <1>1, <2>1, <4>1, <4>2 DEF HandshakeInv, RespInv, SealInv, TypeInv
      <4> QED
        BY <2>2, <4>1, <4>3
    <3>2. CASE ctx.rspSeq = 0
      BY <2>2, <3>2
    <3> QED
      BY <2>2, <3>1, <3>2
  <2> QED
    BY <2>3, <2>4
<1> QED
  BY <1>1, HandshakeInvariant, PTL

\* A transport that delivers everything leaves a connected requester and the
\* responder with the same keys and counters after every call.
THEOREM HandshakeInStep == Spec => []InStep
<1>1. ASSUME HandshakeInv PROVE InStep
  <2>1. SUFFICES ASSUME lost = 0, late = 0, link = "IDLE", ctx.state = "CONNECTED"
                 PROVE  /\ rs.state = "CONNECTED" /\ rs.key = ctx.key
                        /\ rs.reqSeq = ctx.reqSeq /\ rs.rspSeq = ctx.rspSeq
    BY DEF InStep
  <2>2. /\ rs.reqSeq \in Nat /\ ctx.rspSeq \in Nat
    BY <1>1, SessionFields, ContextFields
    DEF HandshakeInv, RespInv, TypeInv, WireInv
  <2>3. Level(0, 0)
    BY <1>1, <2>1 DEF HandshakeInv, StepInv
  <2> QED
    BY <2>2, <2>3 DEF Level
<1> QED
  BY <1>1, HandshakeInvariant, PTL

-----------------------------------------------------------------------------
(* The handshake implements SessionSpec *)

\* A step that enters no session: the requester keeps its own or leaves it.
Stays == /\ accepted' = accepted /\ adopted' = adopted
         /\ ctx'.state = "CONNECTED" => ctx.state = "CONNECTED" /\ ctx'.key = ctx.key

\* It leaves, or nothing happens.
LEMMA StaysStep ==
  ASSUME Stays
  PROVE  [S!Next]_S!vars
<1>1. CASE ctx'.state = "CONNECTED"
  BY <1>1 DEF Stays, S!vars
<1>2. CASE ctx'.state # "CONNECTED" /\ ctx.state = "CONNECTED"
  BY <1>2 DEF Stays, S!Next, S!Leave
<1>3. CASE ctx'.state # "CONNECTED" /\ ctx.state # "CONNECTED"
  BY <1>3 DEF Stays, S!vars
<1> QED
  BY <1>1, <1>2, <1>3

\* A request that reaches the responder lets it accept at most one session.
LEMMA AcceptStep ==
  ASSUME Accepts, UNCHANGED <<ctx, adopted>>
  PROVE  [S!Next]_S!vars
<1>1. CASE accepted' = accepted
  BY <1>1 DEF S!vars
<1>2. CASE accepted' # accepted
  <2>1. accepted' = accepted \union {rs'.key} /\ rs'.key \notin accepted
    BY <1>2 DEF Accepts
  <2>2. S!Accept
    BY <2>1 DEF S!Accept
  <2> QED
    BY <2>2 DEF S!Next
<1> QED
  BY <1>1, <1>2

\* A reply to a call of Connect that goes on, fails, or ends in a session; a
\* reply to a command, or to END_SESSION.
LEMMA ReceiveStep ==
  ASSUME HandshakeInv, NEW r \in rsps, link # "IDLE", accepted' = accepted,
         Receive(r)
  PROVE  [S!Next]_S!vars
<1>0. ctx \in Contexts
  BY DEF HandshakeInv, WireInv
<1>1. ASSUME ctx'.state # "CONNECTED", adopted' = adopted PROVE [S!Next]_S!vars
  BY <1>1, StaysStep DEF Stays
<1>2. CASE Fail
  <2>1. ctx'.state = "ERROR" /\ adopted' = adopted
    BY <1>0, <1>2 DEF Fail, Return, Contexts
  <2> QED
    BY <1>1, <2>1
<1>3. CASE FailAfter(r)
  <2>1. AfterOpen(r) \in Contexts
    BY AfterOpenFits
  <2>2. ctx' = [AfterOpen(r) EXCEPT !.state = "ERROR"] /\ adopted' = adopted
    BY <1>3 DEF FailAfter, Return
  <2>3. ctx'.state = "ERROR"
    BY <2>1, <2>2 DEF Contexts
  <2> QED
    BY <1>1, <2>2, <2>3
<1>4. ASSUME NEW th, NEW s \in {"VERSION", "CERT"}, NEW t,
             AskNext([ctx EXCEPT !.trans = th, !.state = s], t)
      PROVE  [S!Next]_S!vars
  <2> DEFINE c == [ctx EXCEPT !.trans = th, !.state = s]
  <2>1. c.state = s /\ DOMAIN c = DOMAIN ctx
    BY <1>0, <1>4 DEF Contexts
  <2>2. \E u : ctx' = [c EXCEPT !.trans = u]
    BY <1>4 DEF AskNext, Continue
  <2> HIDE DEF c
  <2>3. ctx'.state = s
    <3>1. PICK u : ctx' = [c EXCEPT !.trans = u]
      BY <2>2
    <3>2. "state" \in DOMAIN c
      BY <1>0, <2>1 DEF Contexts
    <3> QED
      BY <2>1, <3>1, <3>2
  <2>4. adopted' = adopted
    BY <1>4 DEF AskNext, Continue
  <2> QED
    BY <1>1, <1>4, <2>3, <2>4
<1>5. ASSUME NEW c \in Contexts, c.state # "CONNECTED", NEW t, AskFinish(c, t)
      PROVE  [S!Next]_S!vars
  <2>1. /\ ctx' = [c EXCEPT !.trans = Append(c.trans, Token(t, 0)),
                            !.reqSeq = c.reqSeq + 1]
        /\ adopted' = adopted
    BY <1>5 DEF AskFinish
  <2>2. ctx'.state = c.state
    BY <1>5, <2>1 DEF Contexts
  <2> QED
    BY <1>1, <1>5, <2>1, <2>2
<1>6. CASE NegotiateReturn(r)
  BY <1>2, <1>4, <1>6 DEF NegotiateReturn
<1>7. CASE GetPubKeyReturn(r)
  BY <1>2, <1>4, <1>7 DEF GetPubKeyReturn
<1>8. CASE GivePubReturn(r)
  <2>1. ctx.state # "CONNECTED"
    BY <1>8 DEF GivePubReturn, HandshakeInv, CallInv, ConnectTypes
  <2>2. ASSUME ReqOpens(r) PROVE Opened \in Contexts /\ Opened.state = ctx.state
    BY <2>2, AfterOpenFits DEF AfterOpen
  <2> QED
    BY <1>3, <1>5, <1>8, <2>1, <2>2 DEF GivePubReturn
<1>9. CASE CommandReturn(r)
  <2>1. CASE wait.t = "TPM2_CMD" /\ Return(AfterOpen(r))
    <3>1. ctx.state = "CONNECTED"
      BY <2>1 DEF HandshakeInv, CallInv, CommandTypes
    <3>2. ctx'.key = ctx.key /\ adopted' = adopted
      BY <2>1, AfterOpenFits DEF Return
    <3> QED
      BY <3>1, <3>2, StaysStep DEF Stays
  <2>2. CASE Return(ResetSession(ctx.mode))
    <3>1. ctx'.state = "INIT" /\ adopted' = adopted
      BY <1>0, <2>2 DEF Return, ResetSession, Contexts
    <3> QED
      BY <1>1, <3>1
  <2> QED
    BY <1>9, <2>1, <2>2 DEF CommandReturn
<1>10. CASE FinishReturn(r)
  <2> DEFINE th  == Append(ctx.trans, Token("FINISH_RSP", 0))
             app == Key("APP", ctx.key.secret, th)
             c   == [ctx EXCEPT !.trans = th, !.state = "CONNECTED", !.key = app,
                                !.reqSeq = 0, !.rspSeq = 0]
  <2>1. wait.t \in FinishTypes
    BY <1>10 DEF FinishReturn, FinishTypes
  <2>2. CASE /\ ReqOpens(r) /\ r.t = "FINISH_RSP"
             /\ ctx' = c /\ adopted' = adopted \union {c.key}
    <3>1. app \in accepted /\ app \notin adopted /\ ctx.state # "CONNECTED"
      <4>1. ASSUME NEW h, h = th, NEW a, a = app
            PROVE  a \in accepted /\ a \notin adopted /\ ctx.state # "CONNECTED"
        BY <2>1, <2>2, <4>1, AdoptedKey
      <4> QED
        BY <4>1
    <3> HIDE DEF th, app
    <3>2. ctx'.state = "CONNECTED" /\ ctx'.key = app /\ c.key = app
      BY <1>0, <2>2 DEF Contexts
    <3> HIDE DEF c
    <3>3. S!Adopt
      BY <2>2, <3>1, <3>2 DEF S!Adopt
    <3> QED
      BY <3>3 DEF S!Next
  <2> QED
    BY <1>3, <1>10, <2>2 DEF FinishReturn
<1>11. CASE KeyExchangeReturn(r)
  <2> DEFINE th1 == Append(ctx.trans, Token("KEY_EXCHANGE_RSP", r.n))
             key == Key("HS", Secret("DH", attempts, r.n), th1)
             c   == [ctx EXCEPT !.trans = th1, !.state = "KEY_EX", !.key = key]
  <2>1. \/ Fail
        \/ \E m : Continue([c EXCEPT !.reqSeq = 1], m)
        \/ AskFinish(c, "FINISH")
    BY <1>11 DEF KeyExchangeReturn
  <2> HIDE DEF th1, key
  <2>2. c.state = "KEY_EX" /\ DOMAIN c = DOMAIN ctx /\ "state" \in DOMAIN ctx
    BY <1>0 DEF Contexts
  <2> HIDE DEF c
  <2>3. ASSUME NEW u, NEW n,
               \/ ctx' = [c EXCEPT !.reqSeq = n]
               \/ ctx' = [c EXCEPT !.trans = u, !.reqSeq = n]
        PROVE  ctx'.state = "KEY_EX"
    BY <2>2, <2>3
  <2>4. CASE AskFinish(c, "FINISH")
    <3>1. ctx'.state = "KEY_EX" /\ adopted' = adopted
      BY <2>3, <2>4 DEF AskFinish
    <3> QED
      BY <1>1, <3>1
  <2>5. ASSUME NEW m, Continue([c EXCEPT !.reqSeq = 1], m) PROVE [S!Next]_S!vars
    <3>1. ctx'.state = "KEY_EX" /\ adopted' = adopted
      BY <2>3, <2>5 DEF Continue
    <3> QED
      BY <1>1, <3>1
  <2> QED
    BY <1>2, <2>1, <2>4, <2>5
<1>12. CASE PskExchangeReturn(r)
  <2> DEFINE th1 == Append(ctx.trans, Token("PSK_EXCHANGE_RSP", r.n))
             key == Key("HS", Secret("PSK", ctx.psk, 0), th1)
             c   == [ctx EXCEPT !.trans = th1, !.psk = 0, !.key = key]
             d   == [c EXCEPT !.state = "KEY_EX"]
  <2>1. Fail \/ AskFinish(d, "PSK_FINISH") \/ Return([c EXCEPT !.state = "ERROR"])
    BY <1>12 DEF PskExchangeReturn
  <2> HIDE DEF th1, key
  <2>2. DOMAIN c = DOMAIN ctx /\ "state" \in DOMAIN ctx
    BY <1>0 DEF Contexts
  <2> HIDE DEF c
  <2>3. d.state = "KEY_EX" /\ "state" \in DOMAIN d
    BY <2>2
  <2> HIDE DEF d
  <2>4. CASE AskFinish(d, "PSK_FINISH")
    <3>1. /\ ctx' = [d EXCEPT !.trans = Append(d.trans, Token("PSK_FINISH", 0)),
                              !.reqSeq = d.reqSeq + 1]
          /\ adopted' = adopted
      BY <2>4 DEF AskFinish
    <3>2. ctx'.state = "KEY_EX"
      BY <2>3, <3>1
    <3> QED
      BY <1>1, <3>1, <3>2
  <2>5. CASE Return([c EXCEPT !.state = "ERROR"])
    <3>1. ctx'.state = "ERROR" /\ adopted' = adopted
      BY <2>2, <2>5 DEF Return
    <3> QED
      BY <1>1, <3>1
  <2> QED
    BY <1>2, <2>1, <2>4, <2>5
<1> QED
  BY <1>6, <1>7, <1>8, <1>9, <1>10, <1>11, <1>12 DEF Receive

\* Every step of the handshake is a step of SessionSpec, or none.
LEMMA HandshakeStep ==
  ASSUME HandshakeInv, [Next]_vars
  PROVE  [S!Next]_S!vars
<1>0. ctx \in Contexts
  BY DEF HandshakeInv, WireInv
<1>1. CASE Deliver
  <2>1. UNCHANGED <<ctx, adopted>> /\ (Accepts \/ accepted' = accepted)
    BY <1>1 DEF Deliver
  <2> QED
    BY <2>1, AcceptStep, StaysStep DEF Stays
<1>2. CASE LateRequest
  BY <1>2, AcceptStep DEF LateRequest
<1>3. CASE Requester
  <2>0. accepted' = accepted
    BY <1>3 DEF Requester
  <2>1. ASSUME NEW mode \in Modes, Connect(mode) PROVE Stays
    <3>1. <<Token("GET_VERSION", 0)>> \in Seq(Tokens)
      <4>1. Token("GET_VERSION", 0) \in Tokens
        BY TokenType DEF TokenNames
      <4> QED
        BY <4>1
    <3>2. ctx'.state = "INIT" /\ adopted' = adopted
      BY <1>0, <2>1, <3>1, ResetType DEF Connect, Continue
    <3> QED
      BY <2>0, <3>2 DEF Stays
  <2>2. CASE ConnectNoPsk
    <3>1. ctx'.state = "INIT" /\ adopted' = adopted
      BY <1>0, <2>2 DEF ConnectNoPsk, Return, ResetSession, Contexts
    <3> QED
      BY <2>0, <3>1, StaysStep DEF Stays
  <2>3. CASE SetPSK
    <3>1. ctx'.state = ctx.state /\ ctx'.key = ctx.key /\ adopted' = adopted
      BY <1>0, <2>3 DEF SetPSK, Contexts
    <3> QED
      BY <2>0, <3>1, StaysStep DEF Stays
  <2>4. ASSUME NEW t, Command(t) PROVE Stays
    <3>1. ctx'.state = ctx.state /\ ctx'.key = ctx.key /\ adopted' = adopted
      BY <1>0, <2>4 DEF Command, Continue, Contexts
    <3> QED
      BY <2>0, <3>1 DEF Stays
  <2>5. CASE DeliverReply
    <3>1. link = "ANSWERED" /\ answer \in rsps /\ Receive(answer)
      BY <2>5 DEF DeliverReply, HandshakeInv, WireInv
    <3> QED
      BY <2>0, <3>1, ReceiveStep
  <2>6. CASE LateReply
    <3>1. link # "IDLE" /\ \E r \in rsps : Receive(r)
      BY <2>6 DEF LateReply
    <3> QED
      BY <2>0, <3>1, ReceiveStep
  <2>7. CASE IoFail
    <3>1. CASE wait.t = "TPM2_CMD"
      BY <2>0, <2>7, <3>1, StaysStep DEF IoFail, Return, Stays
    <3>2. CASE wait.t = "END_SESSION"
      <4>1. ctx' = ResetSession(ctx.mode) /\ adopted' = adopted
        BY <2>7, <3>2 DEF IoFail, Return
      <4>2. ctx'.state = "INIT"
        BY <1>0, <4>1 DEF ResetSession, Contexts
      <4> QED
        BY <2>0, <4>1, <4>2, StaysStep DEF Stays
    <3>3. CASE wait.t \notin {"TPM2_CMD", "END_SESSION"}
      <4>1. ctx' = [ctx EXCEPT !.state = "ERROR"] /\ adopted' = adopted
        BY <2>7, <3>3 DEF IoFail, Fail, Return
      <4>2. ctx'.state = "ERROR"
        BY <1>0, <4>1 DEF Contexts
      <4> QED
        BY <2>0, <4>1, <4>2, StaysStep DEF Stays
    <3> QED
      BY <3>1, <3>2, <3>3
  <2>8. CASE Lose
    BY <2>0, <2>8, StaysStep DEF Lose, Stays
  <2> QED
    BY <1>3, <2>1, <2>2, <2>3, <2>4, <2>5, <2>6, <2>7, <2>8, StaysStep
    DEF Requester
<1>4. CASE UNCHANGED vars
  <2>1. Stays
    BY <1>4 DEF vars, reqVars, Stays
  <2> QED
    BY <2>1, StaysStep
<1> QED
  BY <1>1, <1>2, <1>3, <1>4 DEF Next

\* The session a wolfSPDM_Connect ends in is one the responder accepted over
\* the same transcript and secret, and none is entered twice: whatever modes,
\* faults, losses and late frames.
THEOREM HandshakeImplementsSession == Spec => ImplementsSession
<1>1. Init => S!Init
  <2>1. Init => accepted = {} /\ adopted = {} /\ ctx.state = "INIT"
    BY DEF Init
  <2> QED
    BY <2>1 DEF S!Init
<1>2. HandshakeInv /\ [Next]_vars => [S!Next]_S!vars
  BY HandshakeStep
<1> QED
  BY <1>1, <1>2, HandshakeInvariant, PTL DEF Spec, ImplementsSession, S!Spec

=============================================================================
