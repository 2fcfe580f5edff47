--------------------------- MODULE SecuredSession ---------------------------
(***************************************************************************)
(* The requester's secured-message layer from wolfSPDM_Connect to          *)
(* wolfSPDM_Disconnect: sealing and opening records, the exchanges built   *)
(* on them, HEARTBEAT, KEY_UPDATE with its trial rotation and rollback,    *)
(* application data, and END_SESSION (spdm_secured.c, spdm_session.c,      *)
(* the key-update part of spdm_kdf.c, Connect/Disconnect of                *)
(* spdm_context.c).                                                        *)
(*                                                                         *)
(* A key is named by the handshake it comes from (sess) and a generation:  *)
(* 0 for handshake keys, 1 for the first application keys, n + 1 for the   *)
(* n-th "traffic upd" of one direction.  The transport may lose, delay,    *)
(* repeat and corrupt anything: every record ever sealed stays             *)
(* deliverable.  The responder is external; it behaves as the loopback     *)
(* peer of test/unit_test.c does.                                          *)
(*                                                                         *)
(* A call that waits for the transport is split at the I/O callback: the   *)
(* first step seals the request, a later one handles what the callback     *)
(* returned.  The context is not shared between threads, so nothing else   *)
(* touches it in between.                                                  *)
(***************************************************************************)
EXTENDS Naturals, FiniteSets

CONSTANTS
  Tcg,         \* the mode uses the TCG binding (64-bit sequence on the wire)
  SeqMax,      \* largest MCTP sequence number, 0xFFFF in the code
  Tags,        \* values of the random KEY_UPDATE tag
  PeerAnswers, \* what the responder may answer: ACK, ERROR, BAD (see Answer)
  HkdfFaults,  \* calls whose HKDF calls may fail
  MaxSessions, \* bound: handshakes
  MaxCalls     \* bound: API calls

ASSUME SecuredSessionAssumption ==
  /\ Tcg \in BOOLEAN
  /\ SeqMax \in Nat
  /\ Tags \subseteq Nat /\ 0 \in Tags
  /\ PeerAnswers \subseteq {"ACK", "ERROR", "BAD"}
  /\ HkdfFaults \subseteq {"FINISH", "UPDATE_KEY", "UPDATE_ALL"}
  /\ MaxSessions \in Nat
  /\ MaxCalls \in Nat

VARIABLES
  state,     \* ctx->state, between public calls
  sess,      \* the handshake the key material comes from, 0 once wiped
  req, rsp,  \* per direction: data key, IV, app secret, sequence number
  call,      \* the call blocked in the I/O callback
  rc,        \* the last call that returned, and how
  peer,      \* external: the responder's session
  sent,      \* every record the requester sealed
  replies,   \* every record the responder sealed
  opened,    \* replies the requester opened
  nextSess,  \* the next handshake
  calls,     \* API calls so far
  reused,    \* history: a nonce was used twice under one key
  replayed   \* history: one reply was opened twice

vars == <<state, sess, req, rsp, call, rc, peer, sent, replies, opened, nextSess,
          calls, reused, replayed>>

-----------------------------------------------------------------------------
(* Data *)

States == {"INIT", "KEY_EX", "CONNECTED", "ERROR"}

Kinds == {"FINISH", "HEARTBEAT", "REQUEST", "UPDATE_KEY", "UPDATE_ALL",
          "VERIFY_NEW_KEY", "END_SESSION", "APP"}

Direction == [key : Nat, iv : Nat, secret : Nat, seq : Nat]

\* What is sealed in a record, and the header's sequence number (wire).
Record == [sess : Nat, key : Nat, iv : Nat, seq : Nat, wire : Nat,
           kind : Kinds, tag : Nat]

\* kind is the request answered; answer is ACK, ERROR (SPDM ERROR) or BAD
\* (an authenticated record whose payload does not parse).
Reply == [sess : Nat, key : Nat, seq : Nat, kind : Kinds, tag : Nat,
          answer : {"ACK", "ERROR", "BAD", "GARBAGE"}]

\* Key material of generation g, not used yet.
Fresh(g) == [key |-> g, iv |-> g, secret |-> g, seq |-> 0]

\* The responder's session: a key generation and a counter per direction.
Session(s, reqKey, reqSeq, rspKey, rspSeq) ==
  [sess |-> s, reqKey |-> reqKey, reqSeq |-> reqSeq,
   rspKey |-> rspKey, rspSeq |-> rspSeq]

Idle == [kind |-> "NONE", tag |-> 0]

\* A record no key opens: a reply damaged on the way.
Garbage == [sess |-> 0, key |-> 0, seq |-> 0, kind |-> "APP", tag |-> 0,
            answer |-> "GARBAGE"]

-----------------------------------------------------------------------------
(* Records *)

\* The 16-bit MCTP counter is refused past its end; the TCG one is 64 bits.
CanSealAlways(d) == TRUE   \* mutant: no check
CanSeal(d) == Tcg \/ d.seq <= SeqMax

WireSeq(n) == IF Tcg THEN n ELSE n % (SeqMax + 1)

Sealed(s, d, kind, tag) ==
  [sess |-> s, key |-> d.key, iv |-> d.iv, seq |-> d.seq,
   wire |-> WireSeq(d.seq), kind |-> kind, tag |-> tag]

SameNonce(r, q) == /\ r.sess = q.sess /\ r.key = q.key
                   /\ r.iv = q.iv /\ r.seq = q.seq

\* wolfSPDM_EncryptRecord: seal one record of session s with the material d
\* and count it at once, before the transport has seen it.
Seal(s, d, kind, tag) ==
  LET r == Sealed(s, d, kind, tag)
  IN  /\ CanSeal(d)
      /\ req' = [d EXCEPT !.seq = @ + 1]
      /\ sent' = sent \union {r}
      /\ reused' = (reused \/ \E q \in sent : SameNonce(q, r))

\* wolfSPDM_DecryptRecord: the expected sequence number exactly, then the tag.
Authentic(d, r) == /\ r.sess = sess /\ sess # 0
                   /\ r.key = d.key /\ r.key = d.iv
OpensOld(d, r) == Authentic(d, r) /\ r.seq <= d.seq   \* mutant: a window
Opens(d, r) == Authentic(d, r) /\ r.seq = d.seq

\* The payload of an authenticated record may still fail to parse.
Reads(d, r) == Opens(d, r) /\ r.answer # "BAD"

\* The tag verified: the record counts, whatever its payload turns out to be.
AfterOpen(d, r) == IF Opens(d, r) THEN [d EXCEPT !.seq = @ + 1] ELSE d

Deliverable == replies \union {Garbage}

\* History of what was opened, updated when record r is read with material d.
Note(d, r) ==
  /\ opened' = IF Opens(d, r) THEN opened \union {r} ELSE opened
  /\ replayed' = (replayed \/ (Opens(d, r) /\ r \in opened))

-----------------------------------------------------------------------------
(* Connect, in outline: module Handshake has the messages. *)

\* One API call starts; the bound is the only thing that is not the code's.
Begin == /\ call = Idle
         /\ calls < MaxCalls
         /\ calls' = calls + 1

Returns(kind, res) == rc' = <<kind, res>>

\* wolfSPDM_ResetSession.
ResetSession == /\ req' = Fresh(0) /\ rsp' = Fresh(0)
                /\ sess' = 0
                /\ state' = "INIT"

\* Connect fails before FINISH: nothing derived yet, or handshake keys of a
\* handshake that was not completed are left behind, in state ERROR.  The
\* responder may or may not have opened its session.
ConnectFail ==
  /\ Begin
  /\ nextSess <= MaxSessions
  /\ sess' \in {0, nextSess}
  /\ req' = Fresh(0) /\ rsp' = Fresh(0)
  /\ state' = "ERROR"
  /\ nextSess' = nextSess + 1
  /\ peer' \in {peer, Session(nextSess, 0, 0, 0, 0)}
  /\ Returns("CONNECT", "FAIL")
  /\ UNCHANGED <<call, sent, replies, opened, reused, replayed>>

\* Connect resets the session, completes KEY_EXCHANGE (or PSK_EXCHANGE) with
\* the responder and seals FINISH under the handshake keys.
ConnectKeyEx ==
  /\ Begin
  /\ nextSess <= MaxSessions
  /\ sess' = nextSess
  /\ nextSess' = nextSess + 1
  /\ state' = "KEY_EX"
  /\ peer' = Session(nextSess, 0, 0, 0, 0)
  /\ Seal(nextSess, Fresh(0), "FINISH", 0)
  /\ rsp' = Fresh(0)
  /\ call' = [kind |-> "FINISH", tag |-> 0]
  /\ UNCHANGED <<rc, replies, opened, replayed>>

\* FINISH_RSP: application keys from 0; anything else ends in ERROR with the
\* handshake keys still there.  So does a derivation that fails; it restarts no
\* counter, and nothing uses the keys it may have replaced by then.
FinishReturn(r) ==
  /\ call.kind = "FINISH"
  /\ call' = Idle
  /\ Note(rsp, r)
  /\ \/ /\ Opens(rsp, r) /\ r.answer = "ACK" /\ r.kind = "FINISH"
        /\ state' = "CONNECTED"
        /\ req' = Fresh(1) /\ rsp' = Fresh(1)
        /\ Returns("CONNECT", "OK")
     \/ /\ \/ ~(Opens(rsp, r) /\ r.answer = "ACK" /\ r.kind = "FINISH")
           \/ "FINISH" \in HkdfFaults
        /\ state' = "ERROR"
        /\ rsp' = AfterOpen(rsp, r) /\ UNCHANGED req
        /\ Returns("CONNECT", "FAIL")
  /\ UNCHANGED <<sess, peer, sent, replies, nextSess, calls, reused>>

-----------------------------------------------------------------------------
(* Exchanges of a connected session *)

\* Seal a request with the current material, then wait in the I/O callback.
Request(kind, tag) ==
  /\ Begin
  /\ state = "CONNECTED"
  /\ Seal(sess, req, kind, tag)
  /\ call' = [kind |-> kind, tag |-> tag]
  /\ UNCHANGED <<state, sess, rsp, rc, peer, replies, opened, nextSess,
                 replayed>>

\* wolfSPDM_SecuredExchange and wolfSPDM_Heartbeat.
SecuredExchange == \E kind \in {"HEARTBEAT", "REQUEST"} : Request(kind, 0)

\* The caller of SecuredExchange gets any message that opens and parses;
\* Heartbeat accepts HEARTBEAT_ACK only.
ExchangeReturn(r) ==
  /\ call.kind \in {"HEARTBEAT", "REQUEST"}
  /\ call' = Idle
  /\ Note(rsp, r)
  /\ rsp' = AfterOpen(rsp, r)
  /\ Returns(call.kind,
       IF /\ Reads(rsp, r)
          /\ call.kind = "HEARTBEAT" =>
               r.answer = "ACK" /\ r.kind = "HEARTBEAT"
       THEN "OK" ELSE "FAIL")
  /\ UNCHANGED <<state, sess, req, peer, sent, replies, nextSess, calls,
                 reused>>

\* wolfSPDM_EncryptMessage and wolfSPDM_SendData: seal, do not wait.
SendData ==
  /\ Begin
  /\ state = "CONNECTED"
  /\ Seal(sess, req, "APP", 0)
  /\ Returns("SEND", "OK")
  /\ UNCHANGED <<state, sess, rsp, call, peer, replies, opened, nextSess,
                 replayed>>

\* wolfSPDM_DecryptMessage and wolfSPDM_ReceiveData: open what arrives.
ReceiveData(r) ==
  /\ Begin
  /\ state = "CONNECTED"
  /\ Note(rsp, r)
  /\ rsp' = AfterOpen(rsp, r)
  /\ Returns("RECEIVE", IF Reads(rsp, r) THEN "OK" ELSE "FAIL")
  /\ UNCHANGED <<state, sess, req, call, peer, sent, replies, nextSess,
                 reused>>

-----------------------------------------------------------------------------
(* KEY_UPDATE *)

\* wolfSPDM_UpdateDirection: the next secret, then key and IV from it.  The
\* caller restarts the sequence number.
UpdateDirection(d) == [key |-> d.secret + 1, iv |-> d.secret + 1,
                       secret |-> d.secret + 1, seq |-> 0]

\* What it can leave when HKDF fails, the sequence number restarted: nothing
\* else changed, or the new key with the old IV and secret.
HalfUpdated(d) ==
  {[key |-> k, iv |-> d.iv, secret |-> d.secret, seq |-> 0] :
     k \in {d.key, d.secret + 1}}

\* wolfSPDM_SaveTrafficKeys back in: key, IV, secret and sequence number.
\* Mutants: the secret, the sequence number or the whole copy forgotten.
RestoredNoSecret(saved, d) == [saved EXCEPT !.secret = d.secret]
RestoredNoSeq(saved, d) == [saved EXCEPT !.seq = d.seq]
RestoredNothing(saved, d) == d
Restored(saved, d) == saved

KeyUpdate ==
  \E op \in {"UPDATE_KEY", "UPDATE_ALL"}, tag \in Tags : Request(op, tag)

\* wolfSPDM_ParseKeyUpdateAck: the operation and the tag are echoed.
AcksAnything(r) == TRUE   \* mutant: any message that opens is an ACK
AcksUpdate(r) == /\ r.answer = "ACK"
                 /\ r.kind = call.kind
                 /\ r.tag = call.tag

KeyUpdateFail(q, p) ==
  /\ req' = q /\ rsp' = p
  /\ call' = Idle
  /\ Returns("KEY_UPDATE", "FAIL")
  /\ UNCHANGED <<sent, reused>>

\* Rotation done: VERIFY_NEW_KEY goes out under the new material q.
VerifyNewKey(q, p) ==
  \E tag \in Tags :
    /\ Seal(sess, q, "VERIFY_NEW_KEY", tag)
    /\ rsp' = p
    /\ call' = [kind |-> "VERIFY_NEW_KEY", tag |-> tag]
    /\ UNCHANGED rc

\* UpdateKey: the ACK comes under the current keys, then the request
\* direction rotates and its sequence number restarts, also when the
\* derivation failed.
UpdateKeyReturn(r) ==
  /\ call.kind = "UPDATE_KEY"
  /\ Note(rsp, r)
  /\ \/ /\ Reads(rsp, r) /\ AcksUpdate(r)
        /\ VerifyNewKey(UpdateDirection(req), AfterOpen(rsp, r))
     \/ /\ Reads(rsp, r) /\ AcksUpdate(r)
        /\ "UPDATE_KEY" \in HkdfFaults
        /\ \E h \in HalfUpdated(req) :
             KeyUpdateFail(h, AfterOpen(rsp, r))
     \/ /\ ~(Reads(rsp, r) /\ AcksUpdate(r))
        /\ KeyUpdateFail(req, AfterOpen(rsp, r))
  /\ UNCHANGED <<state, sess, peer, replies, nextSess, calls>>

\* UpdateAllKeys: a record the current keys do not read is tried under the
\* next ones, and the rotation is undone unless it reads there.  One that opens
\* there and does not read is dropped with the trial keys: it is not noted.
UpdateAllReturn(r) ==
  LET saved == AfterOpen(rsp, r)
      q     == UpdateDirection(req)
      p     == UpdateDirection(rsp)
  IN
  /\ call.kind = "UPDATE_ALL"
  /\ \/ /\ Reads(rsp, r)               \* an answer, but no rotation
        /\ Note(rsp, r)
        /\ KeyUpdateFail(req, saved)
     \/ /\ ~Reads(rsp, r) /\ Reads(p, r)
        /\ Note(p, r)
        /\ \/ AcksUpdate(r) /\ VerifyNewKey(q, AfterOpen(p, r))
           \/ ~AcksUpdate(r) /\ KeyUpdateFail(q, AfterOpen(p, r))
     \/ /\ ~Reads(rsp, r) /\ ~Reads(p, r)
        /\ Note(rsp, r)
        /\ KeyUpdateFail(Restored(req, q), Restored(saved, AfterOpen(p, r)))
     \/ /\ ~Reads(rsp, r)
        /\ "UPDATE_ALL" \in HkdfFaults
        /\ Note(rsp, r)
        /\ \/ \E h \in HalfUpdated(req) :
                KeyUpdateFail(Restored(req, h), Restored(saved, saved))
           \/ \E h \in HalfUpdated(saved) :
                KeyUpdateFail(Restored(req, q), Restored(saved, h))
  /\ UNCHANGED <<state, sess, peer, replies, nextSess, calls>>

VerifyReturn(r) ==
  /\ call.kind = "VERIFY_NEW_KEY"
  /\ Note(rsp, r)
  /\ rsp' = AfterOpen(rsp, r)
  /\ call' = Idle
  /\ Returns("KEY_UPDATE",
       IF Reads(rsp, r) /\ AcksUpdate(r) THEN "OK" ELSE "FAIL")
  /\ UNCHANGED <<state, sess, req, peer, sent, replies, nextSess, calls,
                 reused>>

-----------------------------------------------------------------------------
(* Disconnect, and the transport's failures *)

\* END_SESSION for a live session that can still seal it.
Disconnect == Request("END_SESSION", 0)

\* The wipe runs whether or not END_SESSION could be sent.
DisconnectLocal ==
  /\ Begin
  /\ state # "CONNECTED" \/ ~CanSeal(req)
  /\ ResetSession
  /\ Returns("DISCONNECT", "FAIL")
  /\ UNCHANGED <<call, peer, sent, replies, opened, nextSess, reused, replayed>>

DisconnectReturn(r) ==
  /\ call.kind = "END_SESSION"
  /\ Note(rsp, r)
  /\ call' = Idle
  /\ ResetSession
  /\ Returns("DISCONNECT",
       IF Opens(rsp, r) /\ r.answer = "ACK" /\ r.kind = "END_SESSION"
       THEN "OK" ELSE "FAIL")
  /\ UNCHANGED <<peer, sent, replies, nextSess, calls, reused>>

\* The I/O callback reports a failure or a timeout to the blocked call.
IoFail ==
  /\ call # Idle
  /\ call' = Idle
  /\ \/ /\ call.kind = "FINISH"
        /\ state' = "ERROR"
        /\ Returns("CONNECT", "FAIL")
        /\ UNCHANGED <<sess, req, rsp>>
     \/ /\ call.kind = "END_SESSION"
        /\ ResetSession
        /\ Returns("DISCONNECT", "FAIL")
     \/ /\ call.kind \in {"HEARTBEAT", "REQUEST"}
        /\ Returns(call.kind, "FAIL")
        /\ UNCHANGED <<state, sess, req, rsp>>
     \/ /\ call.kind \in {"UPDATE_KEY", "UPDATE_ALL", "VERIFY_NEW_KEY"}
        /\ Returns("KEY_UPDATE", "FAIL")
        /\ UNCHANGED <<state, sess, req, rsp>>
  /\ UNCHANGED <<peer, sent, replies, opened, nextSess, calls, reused,
                 replayed>>

-----------------------------------------------------------------------------
(* External: the responder, as the loopback peer of test/unit_test.c *)

PeerOpens(q) == /\ q.sess = peer.sess /\ peer.sess # 0
                /\ q.key = peer.reqKey /\ q.iv = peer.reqKey
                /\ q.wire = peer.reqSeq /\ q.seq = q.wire

PeerReply(p, q, answer) ==
  [sess |-> p.sess, key |-> p.rspKey, seq |-> p.rspSeq,
   kind |-> q.kind, tag |-> q.tag, answer |-> answer]

\* The responder's session once it has read q, the one it seals the ACK with,
\* and the one it has afterwards.
PeerRead == Session(peer.sess, peer.reqKey, peer.reqSeq + 1,
                    peer.rspKey, peer.rspSeq)
PeerSealsWith(q) ==
  CASE q.kind = "UPDATE_KEY" ->
         Session(peer.sess, peer.reqKey + 1, 0, peer.rspKey, peer.rspSeq)
    [] q.kind = "UPDATE_ALL" ->
         Session(peer.sess, peer.reqKey + 1, 0, peer.rspKey + 1, 0)
    [] OTHER -> PeerRead
PeerAfter(p, q) ==
  CASE q.kind = "FINISH" -> Session(p.sess, 1, 0, 1, 0)
    [] q.kind = "END_SESSION" -> Session(0, 0, 0, 0, 0)
    [] OTHER -> Session(p.sess, p.reqKey, p.reqSeq, p.rspKey, p.rspSeq + 1)

PeerAccepts(q) ==
  /\ PeerOpens(q)
  /\ "ACK" \in PeerAnswers
  /\ q.kind # "APP"
  /\ LET p == PeerSealsWith(q)
     IN  /\ replies' = replies \union {PeerReply(p, q, "ACK")}
         /\ peer' = PeerAfter(p, q)
  /\ UNCHANGED <<state, sess, req, rsp, call, rc, sent, opened, nextSess, calls,
                 reused, replayed>>

\* ERROR, or an answer that does not parse, changes no key.
PeerRefuses(q, answer) ==
  /\ PeerOpens(q)
  /\ q.kind # "APP"
  /\ replies' = replies \union {PeerReply(peer, q, answer)}
  /\ peer' = Session(peer.sess, peer.reqKey, peer.reqSeq + 1,
                     peer.rspKey, peer.rspSeq + 1)
  /\ UNCHANGED <<state, sess, req, rsp, call, rc, sent, opened, nextSess, calls,
                 reused, replayed>>

PeerTakesData(q) ==
  /\ PeerOpens(q)
  /\ q.kind = "APP"
  /\ peer' = PeerRead
  /\ UNCHANGED <<state, sess, req, rsp, call, rc, sent, replies, opened, nextSess,
                 calls, reused, replayed>>

-----------------------------------------------------------------------------
(* The specification *)

Init ==
  /\ state = "INIT"
  /\ sess = 0
  /\ req = Fresh(0) /\ rsp = Fresh(0)
  /\ call = Idle
  /\ rc = <<"NONE", "OK">>
  /\ peer = Session(0, 0, 0, 0, 0)
  /\ sent = {} /\ replies = {} /\ opened = {}
  /\ nextSess = 1
  /\ calls = 0
  /\ reused = FALSE /\ replayed = FALSE

CallStarts ==
  \/ ConnectFail
  \/ ConnectKeyEx
  \/ SecuredExchange
  \/ SendData
  \/ \E r \in Deliverable : ReceiveData(r)
  \/ KeyUpdate
  \/ Disconnect
  \/ DisconnectLocal

CallReturns ==
  \/ \E r \in Deliverable :
       \/ FinishReturn(r)
       \/ ExchangeReturn(r)
       \/ UpdateKeyReturn(r)
       \/ UpdateAllReturn(r)
       \/ VerifyReturn(r)
       \/ DisconnectReturn(r)
  \/ IoFail

PeerStep ==
  \E q \in sent :
    \/ PeerAccepts(q)
    \/ \E answer \in PeerAnswers \ {"ACK"} : PeerRefuses(q, answer)
    \/ PeerTakesData(q)

Next == CallStarts \/ CallReturns \/ PeerStep

Spec == Init /\ [][Next]_vars

-----------------------------------------------------------------------------
(* Properties *)

TypeOK ==
  /\ state \in States
  /\ sess \in Nat
  /\ req \in Direction /\ rsp \in Direction
  /\ ~Tcg => req.seq <= SeqMax + 1
  /\ call \in [kind : Kinds \union {"NONE"}, tag : Nat]
  /\ peer \in [sess : Nat, reqKey : Nat, reqSeq : Nat, rspKey : Nat,
               rspSeq : Nat]
  /\ sent \subseteq Record
  /\ replies \subseteq Reply
  /\ opened \subseteq Reply
  /\ nextSess \in Nat
  /\ calls \in Nat
  /\ reused \in BOOLEAN
  /\ replayed \in BOOLEAN

\* AES-GCM never sees the same key, IV and counter twice: not when a call
\* fails after sealing, not when a rotation is rolled back, not on reconnect.
NonceFresh == ~reused

\* A reply that opened once never opens again, whatever the transport
\* repeats and whichever rotation is tried and undone in between.
NoReplay == ~replayed

\* The 16-bit number on the wire and the 64-bit IV counter never diverge.
WireIsCounter == \A q \in sent : q.wire = q.seq

\* A connected session holds application keys whose key, IV and secret are
\* of one generation in each direction, after any failed update too.
KeysCoherent ==
  state = "CONNECTED" =>
    /\ sess # 0
    /\ \A d \in {req, rsp} : d.key >= 1 /\ d.iv = d.key /\ d.secret = d.key

\* Keys rotate only once a response proves that the responder did: the
\* requester is never a generation ahead of it.
NeverAhead ==
  state = "CONNECTED" /\ sess = peer.sess =>
    req.key <= peer.reqKey /\ rsp.key <= peer.rspKey

\* When wolfSPDM_KeyUpdate reports success, both sides hold the same keys
\* and the next record will be read: sequence numbers agree as well.
UpdateAgrees ==
  /\ rc = <<"KEY_UPDATE", "OK">> /\ call = Idle
  /\ state = "CONNECTED" /\ sess = peer.sess
  => /\ req.key = peer.reqKey /\ req.seq = peer.reqSeq
     /\ rsp.key = peer.rspKey /\ rsp.seq = peer.rspSeq

=============================================================================
