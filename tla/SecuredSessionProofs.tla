------------------------ MODULE SecuredSessionProofs ------------------------
(***************************************************************************)
(* Type correctness, nonce freshness, replay rejection, key coherence and  *)
(* agreement with the responder, of SecuredSession, for every value of its *)
(* constants.  Types and WireIsCounter need no more; the others need       *)
(* UpdateKeyDerives: the HKDF calls of an UpdateKey do not fail.           *)
(***************************************************************************)
EXTENDS SecuredSession, TLAPS

\* A call that waits for the transport has a session behind it: handshake
\* keys for FINISH, application keys for everything else.
CallsHaveSession ==
  /\ state = "CONNECTED" => sess # 0 /\ req.key >= 1 /\ rsp.key >= 1
  /\ call.kind \notin {"NONE", "FINISH"} => state = "CONNECTED"
  /\ call.kind = "FINISH" => /\ state = "KEY_EX" /\ sess # 0
                             /\ req.key = 0 /\ rsp.key = 0

\* Key, IV and secret of a direction are of one generation.
OneGeneration == /\ req.iv = req.key /\ req.secret = req.key
                 /\ rsp.iv = rsp.key /\ rsp.secret = rsp.key

\* The current key and counter lie beyond every record sealed so far.
Behind(q, s, d) == q.sess = s => \/ q.key < d.key
                                 \/ q.key = d.key /\ q.seq < d.seq

SealedBehind ==
  /\ 1 <= nextSess /\ sess < nextSess
  /\ \A q \in sent : /\ 1 <= q.sess /\ q.sess < nextSess
                     /\ Behind(q, sess, req)

\* So do they beyond every reply opened so far.
OpenedBehind ==
  \A r \in opened : /\ 1 <= r.sess /\ r.sess < nextSess
                    /\ Behind(r, sess, rsp)

SessionInv == /\ CallsHaveSession
              /\ OneGeneration
              /\ SealedBehind
              /\ OpenedBehind
              /\ reused = FALSE
              /\ replayed = FALSE

UpdateKeyDerives == "UPDATE_KEY" \notin HkdfFaults

-----------------------------------------------------------------------------
(* The record operations *)

\* Deliverable records are replies.
LEMMA DeliverableType ==
  ASSUME replies \subseteq Reply
  PROVE  Deliverable \subseteq Reply
  BY DEF Deliverable, Garbage, Reply, Kinds

\* Fresh and updated key material is well typed.
LEMMA FreshType ==
  ASSUME NEW g \in Nat
  PROVE  Fresh(g) \in Direction
  BY DEF Fresh, Direction

\* wolfSPDM_UpdateDirection leaves a direction.
LEMMA UpdateType ==
  ASSUME NEW d \in Direction
  PROVE  UpdateDirection(d) \in Direction
  BY DEF UpdateDirection, Direction

\* Reading a record changes at most the counter, by one.
LEMMA AfterOpenFacts ==
  ASSUME NEW d \in Direction, NEW r
  PROVE  /\ AfterOpen(d, r) \in Direction
         /\ AfterOpen(d, r).key = d.key
         /\ AfterOpen(d, r).iv = d.iv
         /\ AfterOpen(d, r).secret = d.secret
         /\ Opens(d, r) => AfterOpen(d, r).seq = d.seq + 1
         /\ ~Opens(d, r) => AfterOpen(d, r) = d
<1>1. CASE Opens(d, r)
  BY <1>1 DEF AfterOpen, Direction
<1>2. CASE ~Opens(d, r)
  BY <1>2 DEF AfterOpen
<1>3. QED
  BY <1>1, <1>2

\* Sealing is well typed: the counter stays within one of its limit.
LEMMA SealType ==
  ASSUME NEW s \in Nat, NEW d \in Direction, NEW kind \in Kinds,
         NEW tag \in Nat, sent \subseteq Record, Seal(s, d, kind, tag)
  PROVE  /\ req' \in Direction
         /\ req'.key = d.key /\ req'.iv = d.iv /\ req'.secret = d.secret
         /\ req'.seq = d.seq + 1
         /\ ~Tcg => req'.seq <= SeqMax + 1
         /\ sent' \subseteq Record
         /\ reused' \in BOOLEAN
<1>1. WireSeq(d.seq) \in Nat
  BY SecuredSessionAssumption DEF WireSeq, Direction
<1>2. Sealed(s, d, kind, tag) \in Record
  BY <1>1 DEF Sealed, Record, Direction
<1>3. req' = [d EXCEPT !.seq = d.seq + 1]
  BY DEF Seal
<1>4. d.seq \in Nat /\ CanSeal(d)
  BY DEF Seal, Direction
<1>5. QED
  BY <1>2, <1>3, <1>4, SecuredSessionAssumption DEF Seal, CanSeal, Direction

\* The bookkeeping of opened replies is well typed.
LEMMA NoteType ==
  ASSUME NEW d, NEW r \in Reply, opened \subseteq Reply, Note(d, r),
         replayed \in BOOLEAN
  PROVE  opened' \subseteq Reply /\ replayed' \in BOOLEAN
  BY DEF Note

-----------------------------------------------------------------------------
(* Type correctness *)

\* Every step of the layer, and of the responder, keeps the state's type.
LEMMA TypeInductive == TypeOK /\ [Next]_vars => TypeOK'
<1> SUFFICES ASSUME TypeOK, [Next]_vars PROVE TypeOK'
  OBVIOUS
<1> USE SecuredSessionAssumption
<1>a. /\ Fresh(0) \in Direction /\ Fresh(1) \in Direction
      /\ Fresh(0).seq = 0 /\ Fresh(1).seq = 0
  BY FreshType DEF Fresh
<1>b. Idle \in [kind : Kinds \union {"NONE"}, tag : Nat]
  BY DEF Idle
<1>c. /\ UpdateDirection(req) \in Direction
      /\ UpdateDirection(rsp) \in Direction
      /\ UpdateDirection(req).seq = 0
  BY UpdateType DEF TypeOK, UpdateDirection
<1>d. \A r \in Deliverable : r \in Reply
  BY DeliverableType DEF TypeOK
<1>1. CASE ConnectFail
  BY <1>1, <1>a DEF ConnectFail, Begin, Returns, Session, TypeOK, States
<1>2. CASE ConnectKeyEx
  <2>1. Seal(nextSess, Fresh(0), "FINISH", 0)
    BY <1>2 DEF ConnectKeyEx
  <2>2. /\ req' \in Direction /\ (~Tcg => req'.seq <= SeqMax + 1)
        /\ sent' \subseteq Record /\ reused' \in BOOLEAN
    BY <2>1, <1>a, SealType DEF TypeOK, Kinds
  <2>3. QED
    BY <1>2, <1>a, <2>2 DEF ConnectKeyEx, Begin, Session, TypeOK, States,
                            Kinds
<1>3. ASSUME NEW kind \in Kinds, NEW tag \in Nat, Request(kind, tag)
      PROVE  TypeOK'
  <2>1. /\ req' \in Direction /\ (~Tcg => req'.seq <= SeqMax + 1)
        /\ sent' \subseteq Record /\ reused' \in BOOLEAN
    BY <1>3, SealType DEF TypeOK, Request
  <2>2. QED
    BY <1>3, <2>1 DEF Request, Begin, TypeOK
<1>4. CASE SendData
  <2>1. /\ req' \in Direction /\ (~Tcg => req'.seq <= SeqMax + 1)
        /\ sent' \subseteq Record /\ reused' \in BOOLEAN
    BY <1>4, SealType DEF TypeOK, SendData, Kinds
  <2>2. QED
    BY <1>4, <2>1 DEF SendData, Begin, TypeOK
<1>5. ASSUME NEW r \in Deliverable, ReceiveData(r)
      PROVE  TypeOK'
  <2>1. opened' \subseteq Reply /\ replayed' \in BOOLEAN
    BY <1>5, <1>d, NoteType DEF TypeOK, ReceiveData
  <2>2. rsp' \in Direction
    BY <1>5, AfterOpenFacts DEF TypeOK, ReceiveData
  <2>3. QED
    BY <1>5, <2>1, <2>2 DEF ReceiveData, Begin, TypeOK
<1>6. CASE DisconnectLocal
  BY <1>6, <1>a DEF DisconnectLocal, ResetSession, Begin, TypeOK, States
<1>7. ASSUME NEW r \in Deliverable, FinishReturn(r)
      PROVE  TypeOK'
  <2>1. opened' \subseteq Reply /\ replayed' \in BOOLEAN
    BY <1>7, <1>d, NoteType DEF TypeOK, FinishReturn
  <2>2. /\ rsp' \in Direction /\ req' \in Direction
        /\ ~Tcg => req'.seq <= SeqMax + 1
    BY <1>7, <1>a, AfterOpenFacts DEF TypeOK, FinishReturn
  <2>3. state' \in States
    BY <1>7 DEF FinishReturn, States
  <2>4. QED
    BY <1>7, <1>b, <2>1, <2>2, <2>3 DEF FinishReturn, TypeOK
<1>8. ASSUME NEW r \in Deliverable, ExchangeReturn(r)
      PROVE  TypeOK'
  <2>1. opened' \subseteq Reply /\ replayed' \in BOOLEAN
    BY <1>8, <1>d, NoteType DEF TypeOK, ExchangeReturn
  <2>2. rsp' \in Direction
    BY <1>8, AfterOpenFacts DEF TypeOK, ExchangeReturn
  <2>3. QED
    BY <1>8, <1>b, <2>1, <2>2 DEF ExchangeReturn, TypeOK
<1>9. ASSUME NEW q \in Direction, NEW p \in Direction, q.seq <= SeqMax + 1,
             VerifyNewKey(q, p)
      PROVE  /\ req' \in Direction /\ (~Tcg => req'.seq <= SeqMax + 1)
             /\ rsp' \in Direction
             /\ sent' \subseteq Record /\ reused' \in BOOLEAN
             /\ call' \in [kind : Kinds \union {"NONE"}, tag : Nat]
  <2>1. PICK tag \in Tags :
          /\ Seal(sess, q, "VERIFY_NEW_KEY", tag)
          /\ rsp' = p
          /\ call' = [kind |-> "VERIFY_NEW_KEY", tag |-> tag]
    BY <1>9 DEF VerifyNewKey
  <2>2. "VERIFY_NEW_KEY" \in Kinds /\ tag \in Nat
    BY DEF Kinds
  <2>3. QED
    BY <2>1, <2>2, SealType DEF TypeOK
<1>10. ASSUME NEW q \in Direction, NEW p \in Direction,
              ~Tcg => q.seq <= SeqMax + 1, KeyUpdateFail(q, p)
       PROVE  /\ req' \in Direction /\ (~Tcg => req'.seq <= SeqMax + 1)
              /\ rsp' \in Direction
              /\ sent' \subseteq Record /\ reused' \in BOOLEAN
              /\ call' \in [kind : Kinds \union {"NONE"}, tag : Nat]
  BY <1>10, <1>b DEF KeyUpdateFail, TypeOK
<1>11. ASSUME NEW r \in Deliverable, UpdateKeyReturn(r)
       PROVE  TypeOK'
  <2>1. opened' \subseteq Reply /\ replayed' \in BOOLEAN
    BY <1>11, <1>d, NoteType DEF TypeOK, UpdateKeyReturn
  <2>2. AfterOpen(rsp, r) \in Direction
    BY AfterOpenFacts DEF TypeOK
  <2>3. \A h \in HalfUpdated(req) : h \in Direction /\ h.seq = 0
    BY DEF HalfUpdated, TypeOK, Direction
  <2>4. \/ VerifyNewKey(UpdateDirection(req), AfterOpen(rsp, r))
        \/ \E h \in HalfUpdated(req) :
             KeyUpdateFail(h, AfterOpen(rsp, r))
        \/ KeyUpdateFail(req, AfterOpen(rsp, r))
    BY <1>11 DEF UpdateKeyReturn
  <2>5. /\ req' \in Direction /\ (~Tcg => req'.seq <= SeqMax + 1)
        /\ rsp' \in Direction
        /\ sent' \subseteq Record /\ reused' \in BOOLEAN
        /\ call' \in [kind : Kinds \union {"NONE"}, tag : Nat]
    BY <2>2, <2>3, <2>4, <1>c, <1>9, <1>10 DEF TypeOK
  <2>6. QED
    BY <1>11, <2>1, <2>5 DEF UpdateKeyReturn, TypeOK
<1>12. ASSUME NEW r \in Deliverable, UpdateAllReturn(r)
       PROVE  TypeOK'
  <2>1. opened' \subseteq Reply /\ replayed' \in BOOLEAN
    BY <1>12, <1>d, NoteType DEF TypeOK, UpdateAllReturn
  <2>2. /\ AfterOpen(rsp, r) \in Direction
        /\ AfterOpen(UpdateDirection(rsp), r) \in Direction
    BY <1>c, AfterOpenFacts DEF TypeOK
  <2>3. \/ KeyUpdateFail(req, AfterOpen(rsp, r))
        \/ VerifyNewKey(UpdateDirection(req),
                        AfterOpen(UpdateDirection(rsp), r))
        \/ KeyUpdateFail(UpdateDirection(req),
                         AfterOpen(UpdateDirection(rsp), r))
    BY <1>12 DEF UpdateAllReturn, Restored
  <2>4. /\ req' \in Direction /\ (~Tcg => req'.seq <= SeqMax + 1)
        /\ rsp' \in Direction
        /\ sent' \subseteq Record /\ reused' \in BOOLEAN
        /\ call' \in [kind : Kinds \union {"NONE"}, tag : Nat]
    BY <2>2, <2>3, <1>c, <1>9, <1>10 DEF TypeOK
  <2>5. QED
    BY <1>12, <2>1, <2>4 DEF UpdateAllReturn, TypeOK
<1>13. ASSUME NEW r \in Deliverable, VerifyReturn(r)
       PROVE  TypeOK'
  <2>1. opened' \subseteq Reply /\ replayed' \in BOOLEAN
    BY <1>13, <1>d, NoteType DEF TypeOK, VerifyReturn
  <2>2. rsp' \in Direction
    BY <1>13, AfterOpenFacts DEF TypeOK, VerifyReturn
  <2>3. QED
    BY <1>13, <1>b, <2>1, <2>2 DEF VerifyReturn, TypeOK
<1>14. ASSUME NEW r \in Deliverable, DisconnectReturn(r)
       PROVE  TypeOK'
  <2>1. opened' \subseteq Reply /\ replayed' \in BOOLEAN
    BY <1>14, <1>d, NoteType DEF TypeOK, DisconnectReturn
  <2>2. QED
    BY <1>14, <1>a, <1>b, <2>1
       DEF DisconnectReturn, ResetSession, TypeOK, States
<1>15. CASE IoFail
  BY <1>15, <1>a, <1>b DEF IoFail, ResetSession, TypeOK, States
<1>16. ASSUME NEW q \in sent, NEW answer \in {"ACK", "ERROR", "BAD"},
              NEW p \in [sess : Nat, reqKey : Nat, reqSeq : Nat, rspKey : Nat,
                         rspSeq : Nat]
       PROVE  PeerReply(p, q, answer) \in Reply
  BY <1>16 DEF PeerReply, Reply, Record, TypeOK
<1>17. ASSUME NEW q \in sent,
              PeerAccepts(q) \/ PeerTakesData(q) \/
              \E answer \in PeerAnswers \ {"ACK"} : PeerRefuses(q, answer)
       PROVE  TypeOK'
  <2> DEFINE Peer == [sess : Nat, reqKey : Nat, reqSeq : Nat, rspKey : Nat,
                      rspSeq : Nat]
  <2>1. peer \in Peer /\ PeerRead \in Peer
        /\ Session(peer.sess, peer.reqKey, peer.reqSeq + 1, peer.rspKey,
                   peer.rspSeq + 1) \in Peer
    BY DEF TypeOK, PeerRead, Session
  <2>2. PeerSealsWith(q) \in Peer
    BY <2>1 DEF PeerSealsWith, Session
  <2>3. ASSUME NEW p \in Peer
        PROVE  PeerAfter(p, q) \in Peer
    BY DEF PeerAfter, Session
  <2>4. CASE PeerAccepts(q)
    BY <2>4, <2>2, <2>3, <1>16 DEF PeerAccepts, TypeOK
  <2>5. CASE PeerTakesData(q)
    BY <2>5, <2>1 DEF PeerTakesData, TypeOK
  <2>6. ASSUME NEW answer \in PeerAnswers \ {"ACK"}, PeerRefuses(q, answer)
        PROVE  TypeOK'
    BY <2>6, <2>1, <1>16 DEF PeerRefuses, TypeOK
  <2>7. QED
    BY <1>17, <2>4, <2>5, <2>6
<1>18. CASE UNCHANGED vars
  BY <1>18 DEF vars, TypeOK
<1>19. CASE CallStarts
  BY <1>19, <1>1, <1>2, <1>3, <1>4, <1>5, <1>6
     DEF CallStarts, SecuredExchange, KeyUpdate, Disconnect, Kinds
<1>20. CASE CallReturns
  BY <1>20, <1>7, <1>8, <1>11, <1>12, <1>13, <1>14, <1>15 DEF CallReturns
<1>21. CASE PeerStep
  BY <1>21, <1>17 DEF PeerStep
<1>22. QED
  BY <1>18, <1>19, <1>20, <1>21 DEF Next


\* The state always has its type: the counter of the request direction never
\* leaves the range its 16-bit wire form can show, but for the final step.
THEOREM TypeCorrect == Spec => []TypeOK
<1>1. ASSUME Init PROVE TypeOK
  <2>1. Fresh(0) \in Direction /\ Fresh(0).seq = 0
    BY FreshType DEF Fresh
  <2>2. Idle \in [kind : Kinds \union {"NONE"}, tag : Nat]
    BY DEF Idle
  <2>3. Session(0, 0, 0, 0, 0) \in [sess : Nat, reqKey : Nat, reqSeq : Nat,
                                   rspKey : Nat, rspSeq : Nat]
    BY DEF Session
  <2>4. req.seq <= SeqMax + 1 /\ sess \in Nat /\ nextSess \in Nat /\ calls \in Nat
    BY <1>1, <2>1, SecuredSessionAssumption DEF Init
  <2>5. /\ reused \in BOOLEAN /\ replayed \in BOOLEAN
        /\ sent \subseteq Record /\ replies \subseteq Reply
        /\ opened \subseteq Reply
    BY <1>1, Zenon DEF Init
  <2>6. QED
    BY <1>1, <2>1, <2>2, <2>3, <2>4, <2>5, Zenon DEF Init, TypeOK, States
<1>2. QED
  BY <1>1, TypeInductive, PTL DEF Spec

-----------------------------------------------------------------------------
(* Nonces, replays and key coherence *)

\* Sealing with material beyond every record sealed so far uses a new nonce
\* and leaves the counter beyond the new record as well.
LEMMA SealFacts ==
  ASSUME NEW s \in Nat, NEW d \in Direction, NEW kind \in Kinds,
         NEW tag \in Nat, sent \subseteq Record, Seal(s, d, kind, tag),
         reused = FALSE, 1 <= s,
         NEW n \in Nat, s < n,
         \A q \in sent : 1 <= q.sess /\ q.sess < n /\ Behind(q, s, d)
  PROVE  /\ reused' = FALSE
         /\ \A q \in sent' : 1 <= q.sess /\ q.sess < n /\ Behind(q, s, req')
<1> DEFINE r == Sealed(s, d, kind, tag)
<1>1. r.sess = s /\ r.key = d.key /\ r.seq = d.seq
  BY DEF Sealed
<1>2. req'.key = d.key /\ req'.seq = d.seq + 1
  BY SealType
<1>3. d.key \in Nat /\ d.seq \in Nat
  BY DEF Direction
<1>4. \A q \in sent : q.key \in Nat /\ q.seq \in Nat /\ q.sess \in Nat
  BY DEF Record
<1>5. \A q \in sent : ~SameNonce(q, r)
  BY <1>1, <1>3, <1>4 DEF SameNonce, Behind
<1>6. reused' = FALSE
  BY <1>5 DEF Seal
<1>7. sent' = sent \union {r}
  BY DEF Seal
<1>8. Behind(r, s, req')
  BY <1>1, <1>2, <1>3 DEF Behind
<1>9. \A q \in sent : Behind(q, s, req')
  BY <1>2, <1>3, <1>4 DEF Behind
<1>10. QED
  BY <1>1, <1>6, <1>7, <1>8, <1>9

\* A reply that opens under material beyond every reply opened so far is not
\* one of them, and the material stays beyond all of them.
LEMMA NoteFacts ==
  ASSUME NEW d \in Direction, NEW r \in Reply, opened \subseteq Reply,
         Note(d, r), replayed = FALSE, sess \in Nat,
         NEW n \in Nat, sess < n,
         \A o \in opened : 1 <= o.sess /\ o.sess < n /\ Behind(o, sess, d)
  PROVE  /\ replayed' = FALSE
         /\ \A o \in opened' :
              /\ 1 <= o.sess /\ o.sess < n
              /\ Behind(o, sess, AfterOpen(d, r))
<1>1. d.key \in Nat /\ d.seq \in Nat
  BY DEF Direction
<1>2. \A o \in opened : o.key \in Nat /\ o.seq \in Nat /\ o.sess \in Nat
  BY DEF Reply
<1>3. CASE ~Opens(d, r)
  BY <1>3, AfterOpenFacts DEF Note
<1>4. CASE Opens(d, r)
  <2>1. r.sess = sess /\ sess # 0 /\ r.key = d.key /\ r.seq = d.seq
    BY <1>4 DEF Opens, Authentic
  <2>2. r \notin opened
    BY <2>1, <1>1 DEF Behind
  <2>3. replayed' = FALSE /\ opened' = opened \union {r}
    BY <1>4, <2>2 DEF Note
  <2>4. AfterOpen(d, r).key = d.key /\ AfterOpen(d, r).seq = d.seq + 1
    BY <1>4, AfterOpenFacts
  <2>5. \A o \in opened : Behind(o, sess, AfterOpen(d, r))
    BY <2>4, <1>1, <1>2 DEF Behind
  <2>6. Behind(r, sess, AfterOpen(d, r))
    BY <2>1, <2>4, <1>1 DEF Behind
  <2>7. QED
    BY <2>1, <2>3, <2>5, <2>6
<1>5. QED
  BY <1>3, <1>4

\* The initial state satisfies the invariant.
LEMMA SessionInvInit == Init => SessionInv
  BY DEF Init, SessionInv, CallsHaveSession, OneGeneration, SealedBehind,
         OpenedBehind, Fresh, Idle

\* Every step keeps it, when UpdateKey's derivation cannot fail.
LEMMA SessionInvStep ==
  ASSUME UpdateKeyDerives, TypeOK, TypeOK', SessionInv, [Next]_vars
  PROVE  SessionInv'
<1> USE SecuredSessionAssumption
<1>a. /\ sess \in Nat /\ nextSess \in Nat /\ sess < nextSess /\ 1 <= nextSess
      /\ req \in Direction /\ rsp \in Direction
      /\ sent \subseteq Record /\ opened \subseteq Reply
      /\ reused = FALSE /\ replayed = FALSE
  BY DEF TypeOK, SessionInv, SealedBehind
<1>b. \A q \in sent : 1 <= q.sess /\ q.sess < nextSess /\ Behind(q, sess, req)
  BY DEF SessionInv, SealedBehind
<1>c. \A o \in opened : 1 <= o.sess /\ o.sess < nextSess /\ Behind(o, sess, rsp)
  BY DEF SessionInv, OpenedBehind
<1>d. /\ \A q \in sent : q.sess \in Nat /\ q.key \in Nat /\ q.seq \in Nat
      /\ \A o \in opened : o.sess \in Nat /\ o.key \in Nat /\ o.seq \in Nat
  BY <1>a DEF Record, Reply
<1>e. /\ Fresh(0).key = 0 /\ Fresh(0).iv = 0 /\ Fresh(0).secret = 0
      /\ Fresh(1).key = 1 /\ Fresh(1).iv = 1 /\ Fresh(1).secret = 1
      /\ Fresh(0) \in Direction /\ Fresh(0).seq = 0
  BY FreshType DEF Fresh
<1>f. \A r \in Deliverable : r \in Reply
  BY DeliverableType DEF TypeOK
<1>g. Idle.kind = "NONE"
  BY DEF Idle
<1>h. OneGeneration /\ CallsHaveSession
  BY DEF SessionInv
<1>i. /\ req.key \in Nat /\ req.seq \in Nat /\ req.secret \in Nat
      /\ rsp.key \in Nat /\ rsp.seq \in Nat /\ rsp.secret \in Nat
  BY <1>a DEF Direction
\* A session that starts or is wiped has sealed and opened nothing.
<1>j. ASSUME NEW s \in Nat, s = 0 \/ s >= nextSess, NEW d
      PROVE  /\ \A q \in sent : Behind(q, s, d)
             /\ \A o \in opened : Behind(o, s, d)
  BY <1>j, <1>a, <1>b, <1>c, <1>d DEF Behind
<1>1. CASE ConnectFail
  <2>1. /\ sess' \in {0, nextSess} /\ nextSess' = nextSess + 1
        /\ req' = Fresh(0) /\ rsp' = Fresh(0) /\ state' = "ERROR"
        /\ UNCHANGED <<sent, opened, reused, replayed>>
        /\ call' = Idle
    BY <1>1 DEF ConnectFail, Begin
  <2>2. SealedBehind' /\ OpenedBehind'
    BY <2>1, <1>a, <1>b, <1>c, <1>d, <1>j DEF SealedBehind, OpenedBehind
  <2>3. QED
    BY <2>1, <2>2, <1>a, <1>e, <1>g
       DEF SessionInv, CallsHaveSession, OneGeneration
<1>2. CASE ConnectKeyEx
  <2>1. /\ sess' = nextSess /\ nextSess' = nextSess + 1
        /\ rsp' = Fresh(0) /\ state' = "KEY_EX" /\ call'.kind = "FINISH"
        /\ UNCHANGED <<opened, replayed>>
        /\ Seal(nextSess, Fresh(0), "FINISH", 0)
    BY <1>2 DEF ConnectKeyEx, Begin
  <2>2. \A q \in sent : /\ 1 <= q.sess /\ q.sess < nextSess + 1
                        /\ Behind(q, nextSess, Fresh(0))
    BY <1>a, <1>b, <1>d, <1>j
  <2>3. /\ reused' = FALSE
        /\ \A q \in sent' : /\ 1 <= q.sess /\ q.sess < nextSess + 1
                            /\ Behind(q, nextSess, req')
    <3>1. /\ nextSess + 1 \in Nat /\ nextSess < nextSess + 1
          /\ "FINISH" \in Kinds /\ 0 \in Nat
      BY <1>a DEF Kinds
    <3>2. QED
      BY <2>1, <2>2, <3>1, <1>a, <1>e, SealFacts
  <2>4. req'.key = 0 /\ req'.iv = 0 /\ req'.secret = 0
    BY <2>1, <1>a, <1>e, SealType DEF Kinds
  <2>5. SealedBehind'
    BY <2>1, <2>3, <1>a DEF SealedBehind
  <2>6. OpenedBehind'
    BY <2>1, <1>a, <1>c, <1>d, <1>j DEF OpenedBehind
  <2>7. QED
    BY <2>1, <2>3, <2>4, <2>5, <2>6, <1>a, <1>e
       DEF SessionInv, CallsHaveSession, OneGeneration
\* Sealing with the current or the next request material.
<1>3. ASSUME NEW kind \in Kinds, NEW tag \in Nat,
             NEW d \in {req, UpdateDirection(req)}, Seal(sess, d, kind, tag),
             state = "CONNECTED", UNCHANGED <<sess, nextSess>>
      PROVE  /\ reused' = FALSE /\ SealedBehind'
             /\ req'.key >= 1 /\ req'.iv = req'.key /\ req'.secret = req'.key
  <2>1. /\ d \in Direction /\ d.key >= req.key /\ d.iv = d.key
        /\ d.secret = d.key /\ d.key \in Nat /\ d.seq \in Nat
        /\ d = req \/ d.key = req.key + 1
    BY <1>3, <1>a, <1>h, <1>i, UpdateType
       DEF UpdateDirection, OneGeneration
  <2>2. \A q \in sent : Behind(q, sess, d)
    BY <2>1, <1>b, <1>d, <1>i DEF Behind
  <2>3. 1 <= sess
    BY <1>3, <1>a, <1>h DEF CallsHaveSession
  <2>4. /\ reused' = FALSE
        /\ \A q \in sent' : /\ 1 <= q.sess /\ q.sess < nextSess
                            /\ Behind(q, sess, req')
    BY <1>3, <2>1, <2>2, <2>3, <1>a, <1>b, SealFacts
  <2>5. req'.key = d.key /\ req'.iv = d.iv /\ req'.secret = d.secret
    BY <1>3, <2>1, <1>a, SealType
  <2>6. QED
    BY <1>3, <2>1, <2>4, <2>5, <1>a, <1>h, <1>i
       DEF SealedBehind, CallsHaveSession
\* Opening with the current or the next response material.
<1>4. ASSUME NEW r \in Deliverable,
             NEW d \in {rsp, UpdateDirection(rsp)}, Note(d, r)
      PROVE  /\ replayed' = FALSE
             /\ \A o \in opened' : /\ 1 <= o.sess /\ o.sess < nextSess
                                   /\ Behind(o, sess, AfterOpen(d, r))
             /\ AfterOpen(d, r).key >= rsp.key
             /\ AfterOpen(d, r).iv = AfterOpen(d, r).key
             /\ AfterOpen(d, r).secret = AfterOpen(d, r).key
             /\ AfterOpen(d, r).key \in Nat
  <2>1. /\ d \in Direction /\ d.key >= rsp.key /\ d.iv = d.key
        /\ d.secret = d.key /\ d.key \in Nat /\ d.seq \in Nat
        /\ d = rsp \/ d.key = rsp.key + 1
    BY <1>4, <1>a, <1>h, <1>i, UpdateType
       DEF UpdateDirection, OneGeneration
  <2>2. \A o \in opened : Behind(o, sess, d)
    BY <2>1, <1>c, <1>d, <1>i DEF Behind
  <2>3. /\ replayed' = FALSE
        /\ \A o \in opened' : /\ 1 <= o.sess /\ o.sess < nextSess
                              /\ Behind(o, sess, AfterOpen(d, r))
    BY <1>4, <1>f, <2>1, <2>2, <1>a, <1>c, NoteFacts
  <2>4. QED
    BY <2>1, <2>3, AfterOpenFacts
\* The conjuncts about state and call, which only a change of either disturbs.
<1>5. ASSUME UNCHANGED <<state, sess>>, call' = Idle \/ state = "CONNECTED",
             req'.key >= req.key, rsp'.key >= rsp.key,
             req'.key \in Nat, rsp'.key \in Nat,
             call'.kind # "FINISH"
      PROVE  CallsHaveSession'
  BY <1>5, <1>g, <1>h, <1>i DEF CallsHaveSession
<1>6. ASSUME NEW kind \in Kinds \ {"FINISH"}, NEW tag \in Nat,
             Request(kind, tag)
      PROVE  SessionInv'
  <2>1. /\ Seal(sess, req, kind, tag) /\ state = "CONNECTED"
        /\ UNCHANGED <<state, sess, nextSess, rsp, opened, replayed>>
        /\ call'.kind = kind
    BY <1>6 DEF Request
  <2>2. /\ reused' = FALSE /\ SealedBehind'
        /\ req'.key >= 1 /\ req'.iv = req'.key /\ req'.secret = req'.key
    BY <1>6, <2>1, <1>3
  <2>3. QED
    BY <2>1, <2>2, <1>a, <1>c, <1>h
       DEF SessionInv, CallsHaveSession, OneGeneration, OpenedBehind
<1>7. CASE SendData
  <2>1. /\ Seal(sess, req, "APP", 0) /\ state = "CONNECTED"
        /\ UNCHANGED <<state, sess, nextSess, rsp, opened, replayed, call>>
    BY <1>7 DEF SendData
  <2>2. /\ reused' = FALSE /\ SealedBehind'
        /\ req'.key >= 1 /\ req'.iv = req'.key /\ req'.secret = req'.key
    BY <2>1, <1>3 DEF Kinds
  <2>3. QED
    BY <2>1, <2>2, <1>a, <1>c, <1>h
       DEF SessionInv, CallsHaveSession, OneGeneration, OpenedBehind
\* A reply read with the current keys, and nothing sealed.
<1>8. ASSUME NEW r \in Deliverable, Note(rsp, r), rsp' = AfterOpen(rsp, r),
             UNCHANGED <<state, sess, nextSess, req, sent, reused>>,
             call' = Idle
      PROVE  SessionInv'
  <2>1. /\ replayed' = FALSE /\ OpenedBehind'
        /\ rsp'.key >= rsp.key /\ rsp'.iv = rsp'.key /\ rsp'.secret = rsp'.key
        /\ rsp'.key \in Nat
    BY <1>8, <1>4 DEF OpenedBehind
  <2>2. SealedBehind'
    BY <1>8, <1>a, <1>b DEF SealedBehind
  <2>3. CallsHaveSession'
    BY <1>8, <2>1, <1>g, <1>h, <1>i DEF CallsHaveSession
  <2>4. QED
    BY <1>8, <2>1, <2>2, <2>3, <1>a, <1>h DEF SessionInv, OneGeneration
<1>9. ASSUME NEW r \in Deliverable,
             ReceiveData(r) \/ ExchangeReturn(r) \/ VerifyReturn(r)
      PROVE  SessionInv'
  BY <1>8, <1>9 DEF ReceiveData, ExchangeReturn, VerifyReturn, Begin
\* The session is wiped.
<1>10. ASSUME ResetSession, call' = Idle,
              UNCHANGED <<sent, reused, nextSess>>, replayed' = FALSE,
              \A o \in opened' : o.sess \in Nat /\ 1 <= o.sess
                                 /\ o.sess < nextSess
       PROVE  SessionInv'
  <2>1. sess' = 0 /\ state' = "INIT" /\ req' = Fresh(0) /\ rsp' = Fresh(0)
    BY <1>10 DEF ResetSession
  <2>2. SealedBehind'
    BY <1>10, <2>1, <1>a, <1>b, <1>j DEF SealedBehind
  <2>3. OpenedBehind'
    BY <1>10, <2>1 DEF OpenedBehind, Behind
  <2>4. QED
    BY <1>10, <2>1, <2>2, <2>3, <1>a, <1>e, <1>g
       DEF SessionInv, CallsHaveSession, OneGeneration
<1>11. CASE DisconnectLocal
  BY <1>11, <1>10, <1>a, <1>c, <1>d DEF DisconnectLocal, Begin
<1>12. ASSUME NEW r \in Deliverable, DisconnectReturn(r)
       PROVE  SessionInv'
  <2>1. /\ replayed' = FALSE
        /\ \A o \in opened' : 1 <= o.sess /\ o.sess < nextSess
    BY <1>12, <1>4 DEF DisconnectReturn
  <2>2. \A o \in opened' : o.sess \in Nat
    BY DEF TypeOK, Reply
  <2>3. QED
    BY <1>12, <2>1, <2>2, <1>10 DEF DisconnectReturn
<1>13. ASSUME NEW r \in Deliverable, FinishReturn(r)
       PROVE  SessionInv'
  <2>1. /\ Note(rsp, r) /\ call' = Idle /\ call.kind = "FINISH"
        /\ UNCHANGED <<sess, nextSess, sent, reused>>
    BY <1>13 DEF FinishReturn
  <2>2. /\ replayed' = FALSE
        /\ \A o \in opened' : /\ 1 <= o.sess /\ o.sess < nextSess
                              /\ Behind(o, sess, AfterOpen(rsp, r))
        /\ AfterOpen(rsp, r).iv = AfterOpen(rsp, r).key
        /\ AfterOpen(rsp, r).secret = AfterOpen(rsp, r).key
    BY <2>1, <1>4
  <2>3. CASE state' = "ERROR" /\ rsp' = AfterOpen(rsp, r) /\ UNCHANGED req
    BY <2>1, <2>2, <2>3, <1>a, <1>b, <1>g, <1>h
       DEF SessionInv, CallsHaveSession, OneGeneration, SealedBehind,
           OpenedBehind
  <2>4. CASE state' = "CONNECTED" /\ req' = Fresh(1) /\ rsp' = Fresh(1)
    <3>1. req.key = 0 /\ rsp.key = 0 /\ sess # 0
      BY <2>1, <1>h DEF CallsHaveSession
    <3>2. \A q \in sent' : Behind(q, sess, req')
      BY <3>1, <2>1, <2>4, <1>b, <1>d, <1>e DEF Behind
    <3>3. \A o \in opened' : o.key \in Nat
      BY DEF TypeOK, Reply
    <3>4. AfterOpen(rsp, r).key = 0
      BY <3>1, <1>a, AfterOpenFacts
    <3>5. \A o \in opened' : Behind(o, sess, rsp')
      BY <3>3, <3>4, <2>2, <2>4, <1>e DEF Behind
    <3>6. QED
      BY <3>1, <3>2, <3>5, <2>1, <2>2, <2>4, <1>a, <1>b, <1>e, <1>g
         DEF SessionInv, CallsHaveSession, OneGeneration, SealedBehind,
             OpenedBehind
  <2>5. QED
    BY <1>13, <2>3, <2>4 DEF FinishReturn
\* KEY_UPDATE gives up with response material beyond all opened replies.
<1>14. ASSUME NEW q, NEW p \in Direction, KeyUpdateFail(q, p),
              q \in {req, UpdateDirection(req)}, state = "CONNECTED",
              UNCHANGED <<state, sess, nextSess>>, replayed' = FALSE,
              \A o \in opened' : /\ 1 <= o.sess /\ o.sess < nextSess
                                 /\ Behind(o, sess, p),
              p.key >= rsp.key, p.iv = p.key, p.secret = p.key
       PROVE  SessionInv'
  <2>1. /\ req' = q /\ rsp' = p /\ call' = Idle
        /\ UNCHANGED <<sent, reused>>
    BY <1>14 DEF KeyUpdateFail
  <2>2. /\ q.key \in Nat /\ q.iv = q.key /\ q.secret = q.key
        /\ q.key >= req.key /\ (q = req \/ q.key = req.key + 1)
    BY <1>14, <1>h, <1>i DEF UpdateDirection, OneGeneration
  <2>3. SealedBehind'
    BY <1>14, <2>1, <2>2, <1>a, <1>b, <1>d, <1>i DEF SealedBehind, Behind
  <2>4. CallsHaveSession'
    BY <1>14, <2>1, <2>2, <1>5, <1>g DEF Direction
  <2>5. QED
    BY <1>14, <2>1, <2>2, <2>3, <2>4, <1>a
       DEF SessionInv, OneGeneration, OpenedBehind
\* KEY_UPDATE goes on under the next request material.
<1>15. ASSUME NEW p \in Direction, VerifyNewKey(UpdateDirection(req), p),
              state = "CONNECTED",
              UNCHANGED <<state, sess, nextSess>>, replayed' = FALSE,
              \A o \in opened' : /\ 1 <= o.sess /\ o.sess < nextSess
                                 /\ Behind(o, sess, p),
              p.key >= rsp.key, p.iv = p.key, p.secret = p.key
       PROVE  SessionInv'
  <2>1. PICK tag \in Tags :
          /\ Seal(sess, UpdateDirection(req), "VERIFY_NEW_KEY", tag)
          /\ rsp' = p
          /\ call' = [kind |-> "VERIFY_NEW_KEY", tag |-> tag]
    BY <1>15 DEF VerifyNewKey
  <2>2. /\ reused' = FALSE /\ SealedBehind'
        /\ req'.key >= 1 /\ req'.iv = req'.key /\ req'.secret = req'.key
    BY <1>15, <2>1, <1>3 DEF Kinds
  <2>3. call'.kind = "VERIFY_NEW_KEY" /\ rsp'.key >= 1 /\ sess # 0
    BY <1>15, <2>1, <1>h, <1>i DEF CallsHaveSession, Direction
  <2>4. CallsHaveSession'
    BY <1>15, <2>2, <2>3 DEF CallsHaveSession
  <2>5. QED
    BY <1>15, <2>1, <2>2, <2>4 DEF SessionInv, OneGeneration, OpenedBehind
<1>16. ASSUME NEW r \in Deliverable, UpdateKeyReturn(r)
       PROVE  SessionInv'
  <2>1. /\ Note(rsp, r) /\ state = "CONNECTED"
        /\ UNCHANGED <<state, sess, nextSess>>
    BY <1>16, <1>h DEF UpdateKeyReturn, CallsHaveSession
  <2>2. AfterOpen(rsp, r) \in Direction
    BY <1>a, AfterOpenFacts
  <2>3. \/ VerifyNewKey(UpdateDirection(req), AfterOpen(rsp, r))
        \/ KeyUpdateFail(req, AfterOpen(rsp, r))
    BY <1>16 DEF UpdateKeyReturn, UpdateKeyDerives
  <2>4. QED
    BY <2>1, <2>2, <2>3, <1>4, <1>14, <1>15
<1>17. ASSUME NEW r \in Deliverable, UpdateAllReturn(r)
       PROVE  SessionInv'
  <2> DEFINE p == UpdateDirection(rsp)
  <2>1. /\ state = "CONNECTED" /\ UNCHANGED <<state, sess, nextSess>>
    BY <1>17, <1>h DEF UpdateAllReturn, CallsHaveSession
  <2>2. AfterOpen(rsp, r) \in Direction /\ AfterOpen(p, r) \in Direction
    BY <1>a, AfterOpenFacts, UpdateType
  <2>3. \/ Note(rsp, r) /\ KeyUpdateFail(req, AfterOpen(rsp, r))
        \/ /\ Note(p, r)
           /\ \/ VerifyNewKey(UpdateDirection(req), AfterOpen(p, r))
              \/ KeyUpdateFail(UpdateDirection(req), AfterOpen(p, r))
    BY <1>17 DEF UpdateAllReturn, Restored
  <2> HIDE DEF p
  <2>4. p \in {rsp, UpdateDirection(rsp)}
    BY DEF p
  <2>5. CASE Note(rsp, r) /\ KeyUpdateFail(req, AfterOpen(rsp, r))
    BY <2>1, <2>2, <2>5, <1>4, <1>14
  <2>6. CASE /\ Note(p, r)
             /\ VerifyNewKey(UpdateDirection(req), AfterOpen(p, r))
    BY <2>1, <2>2, <2>4, <2>6, <1>4, <1>15
  <2>7. CASE /\ Note(p, r)
             /\ KeyUpdateFail(UpdateDirection(req), AfterOpen(p, r))
    BY <2>1, <2>2, <2>4, <2>7, <1>4, <1>14
  <2>8. QED
    BY <2>3, <2>5, <2>6, <2>7
\* The transport fails: only the wipe of END_SESSION changes key material.
<1>18. CASE IoFail
  <2>1. /\ call' = Idle
        /\ UNCHANGED <<sent, opened, nextSess, reused, replayed>>
        /\ \/ state' = "ERROR" /\ UNCHANGED <<sess, req, rsp>>
           \/ ResetSession
           \/ UNCHANGED <<state, sess, req, rsp>>
    BY <1>18 DEF IoFail
  <2>2. CASE ResetSession
    BY <2>1, <2>2, <1>10, <1>a, <1>c, <1>d
  <2>3. CASE state' \in {state, "ERROR"} /\ UNCHANGED <<sess, req, rsp>>
    BY <2>1, <2>3, <1>a, <1>b, <1>c, <1>g, <1>h
       DEF SessionInv, CallsHaveSession, OneGeneration, SealedBehind,
           OpenedBehind
  <2>4. QED
    BY <2>1, <2>2, <2>3
<1>19. CASE PeerStep \/ UNCHANGED vars
  <2>1. UNCHANGED <<state, sess, req, rsp, call, sent, opened, nextSess,
                    reused, replayed>>
    BY <1>19 DEF PeerStep, PeerAccepts, PeerRefuses, PeerTakesData, vars
  <2>2. QED
    BY <2>1, <1>a, <1>b, <1>c, <1>h
       DEF SessionInv, CallsHaveSession, OneGeneration, SealedBehind,
           OpenedBehind
<1>20. CASE CallStarts
  BY <1>20, <1>1, <1>2, <1>6, <1>7, <1>9, <1>11
     DEF CallStarts, SecuredExchange, KeyUpdate, Disconnect, Kinds
<1>21. CASE CallReturns
  BY <1>21, <1>9, <1>12, <1>13, <1>16, <1>17, <1>18 DEF CallReturns
<1>22. QED
  BY <1>19, <1>20, <1>21 DEF Next

\* SessionInv holds throughout.
LEMMA SessionInvCorrect == ASSUME UpdateKeyDerives PROVE Spec => []SessionInv
<1>1. SessionInv /\ TypeOK /\ TypeOK' /\ [Next]_vars => SessionInv'
  BY SessionInvStep
<1>2. QED
  BY <1>1, SessionInvInit, TypeCorrect, PTL DEF Spec

\* No record is ever sealed under a key, IV and counter used before, when
\* UpdateKey's derivation cannot fail: for any number of calls, sessions and
\* lost, delayed, repeated or damaged records, and any counter width.
THEOREM NonceFreshCorrect == ASSUME UpdateKeyDerives PROVE Spec => []NonceFresh
<1>1. SessionInv => NonceFresh
  BY DEF SessionInv, NonceFresh
<1>2. QED
  BY <1>1, SessionInvCorrect, PTL

\* No reply is accepted twice, under the same assumption.
THEOREM NoReplayCorrect == ASSUME UpdateKeyDerives PROVE Spec => []NoReplay
<1>1. SessionInv => NoReplay
  BY DEF SessionInv, NoReplay
<1>2. QED
  BY <1>1, SessionInvCorrect, PTL

\* A connected session's key, IV and secret are of one generation in each
\* direction, whatever failed before, under the same assumption.
THEOREM KeysCoherentCorrect ==
  ASSUME UpdateKeyDerives PROVE Spec => []KeysCoherent
<1>1. SessionInv => KeysCoherent
  BY DEF SessionInv, KeysCoherent, CallsHaveSession, OneGeneration
<1>2. QED
  BY <1>1, SessionInvCorrect, PTL

\* The number on the wire is the counter in the IV for every record ever
\* sealed: the limit check stops before the 16 bits could wrap.
THEOREM WireIsCounterCorrect == Spec => []WireIsCounter
<1> USE SecuredSessionAssumption
<1>1. ASSUME NEW n \in Nat, n <= SeqMax
      PROVE  n % (SeqMax + 1) = n
  BY <1>1, SMT
<1>2. ASSUME NEW s, NEW d \in Direction, NEW kind, NEW tag, WireIsCounter,
             Seal(s, d, kind, tag)
      PROVE  WireIsCounter'
  <2>1. WireSeq(d.seq) = d.seq
    BY <1>1, <1>2 DEF Seal, CanSeal, WireSeq, Direction
  <2>2. Sealed(s, d, kind, tag).wire = Sealed(s, d, kind, tag).seq
    BY <2>1 DEF Sealed
  <2>3. QED
    BY <1>2, <2>2 DEF Seal, WireIsCounter
<1>3. ASSUME WireIsCounter, TypeOK, [Next]_vars
      PROVE  WireIsCounter'
  <2>1. Fresh(0) \in Direction
    BY FreshType
  <2>2. UpdateDirection(req) \in Direction
    BY <1>3, UpdateType DEF TypeOK
  <2>3. CASE UNCHANGED sent
    BY <1>3, <2>3 DEF WireIsCounter
  <2>4. CASE ConnectKeyEx \/ SendData
    BY <1>2, <1>3, <2>1, <2>4 DEF ConnectKeyEx, SendData, TypeOK
  <2>5. ASSUME NEW kind, NEW tag, Request(kind, tag)
        PROVE  WireIsCounter'
    BY <1>2, <1>3, <2>5 DEF Request, TypeOK
  <2>6. ASSUME NEW p, VerifyNewKey(UpdateDirection(req), p)
        PROVE  WireIsCounter'
    BY <1>2, <1>3, <2>2, <2>6 DEF VerifyNewKey
  <2>7. ASSUME NEW r, UpdateKeyReturn(r) \/ UpdateAllReturn(r)
        PROVE  WireIsCounter'
    BY <2>3, <2>6, <2>7
       DEF UpdateKeyReturn, UpdateAllReturn, KeyUpdateFail
  <2>8. CASE CallStarts
    BY <2>3, <2>4, <2>5, <2>8
       DEF CallStarts, ConnectFail, SecuredExchange, ReceiveData, KeyUpdate,
           Disconnect, DisconnectLocal
  <2>9. CASE CallReturns
    BY <2>3, <2>7, <2>9
       DEF CallReturns, FinishReturn, ExchangeReturn, VerifyReturn,
           DisconnectReturn, IoFail
  <2>10. CASE PeerStep \/ UNCHANGED vars
    BY <2>3, <2>10 DEF PeerStep, PeerAccepts, PeerRefuses, PeerTakesData, vars
  <2>11. QED
    BY <1>3, <2>8, <2>9, <2>10 DEF Next
<1>4. Init => WireIsCounter
  BY DEF Init, WireIsCounter
<1>5. WireIsCounter /\ TypeOK /\ [Next]_vars => WireIsCounter'
  BY <1>3
<1>6. QED
  BY <1>4, <1>5, TypeCorrect, PTL DEF Spec

-----------------------------------------------------------------------------
(* Agreement with the responder *)

\* Handshake keys seal FINISH and nothing else.
SentKinds == \A q \in sent : q.key = 0 <=> q.kind = "FINISH"

\* The responder's own key and counter lie beyond every reply it sealed.
RepliesBehind ==
  /\ peer.sess < nextSess
  /\ peer.reqKey = 0 => peer.rspKey = 0
  /\ \A r \in replies : /\ 1 <= r.sess /\ r.sess < nextSess
                        /\ r.sess = peer.sess =>
                             \/ r.key < peer.rspKey
                             \/ r.key = peer.rspKey /\ r.seq < peer.rspSeq

\* While FINISH is outstanding the responder holds handshake keys, or it has
\* acknowledged FINISH and holds the first application keys, unused.
KeyExAgrees ==
  /\ state = "KEY_EX" => call.kind = "FINISH"
  /\ state = "KEY_EX" /\ sess = peer.sess =>
       \/ /\ peer.reqKey = 0 /\ peer.rspKey = 0
          /\ \A r \in replies :
               ~(r.sess = sess /\ r.kind = "FINISH" /\ r.answer = "ACK")
       \/ /\ peer.reqKey = 1 /\ peer.reqSeq = 0
          /\ peer.rspKey = 1 /\ peer.rspSeq = 0

\* A reply that some later counter or key of the requester could still open.
Unread(r) == \/ r.key > rsp.key
             \/ r.key = rsp.key /\ r.seq >= rsp.seq

UpdateAck(r) == r.answer = "ACK" /\ r.kind \in {"UPDATE_KEY", "UPDATE_ALL"}

\* The responder has rotated its request key and the requester has not: it
\* reads nothing until the requester follows.
Rotated == peer.reqKey = req.key + 1 /\ peer.reqSeq = 0

\* The responder is level or one rotation ahead, and an acknowledged update
\* the requester has not read is the last thing the responder said.
RotationAgrees ==
  state = "CONNECTED" /\ sess = peer.sess =>
    /\ peer.reqKey = req.key \/ Rotated
    /\ \/ peer.rspKey = rsp.key
       \/ peer.rspKey = rsp.key + 1 /\ peer.rspSeq = 1 /\ Rotated
    /\ \A r \in replies :
         r.sess = sess /\ Unread(r) /\ UpdateAck(r) =>
           Rotated /\ r.key = peer.rspKey /\ peer.rspSeq = r.seq + 1

\* While VERIFY_NEW_KEY is outstanding both sides hold the new keys, and it is
\* the only record sealed under them.
VerifyAgrees ==
  call.kind = "VERIFY_NEW_KEY" /\ sess = peer.sess =>
    /\ peer.reqKey = req.key /\ peer.rspKey = rsp.key
    /\ req.seq = 1
    /\ \/ peer.reqSeq = 0 /\ peer.rspSeq = rsp.seq
       \/ peer.reqSeq = 1 /\ peer.rspSeq = rsp.seq + 1
    /\ \A q \in sent : q.sess = sess /\ q.key = req.key =>
                         q.kind = "VERIFY_NEW_KEY"

SyncInv == /\ SentKinds
           /\ RepliesBehind
           /\ KeyExAgrees
           /\ RotationAgrees
           /\ VerifyAgrees
           /\ UpdateAgrees

\* The initial state satisfies it.
LEMMA SyncInvInit == Init => SyncInv
  BY DEF Init, SyncInv, SentKinds, RepliesBehind, KeyExAgrees, RotationAgrees,
         VerifyAgrees, UpdateAgrees, Session, Idle, Fresh

\* Every step of the requester and of the responder keeps it.
LEMMA SyncInvStep ==
  ASSUME UpdateKeyDerives, TypeOK, TypeOK', SessionInv, SessionInv', SyncInv,
         [Next]_vars
  PROVE  SyncInv'
<1> USE SecuredSessionAssumption
<1>a. /\ sess \in Nat /\ nextSess \in Nat /\ sess < nextSess /\ 1 <= nextSess
      /\ req \in Direction /\ rsp \in Direction
      /\ req' \in Direction /\ rsp' \in Direction
      /\ nextSess' \in Nat /\ sess' \in Nat
  BY DEF TypeOK, SessionInv, SealedBehind
<1>b. /\ req.key \in Nat /\ req.seq \in Nat /\ req.secret = req.key
      /\ rsp.key \in Nat /\ rsp.seq \in Nat /\ rsp.secret = rsp.key
      /\ rsp.iv = rsp.key
      /\ req'.key \in Nat /\ req'.seq \in Nat
      /\ rsp'.key \in Nat /\ rsp'.seq \in Nat
  BY <1>a DEF Direction, SessionInv, OneGeneration
<1>c. /\ peer.sess \in Nat /\ peer.reqKey \in Nat /\ peer.reqSeq \in Nat
      /\ peer.rspKey \in Nat /\ peer.rspSeq \in Nat
  BY DEF TypeOK
<1>d. /\ \A q \in sent : q.sess \in Nat /\ q.key \in Nat /\ q.seq \in Nat
      /\ \A r \in replies : r.sess \in Nat /\ r.key \in Nat /\ r.seq \in Nat
  BY DEF TypeOK, Record, Reply
<1>e. \A q \in sent : q.sess = sess => \/ q.key < req.key
                                       \/ q.key = req.key /\ q.seq < req.seq
  BY DEF SessionInv, SealedBehind, Behind
<1>f. CallsHaveSession /\ CallsHaveSession'
  BY DEF SessionInv
<1>g. /\ SentKinds /\ RepliesBehind /\ KeyExAgrees
      /\ RotationAgrees /\ VerifyAgrees /\ UpdateAgrees
  BY DEF SyncInv
<1>h. Idle.kind = "NONE"
  BY DEF Idle
\* What a reply that opens says about the responder.
<1>i. ASSUME NEW r \in Deliverable, NEW d, Opens(d, r)
      PROVE  /\ r \in replies /\ r.sess = sess /\ sess # 0
             /\ r.key = d.key /\ r.seq = d.seq
             /\ sess = peer.sess =>
                  \/ d.key < peer.rspKey
                  \/ d.key = peer.rspKey /\ d.seq < peer.rspSeq
  <2>1. r.sess = sess /\ sess # 0 /\ r.key = d.key /\ r.seq = d.seq
    BY <1>i DEF Opens, Authentic
  <2>2. r \in replies
    BY <2>1 DEF Deliverable, Garbage
  <2>3. QED
    BY <2>1, <2>2, <1>g DEF RepliesBehind
\* The session is over, or a new one starts.
<1>1. ASSUME UNCHANGED <<replies, sent, peer, nextSess>>,
             state' \notin {"KEY_EX", "CONNECTED"}, call' = Idle
      PROVE  SyncInv'
  BY <1>1, <1>g, <1>h DEF SyncInv, SentKinds, RepliesBehind, KeyExAgrees,
                          RotationAgrees, VerifyAgrees, UpdateAgrees
<1>2. CASE ConnectFail
  <2>1. /\ nextSess' = nextSess + 1 /\ state' = "ERROR" /\ call' = Idle
        /\ UNCHANGED <<sent, replies>>
        /\ peer' = peer \/ peer' = Session(nextSess, 0, 0, 0, 0)
    BY <1>2 DEF ConnectFail, Begin
  <2>2. RepliesBehind'
    BY <2>1, <1>a, <1>c, <1>d, <1>g DEF RepliesBehind, Session
  <2>3. QED
    BY <2>1, <2>2, <1>g, <1>h DEF SyncInv, SentKinds, KeyExAgrees,
                                  RotationAgrees, VerifyAgrees, UpdateAgrees
<1>3. CASE ConnectKeyEx
  <2>1. /\ nextSess' = nextSess + 1 /\ state' = "KEY_EX"
        /\ call'.kind = "FINISH" /\ sess' = nextSess
        /\ UNCHANGED <<replies>>
        /\ peer' = Session(nextSess, 0, 0, 0, 0)
        /\ Seal(nextSess, Fresh(0), "FINISH", 0)
    BY <1>3 DEF ConnectKeyEx
  <2>2. RepliesBehind'
    BY <2>1, <1>a, <1>c, <1>d, <1>g DEF RepliesBehind, Session
  <2>3. SentKinds'
    BY <2>1, <1>g DEF Seal, SentKinds, Sealed, Fresh
  <2>4. KeyExAgrees'
    BY <2>1, <1>a, <1>d, <1>g DEF KeyExAgrees, Session, RepliesBehind
  <2>5. QED
    BY <2>1, <2>2, <2>3, <2>4 DEF SyncInv, RotationAgrees, VerifyAgrees,
                                  UpdateAgrees
\* A request sealed under the current keys.
<1>4. ASSUME NEW kind \in Kinds \ {"FINISH", "VERIFY_NEW_KEY"}, NEW tag \in Nat,
             Seal(sess, req, kind, tag), state = "CONNECTED",
             UNCHANGED <<state, sess, rsp, peer, replies, nextSess>>,
             call'.kind # "VERIFY_NEW_KEY",
             call' # Idle \/ rc' # <<"KEY_UPDATE", "OK">>
      PROVE  SyncInv'
  <2>1. req'.key = req.key
    BY <1>4, <1>a, SealType DEF TypeOK
  <2>2. sent' = sent \union {Sealed(sess, req, kind, tag)}
    BY <1>4 DEF Seal
  <2>3. /\ Sealed(sess, req, kind, tag).key = req.key
        /\ Sealed(sess, req, kind, tag).kind = kind
    BY DEF Sealed
  <2>4. SentKinds'
    BY <1>4, <2>2, <2>3, <1>f, <1>g DEF SentKinds, CallsHaveSession
  <2>5. RotationAgrees'
    BY <1>4, <2>1, <1>g DEF RotationAgrees, Rotated, Unread
  <2>6. RepliesBehind'
    BY <1>4, <1>g DEF RepliesBehind
  <2>7. QED
    BY <1>4, <2>4, <2>5, <2>6 DEF SyncInv, KeyExAgrees, VerifyAgrees,
                                  UpdateAgrees
<1>5. ASSUME NEW kind \in Kinds \ {"FINISH", "VERIFY_NEW_KEY"}, NEW tag \in Nat,
             Request(kind, tag)
      PROVE  SyncInv'
  <2>1. call'.kind = kind /\ kind # "NONE"
    BY <1>5 DEF Request, Kinds
  <2>2. QED
    BY <1>4, <1>5, <2>1, <1>h DEF Request
<1>6. CASE SendData
  <2>1. call'.kind = "NONE" /\ rc' = <<"SEND", "OK">>
    BY <1>6, <1>h DEF SendData, Begin, Returns
  <2>2. rc' # <<"KEY_UPDATE", "OK">>
    BY <2>1
  <2>3. QED
    BY <1>4, <1>6, <2>1, <2>2 DEF SendData, Kinds
\* A reply read with the current keys, and nothing rotated.
<1>7. ASSUME NEW r \in Deliverable, rsp' = AfterOpen(rsp, r), call' = Idle,
             UNCHANGED <<state, sess, req, sent, peer, replies, nextSess>>,
             state = "CONNECTED", UpdateAgrees'
      PROVE  SyncInv'
  <2>1. rsp'.key = rsp.key /\ rsp'.seq >= rsp.seq
    BY <1>7, <1>a, <1>b, AfterOpenFacts
  <2>2. RotationAgrees'
    BY <1>7, <2>1, <1>b, <1>d, <1>g DEF RotationAgrees, Rotated, Unread
  <2>3. SentKinds' /\ RepliesBehind'
    BY <1>7, <1>g DEF SentKinds, RepliesBehind
  <2>4. QED
    BY <1>7, <2>2, <2>3, <1>h DEF SyncInv, KeyExAgrees, VerifyAgrees
<1>8. ASSUME NEW r \in Deliverable, ReceiveData(r) \/ ExchangeReturn(r)
      PROVE  SyncInv'
  <2>1. rc'[1] \in {"RECEIVE", "HEARTBEAT", "REQUEST"}
    BY <1>8 DEF ReceiveData, ExchangeReturn, Returns
  <2>2. UpdateAgrees'
    BY <2>1 DEF UpdateAgrees
  <2>3. state = "CONNECTED"
    BY <1>8, <1>f DEF ReceiveData, ExchangeReturn, CallsHaveSession
  <2>4. QED
    BY <1>7, <1>8, <2>2, <2>3 DEF ReceiveData, ExchangeReturn, Begin
\* The acknowledgement of VERIFY_NEW_KEY closes an update.
<1>9. ASSUME NEW r \in Deliverable, VerifyReturn(r)
      PROVE  SyncInv'
  <2>1. /\ call.kind = "VERIFY_NEW_KEY" /\ state = "CONNECTED" /\ call' = Idle
        /\ rsp' = AfterOpen(rsp, r)
        /\ UNCHANGED <<state, sess, req, sent, peer, replies, nextSess>>
    BY <1>9, <1>f DEF VerifyReturn, CallsHaveSession
  <2>2. CASE ~Opens(rsp, r)
    <3>1. rc' # <<"KEY_UPDATE", "OK">>
      BY <2>2, <1>9 DEF VerifyReturn, Returns, Reads
    <3>2. QED
      BY <2>1, <3>1, <1>7 DEF UpdateAgrees
  <2>3. CASE Opens(rsp, r)
    <3>1. rsp'.key = rsp.key /\ rsp'.seq = rsp.seq + 1
      BY <2>1, <2>3, <1>a, AfterOpenFacts
    <3>2. sess = peer.sess => /\ peer.reqKey = req.key /\ peer.rspKey = rsp.key
                              /\ peer.reqSeq = 1 /\ req.seq = 1
                              /\ peer.rspSeq = rsp.seq + 1
      BY <2>1, <2>3, <1>b, <1>c, <1>g, <1>i DEF VerifyAgrees
    <3>3. UpdateAgrees'
      BY <2>1, <3>1, <3>2 DEF UpdateAgrees
    <3>4. QED
      BY <2>1, <3>3, <1>7
  <2>4. QED
    BY <2>2, <2>3
<1>10. CASE DisconnectLocal
  BY <1>1, <1>10 DEF DisconnectLocal, ResetSession, Begin
<1>11. ASSUME NEW r \in Deliverable, DisconnectReturn(r)
       PROVE  SyncInv'
  BY <1>1, <1>11 DEF DisconnectReturn, ResetSession
<1>12. ASSUME NEW r \in Deliverable, FinishReturn(r)
       PROVE  SyncInv'
  <2>1. /\ call' = Idle /\ call.kind = "FINISH" /\ state = "KEY_EX"
        /\ UNCHANGED <<sess, peer, sent, replies, nextSess>>
    BY <1>12, <1>f DEF FinishReturn, CallsHaveSession
  <2>2. CASE state' = "ERROR"
    BY <1>1, <2>1, <2>2
  <2>3. CASE /\ Opens(rsp, r) /\ r.answer = "ACK" /\ r.kind = "FINISH"
             /\ state' = "CONNECTED" /\ req' = Fresh(1) /\ rsp' = Fresh(1)
             /\ rc' = <<"CONNECT", "OK">>
    <3>1. r \in replies /\ r.sess = sess
      BY <2>3, <1>i
    <3>2. sess = peer.sess => /\ peer.reqKey = 1 /\ peer.reqSeq = 0
                              /\ peer.rspKey = 1 /\ peer.rspSeq = 0
      BY <2>1, <2>3, <3>1, <1>g DEF KeyExAgrees
    <3>3. req'.key = 1 /\ rsp'.key = 1 /\ rsp'.seq = 0
      BY <2>3 DEF Fresh
    <3>4. RotationAgrees'
      BY <2>1, <3>2, <3>3, <1>d, <1>g DEF RotationAgrees, Unread, RepliesBehind
    <3>5. rc' # <<"KEY_UPDATE", "OK">>
      BY <2>3
    <3>6. SentKinds' /\ RepliesBehind'
      BY <2>1, <1>g DEF SentKinds, RepliesBehind
    <3>7. QED
      BY <2>1, <2>3, <3>4, <3>5, <3>6, <1>h
         DEF SyncInv, KeyExAgrees, VerifyAgrees, UpdateAgrees
  <2>4. QED
    BY <1>12, <2>2, <2>3 DEF FinishReturn, Returns
\* KEY_UPDATE gives up: level again, or as before.
<1>13. ASSUME NEW q, NEW p, KeyUpdateFail(q, p), state = "CONNECTED",
              UNCHANGED <<state, sess, peer, replies, nextSess>>,
              q.key \in Nat, p.key \in Nat, p.seq \in Nat,
              \/ q = req /\ p.key = rsp.key /\ p.seq >= rsp.seq
              \/ sess = peer.sess =>
                   /\ peer.reqKey = q.key /\ peer.rspKey = p.key
                   /\ peer.rspSeq = p.seq
       PROVE  SyncInv'
  <2>1. /\ req' = q /\ rsp' = p /\ call' = Idle /\ UNCHANGED sent
        /\ rc' = <<"KEY_UPDATE", "FAIL">>
    BY <1>13 DEF KeyUpdateFail, Returns
  <2>2. rc' # <<"KEY_UPDATE", "OK">>
    BY <2>1
  <2>3. ASSUME q = req, p.key = rsp.key, p.seq >= rsp.seq
        PROVE  RotationAgrees'
    <3>1. \A r \in replies : Unread(r)' => Unread(r)
      BY <1>13, <2>1, <2>3, <1>b, <1>d DEF Unread
    <3>2. QED
      BY <1>13, <2>1, <2>3, <3>1, <1>b, <1>d, <1>g DEF RotationAgrees, Rotated
  <2>4. ASSUME sess = peer.sess => /\ peer.reqKey = q.key
                                   /\ peer.rspKey = p.key
                                   /\ peer.rspSeq = p.seq
        PROVE  RotationAgrees'
    BY <1>13, <2>1, <2>4, <1>d, <1>g DEF RotationAgrees, Unread, RepliesBehind
  <2>5. SentKinds' /\ RepliesBehind'
    BY <1>13, <2>1, <1>g DEF SentKinds, RepliesBehind
  <2>6. RotationAgrees'
    BY <1>13, <2>3, <2>4
  <2>7. QED
    BY <1>13, <2>1, <2>2, <2>5, <2>6, <1>h
       DEF SyncInv, KeyExAgrees, VerifyAgrees, UpdateAgrees
\* KEY_UPDATE goes on: the responder has rotated and said nothing since.
<1>14. ASSUME NEW p, VerifyNewKey(UpdateDirection(req), p), state = "CONNECTED",
              UNCHANGED <<state, sess, peer, replies, nextSess>>,
              p.key \in Nat, p.seq \in Nat,
              sess = peer.sess => /\ Rotated /\ peer.rspKey = p.key
                                  /\ peer.rspSeq = p.seq
       PROVE  SyncInv'
  <2> DEFINE d == UpdateDirection(req)
  <2>1. d \in Direction /\ d.key = req.key + 1 /\ d.seq = 0
    BY <1>a, <1>b, UpdateType DEF UpdateDirection
  <2> HIDE DEF d
  <2>2. PICK tag \in Tags :
          /\ Seal(sess, d, "VERIFY_NEW_KEY", tag)
          /\ rsp' = p
          /\ call' = [kind |-> "VERIFY_NEW_KEY", tag |-> tag]
    BY <1>14 DEF VerifyNewKey, d
  <2>3. req'.key = req.key + 1 /\ req'.seq = 1
    BY <2>1, <2>2, <1>a, SealType DEF TypeOK, Kinds
  <2>4. sent' = sent \union {Sealed(sess, d, "VERIFY_NEW_KEY", tag)}
    BY <2>2 DEF Seal
  <2>5. /\ Sealed(sess, d, "VERIFY_NEW_KEY", tag).key = req.key + 1
        /\ Sealed(sess, d, "VERIFY_NEW_KEY", tag).kind = "VERIFY_NEW_KEY"
    BY <2>1 DEF Sealed
  <2>6. SentKinds'
    BY <2>4, <2>5, <1>b, <1>g DEF SentKinds
  <2>7. \A q \in sent' : q.sess = sess /\ q.key = req'.key =>
                           q.kind = "VERIFY_NEW_KEY"
    BY <2>3, <2>4, <2>5, <1>b, <1>d, <1>e
  <2>8. VerifyAgrees'
    BY <1>14, <2>2, <2>3, <2>7, <1>b, <1>c DEF VerifyAgrees, Rotated
  <2>9. RotationAgrees'
    BY <1>14, <2>2, <2>3, <1>d, <1>g
       DEF RotationAgrees, Rotated, Unread, RepliesBehind
  <2>10. RepliesBehind'
    BY <1>14, <1>g DEF RepliesBehind
  <2>11. call'.kind = "VERIFY_NEW_KEY"
    BY <2>2
  <2>12. QED
    BY <1>14, <2>6, <2>8, <2>9, <2>10, <2>11, <1>h
       DEF SyncInv, KeyExAgrees, UpdateAgrees
\* An acknowledgement of UPDATE_KEY is the last thing the responder said.
<1>15. ASSUME NEW r \in Deliverable, UpdateKeyReturn(r)
       PROVE  SyncInv'
  <2>1. /\ call.kind = "UPDATE_KEY" /\ state = "CONNECTED"
        /\ UNCHANGED <<state, sess, peer, replies, nextSess>>
    BY <1>15, <1>f DEF UpdateKeyReturn, CallsHaveSession
  <2>2. /\ AfterOpen(rsp, r).key = rsp.key
        /\ AfterOpen(rsp, r).seq \in Nat /\ AfterOpen(rsp, r).seq >= rsp.seq
        /\ Opens(rsp, r) => AfterOpen(rsp, r).seq = rsp.seq + 1
    BY <1>a, <1>b, AfterOpenFacts
  <2>3. CASE /\ Reads(rsp, r) /\ AcksUpdate(r)
             /\ VerifyNewKey(UpdateDirection(req), AfterOpen(rsp, r))
    <3>1. /\ Opens(rsp, r) /\ UpdateAck(r)
      BY <2>1, <2>3 DEF Reads, AcksUpdate, UpdateAck
    <3>2. r \in replies /\ r.sess = sess /\ Unread(r)
      BY <3>1, <1>b, <1>i DEF Unread
    <3>3. sess = peer.sess => /\ Rotated /\ peer.rspKey = rsp.key
                              /\ peer.rspSeq = rsp.seq + 1
      BY <2>1, <3>1, <3>2, <1>g, <1>i DEF RotationAgrees
    <3>4. QED
      BY <2>1, <2>2, <2>3, <3>1, <3>3, <1>b, <1>14
  <2>4. CASE KeyUpdateFail(req, AfterOpen(rsp, r))
    BY <2>1, <2>2, <2>4, <1>b, <1>13
  <2>5. QED
    BY <1>15, <2>3, <2>4 DEF UpdateKeyReturn, UpdateKeyDerives
\* A record that opens under the next response key proves that both keys of
\* the responder are the next ones.
<1>16. ASSUME NEW r \in Deliverable, UpdateAllReturn(r)
       PROVE  SyncInv'
  <2> DEFINE p == UpdateDirection(rsp)
             q == UpdateDirection(req)
  <2>1. /\ state = "CONNECTED"
        /\ UNCHANGED <<state, sess, peer, replies, nextSess>>
    BY <1>16, <1>f DEF UpdateAllReturn, CallsHaveSession
  <2>2. /\ AfterOpen(rsp, r).key = rsp.key
        /\ AfterOpen(rsp, r).seq \in Nat /\ AfterOpen(rsp, r).seq >= rsp.seq
    BY <1>a, <1>b, AfterOpenFacts
  <2>3. \/ KeyUpdateFail(req, AfterOpen(rsp, r))
        \/ /\ Opens(p, r)
           /\ \/ VerifyNewKey(q, AfterOpen(p, r))
              \/ KeyUpdateFail(q, AfterOpen(p, r))
    BY <1>16 DEF UpdateAllReturn, Restored, Reads
  <2>4. /\ p \in Direction /\ p.key = rsp.key + 1 /\ p.seq = 0
        /\ q.key = req.key + 1
    BY <1>a, <1>b, UpdateType DEF UpdateDirection
  <2> HIDE DEF p, q
  <2>5. CASE KeyUpdateFail(req, AfterOpen(rsp, r))
    BY <2>1, <2>2, <2>5, <1>b, <1>13
  <2>6. CASE Opens(p, r)
    <3>1. AfterOpen(p, r).key = rsp.key + 1 /\ AfterOpen(p, r).seq = 1
      BY <2>4, <2>6, AfterOpenFacts
    <3>2. sess = peer.sess => /\ Rotated /\ peer.rspKey = rsp.key + 1
                              /\ peer.rspSeq = 1
      BY <2>1, <2>4, <2>6, <1>b, <1>c, <1>g, <1>i DEF RotationAgrees
    <3>3. CASE VerifyNewKey(q, AfterOpen(p, r))
      BY <2>1, <3>1, <3>2, <3>3, <1>b, <1>14 DEF q
    <3>4. CASE KeyUpdateFail(q, AfterOpen(p, r))
      BY <2>1, <2>4, <3>1, <3>2, <3>4, <1>b, <1>13 DEF Rotated
    <3>5. QED
      BY <2>3, <2>5, <3>3, <3>4
  <2>7. QED
    BY <2>3, <2>5, <2>6
<1>17. CASE IoFail
  <2>1. /\ call' = Idle /\ call # Idle
        /\ UNCHANGED <<sent, peer, replies, nextSess>>
        /\ \/ state' = "ERROR"
           \/ ResetSession
           \/ /\ UNCHANGED <<state, sess, req, rsp>>
              /\ call.kind \notin {"NONE", "FINISH"}
              /\ rc' # <<"KEY_UPDATE", "OK">>
    BY <1>17, <1>h DEF IoFail, Returns
  <2>2. CASE state' = "ERROR" \/ ResetSession
    BY <1>1, <2>1, <2>2 DEF ResetSession
  <2>3. CASE /\ UNCHANGED <<state, sess, req, rsp>>
             /\ call.kind \notin {"NONE", "FINISH"}
             /\ rc' # <<"KEY_UPDATE", "OK">>
    <3>1. state = "CONNECTED"
      BY <2>3, <1>f DEF CallsHaveSession
    <3>2. RotationAgrees' /\ SentKinds' /\ RepliesBehind'
      BY <2>1, <2>3, <1>g
         DEF RotationAgrees, Rotated, Unread, SentKinds, RepliesBehind
    <3>3. QED
      BY <2>1, <2>3, <3>1, <3>2, <1>h
         DEF SyncInv, KeyExAgrees, VerifyAgrees, UpdateAgrees
  <2>4. QED
    BY <2>1, <2>2, <2>3
\* The responder reads q only while it is level with the requester.
<1>18. ASSUME NEW q \in sent, PeerOpens(q)
       PROVE  /\ q.sess = peer.sess /\ peer.sess # 0
              /\ q.key = peer.reqKey /\ q.seq = peer.reqSeq
              /\ sess = peer.sess => \/ peer.reqKey < req.key
                                     \/ /\ peer.reqKey = req.key
                                        /\ peer.reqSeq < req.seq
              /\ state = "CONNECTED" /\ sess = peer.sess =>
                   /\ q.kind # "FINISH"
                   /\ peer.reqKey = req.key /\ peer.rspKey = rsp.key
                   /\ \A r \in replies :
                        ~(r.sess = sess /\ Unread(r) /\ UpdateAck(r))
                   /\ ~(rc = <<"KEY_UPDATE", "OK">> /\ call = Idle)
              /\ state = "KEY_EX" /\ sess = peer.sess =>
                   peer.reqKey = 0 /\ peer.rspKey = 0 /\ q.kind = "FINISH"
              /\ call.kind = "VERIFY_NEW_KEY" /\ sess = peer.sess =>
                   q.kind = "VERIFY_NEW_KEY"
  <2>1. /\ q.sess = peer.sess /\ peer.sess # 0
        /\ q.key = peer.reqKey /\ q.seq = peer.reqSeq
    BY <1>18 DEF PeerOpens
  <2>2. sess = peer.sess => \/ peer.reqKey < req.key
                            \/ /\ peer.reqKey = req.key
                               /\ peer.reqSeq < req.seq
    BY <2>1, <1>e
  <2>3. ASSUME state = "CONNECTED", sess = peer.sess
        PROVE  /\ q.kind # "FINISH"
               /\ peer.reqKey = req.key /\ peer.rspKey = rsp.key
               /\ \A r \in replies :
                    ~(r.sess = sess /\ Unread(r) /\ UpdateAck(r))
               /\ ~(rc = <<"KEY_UPDATE", "OK">> /\ call = Idle)
    <3>1. peer.reqKey = req.key /\ ~Rotated /\ peer.reqSeq < req.seq
      BY <2>2, <2>3, <1>b, <1>c, <1>g DEF RotationAgrees, Rotated
    <3>2. q.kind # "FINISH"
      BY <2>1, <2>3, <3>1, <1>f, <1>g DEF SentKinds, CallsHaveSession
    <3>3. /\ peer.rspKey = rsp.key
          /\ \A r \in replies : ~(r.sess = sess /\ Unread(r) /\ UpdateAck(r))
      BY <2>3, <3>1, <1>g DEF RotationAgrees
    <3>4. ~(rc = <<"KEY_UPDATE", "OK">> /\ call = Idle)
      BY <2>3, <3>1, <1>b, <1>c, <1>g DEF UpdateAgrees
    <3>5. QED
      BY <3>1, <3>2, <3>3, <3>4
  <2>4. ASSUME state = "KEY_EX", sess = peer.sess
        PROVE  peer.reqKey = 0 /\ peer.rspKey = 0 /\ q.kind = "FINISH"
    BY <2>1, <2>2, <2>4, <1>c, <1>f, <1>g
       DEF KeyExAgrees, CallsHaveSession, SentKinds
  <2>5. ASSUME call.kind = "VERIFY_NEW_KEY", sess = peer.sess
        PROVE  q.kind = "VERIFY_NEW_KEY"
    BY <2>1, <2>5, <1>g DEF VerifyAgrees
  <2>6. QED
    BY <2>1, <2>2, <2>3, <2>4, <2>5
\* It answers without rotating, or it takes application data in silence.
<1>19. ASSUME NEW q \in sent, PeerOpens(q), NEW n \in {0, 1},
              peer' = Session(peer.sess, peer.reqKey, peer.reqSeq + 1,
                              peer.rspKey, peer.rspSeq + n),
              \/ n = 0 /\ replies' = replies /\ q.kind = "APP"
              \/ /\ n = 1
                 /\ \E answer : /\ replies' = replies \union
                                              {PeerReply(peer, q, answer)}
                                /\ q.kind \in {"FINISH", "UPDATE_KEY",
                                               "UPDATE_ALL"} => answer # "ACK",
              UNCHANGED <<state, sess, req, rsp, call, rc, sent, nextSess>>
       PROVE  SyncInv'
  <2>1. /\ peer'.sess = peer.sess /\ peer'.reqKey = peer.reqKey
        /\ peer'.reqSeq = peer.reqSeq + 1 /\ peer'.rspKey = peer.rspKey
        /\ peer'.rspSeq = peer.rspSeq + n /\ n \in Nat
    BY <1>19 DEF Session
  <2>2. \A r \in replies' : \/ r \in replies
                            \/ /\ n = 1 /\ r.sess = peer.sess
                               /\ r.key = peer.rspKey /\ r.seq = peer.rspSeq
                               /\ ~UpdateAck(r)
                               /\ ~(r.kind = "FINISH" /\ r.answer = "ACK")
    BY <1>19 DEF PeerReply, UpdateAck
  <2>3. SentKinds'
    BY <1>19, <1>g DEF SentKinds
  <2>4. RepliesBehind'
    BY <1>19, <2>1, <2>2, <1>18, <1>c, <1>d, <1>g DEF RepliesBehind
  <2>5. KeyExAgrees'
    BY <1>19, <2>1, <2>2, <1>18, <1>g DEF KeyExAgrees
  <2>6. \A r : Unread(r)' <=> Unread(r)
    BY <1>19 DEF Unread
  <2>7. \A r : UpdateAck(r)' <=> UpdateAck(r)
    BY DEF UpdateAck
  <2>8. ASSUME state = "CONNECTED", sess = peer.sess, NEW r \in replies',
               r.sess = sess, Unread(r), UpdateAck(r)
        PROVE  FALSE
    BY <1>19, <2>2, <2>8, <1>18
  <2>9. RotationAgrees'
    BY <1>19, <2>1, <2>6, <2>7, <2>8, <1>18 DEF RotationAgrees
  <2>10. VerifyAgrees'
    BY <1>19, <2>1, <1>18, <1>b, <1>c, <1>g DEF VerifyAgrees
  <2>11. UpdateAgrees'
    BY <1>19, <2>1, <1>18 DEF UpdateAgrees
  <2>12. QED
    BY <2>3, <2>4, <2>5, <2>9, <2>10, <2>11 DEF SyncInv
\* It acknowledges an update: from then on it waits for the next request key.
<1>20. ASSUME NEW q \in sent, PeerOpens(q), NEW x, NEW all \in {0, 1},
              q.kind \in {"UPDATE_KEY", "UPDATE_ALL"},
              peer'.sess = peer.sess, peer'.reqKey = peer.reqKey + 1,
              peer'.reqSeq = 0, peer'.rspKey = peer.rspKey + all,
              peer'.rspSeq = x.seq + 1, x.key = peer'.rspKey,
              x.sess = peer.sess, x.seq = (IF all = 1 THEN 0 ELSE peer.rspSeq),
              x.kind = q.kind,
              replies' = replies \union {x},
              UNCHANGED <<state, sess, req, rsp, call, rc, sent, nextSess>>
       PROVE  SyncInv'
  <2>1. x.seq \in Nat /\ x.key \in Nat /\ all \in Nat
    BY <1>20, <1>c
  <2>2. SentKinds'
    BY <1>20, <1>g DEF SentKinds
  <2>3. peer.reqKey + 1 # 0 /\ peer.sess < nextSess /\ 1 <= peer.sess
    BY <1>20, <1>18, <1>c, <1>g DEF RepliesBehind
  <2>4. RepliesBehind'
    BY <1>20, <2>1, <2>3, <1>c, <1>d, <1>g DEF RepliesBehind
  <2>5. KeyExAgrees'
    BY <1>20, <1>18, <1>g DEF KeyExAgrees
  <2>6. \A r : Unread(r)' <=> Unread(r)
    BY <1>20 DEF Unread
  <2>7. \A r : UpdateAck(r)' <=> UpdateAck(r)
    BY DEF UpdateAck
  <2>8. RotationAgrees'
    <3>1. SUFFICES ASSUME state = "CONNECTED", sess = peer.sess
                   PROVE  RotationAgrees'
      BY <1>20 DEF RotationAgrees
    <3>2. Rotated'
      BY <1>20, <3>1, <1>18 DEF Rotated
    <3>3. \/ peer'.rspKey = rsp.key
          \/ peer'.rspKey = rsp.key + 1 /\ peer'.rspSeq = 1
      BY <1>20, <3>1, <1>18, <1>b
    <3>4. ASSUME NEW r \in replies', r.sess = sess, Unread(r), UpdateAck(r)
          PROVE  r = x
      BY <1>20, <3>1, <3>4, <1>18
    <3>5. QED
      BY <1>20, <2>6, <2>7, <3>2, <3>3, <3>4 DEF RotationAgrees
  <2>9. VerifyAgrees'
    BY <1>20, <1>18 DEF VerifyAgrees
  <2>10. UpdateAgrees'
    BY <1>20, <1>18 DEF UpdateAgrees
  <2>11. QED
    BY <2>2, <2>4, <2>5, <2>8, <2>9, <2>10 DEF SyncInv
\* It acknowledges FINISH, or closes the session.
<1>21. ASSUME NEW q \in sent, PeerOpens(q), q.kind = "FINISH",
              replies' = replies \union {PeerReply(PeerRead, q, "ACK")},
              peer' = Session(peer.sess, 1, 0, 1, 0),
              UNCHANGED <<state, sess, req, rsp, call, rc, sent, nextSess>>
       PROVE  SyncInv'
  <2>1. peer.reqKey = 0 /\ peer.rspKey = 0 /\ peer.sess < nextSess
    BY <1>21, <1>18, <1>g DEF RepliesBehind, SentKinds
  <2>2. /\ PeerReply(PeerRead, q, "ACK").key = 0
        /\ PeerReply(PeerRead, q, "ACK").sess = peer.sess
    BY <2>1 DEF PeerReply, PeerRead, Session
  <2>3. /\ peer'.sess = peer.sess /\ peer'.reqKey = 1 /\ peer'.reqSeq = 0
        /\ peer'.rspKey = 1 /\ peer'.rspSeq = 0
    BY <1>21 DEF Session
  <2>4. RepliesBehind'
    BY <1>21, <2>1, <2>2, <2>3, <1>18, <1>c, <1>d, <1>g DEF RepliesBehind
  <2>5. KeyExAgrees' /\ SentKinds'
    BY <1>21, <2>3, <1>g DEF KeyExAgrees, SentKinds
  <2>6. ~(state = "CONNECTED" /\ sess = peer.sess)
    BY <1>21, <1>18
  <2>7. ~(call.kind = "VERIFY_NEW_KEY" /\ sess = peer.sess)
    BY <1>21, <1>18
  <2>8. QED
    BY <1>21, <2>3, <2>4, <2>5, <2>6, <2>7
       DEF SyncInv, RotationAgrees, VerifyAgrees, UpdateAgrees
<1>22. ASSUME NEW q \in sent, PeerOpens(q), q.kind = "END_SESSION",
              replies' = replies \union {PeerReply(PeerRead, q, "ACK")},
              peer' = Session(0, 0, 0, 0, 0),
              UNCHANGED <<state, sess, req, rsp, call, rc, sent, nextSess>>
       PROVE  SyncInv'
  <2>1. PeerReply(PeerRead, q, "ACK").sess = peer.sess /\ peer.sess < nextSess
    BY <1>g DEF PeerReply, PeerRead, Session, RepliesBehind
  <2>2. peer'.sess = 0 /\ peer'.reqKey = 0 /\ peer'.rspKey = 0
    BY <1>22 DEF Session
  <2>3. RepliesBehind'
    BY <1>22, <2>1, <2>2, <1>18, <1>a, <1>c, <1>d, <1>g DEF RepliesBehind
  <2>4. call.kind = "VERIFY_NEW_KEY" => state = "CONNECTED"
    BY <1>f DEF CallsHaveSession
  <2>5. state \in {"CONNECTED", "KEY_EX"} => sess # 0
    BY <1>f, <1>g DEF CallsHaveSession, KeyExAgrees
  <2>6. QED
    BY <1>22, <2>2, <2>3, <2>4, <2>5, <1>g
       DEF SyncInv, SentKinds, KeyExAgrees, RotationAgrees, VerifyAgrees,
           UpdateAgrees
<1>23. ASSUME NEW q \in sent, PeerAccepts(q)
       PROVE  SyncInv'
  <2>1. /\ PeerOpens(q) /\ q.kind # "APP"
        /\ replies' = replies \union {PeerReply(PeerSealsWith(q), q, "ACK")}
        /\ peer' = PeerAfter(PeerSealsWith(q), q)
        /\ UNCHANGED <<state, sess, req, rsp, call, rc, sent, nextSess>>
    BY <1>23 DEF PeerAccepts
  <2>2. CASE q.kind = "FINISH"
    <3>1. PeerSealsWith(q) = PeerRead
      BY <2>2 DEF PeerSealsWith
    <3>2. PeerAfter(PeerRead, q) = Session(peer.sess, 1, 0, 1, 0)
      BY <2>2 DEF PeerAfter, PeerRead, Session
    <3>3. QED
      BY <2>1, <2>2, <3>1, <3>2, <1>21
  <2>3. CASE q.kind = "END_SESSION"
    <3>1. PeerSealsWith(q) = PeerRead
      BY <2>3 DEF PeerSealsWith
    <3>2. PeerAfter(PeerRead, q) = Session(0, 0, 0, 0, 0)
      BY <2>3 DEF PeerAfter
    <3>3. QED
      BY <2>1, <2>3, <3>1, <3>2, <1>22
  <2>4. CASE q.kind = "UPDATE_KEY"
    <3> DEFINE p == Session(peer.sess, peer.reqKey + 1, 0, peer.rspKey,
                            peer.rspSeq)
               x == PeerReply(p, q, "ACK")
    <3>1. PeerSealsWith(q) = p
      BY <2>4 DEF PeerSealsWith
    <3>2. PeerAfter(p, q) = Session(peer.sess, peer.reqKey + 1, 0, peer.rspKey,
                                    peer.rspSeq + 1)
      BY <2>4 DEF PeerAfter, Session
    <3>3. /\ x.sess = peer.sess /\ x.key = peer.rspKey /\ x.seq = peer.rspSeq
          /\ x.kind = q.kind
      BY DEF PeerReply, Session
    <3>4. /\ peer'.sess = peer.sess /\ peer'.reqKey = peer.reqKey + 1
          /\ peer'.reqSeq = 0 /\ peer'.rspKey = peer.rspKey + 0
          /\ peer'.rspSeq = peer.rspSeq + 1
      BY <2>1, <3>1, <3>2, <1>c DEF Session
    <3>5. replies' = replies \union {x}
      BY <2>1, <3>1
    <3> HIDE DEF p, x
    <3>6. QED
      BY <2>1, <2>4, <3>3, <3>4, <3>5, <1>c, <1>20
  <2>5. CASE q.kind = "UPDATE_ALL"
    <3> DEFINE p == Session(peer.sess, peer.reqKey + 1, 0, peer.rspKey + 1, 0)
               x == PeerReply(p, q, "ACK")
    <3>1. PeerSealsWith(q) = p
      BY <2>5 DEF PeerSealsWith
    <3>2. PeerAfter(p, q) = Session(peer.sess, peer.reqKey + 1, 0,
                                    peer.rspKey + 1, 1)
      BY <2>5 DEF PeerAfter, Session
    <3>3. /\ x.sess = peer.sess /\ x.key = peer.rspKey + 1 /\ x.seq = 0
          /\ x.kind = q.kind
      BY DEF PeerReply, Session
    <3>4. /\ peer'.sess = peer.sess /\ peer'.reqKey = peer.reqKey + 1
          /\ peer'.reqSeq = 0 /\ peer'.rspKey = peer.rspKey + 1
          /\ peer'.rspSeq = 0 + 1
      BY <2>1, <3>1, <3>2 DEF Session
    <3>5. replies' = replies \union {x}
      BY <2>1, <3>1
    <3> HIDE DEF p, x
    <3>6. QED
      BY <2>1, <2>5, <3>3, <3>4, <3>5, <1>c, <1>20
  <2>6. CASE q.kind \notin {"FINISH", "END_SESSION", "UPDATE_KEY", "UPDATE_ALL"}
    <3>1. PeerSealsWith(q) = PeerRead
      BY <2>6 DEF PeerSealsWith
    <3>2. PeerAfter(PeerRead, q) =
            Session(peer.sess, peer.reqKey, peer.reqSeq + 1, peer.rspKey,
                    peer.rspSeq + 1)
      BY <2>6 DEF PeerAfter, PeerRead, Session
    <3>3. PeerReply(PeerRead, q, "ACK") = PeerReply(peer, q, "ACK")
      BY DEF PeerReply, PeerRead, Session
    <3>4. QED
      BY <2>1, <2>6, <3>1, <3>2, <3>3, <1>19
  <2>7. QED
    BY <2>2, <2>3, <2>4, <2>5, <2>6
<1>24. ASSUME NEW q \in sent, NEW answer \in PeerAnswers \ {"ACK"},
              PeerRefuses(q, answer)
       PROVE  SyncInv'
  BY <1>24, <1>19 DEF PeerRefuses
<1>25. ASSUME NEW q \in sent, PeerTakesData(q)
       PROVE  SyncInv'
  <2>1. PeerRead = Session(peer.sess, peer.reqKey, peer.reqSeq + 1,
                           peer.rspKey, peer.rspSeq + 0)
    BY <1>c DEF PeerRead
  <2>2. QED
    BY <1>25, <2>1, <1>19 DEF PeerTakesData
<1>26. CASE UNCHANGED vars
  BY <1>26, <1>g DEF vars, SyncInv, SentKinds, RepliesBehind, KeyExAgrees,
                     RotationAgrees, Rotated, Unread, VerifyAgrees, UpdateAgrees
<1>27. CASE CallStarts
  <2>1. Tags \subseteq Nat
    OBVIOUS
  <2>2. QED
    BY <1>27, <2>1, <1>2, <1>3, <1>5, <1>6, <1>8, <1>10
       DEF CallStarts, SecuredExchange, KeyUpdate, Disconnect, Kinds
<1>28. CASE CallReturns
  BY <1>28, <1>8, <1>9, <1>11, <1>12, <1>15, <1>16, <1>17 DEF CallReturns
<1>29. CASE PeerStep
  BY <1>29, <1>23, <1>24, <1>25 DEF PeerStep
<1>30. QED
  BY <1>26, <1>27, <1>28, <1>29 DEF Next

\* SyncInv holds throughout.
LEMMA SyncInvCorrect == ASSUME UpdateKeyDerives PROVE Spec => []SyncInv
<1>1. SyncInv /\ SessionInv /\ SessionInv' /\ TypeOK /\ TypeOK' /\ [Next]_vars
        => SyncInv'
  BY SyncInvStep
<1>2. QED
  BY <1>1, SyncInvInit, SessionInvCorrect, TypeCorrect, PTL DEF Spec

\* The requester's keys are never a generation ahead of the responder's, for
\* any number of updates and lost, delayed, repeated or damaged records, when
\* UpdateKey's derivation cannot fail.
THEOREM NeverAheadCorrect == ASSUME UpdateKeyDerives PROVE Spec => []NeverAhead
<1>1. SyncInv /\ TypeOK => NeverAhead
  BY DEF SyncInv, RotationAgrees, Rotated, NeverAhead, TypeOK, Direction
<1>2. QED
  BY <1>1, SyncInvCorrect, TypeCorrect, PTL

\* When wolfSPDM_KeyUpdate reports success both sides hold the same keys and
\* counters, also when an acknowledgement it read answers an earlier update.
THEOREM UpdateAgreesCorrect ==
  ASSUME UpdateKeyDerives PROVE Spec => []UpdateAgrees
<1>1. SyncInv => UpdateAgrees
  BY DEF SyncInv
<1>2. QED
  BY <1>1, SyncInvCorrect, PTL

=============================================================================
