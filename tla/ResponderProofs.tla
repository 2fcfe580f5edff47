-------------------------- MODULE ResponderProofs --------------------------
(***************************************************************************)
(* Facts about the responder that hold whoever sends the frames: every     *)
(* handler preserves the invariant RespInv, for every message that has the *)
(* shape the parser lets through.  ResponderClientProofs uses them for a   *)
(* client that sends anything in any order.                                *)
(***************************************************************************)
EXTENDS Responder, TLAPS

TokenNames ==
  {"GET_VERSION", "VERSION", "GET_CAPABILITIES", "CAPABILITIES",
   "NEGOTIATE_ALGORITHMS", "ALGORITHMS", "OTHER", "Ct", "KEY_EXCHANGE",
   "KEY_EXCHANGE_RSP", "PSK_EXCHANGE", "PSK_EXCHANGE_RSP", "FINISH",
   "PSK_FINISH", "FINISH_RSP"}
Tokens  == [t : TokenNames, n : Nat]
Phases  == {"NONE", "HS", "APP", "MIXED"}
Secrets == [k : {"NONE", "DH", "PSK"}, a : Nat, b : Nat]
Keys    == [ph : Phases, secret : Secrets, th : Seq(Tokens)]

Sessions ==
  [state : {"INIT", "VERSION", "KEY_EX", "CONNECTED"},
   version : RespVersions \union {0}, trans : Seq(Tokens), key : Keys,
   reqSeq : Nat, rspSeq : Nat, pendingAsym : BOOLEAN, sessionAsym : BOOLEAN]

Provs == [psk : Nat, provisioned : BOOLEAN, clearAuth : Nat, lock : BOOLEAN,
          id : Nat]

\* The body of a vendor command, clear or secured, as its handler reads it.
BodyOK(m) ==
  /\ m.t = "PSK_SET" => m.psk \in Nat \ {0} /\ m.auth \in Nat
  /\ m.t = "SPDMONLY" => m.lock \in BOOLEAN

ClearMsgOK(m) ==
  /\ BodyOK(m)
  /\ m.t \in {"KEY_EXCHANGE", "PSK_EXCHANGE"} => m.n \in Nat

-----------------------------------------------------------------------------
(* The inductive invariant, in parts *)

\* The tokens that carry a random of the responder: no two are alike.
Mark(tok) == tok.t \in {"KEY_EXCHANGE_RSP", "PSK_EXCHANGE_RSP"}

\* Every random in the transcript th was drawn before r.
MarksBelow(th, r) == \A i \in 1..Len(th) : Mark(th[i]) => th[i].n < r

\* The random r occurs nowhere in the transcript th.
MarkFree(th, r) == \A i \in 1..Len(th) : Mark(th[i]) => th[i].n # r

TypeInv ==
  /\ rs \in Sessions
  /\ prov \in Provs
  /\ rnd \in Nat /\ signer \in Nat
  /\ sealed \subseteq Keys \X Nat
  /\ faulted \in BOOLEAN
  /\ prov.clearAuth # 0 => prov.psk # 0 /\ prov.provisioned

\* Which keys each state has.  Outside a session they can only be those of an
\* exchange that failed, derived over a part of the transcript, and they were
\* never counted under.  In KEY_EX the transcript begins with the one the keys
\* were derived over, which ends with a random.
KeyInv ==
  /\ rs.state \in {"INIT", "VERSION"} =>
       /\ rs.key.ph \in {"NONE", "HS"} /\ rs.reqSeq = 0 /\ rs.rspSeq = 0
       /\ Len(rs.key.th) <= Len(rs.trans)
       /\ \A i \in 1..Len(rs.key.th) : rs.trans[i] = rs.key.th[i]
  /\ rs.state = "KEY_EX" =>
       /\ rs.key.ph = "HS"
       /\ Len(rs.key.th) \in 1..Len(rs.trans)
       /\ \A i \in 1..Len(rs.key.th) : rs.trans[i] = rs.key.th[i]
       /\ Mark(rs.key.th[Len(rs.key.th)])
  /\ rs.state = "CONNECTED" =>
       rs.key.ph # "NONE" /\ (rs.key.ph = "APP" \/ faulted)

\* Records sealed so far: under real keys, over transcripts whose randoms
\* were drawn, below the counter; and none yet under a key that this
\* handshake's FINISH may still derive.
SealInv ==
  /\ ~dup
  /\ MarksBelow(rs.trans, rnd)
  /\ MarksBelow(rs.key.th, rnd)
  /\ \A p \in sealed :
       /\ p[1].ph # "NONE"
       /\ MarksBelow(p[1].th, rnd)
       /\ p[1] = rs.key => p[2] < rs.rspSeq
       /\ rs.state = "KEY_EX" /\ p[1].ph # "HS" =>
            MarkFree(p[1].th, rs.key.th[Len(rs.key.th)].n)

\* Who signed what the session runs on.
IdInv ==
  /\ rs.state = "KEY_EX" => rs.pendingAsym = (rs.key.secret.k = "DH")
  /\ rs.state = "KEY_EX" /\ rs.pendingAsym => prov.id = signer
  /\ rs.sessionAsym => rs.state = "CONNECTED" /\ prov.id = signer
  /\ rs.state = "CONNECTED" => rs.sessionAsym = (rs.key.secret.k = "DH")

\* What ran under which keys.
ActInv == faulted \/ \A k \in acted : k.ph = "APP"

RespInv == TypeInv /\ KeyInv /\ SealInv /\ IdInv /\ ActInv

-----------------------------------------------------------------------------
(* Transcripts *)

\* Appending a token to a transcript.
LEMMA AppendToken ==
  ASSUME NEW s \in Seq(Tokens), NEW tok \in Tokens
  PROVE  /\ Append(s, tok) \in Seq(Tokens)
         /\ Len(Append(s, tok)) = Len(s) + 1
         /\ \A i \in 1..Len(s) : Append(s, tok)[i] = s[i]
         /\ Append(s, tok)[Len(s) + 1] = tok
OBVIOUS

\* Appending a request and its response.
LEMMA AppendPair ==
  ASSUME NEW s \in Seq(Tokens), NEW a \in Tokens, NEW b \in Tokens
  PROVE  /\ s \o <<a, b>> \in Seq(Tokens)
         /\ Len(s \o <<a, b>>) = Len(s) + 2
         /\ \A i \in 1..Len(s) : (s \o <<a, b>>)[i] = s[i]
         /\ (s \o <<a, b>>)[Len(s) + 1] = a
         /\ (s \o <<a, b>>)[Len(s) + 2] = b
OBVIOUS

\* A token that is no random, or one drawn before r, keeps the bound.
LEMMA MarksAppend ==
  ASSUME NEW s \in Seq(Tokens), NEW tok \in Tokens, NEW r \in Nat,
         MarksBelow(s, r), Mark(tok) => tok.n < r
  PROVE  MarksBelow(Append(s, tok), r)
BY AppendToken DEF MarksBelow

\* The same for a request and its response.
LEMMA MarksPair ==
  ASSUME NEW s \in Seq(Tokens), NEW a \in Tokens, NEW b \in Tokens,
         NEW r \in Nat, MarksBelow(s, r),
         Mark(a) => a.n < r, Mark(b) => b.n < r
  PROVE  MarksBelow(s \o <<a, b>>, r)
BY AppendPair DEF MarksBelow

\* What was below r is below everything after r.
LEMMA MarksGrow ==
  ASSUME NEW s \in Seq(Tokens), NEW r \in Nat, MarksBelow(s, r)
  PROVE  MarksBelow(s, r + 1) /\ MarkFree(s, r)
<1>1. \A i \in 1..Len(s) : s[i] \in Tokens
  OBVIOUS
<1> \A i \in 1..Len(s) : s[i].n \in Nat
  BY <1>1 DEF Tokens
<1> QED
  BY DEF MarksBelow, MarkFree

-----------------------------------------------------------------------------
(* Types *)

\* The parts of the state have the types of their constructors.
LEMMA TokenType ==
  ASSUME NEW t \in TokenNames, NEW n \in Nat
  PROVE  Token(t, n) \in Tokens
BY DEF Token, Tokens

\* A key is built from a phase, a secret and a transcript.
LEMMA KeyType ==
  ASSUME NEW ph \in Phases, NEW sec \in Secrets, NEW th \in Seq(Tokens)
  PROVE  Key(ph, sec, th) \in Keys
BY DEF Key, Keys

\* And is told apart by them.
LEMMA KeyParts ==
  ASSUME NEW ph, NEW sec, NEW th
  PROVE  /\ Key(ph, sec, th).ph = ph
         /\ Key(ph, sec, th).secret = sec
         /\ Key(ph, sec, th).th = th
BY DEF Key

\* Before a handshake there is no key.
LEMMA NoKeyType == NoKey \in Keys /\ NoKey.ph = "NONE" /\ NoKey.th = <<>>
<1>1. "NONE" \in Phases
  BY DEF Phases
<1>2. Secret("NONE", 0, 0) \in Secrets
  BY DEF Secret, Secrets
<1>3. <<>> \in Seq(Tokens)
  OBVIOUS
<1>4. NoKey \in Keys
  BY <1>1, <1>2, <1>3, KeyType DEF NoKey
<1> QED
  BY <1>4 DEF NoKey, Key

\* A session that was reset has its type.
LEMMA NewSessionType ==
  ASSUME NEW v \in RespVersions \union {0}
  PROVE  NewSession(v) \in Sessions
<1>1. <<>> \in Seq(Tokens)
  OBVIOUS
<1> QED
  BY <1>1, NoKeyType DEF NewSession, Sessions

\* The fields of the session, one by one.
LEMMA SessionFields ==
  ASSUME NEW r \in Sessions
  PROVE  /\ r.state \in {"INIT", "VERSION", "KEY_EX", "CONNECTED"}
         /\ r.version \in RespVersions \union {0}
         /\ r.trans \in Seq(Tokens)
         /\ r.key \in Keys
         /\ r.reqSeq \in Nat
         /\ r.rspSeq \in Nat
         /\ r.pendingAsym \in BOOLEAN
         /\ r.sessionAsym \in BOOLEAN
BY DEF Sessions

\* The parts of a key, one by one.
LEMMA KeyFields ==
  ASSUME NEW k \in Keys
  PROVE  k.ph \in Phases /\ k.secret \in Secrets /\ k.th \in Seq(Tokens)
BY DEF Keys

\* A handshake message that changes nothing but the transcript.
LEMMA SessionEdit ==
  ASSUME NEW r \in Sessions, NEW v \in RespVersions \union {0},
         NEW th \in Seq(Tokens)
  PROVE  [r EXCEPT !.version = v, !.trans = th] \in Sessions
BY DEF Sessions

\* Whatever version a request selects is one the responder advertises.
LEMMA SelectedType ==
  ASSUME TypeInv, NEW m, VersionAccepted(m)
  PROVE  Selected(m) \in RespVersions \union {0}
BY DEF TypeInv, Sessions, VersionAccepted, Selected, Unpinned

\* A vendor command leaves a well-formed provisioning, and a ClearAuth only
\* next to a PSK.
LEMMA ProvisionedType ==
  ASSUME TypeInv, NEW m, BodyOK(m)
  PROVE  /\ Provisioned(m) \in Provs
         /\ Provisioned(m).clearAuth # 0 =>
              Provisioned(m).psk # 0 /\ Provisioned(m).provisioned
         /\ Provisioned(m).id = prov.id
<1>1. CASE m.t = "PSK_SET"
  BY <1>1 DEF TypeInv, Provs, Provisioned, BodyOK
<1>2. CASE m.t = "PSK_CLR"
  BY <1>2 DEF TypeInv, Provs, Provisioned, BodyOK
<1>3. CASE m.t = "SPDMONLY"
  BY <1>3 DEF TypeInv, Provs, Provisioned, BodyOK
<1>4. CASE m.t \notin {"PSK_SET", "PSK_CLR", "SPDMONLY"}
  BY <1>4 DEF TypeInv, Provs, Provisioned, BodyOK
<1> QED
  BY <1>1, <1>2, <1>3, <1>4

\* Clear frames keep the types.
LEMMA ClearType ==
  ASSUME TypeInv, NEW m, ClearMsgOK(m), HandleClear(m)
  PROVE  TypeInv'
<1> DEFINE Same == /\ prov' = prov /\ sealed' = sealed /\ faulted' = faulted
                   /\ rnd' \in Nat /\ signer' \in Nat
<1>0. rs \in Sessions /\ rs.trans \in Seq(Tokens) /\ prov.id \in Nat
  BY SessionFields DEF TypeInv, Provs
<1>a. ASSUME rs' \in Sessions, Same PROVE TypeInv'
  BY <1>a DEF TypeInv
<1>b. ASSUME VersionAccepted(m) PROVE Selected(m) \in RespVersions \union {0}
  BY <1>b, SelectedType
<1>c. ASSUME NEW r, NEW reply, Answer(r, reply), r \in Sessions PROVE TypeInv'
  BY <1>c, <1>a DEF Answer, TypeInv
<1>1. CASE GetVersion(m)
  <2>1. Token("GET_VERSION", 0) \in Tokens /\ Token("VERSION", 0) \in Tokens
    BY TokenType DEF TokenNames
  <2>2. <<Token("GET_VERSION", 0), Token("VERSION", 0)>> \in Seq(Tokens)
    BY <2>1
  <2>3. NewSession(0) \in Sessions
    BY NewSessionType
  <2>4. [NewSession(0) EXCEPT !.state = "VERSION", !.trans =
           <<Token("GET_VERSION", 0), Token("VERSION", 0)>>] \in Sessions
    BY <2>2, <2>3 DEF Sessions
  <2> QED
    BY <1>1, <1>c, <2>4 DEF GetVersion, RespReset
<1>2. CASE RefuseVersion(m)
  BY <1>2, <1>0, <1>c DEF RefuseVersion
<1>3. CASE Negotiate(m)
  <2> DEFINE rsp == IF m.t = "GET_CAPABILITIES" THEN "CAPABILITIES"
                    ELSE "ALGORITHMS"
             th == rs.trans \o <<Token(m.t, 0), Token(rsp, 0)>>
  <2>1. Token(m.t, 0) \in Tokens /\ Token(rsp, 0) \in Tokens
    BY <1>3, TokenType DEF Negotiate, TokenNames
  <2>2. th \in Seq(Tokens)
    BY <1>0, <2>1, AppendPair
  <2>3. [rs EXCEPT !.version = Selected(m), !.trans = th] \in Sessions
    BY <1>0, <1>3, <1>b, <2>2, SessionEdit DEF Negotiate
  <2> QED
    BY <1>3, <1>c, <2>3 DEF Negotiate
<1>4. CASE Unsupported(m)
  <2>1. Token("OTHER", 0) \in Tokens
    BY TokenType DEF TokenNames
  <2>2. Append(rs.trans, Token("OTHER", 0)) \in Seq(Tokens)
    BY <1>0, <2>1, AppendToken
  <2> QED
    BY <1>0, <1>4, <1>b, <1>c, <2>2, SessionEdit DEF Unsupported
<1>5. CASE RefuseExchange(m)
  <2>1. [rs EXCEPT !.version = Selected(m)] \in Sessions
    BY <1>0, <1>5, <1>b DEF RefuseExchange, Sessions
  <2> QED
    BY <1>5, <1>c, <2>1 DEF RefuseExchange
<1>6. CASE ExchangeUnconfigured(m)
  <2>1. Token(m.t, m.n) \in Tokens
    BY <1>6, TokenType DEF ExchangeUnconfigured, ClearMsgOK, TokenNames
  <2>2. Append(rs.trans, Token(m.t, m.n)) \in Seq(Tokens)
    BY <1>0, <2>1, AppendToken
  <2> QED
    BY <1>0, <1>6, <1>b, <1>c, <2>2, SessionEdit DEF ExchangeUnconfigured
<1>7. ASSUME NEW rsp \in TokenNames, NEW secret \in Secrets, NEW asym \in BOOLEAN,
             m.t \in {"KEY_EXCHANGE", "PSK_EXCHANGE"},
             OpenHandshake(m, rsp, secret, asym), signer' \in Nat
      PROVE  TypeInv'
  <2> DEFINE th1 == rs.trans \o <<Token(m.t, m.n), Token(rsp, rnd)>>
             key == Key("HS", secret, th1)
  <2>1. Token(m.t, m.n) \in Tokens /\ Token(rsp, rnd) \in Tokens
    BY <1>7, TokenType DEF ClearMsgOK, TypeInv, TokenNames
  <2>2. th1 \in Seq(Tokens)
    BY <1>0, <2>1, AppendPair
  <2>3. "HS" \in Phases
    BY DEF Phases
  <2>4. key \in Keys
    BY <2>2, <2>3, <1>7, KeyType
  <2>5. Selected(m) \in RespVersions \union {0}
    BY <1>7, <1>b DEF OpenHandshake
  <2> HIDE DEF th1, key
  <2>6. [rs EXCEPT !.version = Selected(m), !.trans = th1, !.key = key,
                   !.state = "KEY_EX", !.pendingAsym = asym] \in Sessions
    BY <1>0, <1>7, <2>2, <2>4, <2>5 DEF Sessions
  <2>7. rs' = [rs EXCEPT !.version = Selected(m), !.trans = th1, !.key = key,
                   !.state = "KEY_EX", !.pendingAsym = asym]
    BY <1>7 DEF OpenHandshake, th1, key
  <2>8. rnd' \in Nat /\ Same
    BY <1>7 DEF OpenHandshake, TypeInv
  <2> QED
    BY <2>6, <2>7, <2>8, <1>a
<1>8. CASE KeyExchange(m)
  <2>1. Secret("DH", m.n, rnd) \in Secrets
    BY <1>8 DEF KeyExchange, ClearMsgOK, TypeInv, Secret, Secrets
  <2>2. "KEY_EXCHANGE_RSP" \in TokenNames
    BY DEF TokenNames
  <2> QED
    BY <1>0, <1>7, <1>8, <2>1, <2>2 DEF KeyExchange
<1>9. CASE PskExchange(m)
  <2>1. Secret("PSK", prov.psk, 0) \in Secrets /\ signer' \in Nat
    BY <1>9 DEF PskExchange, TypeInv, Provs, Secret, Secrets
  <2>2. "PSK_EXCHANGE_RSP" \in TokenNames
    BY DEF TokenNames
  <2> QED
    BY <1>7, <1>9, <2>1, <2>2 DEF PskExchange
<1>10. ASSUME NEW rsp \in TokenNames, NEW secret \in Secrets,
              m.t \in {"KEY_EXCHANGE", "PSK_EXCHANGE"},
              FailHandshake(m, rsp, secret)
       PROVE  TypeInv'
  <2> DEFINE th0 == Append(rs.trans, Token(m.t, m.n))
             th1 == rs.trans \o <<Token(m.t, m.n), Token(rsp, rnd)>>
             key == Key("HS", secret, th1)
  <2>1. Token(m.t, m.n) \in Tokens /\ Token(rsp, rnd) \in Tokens
    BY <1>10, TokenType DEF ClearMsgOK, TypeInv, TokenNames
  <2>2. th0 \in Seq(Tokens) /\ th1 \in Seq(Tokens)
    BY <1>0, <2>1, AppendToken, AppendPair
  <2>3. "HS" \in Phases
    BY DEF Phases
  <2>4. key \in Keys /\ rs.key \in Keys /\ NoKey \in Keys
    BY <1>0, <2>2, <2>3, <1>10, KeyType, NoKeyType, SessionFields
  <2>5. Selected(m) \in RespVersions \union {0}
    BY <1>10, <1>b DEF FailHandshake
  <2>6. \/ rs' = [rs EXCEPT !.version = Selected(m), !.trans = th0]
        \/ \E k \in {rs.key, NoKey, key} :
             rs' = [rs EXCEPT !.version = Selected(m), !.trans = th1,
                              !.key = k]
    BY <1>10 DEF FailHandshake
  <2> HIDE DEF th0, th1, key
  <2>7. ASSUME NEW k \in Keys
        PROVE  [rs EXCEPT !.version = Selected(m), !.trans = th1, !.key = k]
                 \in Sessions
    BY <1>0, <2>2, <2>5, <2>7 DEF Sessions
  <2>8. rs' \in Sessions
    BY <1>0, <2>2, <2>4, <2>5, <2>6, <2>7, SessionEdit
  <2>9. Same
    BY <1>10 DEF FailHandshake, TypeInv
  <2> QED
    BY <2>8, <2>9, <1>a
<1>11. CASE ExchangeFails(m)
  <2>1. "KEY_EXCHANGE_RSP" \in TokenNames /\ "PSK_EXCHANGE_RSP" \in TokenNames
    BY DEF TokenNames
  <2>2. m.t = "KEY_EXCHANGE" => Secret("DH", m.n, rnd) \in Secrets
    BY DEF ClearMsgOK, TypeInv, Secret, Secrets
  <2>3. Secret("PSK", prov.psk, 0) \in Secrets
    BY DEF TypeInv, Provs, Secret, Secrets
  <2> QED
    BY <1>10, <1>11, <2>1, <2>2, <2>3 DEF ExchangeFails
<1>12. CASE VendorClear(m)
  <2>1. Token("Ct", prov.id) \in Tokens
    BY <1>0, TokenType DEF TokenNames
  <2>2. AfterVendor(m, FALSE) \in Seq(Tokens)
    BY <1>0, <2>1, AppendToken DEF AfterVendor
  <2>3. /\ [rs EXCEPT !.version = Selected(m)] \in Sessions
        /\ [rs EXCEPT !.version = Selected(m), !.trans = AfterVendor(m, FALSE)]
             \in Sessions
    BY <1>0, <1>12, <1>b, <2>2 DEF VendorClear, Sessions
  <2>4. rs' \in Sessions
    BY <1>12, <2>3 DEF VendorClear
  <2>5. /\ prov' \in Provs
        /\ prov'.clearAuth # 0 => prov'.psk # 0 /\ prov'.provisioned
    BY <1>12, ProvisionedType DEF VendorClear, TypeInv, ClearMsgOK
  <2> QED
    BY <1>12, <2>4, <2>5 DEF VendorClear, TypeInv
<1> QED
  BY <1>1, <1>2, <1>3, <1>4, <1>5, <1>6, <1>8, <1>9, <1>11, <1>12
  DEF HandleClear

\* Counting a request or a reply keeps the types and touches nothing else.
LEMMA CountedType ==
  ASSUME rs \in Sessions
  PROVE  Counted \in Sessions /\ Replied \in Sessions
<1>1. Counted \in Sessions
  BY DEF Counted, Sessions
<1>2. rs.rspSeq + 1 \in Nat
  BY SessionFields
<1>3. \A n \in Nat : [Counted EXCEPT !.rspSeq = n] \in Sessions
  BY <1>1 DEF Sessions
<1> QED
  BY <1>1, <1>2, <1>3 DEF Replied

\* A record that was opened, or answered, moves the counters alone.
LEMMA CountedFields ==
  ASSUME rs \in Sessions
  PROVE  /\ Counted.state = rs.state /\ Replied.state = rs.state
         /\ Counted.trans = rs.trans /\ Replied.trans = rs.trans
         /\ Counted.key = rs.key /\ Replied.key = rs.key
         /\ Counted.reqSeq = rs.reqSeq + 1 /\ Replied.reqSeq = rs.reqSeq + 1
         /\ Counted.rspSeq = rs.rspSeq /\ Replied.rspSeq = rs.rspSeq + 1
         /\ Counted.pendingAsym = rs.pendingAsym
         /\ Replied.pendingAsym = rs.pendingAsym
         /\ Counted.sessionAsym = rs.sessionAsym
         /\ Replied.sessionAsym = rs.sessionAsym
<1>1. Counted \in Sessions
  BY CountedType
<1>2. /\ Counted.state = rs.state /\ Counted.trans = rs.trans
      /\ Counted.key = rs.key /\ Counted.reqSeq = rs.reqSeq + 1
      /\ Counted.rspSeq = rs.rspSeq
      /\ Counted.pendingAsym = rs.pendingAsym
      /\ Counted.sessionAsym = rs.sessionAsym
  BY DEF Counted, Sessions
<1> QED
  BY <1>1, <1>2 DEF Replied, Sessions

\* Secured frames keep the types.
LEMMA SecuredType ==
  ASSUME TypeInv, NEW m, BodyOK(m), HandleSecured(m)
  PROVE  TypeInv'
<1>0. /\ rs \in Sessions /\ rs.trans \in Seq(Tokens) /\ rs.key \in Keys
      /\ rs.reqSeq \in Nat /\ rs.rspSeq \in Nat
      /\ Counted \in Sessions /\ Replied \in Sessions
  BY SessionFields, CountedType DEF TypeInv
<1>1. <<rs.key, rs.rspSeq>> \in Keys \X Nat
  BY <1>0
<1>2. ASSUME Seal PROVE sealed' \subseteq Keys \X Nat
  BY <1>1, <1>2 DEF Seal, TypeInv
<1>3. ASSUME NEW t, NEW r \in Sessions, NEW failed \in Sessions,
             SendSealed(t, r, failed)
      PROVE  rs' \in Sessions /\ sealed' \subseteq Keys \X Nat
               /\ faulted' \in BOOLEAN
  BY <1>2, <1>3 DEF SendSealed, TypeInv
<1>4. ASSUME NEW r \in Sessions, Drop(r)
      PROVE  rs' \in Sessions /\ sealed' \subseteq Keys \X Nat
               /\ faulted' \in BOOLEAN
  BY <1>4 DEF Drop, TypeInv
<1>5. CASE Finish(m)
  <2> DEFINE th2  == Append(rs.trans, Token(m.t, 0))
             th   == Append(th2, Token("FINISH_RSP", 0))
             done == [Counted EXCEPT !.trans = th, !.state = "CONNECTED",
                                     !.sessionAsym = (m.t = "FINISH")]
             app  == Key("APP", rs.key.secret, th)
  <2>1. /\ Token(m.t, 0) \in Tokens
        /\ Token("FINISH_RSP", 0) \in Tokens
    BY <1>5, TokenType DEF Finish, TokenNames
  <2>2. th2 \in Seq(Tokens)
    BY <1>0, <2>1, AppendToken
  <2>3. th \in Seq(Tokens)
    BY <2>1, <2>2, AppendToken
  <2>4. rs.key.secret \in Secrets /\ rs.key.th \in Seq(Tokens)
    BY <1>0, KeyFields
  <2>5. app \in Keys
    BY <2>3, <2>4, KeyType DEF Phases
  <2>6. \A ph \in {"HS", "MIXED"} : Key(ph, rs.key.secret, rs.key.th) \in Keys
    BY <2>4, KeyType DEF Phases
  <2> HIDE DEF th, th2, app
  <2>7. (m.t = "FINISH") \in BOOLEAN
    OBVIOUS
  <2>8. done \in Sessions
    BY <1>0, <2>3, <2>7 DEF Sessions
  <2> HIDE DEF done
  <2>9. [done EXCEPT !.key = app, !.reqSeq = 0, !.rspSeq = 0] \in Sessions
    BY <2>5, <2>8 DEF Sessions
  <2>10. \A k \in Keys, n \in Nat :
           [done EXCEPT !.key = k, !.rspSeq = n] \in Sessions
    BY <2>8 DEF Sessions
  <2>11. [Counted EXCEPT !.trans = th2] \in Sessions
    BY <1>0, <2>2 DEF Sessions
  <2>12. \/ Drop(Counted)
         \/ Drop([Counted EXCEPT !.trans = th2])
         \/ SendSealed("FINISH_RSP",
              [done EXCEPT !.key = app, !.reqSeq = 0, !.rspSeq = 0], done)
         \/ /\ Seal /\ faulted' = TRUE
            /\ \E ph \in {"HS", "MIXED"} :
                 rs' = [done EXCEPT !.key = Key(ph, rs.key.secret, rs.key.th),
                                    !.rspSeq = rs.rspSeq + 1]
    BY <1>5 DEF Finish, th, th2, done, app
  <2>13. /\ rs' \in Sessions
         /\ sealed' \subseteq Keys \X Nat
         /\ faulted' \in BOOLEAN
    <3>1. rs.rspSeq + 1 \in Nat
      BY <1>0
    <3>2. ASSUME Seal, faulted' = TRUE, NEW ph \in {"HS", "MIXED"},
                 rs' = [done EXCEPT !.key = Key(ph, rs.key.secret, rs.key.th),
                                    !.rspSeq = rs.rspSeq + 1]
          PROVE  rs' \in Sessions /\ sealed' \subseteq Keys \X Nat
                   /\ faulted' \in BOOLEAN
      BY <1>2, <2>6, <2>10, <3>1, <3>2
    <3> QED
      BY <1>0, <1>3, <1>4, <2>8, <2>9, <2>11, <2>12, <3>2
  <2> QED
    BY <1>5, <2>13 DEF Finish, TypeInv
<1>6. CASE EndSession(m)
  <2>1. RespReset(rs.version) \in Sessions
    BY <1>0, NewSessionType, SessionFields DEF RespReset
  <2> QED
    BY <1>0, <1>3, <1>6, <2>1 DEF EndSession, TypeInv
<1>7. CASE VendorSecured(m)
  <2>1. /\ rs' \in Sessions
        /\ sealed' \subseteq Keys \X Nat
        /\ faulted' \in BOOLEAN
    BY <1>0, <1>3, <1>4, <1>7 DEF VendorSecured
  <2>2. /\ prov' \in Provs
        /\ prov'.clearAuth # 0 => prov'.psk # 0 /\ prov'.provisioned
    BY <1>7, ProvisionedType DEF VendorSecured, TypeInv
  <2> QED
    BY <1>7, <2>1, <2>2 DEF VendorSecured, TypeInv
<1>8. CASE UnsupportedSecured(m)
  BY <1>0, <1>3, <1>8 DEF UnsupportedSecured, TypeInv
<1> QED
  BY <1>5, <1>6, <1>7, <1>8 DEF HandleSecured

-----------------------------------------------------------------------------
(* What a frame can do, in six shapes *)

\* t is s with tokens added, none of them a random of the responder.
Extended(s, t) ==
  /\ Len(s) <= Len(t)
  /\ \A i \in 1..Len(s) : t[i] = s[i]
  /\ \A i \in 1..Len(t) : i > Len(s) => ~Mark(t[i])

\* The session goes on: its state, keys and flags stay.
Kept ==
  /\ rs'.state = rs.state /\ rs'.key = rs.key
  /\ rs'.pendingAsym = rs.pendingAsym /\ rs'.sessionAsym = rs.sessionAsym
  /\ Extended(rs.trans, rs'.trans)
  /\ rs.state \in {"INIT", "VERSION"} =>
       rs'.reqSeq = rs.reqSeq /\ rs'.rspSeq = rs.rspSeq
  /\ rnd' = rnd /\ signer' = signer /\ prov'.id = prov.id
  /\ faulted => faulted'
  /\ acted' # acted => rs.state = "CONNECTED" /\ acted' = acted \union {rs.key}

\* ... and nothing is sealed.
Quiet == /\ Kept
         /\ rs'.rspSeq = rs.rspSeq
         /\ sealed' = sealed /\ dup' = dup

\* ... and a reply is sealed.
Replies == /\ Kept
           /\ rs.state \in {"KEY_EX", "CONNECTED"}
           /\ rs'.rspSeq = rs.rspSeq + 1
           /\ Seal

\* The session is forgotten, perhaps after an acknowledgement.
Restarts ==
  /\ rs'.state \in {"INIT", "VERSION"}
  /\ rs'.key = NoKey /\ rs'.reqSeq = 0 /\ rs'.rspSeq = 0
  /\ rs'.sessionAsym = FALSE
  /\ \A i \in 1..Len(rs'.trans) : ~Mark(rs'.trans[i])
  /\ \/ sealed' = sealed /\ dup' = dup
     \/ rs.state \in {"KEY_EX", "CONNECTED"} /\ Seal
  /\ UNCHANGED <<prov, rnd, acted, signer, faulted>>

\* A handshake is opened under a fresh random.
Opens ==
  /\ rs.state \in {"INIT", "VERSION"} /\ rs'.state = "KEY_EX"
  /\ rs'.key.ph = "HS" /\ rs'.key.th = rs'.trans
  /\ Len(rs'.trans) = Len(rs.trans) + 2
  /\ \A i \in 1..Len(rs.trans) : rs'.trans[i] = rs.trans[i]
  /\ ~Mark(rs'.trans[Len(rs.trans) + 1])
  /\ Mark(rs'.trans[Len(rs.trans) + 2])
  /\ rs'.trans[Len(rs.trans) + 2].n = rnd
  /\ rs'.pendingAsym = (rs'.key.secret.k = "DH")
  /\ rs'.pendingAsym => signer' = prov.id
  /\ rs'.sessionAsym = rs.sessionAsym
  /\ rnd' = rnd + 1
  /\ UNCHANGED <<prov, sealed, dup, acted, faulted>>

\* An exchange fails half-way, with its random drawn.
Abandons ==
  /\ rs.state \in {"INIT", "VERSION"} /\ rs'.state = rs.state
  /\ rs'.reqSeq = rs.reqSeq /\ rs'.rspSeq = rs.rspSeq
  /\ rs'.pendingAsym = rs.pendingAsym /\ rs'.sessionAsym = rs.sessionAsym
  /\ Len(rs.trans) <= Len(rs'.trans)
  /\ \A i \in 1..Len(rs.trans) : rs'.trans[i] = rs.trans[i]
  /\ \A i \in 1..Len(rs'.trans) :
       i > Len(rs.trans) /\ Mark(rs'.trans[i]) => rs'.trans[i].n = rnd
  /\ \/ rs'.key = rs.key
     \/ rs'.key = NoKey
     \/ /\ rs'.key.ph = "HS" /\ rs'.key.th = rs'.trans
        /\ ~MarkFree(rs'.trans, rnd)
  /\ rnd' = rnd + 1
  /\ UNCHANGED <<prov, sealed, dup, acted, signer, faulted>>

\* A handshake is finished: the reply is sealed and the application keys
\* taken, or one of the two failed.
Finishes ==
  /\ rs.state = "KEY_EX" /\ rs'.state = "CONNECTED"
  /\ rs'.key.secret = rs.key.secret
  /\ rs'.sessionAsym = rs.pendingAsym
  /\ Extended(rs.trans, rs'.trans)
  /\ \/ /\ rs'.key.ph = "APP" /\ rs'.key.th = rs'.trans
        /\ Seal /\ faulted' = faulted
     \/ /\ rs'.key = rs.key /\ rs'.rspSeq = rs.rspSeq
        /\ sealed' = sealed /\ dup' = dup /\ faulted'
     \/ /\ \/ rs'.key = rs.key
           \/ rs'.key.ph = "MIXED" /\ rs'.key.th = rs.key.th
        /\ rs'.rspSeq = rs.rspSeq + 1
        /\ Seal /\ faulted'
  /\ UNCHANGED <<prov, rnd, acted, signer>>

\* A transcript extends itself.
LEMMA ExtendedSame ==
  ASSUME NEW s \in Seq(Tokens)
  PROVE  Extended(s, s)
BY DEF Extended

\* A message without a random value of its own extends it.
LEMMA ExtendedAppend ==
  ASSUME NEW s \in Seq(Tokens), NEW tok \in Tokens, ~Mark(tok)
  PROVE  Extended(s, Append(s, tok))
BY AppendToken DEF Extended

\* So do two of them.
LEMMA ExtendedPair ==
  ASSUME NEW s \in Seq(Tokens), NEW a \in Tokens, NEW b \in Tokens,
         ~Mark(a), ~Mark(b)
  PROVE  Extended(s, s \o <<a, b>>)
BY AppendPair DEF Extended

\* The responses that carry the responder's random value.
LEMMA TokenMark ==
  ASSUME NEW t, NEW n
  PROVE  /\ Token(t, n).n = n
         /\ Mark(Token(t, n)) <=> t \in {"KEY_EXCHANGE_RSP", "PSK_EXCHANGE_RSP"}
BY DEF Token, Mark

\* A clear frame changes nothing that matters, restarts, or opens a handshake
\* or fails to.
LEMMA ClearShape ==
  ASSUME TypeInv, NEW m, ClearMsgOK(m), HandleClear(m)
  PROVE  Quiet \/ Restarts \/ Opens \/ Abandons
<1>0. rs \in Sessions /\ rs.trans \in Seq(Tokens) /\ prov.id \in Nat
  BY SessionFields DEF TypeInv, Provs
<1>a. ASSUME NEW v, NEW th, Extended(rs.trans, th), prov'.id = prov.id,
             rs' = [rs EXCEPT !.version = v, !.trans = th],
             UNCHANGED <<rnd, sealed, dup, acted, signer, faulted>>
      PROVE  Quiet
  <2>1. /\ rs'.state = rs.state /\ rs'.key = rs.key
        /\ rs'.trans = th
        /\ rs'.reqSeq = rs.reqSeq /\ rs'.rspSeq = rs.rspSeq
        /\ rs'.pendingAsym = rs.pendingAsym
        /\ rs'.sessionAsym = rs.sessionAsym
    BY <1>0, <1>a DEF Sessions
  <2> QED
    BY <1>a, <2>1 DEF Quiet, Kept
<1>b. ASSUME NEW v, NEW reply, Answer([rs EXCEPT !.version = v], reply)
      PROVE  Quiet
  <2>1. /\ rs'.state = rs.state /\ rs'.key = rs.key
        /\ rs'.trans = rs.trans
        /\ rs'.reqSeq = rs.reqSeq /\ rs'.rspSeq = rs.rspSeq
        /\ rs'.pendingAsym = rs.pendingAsym
        /\ rs'.sessionAsym = rs.sessionAsym
    BY <1>0, <1>b DEF Sessions, Answer
  <2> QED
    BY <1>0, <1>b, <2>1, ExtendedSame DEF Quiet, Kept, Answer
<1>1. CASE GetVersion(m)
  <2> DEFINE th == <<Token("GET_VERSION", 0), Token("VERSION", 0)>>
  <2>1. \A i \in 1..Len(th) : ~Mark(th[i])
    BY TokenMark
  <2> HIDE DEF th
  <2>2. rs' = [NewSession(0) EXCEPT !.state = "VERSION", !.trans = th]
    BY <1>1 DEF GetVersion, Answer, RespReset, th
  <2>3. /\ rs'.state = "VERSION" /\ rs'.key = NoKey /\ rs'.trans = th
        /\ rs'.reqSeq = 0 /\ rs'.rspSeq = 0 /\ rs'.sessionAsym = FALSE
    BY <2>2 DEF NewSession
  <2> QED
    BY <1>1, <2>1, <2>3 DEF GetVersion, Answer, Restarts
<1>2. CASE RefuseVersion(m)
  BY <1>0, <1>2, ExtendedSame DEF RefuseVersion, Answer, Quiet, Kept
<1>3. CASE Negotiate(m)
  <2> DEFINE rsp == IF m.t = "GET_CAPABILITIES" THEN "CAPABILITIES"
                    ELSE "ALGORITHMS"
             th == rs.trans \o <<Token(m.t, 0), Token(rsp, 0)>>
  <2>1. Token(m.t, 0) \in Tokens /\ Token(rsp, 0) \in Tokens
    BY <1>3, TokenType DEF Negotiate, TokenNames
  <2>2. ~Mark(Token(m.t, 0)) /\ ~Mark(Token(rsp, 0))
    BY <1>3, TokenMark DEF Negotiate
  <2>3. Extended(rs.trans, th)
    BY <1>0, <2>1, <2>2, ExtendedPair
  <2> QED
    BY <1>3, <1>a, <2>3 DEF Negotiate, Answer
<1>4. CASE Unsupported(m)
  <2>1. Token("OTHER", 0) \in Tokens /\ ~Mark(Token("OTHER", 0))
    BY TokenType, TokenMark DEF TokenNames
  <2>2. Extended(rs.trans, Append(rs.trans, Token("OTHER", 0)))
    BY <1>0, <2>1, ExtendedAppend
  <2> QED
    BY <1>4, <1>a, <2>2 DEF Unsupported, Answer
<1>5. CASE RefuseExchange(m)
  BY <1>5, <1>b DEF RefuseExchange
<1>6. CASE ExchangeUnconfigured(m)
  <2>1. m.t \in {"KEY_EXCHANGE", "PSK_EXCHANGE"}
    BY <1>6 DEF ExchangeUnconfigured
  <2>2. Token(m.t, m.n) \in Tokens /\ ~Mark(Token(m.t, m.n))
    BY <2>1, TokenType, TokenMark DEF ClearMsgOK, TokenNames
  <2>3. Extended(rs.trans, Append(rs.trans, Token(m.t, m.n)))
    BY <1>0, <2>2, ExtendedAppend
  <2> QED
    BY <1>6, <1>a, <2>3 DEF ExchangeUnconfigured, Answer
<1>7. ASSUME NEW rsp \in {"KEY_EXCHANGE_RSP", "PSK_EXCHANGE_RSP"},
             NEW secret, NEW asym \in BOOLEAN, asym <=> secret.k = "DH",
             m.t \in {"KEY_EXCHANGE", "PSK_EXCHANGE"},
             OpenHandshake(m, rsp, secret, asym), asym => signer' = prov.id
      PROVE  Opens
  <2> DEFINE a == Token(m.t, m.n)
             b == Token(rsp, rnd)
             th1 == rs.trans \o <<a, b>>
             key == Key("HS", secret, th1)
  <2>1. /\ a \in Tokens /\ b \in Tokens
        /\ ~Mark(a) /\ Mark(b) /\ b.n = rnd
    BY <1>7, TokenType, TokenMark DEF ClearMsgOK, TypeInv, TokenNames
  <2> HIDE DEF a, b
  <2>2. /\ Len(th1) = Len(rs.trans) + 2
        /\ \A i \in 1..Len(rs.trans) : th1[i] = rs.trans[i]
        /\ th1[Len(rs.trans) + 1] = a /\ th1[Len(rs.trans) + 2] = b
    BY <1>0, <2>1, AppendPair
  <2> HIDE DEF th1
  <2>3. key.ph = "HS" /\ key.secret = secret /\ key.th = th1
    BY KeyParts
  <2> HIDE DEF key
  <2>4. rs' = [rs EXCEPT !.version = Selected(m), !.trans = th1, !.key = key,
                   !.state = "KEY_EX", !.pendingAsym = asym]
    BY <1>7 DEF OpenHandshake, th1, key, a, b
  <2>5. /\ rs'.state = "KEY_EX" /\ rs'.key = key /\ rs'.trans = th1
        /\ rs'.pendingAsym = asym /\ rs'.sessionAsym = rs.sessionAsym
    BY <1>0, <2>4 DEF Sessions
  <2>6. rs.state \in {"INIT", "VERSION"}
    BY <1>0, <1>7, SessionFields DEF OpenHandshake, MayStart
  <2>7. /\ rnd' = rnd + 1
        /\ UNCHANGED <<prov, sealed, dup, acted, faulted>>
    BY <1>7 DEF OpenHandshake
  <2>8. rs'.pendingAsym = (rs'.key.secret.k = "DH")
    BY <1>7, <2>3, <2>5
  <2> QED
    BY <1>7, <2>1, <2>2, <2>3, <2>5, <2>6, <2>7, <2>8 DEF Opens
<1>8. CASE KeyExchange(m)
  <2>1. Secret("DH", m.n, rnd).k = "DH"
    BY DEF Secret
  <2> QED
    BY <1>7, <1>8, <2>1 DEF KeyExchange
<1>9. CASE PskExchange(m)
  <2>1. Secret("PSK", prov.psk, 0).k # "DH"
    BY DEF Secret
  <2> QED
    BY <1>7, <1>9, <2>1 DEF PskExchange
<1>10. ASSUME NEW rsp \in {"KEY_EXCHANGE_RSP", "PSK_EXCHANGE_RSP"},
              NEW secret, m.t \in {"KEY_EXCHANGE", "PSK_EXCHANGE"},
              FailHandshake(m, rsp, secret)
       PROVE  Abandons
  <2> DEFINE a == Token(m.t, m.n)
             b == Token(rsp, rnd)
             th0 == Append(rs.trans, a)
             th1 == rs.trans \o <<a, b>>
             key == Key("HS", secret, th1)
  <2>1. /\ a \in Tokens /\ b \in Tokens
        /\ ~Mark(a) /\ Mark(b) /\ b.n = rnd
    BY <1>10, TokenType, TokenMark DEF ClearMsgOK, TypeInv, TokenNames
  <2>2. /\ rs.state \in {"INIT", "VERSION"}
        /\ rnd' = rnd + 1
        /\ UNCHANGED <<prov, sealed, dup, acted, signer, faulted>>
    BY <1>0, <1>10, SessionFields DEF FailHandshake, MayStart
  <2>3. \/ rs' = [rs EXCEPT !.version = Selected(m), !.trans = th0]
        \/ \E k \in {rs.key, NoKey, key} :
             rs' = [rs EXCEPT !.version = Selected(m), !.trans = th1,
                              !.key = k]
    BY <1>10 DEF FailHandshake
  <2> HIDE DEF a, b
  <2>4. /\ Len(th0) = Len(rs.trans) + 1
        /\ \A i \in 1..Len(rs.trans) : th0[i] = rs.trans[i]
        /\ th0[Len(rs.trans) + 1] = a
        /\ Len(th1) = Len(rs.trans) + 2
        /\ \A i \in 1..Len(rs.trans) : th1[i] = rs.trans[i]
        /\ th1[Len(rs.trans) + 1] = a /\ th1[Len(rs.trans) + 2] = b
        /\ Len(rs.trans) \in Nat
    BY <1>0, <2>1, AppendPair, AppendToken
  <2> HIDE DEF th0, th1
  <2>5. key.ph = "HS" /\ key.th = th1
    BY KeyParts
  <2> HIDE DEF key
  <2>6. ASSUME NEW th, NEW k,
               rs' = [rs EXCEPT !.version = Selected(m), !.trans = th,
                                !.key = k]
        PROVE  /\ rs'.state = rs.state /\ rs'.trans = th /\ rs'.key = k
               /\ rs'.reqSeq = rs.reqSeq /\ rs'.rspSeq = rs.rspSeq
               /\ rs'.pendingAsym = rs.pendingAsym
               /\ rs'.sessionAsym = rs.sessionAsym
    BY <1>0, <2>6 DEF Sessions
  <2>7. CASE rs' = [rs EXCEPT !.version = Selected(m), !.trans = th0]
    <3>1. rs' = [rs EXCEPT !.version = Selected(m), !.trans = th0,
                           !.key = rs.key]
      BY <1>0, <2>7 DEF Sessions
    <3>2. \A i \in 1..Len(th0) : i > Len(rs.trans) => ~Mark(th0[i])
      BY <2>1, <2>4
    <3>3. /\ rs'.state = rs.state /\ rs'.trans = th0 /\ rs'.key = rs.key
          /\ rs'.reqSeq = rs.reqSeq /\ rs'.rspSeq = rs.rspSeq
          /\ rs'.pendingAsym = rs.pendingAsym
          /\ rs'.sessionAsym = rs.sessionAsym
      BY <2>6, <3>1
    <3> QED
      BY <2>2, <2>4, <3>2, <3>3 DEF Abandons
  <2>8. ASSUME NEW k \in {rs.key, NoKey, key},
               rs' = [rs EXCEPT !.version = Selected(m), !.trans = th1,
                                !.key = k]
        PROVE  Abandons
    <3>1. \A i \in 1..Len(th1) :
            i > Len(rs.trans) /\ Mark(th1[i]) => th1[i].n = rnd
      BY <2>1, <2>4
    <3>2. ~MarkFree(th1, rnd)
      BY <2>1, <2>4 DEF MarkFree
    <3>3. /\ rs'.state = rs.state /\ rs'.trans = th1 /\ rs'.key = k
          /\ rs'.reqSeq = rs.reqSeq /\ rs'.rspSeq = rs.rspSeq
          /\ rs'.pendingAsym = rs.pendingAsym
          /\ rs'.sessionAsym = rs.sessionAsym
      BY <2>6, <2>8
    <3>4. \/ rs'.key = rs.key \/ rs'.key = NoKey
          \/ rs'.key.ph = "HS" /\ rs'.key.th = rs'.trans
      BY <2>5, <2>8, <3>3
    <3> QED
      BY <2>2, <2>4, <3>1, <3>2, <3>3, <3>4 DEF Abandons
  <2> QED
    BY <2>3, <2>7, <2>8
<1>11. CASE ExchangeFails(m)
  BY <1>10, <1>11 DEF ExchangeFails
<1>12. CASE VendorClear(m)
  <2>1. Token("Ct", prov.id) \in Tokens /\ ~Mark(Token("Ct", prov.id))
    BY <1>0, TokenType, TokenMark DEF TokenNames
  <2>2. Extended(rs.trans, AfterVendor(m, FALSE))
    BY <1>0, <2>1, ExtendedAppend, ExtendedSame DEF AfterVendor
  <2>3. prov'.id = prov.id
    BY <1>12, ProvisionedType DEF VendorClear, ClearMsgOK
  <2>4. acted' = acted
    BY <1>12 DEF VendorClear, VendorSucceeds, VendorAllowed, Acts
  <2>5. CASE rs' = [rs EXCEPT !.version = Selected(m),
                              !.trans = AfterVendor(m, FALSE)]
    BY <1>12, <1>a, <2>2, <2>3, <2>4, <2>5 DEF VendorClear
  <2>6. CASE rs' = [rs EXCEPT !.version = Selected(m)]
    <3>1. rs' = [rs EXCEPT !.version = Selected(m), !.trans = rs.trans]
      BY <1>0, <2>6 DEF Sessions
    <3> QED
      BY <1>0, <1>12, <1>a, <2>3, <2>4, <3>1, ExtendedSame DEF VendorClear
  <2> QED
    BY <1>12, <2>5, <2>6 DEF VendorClear
<1> QED
  BY <1>1, <1>2, <1>3, <1>4, <1>5, <1>6, <1>8, <1>9, <1>11, <1>12
  DEF HandleClear

\* A key is determined by its parts.
LEMMA KeyWhole ==
  ASSUME NEW k \in Keys
  PROVE  Key(k.ph, k.secret, k.th) = k
BY DEF Key, Keys

\* A secured frame changes nothing that matters, sends a reply, restarts, or
\* finishes the handshake.
LEMMA SecuredShape ==
  ASSUME TypeInv, KeyInv, NEW m, BodyOK(m), HandleSecured(m)
  PROVE  Quiet \/ Replies \/ Restarts \/ Finishes
<1>0. /\ rs \in Sessions /\ rs.trans \in Seq(Tokens) /\ rs.key \in Keys
      /\ Extended(rs.trans, rs.trans)
  BY SessionFields, ExtendedSame DEF TypeInv
<1>1. rs.state \in {"KEY_EX", "CONNECTED"}
  BY DEF HandleSecured, Finish, EndSession, VendorSecured, UnsupportedSecured,
         RespOpens
<1> DEFINE Rest == /\ rnd' = rnd /\ signer' = signer /\ prov'.id = prov.id
                   /\ acted' # acted => rs.state = "CONNECTED"
                                         /\ acted' = acted \union {rs.key}
<1>2. ASSUME Drop(Counted), Rest PROVE Quiet
  BY <1>0, <1>1, <1>2, CountedFields DEF Drop, Quiet, Kept
<1>3. ASSUME NEW t, SendSealed(t, Replied, Counted), Rest
      PROVE  Quiet \/ Replies
  <2>1. CASE rs' = Replied /\ Seal /\ faulted' = faulted
    BY <1>0, <1>1, <1>3, <2>1, CountedFields DEF Replies, Kept
  <2>2. CASE rs' = Counted /\ sealed' = sealed /\ dup' = dup /\ faulted' = TRUE
    BY <1>0, <1>1, <1>3, <2>2, CountedFields DEF Quiet, Kept
  <2> QED
    BY <1>3, <2>1, <2>2 DEF SendSealed
<1>4. CASE Finish(m)
  <2> DEFINE th2  == Append(rs.trans, Token(m.t, 0))
             th   == Append(th2, Token("FINISH_RSP", 0))
             done == [Counted EXCEPT !.trans = th, !.state = "CONNECTED",
                                     !.sessionAsym = (m.t = "FINISH")]
             app  == Key("APP", rs.key.secret, th)
  <2>1. /\ Token(m.t, 0) \in Tokens
        /\ Token("FINISH_RSP", 0) \in Tokens
    BY <1>4, TokenType DEF Finish, TokenNames
  <2>2. ~Mark(Token(m.t, 0)) /\ ~Mark(Token("FINISH_RSP", 0))
    BY <1>4, TokenMark DEF Finish
  <2>3. th2 \in Seq(Tokens) /\ Extended(rs.trans, th2)
    BY <1>0, <2>1, <2>2, AppendToken, ExtendedAppend
  <2>4. th \in Seq(Tokens) /\ Extended(rs.trans, th)
    <3> HIDE DEF th2
    <3>1. Extended(th2, th)
      BY <2>1, <2>2, <2>3, ExtendedAppend
    <3>2. th \in Seq(Tokens)
      BY <2>1, <2>3, AppendToken
    <3> HIDE DEF th
    <3> QED
      BY <1>0, <2>3, <3>1, <3>2 DEF Extended
  <2> HIDE DEF th, th2
  <2>5. app.ph = "APP" /\ app.secret = rs.key.secret /\ app.th = th
    BY KeyParts
  <2> HIDE DEF app
  <2>6. Counted \in Sessions
    BY <1>0, CountedType
  <2>7. /\ done.state = "CONNECTED" /\ done.trans = th /\ done.key = rs.key
        /\ done.rspSeq = rs.rspSeq
        /\ done.sessionAsym = (m.t = "FINISH")
    BY <1>0, <2>6, CountedFields DEF Sessions
  <2>8. done \in Sessions
    BY <2>4, <2>6 DEF Sessions
  <2> HIDE DEF done
  <2>9. UNCHANGED <<prov, rnd, acted, signer>>
    BY <1>4 DEF Finish
  <2>10. CASE Drop(Counted)
    BY <1>2, <2>9, <2>10
  <2>11. CASE Drop([Counted EXCEPT !.trans = th2])
    <3>1. /\ rs'.trans = th2 /\ rs'.state = rs.state /\ rs'.key = rs.key
          /\ rs'.rspSeq = rs.rspSeq /\ rs'.pendingAsym = rs.pendingAsym
          /\ rs'.sessionAsym = rs.sessionAsym
      BY <1>0, <2>6, <2>11, CountedFields DEF Drop, Sessions
    <3> QED
      BY <1>1, <2>3, <2>9, <2>11, <3>1 DEF Drop, Quiet, Kept
  <2>12. ASSUME FinishFits(m.t)
         PROVE  rs.state = "KEY_EX" /\ done.sessionAsym = rs.pendingAsym
                  /\ rs.key.ph = "HS"
    BY <2>7, <2>12 DEF FinishFits, KeyInv
  <2>13. ASSUME FinishFits(m.t),
                SendSealed("FINISH_RSP",
                  [done EXCEPT !.key = app, !.reqSeq = 0, !.rspSeq = 0], done)
         PROVE  Finishes
    <3>1. CASE /\ rs' = [done EXCEPT !.key = app, !.reqSeq = 0, !.rspSeq = 0]
               /\ Seal /\ faulted' = faulted
      <4>1. /\ rs'.state = "CONNECTED" /\ rs'.key = app /\ rs'.trans = th
            /\ rs'.sessionAsym = done.sessionAsym
        BY <2>7, <2>8, <3>1 DEF Sessions
      <4> QED
        BY <2>4, <2>5, <2>9, <2>12, <2>13, <3>1, <4>1 DEF Finishes
    <3>2. CASE rs' = done /\ sealed' = sealed /\ dup' = dup /\ faulted' = TRUE
      BY <2>4, <2>7, <2>9, <2>12, <2>13, <3>2 DEF Finishes
    <3> QED
      BY <2>13, <3>1, <3>2 DEF SendSealed
  <2>14. ASSUME FinishFits(m.t), Seal, faulted' = TRUE,
                NEW ph \in {"HS", "MIXED"},
                rs' = [done EXCEPT !.key = Key(ph, rs.key.secret, rs.key.th),
                                   !.rspSeq = rs.rspSeq + 1]
         PROVE  Finishes
    <3> DEFINE k == Key(ph, rs.key.secret, rs.key.th)
    <3>1. k.ph = ph /\ k.secret = rs.key.secret /\ k.th = rs.key.th
      BY KeyParts
    <3>2. ph = "HS" => k = rs.key
      BY <1>0, <2>12, <2>14, KeyWhole
    <3> HIDE DEF k
    <3>3. /\ rs'.state = "CONNECTED" /\ rs'.key = k /\ rs'.trans = th
          /\ rs'.sessionAsym = done.sessionAsym
          /\ rs'.rspSeq = rs.rspSeq + 1
      BY <2>7, <2>8, <2>14 DEF k, Sessions
    <3> QED
      BY <2>4, <2>9, <2>12, <2>14, <3>1, <3>2, <3>3 DEF Finishes
  <2> QED
    BY <1>4, <2>10, <2>11, <2>13, <2>14 DEF Finish, th, th2, done, app
<1>5. CASE EndSession(m)
  <2>1. CASE rs' = NewSession(rs.version) /\ Seal /\ faulted' = faulted
    <3>1. /\ rs'.state = "INIT" /\ rs'.key = NoKey /\ rs'.trans = <<>>
          /\ rs'.reqSeq = 0 /\ rs'.rspSeq = 0 /\ rs'.sessionAsym = FALSE
      BY <2>1 DEF NewSession
    <3>2. \A i \in 1..Len(rs'.trans) : ~Mark(rs'.trans[i])
      BY <3>1
    <3> QED
      BY <1>1, <1>5, <2>1, <3>1, <3>2 DEF EndSession, Restarts
  <2>2. CASE rs' = Counted /\ sealed' = sealed /\ dup' = dup /\ faulted' = TRUE
    BY <1>0, <1>1, <1>5, <2>2, CountedFields DEF EndSession, Quiet, Kept
  <2> QED
    BY <1>5, <2>1, <2>2 DEF EndSession, SendSealed, RespReset
<1>6. CASE VendorSecured(m)
  <2>1. prov'.id = prov.id
    BY <1>6, ProvisionedType DEF VendorSecured
  <2>2. ASSUME VendorSucceeds(m, TRUE), Acts(m) # acted
        PROVE  rs.state = "CONNECTED" /\ Acts(m) = acted \union {rs.key}
    BY <2>2 DEF VendorSucceeds, VendorAllowed, Acts
  <2>3. Rest
    BY <1>6, <2>1, <2>2 DEF VendorSecured
  <2> QED
    BY <1>2, <1>3, <1>6, <2>3 DEF VendorSecured
<1>7. CASE UnsupportedSecured(m)
  BY <1>3, <1>7 DEF UnsupportedSecured
<1> QED
  BY <1>4, <1>5, <1>6, <1>7 DEF HandleSecured

-----------------------------------------------------------------------------
(* Every shape keeps the invariant *)

Shape == Quiet \/ Replies \/ Restarts \/ Opens \/ Abandons \/ Finishes

\* Each of these keeps the keys bound to the transcript.
LEMMA ShapeKeys ==
  ASSUME TypeInv, KeyInv, TypeInv', Shape
  PROVE  KeyInv'
<1>0. /\ rs.trans \in Seq(Tokens) /\ rs'.trans \in Seq(Tokens)
      /\ rs.key.th \in Seq(Tokens) /\ rs'.key.th \in Seq(Tokens)
      /\ rs.state \in {"INIT", "VERSION", "KEY_EX", "CONNECTED"}
  BY SessionFields, KeyFields DEF TypeInv
<1>1. ASSUME Kept PROVE KeyInv'
  <2>1. rs.state = "KEY_EX" =>
          /\ Len(rs.key.th) \in 1..Len(rs'.trans)
          /\ \A i \in 1..Len(rs.key.th) : rs'.trans[i] = rs.key.th[i]
    BY <1>0, <1>1 DEF Kept, KeyInv, Extended
  <2>2. rs.state \in {"INIT", "VERSION"} =>
          /\ Len(rs.key.th) <= Len(rs'.trans)
          /\ \A i \in 1..Len(rs.key.th) : rs'.trans[i] = rs.key.th[i]
    BY <1>0, <1>1 DEF Kept, KeyInv, Extended
  <2> QED
    BY <1>1, <2>1, <2>2 DEF Kept, KeyInv
<1>2. CASE Restarts
  <2>1. Len(rs'.key.th) = 0
    BY <1>2, NoKeyType DEF Restarts
  <2> QED
    BY <1>0, <1>2, <2>1, NoKeyType DEF Restarts, KeyInv
<1>3. CASE Opens
  <2>1. Len(rs'.key.th) = Len(rs.trans) + 2
    BY <1>3 DEF Opens
  <2> QED
    BY <1>0, <1>3, <2>1 DEF Opens, KeyInv
<1>4. CASE Finishes
  BY <1>4 DEF Finishes, KeyInv
<1>5. CASE Abandons
  <2>1. /\ Len(rs.key.th) <= Len(rs'.trans)
        /\ \A i \in 1..Len(rs.key.th) : rs'.trans[i] = rs.key.th[i]
    BY <1>0, <1>5 DEF Abandons, KeyInv
  <2>2. CASE rs'.key = rs.key
    BY <1>5, <2>1, <2>2 DEF Abandons, KeyInv
  <2>3. CASE rs'.key = NoKey
    <3>1. Len(rs'.key.th) = 0
      BY <2>3, NoKeyType
    <3> QED
      BY <1>0, <1>5, <2>3, <3>1, NoKeyType DEF Abandons, KeyInv
  <2>4. CASE rs'.key.ph = "HS" /\ rs'.key.th = rs'.trans
    BY <1>0, <1>5, <2>4 DEF Abandons, KeyInv
  <2> QED
    BY <1>5, <2>2, <2>3, <2>4 DEF Abandons
<1> QED
  BY <1>1, <1>2, <1>3, <1>4, <1>5 DEF Shape, Quiet, Replies

\* Each keeps the signer the provisioned identity.
LEMMA ShapeIds ==
  ASSUME TypeInv, IdInv, Shape
  PROVE  IdInv'
<1>1. ASSUME Kept PROVE IdInv'
  BY <1>1 DEF Kept, IdInv
<1>2. CASE Restarts
  BY <1>2 DEF Restarts, IdInv
<1>3. CASE Opens
  BY <1>3 DEF Opens, IdInv
<1>4. CASE Finishes
  BY <1>4 DEF Finishes, IdInv
<1>5. CASE Abandons
  BY <1>5 DEF Abandons, IdInv
<1> QED
  BY <1>1, <1>2, <1>3, <1>4, <1>5 DEF Shape, Quiet, Replies

\* Each acts on privileged requests only after FINISH.
LEMMA ShapeActs ==
  ASSUME KeyInv, ActInv, Shape
  PROVE  ActInv'
BY DEF Shape, Quiet, Replies, Kept, Restarts, Opens, Abandons, Finishes,
       KeyInv, ActInv

\* A transcript that extends another carries no newer random value.
LEMMA MarksExtended ==
  ASSUME NEW s \in Seq(Tokens), NEW t \in Seq(Tokens), NEW r \in Nat,
         Extended(s, t), MarksBelow(s, r)
  PROVE  MarksBelow(t, r)
BY DEF Extended, MarksBelow

\* Sealing under the current key and counter is safe, for the pairs so far.
LEMMA SealFresh ==
  ASSUME TypeInv, KeyInv, SealInv, Seal, rs.state \in {"KEY_EX", "CONNECTED"}
  PROVE  /\ ~dup'
         /\ \A p \in sealed' : p \in sealed \/ p = <<rs.key, rs.rspSeq>>
         /\ rs.key.ph # "NONE"
<1>1. rs.rspSeq \in Nat
  BY SessionFields DEF TypeInv
<1>2. <<rs.key, rs.rspSeq>> \notin sealed
  BY <1>1 DEF SealInv
<1>3. rs.key.ph # "NONE"
  BY DEF KeyInv
<1> QED
  BY <1>2, <1>3 DEF Seal, SealInv

\* Each keeps sealed pairs behind the session that seals.
LEMMA ShapeSeals ==
  ASSUME TypeInv, KeyInv, SealInv, TypeInv', Shape
  PROVE  SealInv'
<1>0. /\ rs.trans \in Seq(Tokens) /\ rs'.trans \in Seq(Tokens)
      /\ rs.key.th \in Seq(Tokens) /\ rs'.key.th \in Seq(Tokens)
      /\ rs.rspSeq \in Nat /\ rs'.rspSeq \in Nat /\ rnd \in Nat
      /\ \A p \in sealed : p[1] \in Keys /\ p[2] \in Nat /\ p[1].th \in Seq(Tokens)
  BY SessionFields, KeyFields DEF TypeInv
<1> USE DEF MarkFree
<1>1. CASE Quiet
  <2>1. MarksBelow(rs'.trans, rnd)
    BY <1>0, <1>1, MarksExtended DEF Quiet, Kept, SealInv
  <2> QED
    BY <1>1, <2>1 DEF Quiet, Kept, SealInv
<1>2. CASE Replies
  <2>1. MarksBelow(rs'.trans, rnd)
    BY <1>0, <1>2, MarksExtended DEF Replies, Kept, SealInv
  <2>2. rs.state = "KEY_EX" => rs.key.ph = "HS"
    BY DEF KeyInv
  <2>3. /\ ~dup' /\ rs.key.ph # "NONE"
        /\ \A p \in sealed' : p \in sealed \/ p = <<rs.key, rs.rspSeq>>
    BY <1>2, SealFresh DEF Replies
  <2> QED
    BY <1>0, <1>2, <2>1, <2>2, <2>3 DEF Replies, Kept, SealInv
<1>3. CASE Restarts
  <2>1. MarksBelow(rs'.trans, rnd)
    BY <1>3 DEF Restarts, MarksBelow
  <2>2. MarksBelow(rs'.key.th, rnd)
    BY <1>3, NoKeyType DEF Restarts, MarksBelow
  <2>3. /\ ~dup'
        /\ \A p \in sealed' :
             p \in sealed \/ (p = <<rs.key, rs.rspSeq>> /\ rs.key.ph # "NONE")
    <3>1. CASE sealed' = sealed /\ dup' = dup
      BY <3>1 DEF SealInv
    <3>2. CASE rs.state \in {"KEY_EX", "CONNECTED"} /\ Seal
      BY <3>2, SealFresh
    <3> QED
      BY <1>3, <3>1, <3>2 DEF Restarts
  <2>4. \A p \in sealed' : p[1].ph # "NONE" /\ MarksBelow(p[1].th, rnd)
    BY <2>3 DEF SealInv
  <2> QED
    BY <1>3, <2>1, <2>2, <2>3, <2>4, NoKeyType DEF Restarts, SealInv
<1>4. CASE Opens
  <2> DEFINE n == Len(rs.trans)
  <2>1. rs'.trans[n + 1] \in Tokens /\ rs'.trans[n + 2] \in Tokens
    BY <1>0, <1>4 DEF Opens
  <2>2. MarksBelow(rs'.trans, rnd + 1)
    <3>1. MarksBelow(rs.trans, rnd + 1)
      BY <1>0, MarksGrow DEF SealInv
    <3>2. \A i \in 1..Len(rs'.trans) : i \in 1..n \/ i = n + 1 \/ i = n + 2
      BY <1>0, <1>4 DEF Opens
    <3>3. ASSUME NEW i \in 1..n, Mark(rs'.trans[i])
          PROVE  rs'.trans[i].n < rnd + 1
      BY <1>4, <3>1, <3>3 DEF Opens, MarksBelow
    <3>4. rs'.trans[n + 2].n < rnd + 1 /\ ~Mark(rs'.trans[n + 1])
      BY <1>0, <1>4 DEF Opens
    <3> QED
      BY <3>2, <3>3, <3>4 DEF MarksBelow
  <2>3. \A p \in sealed : MarksBelow(p[1].th, rnd + 1) /\ MarkFree(p[1].th, rnd)
    BY <1>0, MarksGrow DEF SealInv
  <2>4. \A p \in sealed : p[1] # rs'.key
    <3>1. ~MarkFree(rs'.key.th, rnd)
      BY <1>0, <1>4 DEF Opens
    <3> QED
      BY <2>3, <3>1
  <2>5. rs'.key.th[Len(rs'.key.th)].n = rnd
    BY <1>4 DEF Opens
  <2> QED
    BY <1>4, <2>2, <2>3, <2>4, <2>5 DEF Opens, SealInv
<1>5. CASE Finishes
  <2> DEFINE n == Len(rs.key.th)
             r == rs.key.th[n].n
  <2>1. MarksBelow(rs'.trans, rnd)
    BY <1>0, <1>5, MarksExtended DEF Finishes, SealInv
  <2>2. MarksBelow(rs'.key.th, rnd)
    BY <1>5, <2>1 DEF Finishes, SealInv
  <2>3. /\ ~dup'
        /\ \A p \in sealed' : p \in sealed \/ p = <<rs.key, rs.rspSeq>>
        /\ rs.key.ph # "NONE"
    BY <1>5, SealFresh DEF Finishes, SealInv, KeyInv
  <2>4. \A p \in sealed : p[1].ph # "HS" => MarkFree(p[1].th, r)
    BY <1>5 DEF Finishes, SealInv
  <2>5. rs.key.ph = "HS" /\ n \in 1..Len(rs.trans) /\ Mark(rs.key.th[n])
          /\ rs.trans[n] = rs.key.th[n]
    BY <1>5 DEF Finishes, KeyInv
  <2>6. ~MarkFree(rs'.trans, r) /\ ~MarkFree(rs.key.th, r)
    <3>1. n \in 1..Len(rs'.trans) /\ rs'.trans[n] = rs.key.th[n]
      BY <1>0, <1>5, <2>5 DEF Finishes, Extended
    <3>2. n \in 1..n
      BY <1>0, <2>5
    <3> QED
      BY <2>5, <3>1, <3>2
  <2>7. ASSUME rs'.key.ph # "HS", NEW p \in sealed'
        PROVE  p[1] # rs'.key
    <3>1. ~MarkFree(rs'.key.th, r)
      BY <1>5, <2>5, <2>6, <2>7 DEF Finishes
    <3> HIDE DEF MarkFree
    <3> QED
      BY <2>3, <2>4, <2>5, <2>7, <3>1
  <2>8. \A p \in sealed' : p[1] = rs'.key => p[2] < rs'.rspSeq
    BY <1>0, <1>5, <2>3, <2>5, <2>7 DEF Finishes, SealInv
  <2>9. \A p \in sealed' : p[1].ph # "NONE" /\ MarksBelow(p[1].th, rnd)
    BY <2>3 DEF SealInv
  <2> QED
    BY <1>5, <2>1, <2>2, <2>3, <2>8, <2>9 DEF Finishes, SealInv
<1>6. CASE Abandons
  <2>1. \A i \in 1..Len(rs'.trans) : rs'.trans[i] \in Tokens
    BY <1>0
  <2>2. MarksBelow(rs'.trans, rnd + 1)
    <3>1. MarksBelow(rs.trans, rnd + 1)
      BY <1>0, MarksGrow DEF SealInv
    <3>2. ASSUME NEW i \in 1..Len(rs'.trans), Mark(rs'.trans[i])
          PROVE  rs'.trans[i].n < rnd + 1
      <4>1. CASE i > Len(rs.trans)
        BY <1>0, <1>6, <3>2, <4>1 DEF Abandons
      <4>2. CASE i \in 1..Len(rs.trans)
        BY <1>6, <3>1, <3>2, <4>2 DEF Abandons, MarksBelow
      <4> QED
        BY <1>0, <4>1, <4>2
    <3> QED
      BY <3>2 DEF MarksBelow
  <2>3. \A p \in sealed : MarksBelow(p[1].th, rnd + 1) /\ MarkFree(p[1].th, rnd)
    BY <1>0, MarksGrow DEF SealInv
  <2>4. \A p \in sealed : p[1] = rs'.key => p[2] < rs'.rspSeq
    <3>1. CASE rs'.key = rs.key
      BY <1>6, <3>1 DEF Abandons, SealInv
    <3>2. CASE rs'.key = NoKey
      BY <3>2, NoKeyType DEF SealInv
    <3>3. CASE rs'.key.th = rs'.trans /\ ~MarkFree(rs'.trans, rnd)
      <4> HIDE DEF MarkFree
      <4> QED
        BY <2>3, <3>3
    <3> HIDE DEF MarkFree
    <3> QED
      BY <1>6, <3>1, <3>2, <3>3 DEF Abandons
  <2>5. MarksBelow(rs'.key.th, rnd + 1)
    <3>1. MarksBelow(rs.key.th, rnd + 1)
      BY <1>0, MarksGrow DEF SealInv
    <3>2. MarksBelow(NoKey.th, rnd + 1)
      BY NoKeyType DEF MarksBelow
    <3> HIDE DEF MarkFree
    <3> QED
      BY <1>6, <2>2, <3>1, <3>2 DEF Abandons
  <2> QED
    BY <1>6, <2>2, <2>3, <2>4, <2>5 DEF Abandons, SealInv
<1> QED
  BY <1>1, <1>2, <1>3, <1>4, <1>5, <1>6 DEF Shape

-----------------------------------------------------------------------------
(* The responder, call by call *)

\* Each keeps the invariant.
LEMMA ShapeInv ==
  ASSUME RespInv, TypeInv', Shape
  PROVE  RespInv'
BY ShapeKeys, ShapeSeals, ShapeIds, ShapeActs DEF RespInv

\* wolfSPDM_RespHandleMessage, clear frames.
LEMMA ClearKeepsInv ==
  ASSUME RespInv, NEW m, ClearMsgOK(m), HandleClear(m)
  PROVE  RespInv'
BY ClearType, ClearShape, ShapeInv DEF RespInv, Shape

\* wolfSPDM_RespHandleMessage, secured frames.
LEMMA SecuredKeepsInv ==
  ASSUME RespInv, NEW m, BodyOK(m), HandleSecured(m)
  PROVE  RespInv'
BY SecuredType, SecuredShape, ShapeInv DEF RespInv, Shape

\* The configuration calls.
LEMMA OwnerKeepsInv ==
  ASSUME RespInv,
         \/ \E psk \in Nat \ {0} : RespSetPSK(psk)
         \/ \E id \in Nat : RespSetIdentityKey(id)
         \/ OwnerReset
  PROVE  RespInv'
<1>0. rs \in Sessions /\ rs.trans \in Seq(Tokens)
  BY SessionFields DEF RespInv, TypeInv
<1>1. ASSUME NEW psk \in Nat \ {0}, RespSetPSK(psk)
      PROVE  RespInv'
  <2>1. prov' \in Provs /\ prov'.clearAuth = 0 /\ prov'.id = prov.id
    BY <1>1 DEF RespInv, TypeInv, Provs, RespSetPSK
  <2>2. TypeInv'
    BY <1>1, <2>1 DEF RespInv, TypeInv, RespSetPSK
  <2>3. Quiet
    BY <1>0, <1>1, <2>1, ExtendedSame DEF RespSetPSK, Quiet, Kept
  <2> QED
    BY <2>2, <2>3, ShapeInv DEF Shape
<1>2. ASSUME NEW id \in Nat, RespSetIdentityKey(id)
      PROVE  RespInv'
  <2>1. /\ prov' \in Provs /\ prov'.clearAuth = prov.clearAuth
        /\ prov'.psk = prov.psk /\ prov'.provisioned = prov.provisioned
    BY <1>2 DEF RespInv, TypeInv, Provs, RespSetIdentityKey
  <2>2. TypeInv'
    BY <1>2, <2>1 DEF RespInv, TypeInv, RespSetIdentityKey
  <2>3. KeyInv' /\ SealInv' /\ ActInv'
    BY <1>2 DEF RespInv, RespSetIdentityKey, KeyInv, SealInv, ActInv
  <2>4. IdInv'
    BY <1>2 DEF RespInv, RespSetIdentityKey, IdInv
  <2> QED
    BY <2>2, <2>3, <2>4 DEF RespInv
<1>3. CASE OwnerReset
  <2>1. rs' = NewSession(rs.version) /\ rs' \in Sessions
    BY <1>0, <1>3, NewSessionType, SessionFields
    DEF OwnerReset, Answer, RespReset
  <2>2. /\ rs'.state = "INIT" /\ rs'.key = NoKey /\ rs'.trans = <<>>
        /\ rs'.reqSeq = 0 /\ rs'.rspSeq = 0 /\ rs'.sessionAsym = FALSE
    BY <2>1 DEF NewSession
  <2>3. \A i \in 1..Len(rs'.trans) : ~Mark(rs'.trans[i])
    BY <2>2
  <2>4. TypeInv'
    BY <1>3, <2>1 DEF RespInv, TypeInv, OwnerReset, Answer
  <2>5. Restarts
    BY <1>3, <2>2, <2>3 DEF OwnerReset, Answer, Restarts
  <2> QED
    BY <2>4, <2>5, ShapeInv DEF Shape
<1> QED
  BY <1>1, <1>2, <1>3

\* A fresh responder, however it is provisioned.
LEMMA InitInv ==
  ASSUME RespInit, prov \in Provs, prov.clearAuth = 0
  PROVE  RespInv
<1>1. rs \in Sessions
  BY NewSessionType DEF RespInit
<1>2. /\ rs.state = "INIT" /\ rs.key = NoKey /\ rs.trans = <<>>
      /\ rs.reqSeq = 0 /\ rs.rspSeq = 0 /\ rs.sessionAsym = FALSE
  BY DEF RespInit, NewSession
<1>3. TypeInv
  BY <1>1 DEF RespInit, TypeInv
<1>4. KeyInv
  BY <1>2, NoKeyType DEF KeyInv
<1>5. SealInv
  BY <1>2, NoKeyType DEF RespInit, SealInv, MarksBelow
<1>6. IdInv /\ ActInv
  BY <1>2 DEF RespInit, IdInv, ActInv
<1> QED
  BY <1>3, <1>4, <1>5, <1>6 DEF RespInv

=============================================================================
