----------------------- MODULE ResponderClientProofs -----------------------
(***************************************************************************)
(* The responder against an arbitrary client, for every set of versions,   *)
(* PSKs and ClearAuth values and every number of frames: the invariants of *)
(* ResponderClient and the protection of a stored PSK.                     *)
(***************************************************************************)
EXTENDS ResponderClient, ResponderProofs

\* The invariant of the responder, and that a stored ClearAuth was accepted
\* together with the PSK it stands next to.
ClientInv ==
  /\ RespInv
  /\ frames \in Nat
  /\ prov.clearAuth # 0 => <<prov.psk, prov.clearAuth>> \in reg

-----------------------------------------------------------------------------
(* What the client's frames look like to the handlers *)

\* The bodies a client may send.
LEMMA BodyType ==
  ASSUME NEW b \in Bodies \union Exchanges
  PROVE  /\ b.t = "PSK_SET" => b.psk \in Psks /\ b.auth \in Auths
         /\ b.t = "SPDMONLY" => b.lock \in BOOLEAN
<1>1. CASE b \in Bodies
  BY <1>1 DEF Bodies, Plain
<1>2. CASE b \in Exchanges
  BY <1>2 DEF Exchanges
<1> QED
  BY <1>1, <1>2

\* A vendor command that succeeds changes the PSK only as its own checks
\* allow: PSK_SET_ onto nothing or onto the same PSK, PSK_CLR_ with the
\* ClearAuth that is stored.
LEMMA PskStep ==
  ASSUME TypeInv, NEW m, NEW secured, VendorSucceeds(m, secured)
  PROVE  /\ m.t = "PSK_SET" =>
              /\ prov.clearAuth = 0 /\ prov.psk \in {0, m.psk}
              /\ Provisioned(m).psk = m.psk /\ Provisioned(m).clearAuth = m.auth
         /\ m.t = "PSK_CLR" =>
              /\ m.auth = prov.clearAuth /\ prov.clearAuth # 0
              /\ Provisioned(m).psk = 0 /\ Provisioned(m).clearAuth = 0
         /\ m.t \notin {"PSK_SET", "PSK_CLR"} =>
              /\ Provisioned(m).psk = prov.psk
              /\ Provisioned(m).clearAuth = prov.clearAuth
<1>1. prov \in Provs
  BY DEF TypeInv
<1>2. CASE m.t = "PSK_SET"
  BY <1>1, <1>2 DEF VendorSucceeds, MaySetPsk, Provisioned, Provs
<1>3. CASE m.t = "PSK_CLR"
  BY <1>1, <1>3 DEF VendorSucceeds, MayClearPsk, Provisioned, Provs
<1>4. CASE m.t = "SPDMONLY"
  BY <1>1, <1>4 DEF Provisioned, Provs
<1>5. CASE m.t \notin {"PSK_SET", "PSK_CLR", "SPDMONLY"}
  BY <1>5 DEF Provisioned
<1> QED
  BY <1>2, <1>3, <1>4, <1>5

\* Every frame leaves the provisioning alone or is a vendor command that
\* succeeded.
LEMMA ClearProv ==
  ASSUME NEW m, HandleClear(m)
  PROVE  prov' = prov \/ (VendorSucceeds(m, FALSE) /\ prov' = Provisioned(m))
BY DEF HandleClear, GetVersion, RefuseVersion, Negotiate, Unsupported, Answer,
       RefuseExchange, ExchangeUnconfigured, KeyExchange, PskExchange,
       OpenHandshake, ExchangeFails, FailHandshake, VendorClear

\* A secured frame provisions nothing, or what a vendor command says.
LEMMA SecuredProv ==
  ASSUME NEW m, HandleSecured(m)
  PROVE  prov' = prov \/ (VendorSucceeds(m, TRUE) /\ prov' = Provisioned(m))
BY DEF HandleSecured, Finish, EndSession, VendorSecured, UnsupportedSecured

\* What a frame may do to a PSK and its ClearAuth, and what is recorded of it.
PskRule ==
  /\ prov'.clearAuth # 0 => <<prov'.psk, prov'.clearAuth>> \in reg'
  /\ prov.psk # 0 /\ prov'.psk # prov.psk =>
       \/ last' = Owned
       \/ prov'.psk = 0 /\ <<prov.psk, last'>> \in reg

\* A frame of either kind keeps to that rule.
LEMMA FramePsk ==
  ASSUME ClientInv, NEW m, NEW secured,
         prov' = prov \/ (VendorSucceeds(m, secured) /\ prov' = Provisioned(m)),
         last' = IF m.t = "PSK_CLR" THEN m.auth ELSE 0,
         reg' = IF m.t = "PSK_SET" /\ prov' # prov
                THEN reg \union {<<m.psk, m.auth>>} ELSE reg
  PROVE  PskRule
<1>0. TypeInv
  BY DEF ClientInv, RespInv
<1>1. CASE prov' = prov
  BY <1>1 DEF ClientInv, PskRule
<1>2. CASE VendorSucceeds(m, secured) /\ prov' = Provisioned(m) /\ prov' # prov
  <2>1. CASE m.t = "PSK_SET"
    BY <1>0, <1>2, <2>1, PskStep DEF PskRule
  <2>2. CASE m.t = "PSK_CLR"
    BY <1>0, <1>2, <2>2, PskStep DEF ClientInv, PskRule
  <2>3. CASE m.t \notin {"PSK_SET", "PSK_CLR"}
    BY <1>0, <1>2, <2>3, PskStep DEF ClientInv, PskRule
  <2> QED
    BY <2>1, <2>2, <2>3
<1> QED
  BY <1>1, <1>2

-----------------------------------------------------------------------------
(* The invariant is inductive *)

\* The provisioning a deployment starts with satisfies the invariant.
LEMMA ClientInit ==
  ASSUME Init
  PROVE  ClientInv
<1>1. PICK id \in {0, 1}, p \in {0} \union Psks :
        prov = [psk |-> p, provisioned |-> p # 0, clearAuth |-> 0,
                lock |-> FALSE, id |-> id]
  BY DEF Init
<1>2. p \in Nat
  BY ClientAssumption
<1>3. (p # 0) \in BOOLEAN
  OBVIOUS
<1>4. prov \in Provs /\ prov.clearAuth = 0
  BY <1>1, <1>2, <1>3 DEF Provs
<1>5. RespInv
  BY <1>4, InitInv DEF Init
<1> QED
  BY <1>4, <1>5 DEF ClientInv, Init

\* A clear frame keeps the invariant and the rule for the PSK.
LEMMA ClearStep ==
  ASSUME ClientInv, ClearFrame
  PROVE  RespInv' /\ PskRule
<1>1. PICK b \in Bodies \union Exchanges, v \in ClientVersions :
        LET m == [t |-> b.t, v |-> v, n |-> frames, psk |-> b.psk,
                  auth |-> b.auth, lock |-> b.lock]
        IN  /\ HandleClear(m)
            /\ last' = IF b.t = "PSK_CLR" THEN b.auth ELSE 0
            /\ reg' = IF b.t = "PSK_SET" /\ prov' # prov
                      THEN reg \union {<<b.psk, b.auth>>} ELSE reg
  BY DEF ClearFrame
<1> DEFINE m == [t |-> b.t, v |-> v, n |-> frames, psk |-> b.psk,
                 auth |-> b.auth, lock |-> b.lock]
<1>2. /\ m.t = b.t /\ m.n = frames /\ m.psk = b.psk /\ m.auth = b.auth
      /\ m.lock = b.lock
  OBVIOUS
<1>3. /\ HandleClear(m)
      /\ last' = IF m.t = "PSK_CLR" THEN m.auth ELSE 0
      /\ reg' = IF m.t = "PSK_SET" /\ prov' # prov
                THEN reg \union {<<m.psk, m.auth>>} ELSE reg
  BY <1>1
<1> HIDE DEF m
<1>4. ClearMsgOK(m)
  BY <1>2, BodyType, ClientAssumption DEF ClearMsgOK, BodyOK, ClientInv
<1>5. RespInv'
  BY <1>3, <1>4, ClearKeepsInv DEF ClientInv
<1>6. PskRule
  BY <1>3, ClearProv, FramePsk
<1> QED
  BY <1>5, <1>6

\* A secured frame keeps the invariant and the rule for the PSK.
LEMMA SecuredStep ==
  ASSUME ClientInv, SecuredFrame
  PROVE  RespInv' /\ PskRule
<1> DEFINE ends == {[t |-> t, psk |-> 0, auth |-> 0, lock |-> FALSE] :
                      t \in {"FINISH", "PSK_FINISH", "END_SESSION"}}
           msg(b, th) == [t |-> b.t, key |-> rs.key, seq |-> rs.reqSeq,
                          mac |-> [key |-> rs.key, th |-> th],
                          psk |-> b.psk, auth |-> b.auth, lock |-> b.lock]
<1>1. PICK b \in Bodies \union ends :
        /\ \E th : HandleSecured(msg(b, th))
        /\ last' = IF b.t = "PSK_CLR" THEN b.auth ELSE 0
        /\ reg' = IF b.t = "PSK_SET" /\ prov' # prov
                  THEN reg \union {<<b.psk, b.auth>>} ELSE reg
  BY DEF SecuredFrame
<1>a. PICK th : HandleSecured(msg(b, th))
  BY <1>1
<1> DEFINE m == msg(b, th)
<1>2. /\ m.t = b.t /\ m.psk = b.psk /\ m.auth = b.auth /\ m.lock = b.lock
  OBVIOUS
<1>3. /\ HandleSecured(m)
      /\ last' = IF m.t = "PSK_CLR" THEN m.auth ELSE 0
      /\ reg' = IF m.t = "PSK_SET" /\ prov' # prov
                THEN reg \union {<<m.psk, m.auth>>} ELSE reg
  BY <1>1, <1>a
<1>4. /\ b.t = "PSK_SET" => b.psk \in Psks /\ b.auth \in Auths
      /\ b.t = "SPDMONLY" => b.lock \in BOOLEAN
  <2>1. CASE b \in Bodies
    BY <2>1, BodyType
  <2>2. CASE b \in ends
    BY <2>2
  <2> QED
    BY <2>1, <2>2
<1> HIDE DEF m
<1>5. BodyOK(m)
  BY <1>2, <1>4, ClientAssumption DEF BodyOK
<1>6. RespInv'
  BY <1>3, <1>5, SecuredKeepsInv DEF ClientInv
<1>7. PskRule
  BY <1>3, SecuredProv, FramePsk
<1> QED
  BY <1>6, <1>7

\* An owner call keeps the invariant; it may change the PSK.
LEMMA OwnerStep ==
  ASSUME ClientInv, Owner
  PROVE  RespInv' /\ PskRule
<1>0. prov \in Provs
  BY DEF ClientInv, RespInv, TypeInv
<1>1. \/ \E psk \in Nat \ {0} : RespSetPSK(psk)
      \/ \E id \in Nat : RespSetIdentityKey(id)
      \/ OwnerReset
  BY ClientAssumption DEF Owner
<1>2. RespInv'
  BY <1>1, OwnerKeepsInv DEF ClientInv
<1>3. prov'.clearAuth # 0 =>
        prov'.clearAuth = prov.clearAuth /\ prov'.psk = prov.psk
  BY <1>0, <1>1 DEF RespSetPSK, RespSetIdentityKey, OwnerReset, Answer, Provs
<1>4. last' = Owned /\ reg' = reg
  BY DEF Owner
<1> QED
  BY <1>2, <1>3, <1>4 DEF ClientInv, PskRule

\* Every step of the specification.
LEMMA ClientNext ==
  ASSUME ClientInv, Next
  PROVE  ClientInv' /\ PskRule
<1>1. RespInv' /\ PskRule
  BY ClearStep, SecuredStep, OwnerStep DEF Next
<1>2. frames' \in Nat
  BY DEF Next, ClientInv
<1> QED
  BY <1>1, <1>2 DEF ClientInv, PskRule

\* ClientInv is inductive, so it holds in every reachable state.
THEOREM ClientInvariant == Spec => []ClientInv
<1>1. Init => ClientInv
  BY ClientInit
<1>2. ClientInv /\ [Next]_vars => ClientInv'
  <2> SUFFICES ASSUME ClientInv, [Next]_vars PROVE ClientInv'
    OBVIOUS
  <2>1. CASE Next
    BY <2>1, ClientNext
  <2>2. CASE UNCHANGED vars
    BY <2>2 DEF vars, respVars, ClientInv, RespInv, TypeInv, KeyInv, SealInv,
                IdInv, ActInv, MarksBelow, MarkFree
  <2> QED
    BY <2>1, <2>2
<1> QED
  BY <1>1, <1>2, PTL DEF Spec

-----------------------------------------------------------------------------
(* The properties *)

\* The responder's state has its type, and a counter never runs without a
\* key: for every client and every sequence of frames.
THEOREM RespTypeCorrect == Spec => []RespTypeOK
<1>1. ClientInv => RespTypeOK
  <2> SUFFICES ASSUME ClientInv PROVE RespTypeOK
    OBVIOUS
  <2>1. /\ rs.state \in {"INIT", "VERSION", "KEY_EX", "CONNECTED"}
        /\ rs.version \in RespVersions \union {0}
        /\ rs.reqSeq \in Nat /\ rs.rspSeq \in Nat
    BY SessionFields DEF ClientInv, RespInv, TypeInv
  <2>2. rs.key.ph = "NONE" => rs.reqSeq = 0 /\ rs.rspSeq = 0
    BY <2>1 DEF ClientInv, RespInv, KeyInv
  <2> QED
    BY <2>1, <2>2 DEF ClientInv, RespInv, TypeInv, RespTypeOK
<1> QED
  BY <1>1, ClientInvariant, PTL

\* No nonce of the responder is used twice under one key, whatever the client
\* sends and whatever fails.
THEOREM RespNonceNeverReused == Spec => []RespNonceFresh
<1>1. ClientInv => RespNonceFresh
  BY DEF ClientInv, RespInv, SealInv, RespNonceFresh
<1> QED
  BY <1>1, ClientInvariant, PTL

\* The identity the responder reports for a session is the one that signed
\* its key exchange.
THEOREM IdentityBound == Spec => []IdentityIsSigner
<1>1. ClientInv => IdentityIsSigner
  BY DEF ClientInv, RespInv, IdInv, IdentityIsSigner
<1> QED
  BY <1>1, ClientInvariant, PTL

\* TPM commands and SPDMONLY run only under application keys.
THEOREM PrivilegedBound == Spec => []PrivilegedNeedsFinish
<1>1. ClientInv => PrivilegedNeedsFinish
  BY DEF ClientInv, RespInv, ActInv, PrivilegedNeedsFinish
<1> QED
  BY <1>1, ClientInvariant, PTL

\* A prefix, element by element, is a prefix.
LEMMA PrefixByElements ==
  ASSUME NEW s \in Seq(Tokens), NEW t \in Seq(Tokens), Len(s) <= Len(t),
         \A i \in 1..Len(s) : t[i] = s[i]
  PROVE  IsPrefix(s, t)
<1>1. SubSeq(s, 1, Len(s)) = SubSeq(t, 1, Len(s))
  OBVIOUS
<1> QED
  BY <1>1 DEF IsPrefix

\* Each state has the keys it should have, over the transcript so far; what a
\* failed exchange leaves behind is never sealed under.
THEOREM KeysBound == Spec => []KeysFitState
<1>1. ClientInv => KeysFitState
  <2> SUFFICES ASSUME ClientInv PROVE KeysFitState
    OBVIOUS
  <2>1. rs.trans \in Seq(Tokens) /\ rs.key.th \in Seq(Tokens)
    BY SessionFields, KeyFields DEF ClientInv, RespInv, TypeInv
  <2>2. rs.state # "CONNECTED" => IsPrefix(rs.key.th, rs.trans)
    <3>1. rs.state \in {"INIT", "VERSION", "KEY_EX", "CONNECTED"}
      BY SessionFields DEF ClientInv, RespInv, TypeInv
    <3>2. rs.state # "CONNECTED" =>
            /\ Len(rs.key.th) <= Len(rs.trans)
            /\ \A i \in 1..Len(rs.key.th) : rs.trans[i] = rs.key.th[i]
      BY <2>1, <3>1 DEF ClientInv, RespInv, KeyInv
    <3> QED
      BY <2>1, <3>2, PrefixByElements
  <2>3. ASSUME rs.rspSeq = 0, NEW p \in sealed
        PROVE  p[1] # rs.key
    <3>1. p[2] \in Nat
      BY <2>3 DEF ClientInv, RespInv, TypeInv
    <3> QED
      BY <2>3, <3>1 DEF ClientInv, RespInv, SealInv
  <2> QED
    BY <2>2, <2>3 DEF ClientInv, RespInv, KeyInv, KeysFitState
<1> QED
  BY <1>1, ClientInvariant, PTL

\* A stored PSK changes only by the owner's hand or with its ClearAuth.
THEOREM PskStaysProtected == Spec => PskProtected
<1>1. ClientInv /\ [Next]_vars =>
        [prov.psk # 0 /\ prov'.psk # prov.psk =>
           \/ last' = Owned
           \/ prov'.psk = 0 /\ <<prov.psk, last'>> \in reg]_vars
  BY ClientNext DEF PskRule
<1> QED
  BY <1>1, ClientInvariant, PTL DEF Spec, PskProtected

=============================================================================
