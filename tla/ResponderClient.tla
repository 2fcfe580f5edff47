-------------------------- MODULE ResponderClient --------------------------
(***************************************************************************)
(* The responder against a client that sends any request in any order,     *)
(* with the keys of whatever handshake it completed, while the owner       *)
(* reconfigures it.  The client knows the transcript and may get it wrong. *)
(***************************************************************************)
EXTENDS Responder, SequencesExt

CONSTANTS
  ClientVersions,  \* versions the client puts in its requests
  Psks, Auths,     \* PSKs and ClearAuth values, numbered from 1
  MaxFrames        \* bound: frames and owner calls

ASSUME ClientAssumption ==
  /\ ClientVersions \subseteq Nat
  /\ Psks \subseteq Nat \ {0} /\ Auths \subseteq Nat \ {0, 99}
  /\ MaxFrames \in Nat

VARIABLES
  frames,  \* frames and owner calls so far
  last,    \* history: the ClearAuth of the last one, Owned for an owner call
  reg      \* history: PSKs and the ClearAuth accepted with each

vars == <<respVars, frames, last, reg>>

Owned == 99

Plain == {"GET_VERSION", "GET_CAPABILITIES", "NEGOTIATE_ALGORITHMS", "OTHER",
          "GET_PUBK", "GET_STS", "TPM2_CMD", "GIVE_PUB"}

\* What may follow the code of a request.
Bodies ==
  {[t |-> t, psk |-> 0, auth |-> 0, lock |-> FALSE] : t \in Plain} \union
  {[t |-> "PSK_SET", psk |-> p, auth |-> a, lock |-> FALSE] :
     p \in Psks, a \in Auths} \union
  {[t |-> "PSK_CLR", psk |-> 0, auth |-> a, lock |-> FALSE] : a \in Auths} \union
  {[t |-> "SPDMONLY", psk |-> 0, auth |-> 0, lock |-> l] : l \in BOOLEAN}

Exchanges ==
  {[t |-> t, psk |-> 0, auth |-> 0, lock |-> FALSE] :
     t \in {"KEY_EXCHANGE", "PSK_EXCHANGE"}}

ClearFrame ==
  \E b \in Bodies \union Exchanges, v \in ClientVersions :
    LET m == [t |-> b.t, v |-> v, n |-> frames, psk |-> b.psk,
              auth |-> b.auth, lock |-> b.lock]
    IN  /\ HandleClear(m)
        /\ last' = IF b.t = "PSK_CLR" THEN b.auth ELSE 0
        /\ reg' = IF b.t = "PSK_SET" /\ prov' # prov
                  THEN reg \union {<<b.psk, b.auth>>} ELSE reg

SecuredFrame ==
  \E b \in Bodies \union
           {[t |-> t, psk |-> 0, auth |-> 0, lock |-> FALSE] :
              t \in {"FINISH", "PSK_FINISH", "END_SESSION"}} :
  \E agrees \in BOOLEAN :
    LET th == IF agrees THEN Append(rs.trans, Token(b.t, 0)) ELSE <<>>
        m == [t |-> b.t, key |-> rs.key, seq |-> rs.reqSeq,
              mac |-> [key |-> rs.key, th |-> th],
              psk |-> b.psk, auth |-> b.auth, lock |-> b.lock]
    IN  /\ HandleSecured(m)
        /\ last' = IF b.t = "PSK_CLR" THEN b.auth ELSE 0
        /\ reg' = IF b.t = "PSK_SET" /\ prov' # prov
                  THEN reg \union {<<b.psk, b.auth>>} ELSE reg

Owner ==
  /\ \/ \E p \in Psks : RespSetPSK(p)
     \/ \E id \in {1, 2} \ {prov.id} : RespSetIdentityKey(id)
     \/ OwnerReset
  /\ last' = Owned
  /\ UNCHANGED reg

Init ==
  /\ RespInit
  /\ \E id \in {0, 1}, p \in {0} \union Psks :
       prov = [psk |-> p, provisioned |-> p # 0, clearAuth |-> 0,
               lock |-> FALSE, id |-> id]
  /\ frames = 0
  /\ last = Owned
  /\ reg = {}

Next == /\ frames < MaxFrames
        /\ frames' = frames + 1
        /\ ClearFrame \/ SecuredFrame \/ Owner

Spec == Init /\ [][Next]_vars

-----------------------------------------------------------------------------
(* Properties *)

\* The state's type, and no counter without a key.
RespTypeOK ==
  /\ rs.state \in {"INIT", "VERSION", "KEY_EX", "CONNECTED"}
  /\ rs.version \in RespVersions \union {0}
  /\ rs.reqSeq \in Nat /\ rs.rspSeq \in Nat
  /\ rs.key.ph = "NONE" => rs.reqSeq = 0 /\ rs.rspSeq = 0
  /\ prov.clearAuth # 0 => prov.psk # 0 /\ prov.provisioned

\* No key, counter pair seals two records: not across a dropped FINISH, an
\* abandoned handshake, or END_SESSION and a new session.
RespNonceFresh == ~dup

\* The identity key wolfSPDM_RespGetIdentityKey reports for a session is the
\* one that signed its KEY_EXCHANGE_RSP: a PSK session never reports one,
\* and a rotation never relabels a session.
IdentityIsSigner ==
  /\ rs.sessionAsym => rs.key.secret.k = "DH" /\ prov.id = signer
  /\ rs.state = "CONNECTED" => rs.sessionAsym = (rs.key.secret.k = "DH")

\* TPM commands and SPDMONLY take effect only under the application keys of a
\* session whose FINISH was verified, as long as replies can be sealed.
PrivilegedNeedsFinish == faulted \/ \A k \in acted : k.ph = "APP"

\* KEY_EX has handshake keys over what was exchanged so far; CONNECTED has
\* application keys, as long as replies can be sealed.  In every other state
\* the only keys are those an exchange that failed half-way left behind: over
\* the transcript in progress, so none outlive a reset, and never sealed
\* under.
KeysFitState ==
  /\ rs.state = "KEY_EX" => rs.key.ph = "HS" /\ IsPrefix(rs.key.th, rs.trans)
  /\ rs.state = "CONNECTED" /\ ~faulted => rs.key.ph = "APP"
  /\ rs.state \in {"INIT", "VERSION"} =>
       /\ rs.key.ph \in {"NONE", "HS"}
       /\ IsPrefix(rs.key.th, rs.trans)
       /\ \A p \in sealed : p[1] # rs.key

\* The dispatcher's own account of its states: "CONNECTED has application
\* traffic keys" (spdm_responder.c:1190).
ConnectedHasAppKeys == rs.state = "CONNECTED" => rs.key.ph = "APP"

\* A stored PSK changes only by the owner's hand or by a PSK_CLR_ with the
\* ClearAuth that was registered for that very PSK.
PskProtected ==
  [][prov.psk # 0 /\ prov'.psk # prov.psk =>
       \/ last' = Owned
       \/ prov'.psk = 0 /\ <<prov.psk, last'>> \in reg]_vars

=============================================================================
