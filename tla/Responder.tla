----------------------------- MODULE Responder -----------------------------
(***************************************************************************)
(* The in-tree responder of spdm_responder.c: wolfSPDM_RespHandleMessage   *)
(* with its clear and secured dispatchers, the handshake handlers, the     *)
(* vendor-defined commands and the configuration calls.                    *)
(*                                                                         *)
(* One action handles one frame completely, as RespHandleMessage does.     *)
(* The transcript is a sequence of tokens, one per message: the parts of a *)
(* message that are hashed separately (signature, verify data) are         *)
(* determined by what precedes them.  A key is named by what it is derived *)
(* from: the phase, the shared secret and the transcript hashed into it.   *)
(* Modules ResponderClient and Handshake supply the requests.              *)
(***************************************************************************)
EXTENDS Naturals, Sequences

CONSTANTS
  UseTcg, UsePsk,  \* wolfSPDM_RespSetMode
  RespVersions,    \* versions the responder advertises
  Faults           \* steps that may fail: sealing a reply (ENCRYPT), deriving
                   \* the application keys (DERIVE), any step of building a
                   \* KEY_EXCHANGE_RSP or PSK_EXCHANGE_RSP (EXCHANGE)

ASSUME ResponderAssumption ==
  /\ UseTcg \in BOOLEAN /\ UsePsk \in BOOLEAN
  /\ RespVersions \subseteq Nat \ {0}
  /\ Faults \subseteq {"ENCRYPT", "DERIVE", "EXCHANGE"}

VARIABLES
  rs,      \* session state: state, version, transcript, keys, counters, flags
  prov,    \* what survives a session: PSK, ClearAuth, SPDMONLY lock, identity
  out,     \* the reply to the last frame
  rnd,     \* the next value of the responder's random generator
  sealed,  \* history: every record the responder sealed
  dup,     \* history: a nonce was used twice under one key
  acted,   \* history: the keys under which a TPM command or SPDMONLY ran
  signer,  \* history: the identity that signed the last KEY_EXCHANGE_RSP
  faulted  \* history: a reply could not be sealed, or keys not derived

respVars == <<rs, prov, out, rnd, sealed, dup, acted, signer, faulted>>

-----------------------------------------------------------------------------
(* Data *)

Token(t, n) == [t |-> t, n |-> n]

Secret(k, a, b) == [k |-> k, a |-> a, b |-> b]

\* Traffic keys: phase, secret and the transcript they are derived over.
Key(ph, secret, th) == [ph |-> ph, secret |-> secret, th |-> th]
NoKey == Key("NONE", Secret("NONE", 0, 0), <<>>)

\* sec: a sealed record under key; else key is what the reply's signature and
\* verify data prove.
NoReply == [sec |-> FALSE, t |-> "NONE", n |-> 0, key |-> NoKey, seq |-> 0,
            id |-> 0]

ClearReply(t, n) == [NoReply EXCEPT !.t = t, !.n = n]

SealedReply(t) == [sec |-> TRUE, t |-> t, n |-> 0, key |-> rs.key,
                   seq |-> rs.rspSeq, id |-> 0]

NewSession(version) ==
  [state |-> "INIT", version |-> version, trans |-> <<>>, key |-> NoKey,
   reqSeq |-> 0, rspSeq |-> 0, pendingAsym |-> FALSE, sessionAsym |-> FALSE]

\* wolfSPDM_RespReset: everything of the session; the selected version stays.
RespResetKeepsSeq(version) ==   \* mutant: a counter forgotten
  [NewSession(version) EXCEPT !.rspSeq = rs.rspSeq]
RespResetKeepsKey(version) ==   \* mutant: the keys forgotten
  [NewSession(version) EXCEPT !.key = rs.key]
RespReset(version) == NewSession(version)

RespInit ==
  /\ rs = NewSession(0)
  /\ out = NoReply
  /\ rnd = 1
  /\ sealed = {} /\ dup = FALSE /\ acted = {} /\ signer = 0 /\ faulted = FALSE

-----------------------------------------------------------------------------
(* Clear frames: RespDispatchClear *)

Vendor == {"GET_PUBK", "GET_STS", "PSK_SET", "PSK_CLR", "TPM2_CMD", "GIVE_PUB",
           "SPDMONLY"}

\* RespSelectVersion: pinned by the first request after VERSION.
Unpinned == rs.version = 0 /\ rs.state = "VERSION"
VersionAccepted(m) ==
  \/ rs.version # 0 /\ m.v = rs.version
  \/ Unpinned /\ m.v \in RespVersions
  \/ rs.version = 0 /\ ~Unpinned /\ m.t \in Vendor
Selected(m) == IF Unpinned THEN m.v ELSE rs.version

\* A clear reply that touches nothing but the session and the transcript.
Answer(r, reply) ==
  /\ rs' = r
  /\ out' = reply
  /\ UNCHANGED <<prov, rnd, sealed, dup, acted, signer, faulted>>

GetVersion(m) ==
  /\ m.t = "GET_VERSION"
  /\ Answer([RespReset(0) EXCEPT !.state = "VERSION",
               !.trans = <<Token("GET_VERSION", 0), Token("VERSION", 0)>>],
            ClearReply("VERSION", 0))

RefuseVersion(m) ==
  /\ m.t # "GET_VERSION"
  /\ ~VersionAccepted(m)
  /\ Answer(rs, ClearReply("ERROR", 0))

\* GET_CAPABILITIES and NEGOTIATE_ALGORITHMS: both messages are hashed.
Negotiate(m) ==
  /\ m.t \in {"GET_CAPABILITIES", "NEGOTIATE_ALGORITHMS"}
  /\ VersionAccepted(m)
  /\ LET rsp == IF m.t = "GET_CAPABILITIES" THEN "CAPABILITIES" ELSE "ALGORITHMS"
     IN  Answer([rs EXCEPT !.version = Selected(m),
                   !.trans = rs.trans \o <<Token(m.t, 0), Token(rsp, 0)>>],
                ClearReply(rsp, 0))

\* Any other code is refused after its bytes went into the transcript.
Unsupported(m) ==
  /\ m.t = "OTHER"
  /\ VersionAccepted(m)
  /\ Answer([rs EXCEPT !.version = Selected(m),
               !.trans = Append(rs.trans, Token("OTHER", 0))],
            ClearReply("ERROR", 0))

\* A handshake needs its mode and cannot restart over a live one.
MayStart(m) == rs.state \notin {"KEY_EX", "CONNECTED"}

ModeAllows(m) == \/ m.t = "KEY_EXCHANGE" /\ UseTcg
                 \/ m.t = "PSK_EXCHANGE" /\ UsePsk

RefuseExchange(m) ==
  /\ m.t \in {"KEY_EXCHANGE", "PSK_EXCHANGE"}
  /\ VersionAccepted(m)
  /\ ~(ModeAllows(m) /\ MayStart(m))
  /\ Answer([rs EXCEPT !.version = Selected(m)], ClearReply("ERROR", 0))

\* No identity key, or no PSK: BAD_STATE, with the request left in the
\* transcript.
ExchangeUnconfigured(m) ==
  /\ \/ m.t = "KEY_EXCHANGE" /\ prov.id = 0
     \/ m.t = "PSK_EXCHANGE" /\ prov.psk = 0
  /\ VersionAccepted(m) /\ ModeAllows(m) /\ MayStart(m)
  /\ Answer([rs EXCEPT !.version = Selected(m),
               !.trans = Append(rs.trans, Token(m.t, m.n))], NoReply)

\* RespBuildKeyExchangeRsp and RespBuildPskExchangeRsp: answer with a fresh
\* random, derive the handshake keys over the transcript so far.  The
\* counters are not touched.
OpenHandshake(m, rsp, secret, asym) ==
  LET th1 == rs.trans \o <<Token(m.t, m.n), Token(rsp, rnd)>>
      key == Key("HS", secret, th1)
  IN  /\ VersionAccepted(m) /\ ModeAllows(m) /\ MayStart(m)
      /\ rs' = [rs EXCEPT !.version = Selected(m), !.trans = th1,
                          !.key = key, !.state = "KEY_EX",
                          !.pendingAsym = asym]
      /\ out' = [NoReply EXCEPT !.t = rsp, !.n = rnd, !.key = key,
                                !.id = IF asym THEN prov.id ELSE 0]
      /\ rnd' = rnd + 1
      /\ UNCHANGED <<prov, sealed, dup, acted, faulted>>

\* ... and when one of their steps fails: no reply, the state and the
\* transcript stay as that step found them.  Before the response is hashed
\* (no random, no ephemeral key) only the request is in the transcript.  From
\* then on (no signature, a peer point that is not on the curve, a full
\* transcript) the response is too, and so may be the handshake keys: those
\* of before when the secret was not extracted, none when a traffic key could
\* not be expanded, the new ones when it was the verify data that failed.
FailHandshake(m, rsp, secret) ==
  LET th0 == Append(rs.trans, Token(m.t, m.n))
      th1 == rs.trans \o <<Token(m.t, m.n), Token(rsp, rnd)>>
  IN  /\ "EXCHANGE" \in Faults
      /\ VersionAccepted(m) /\ ModeAllows(m) /\ MayStart(m)
      /\ \/ rs' = [rs EXCEPT !.version = Selected(m), !.trans = th0]
         \/ \E key \in {rs.key, NoKey, Key("HS", secret, th1)} :
              rs' = [rs EXCEPT !.version = Selected(m), !.trans = th1,
                               !.key = key]
      /\ out' = NoReply
      /\ rnd' = rnd + 1
      /\ UNCHANGED <<prov, sealed, dup, acted, signer, faulted>>

KeyExchange(m) ==
  /\ m.t = "KEY_EXCHANGE" /\ prov.id # 0
  /\ OpenHandshake(m, "KEY_EXCHANGE_RSP", Secret("DH", m.n, rnd), TRUE)
  /\ signer' = prov.id

PskExchange(m) ==
  /\ m.t = "PSK_EXCHANGE" /\ prov.psk # 0
  /\ OpenHandshake(m, "PSK_EXCHANGE_RSP", Secret("PSK", prov.psk, 0), FALSE)
  /\ UNCHANGED signer

ExchangeFails(m) ==
  \/ /\ m.t = "KEY_EXCHANGE" /\ prov.id # 0
     /\ FailHandshake(m, "KEY_EXCHANGE_RSP", Secret("DH", m.n, rnd))
  \/ /\ m.t = "PSK_EXCHANGE" /\ prov.psk # 0
     /\ FailHandshake(m, "PSK_EXCHANGE_RSP", Secret("PSK", prov.psk, 0))

-----------------------------------------------------------------------------
(* Vendor-defined commands: RespHandleVendorDefined *)

\* GET_PUBK's Ct is hashed when the request came in the clear.
AfterVendor(m, secured) ==
  IF ~secured /\ m.t = "GET_PUBK"
  THEN Append(rs.trans, Token("Ct", prov.id)) ELSE rs.trans

\* PSK_SET_: only a ClearAuth may be added to a PSK that is already there.
MaySetPskAlways(m) == TRUE   \* mutant: no protection of a stored PSK
MaySetPsk(m) == prov.clearAuth = 0 /\ prov.psk \in {0, m.psk}

\* PSK_CLR_: the digest must match; zero is no digest of anything.
MayClearPsk(m) == /\ prov.provisioned
                  /\ m.auth = prov.clearAuth /\ prov.clearAuth # 0

\* Which commands the state lets through, by how they arrived.
VendorAllowedAnywhere(m, secured) == TRUE   \* mutant: no placement rule
VendorAllowed(m, secured) ==
  /\ ~secured => m.t \notin {"TPM2_CMD", "GIVE_PUB", "SPDMONLY"}
  /\ secured => rs.state = "CONNECTED" \/ m.t = "GIVE_PUB"

VendorSucceeds(m, secured) ==
  /\ VendorAllowed(m, secured)
  /\ m.t = "GET_PUBK" => prov.id # 0
  /\ m.t = "PSK_SET" => MaySetPsk(m)
  /\ m.t = "PSK_CLR" => MayClearPsk(m)

Provisioned(m) ==
  CASE m.t = "PSK_SET" -> [prov EXCEPT !.psk = m.psk, !.clearAuth = m.auth,
                                       !.provisioned = TRUE]
    [] m.t = "PSK_CLR" -> [prov EXCEPT !.psk = 0, !.clearAuth = 0,
                                       !.provisioned = FALSE]
    [] m.t = "SPDMONLY" -> [prov EXCEPT !.lock = m.lock]
    [] OTHER -> prov

\* TPM commands and SPDMONLY take effect under the current keys.
Acts(m) == IF m.t \in {"TPM2_CMD", "SPDMONLY"} THEN acted \union {rs.key}
           ELSE acted

\* Outside a session, in the clear.
VendorClear(m) ==
  /\ m.t \in Vendor
  /\ VersionAccepted(m)
  /\ \/ /\ VendorSucceeds(m, FALSE)
        /\ rs' = [rs EXCEPT !.version = Selected(m),
                            !.trans = AfterVendor(m, FALSE)]
        /\ prov' = Provisioned(m)
        /\ out' = [ClearReply(m.t, 0) EXCEPT !.id = prov.id]
        /\ acted' = Acts(m)
     \/ /\ ~VendorSucceeds(m, FALSE)
        /\ rs' = [rs EXCEPT !.version = Selected(m)]
        /\ out' = NoReply
        /\ UNCHANGED <<prov, acted>>
  /\ UNCHANGED <<rnd, sealed, dup, signer, faulted>>

-----------------------------------------------------------------------------
(* Secured frames: RespDispatchSecured *)

\* RespDecrypt: keys are there, the counter is the expected one, the tag
\* verifies.
RespOpens(m) ==
  /\ rs.state \in {"KEY_EX", "CONNECTED"}
  /\ m.key = rs.key /\ m.seq = rs.reqSeq

\* Every record that opens counts, whatever becomes of the frame.
Counted == [rs EXCEPT !.reqSeq = rs.reqSeq + 1]

\* The session after a reply that changes nothing else.
RepliedStuck == Counted   \* mutant: the reply is not counted
Replied == [Counted EXCEPT !.rspSeq = rs.rspSeq + 1]

\* The frame is dropped without a reply.
Drop(r) == rs' = r /\ out' = NoReply /\ UNCHANGED <<sealed, dup, faulted>>

Seal == /\ sealed' = sealed \union {<<rs.key, rs.rspSeq>>}
        /\ dup' = (dup \/ <<rs.key, rs.rspSeq>> \in sealed)

\* RespEncrypt of the reply: the session is r after it, and failed when it
\* could not be sealed.
SendSealed(t, r, failed) ==
  \/ Seal /\ rs' = r /\ out' = SealedReply(t) /\ UNCHANGED faulted
  \/ /\ "ENCRYPT" \in Faults
     /\ rs' = failed /\ out' = NoReply
     /\ faulted' = TRUE
     /\ UNCHANGED <<sealed, dup>>

\* A finish must match the exchange that opened KEY_EX.
FinishFitsAnything(t) == rs.state = "KEY_EX"   \* mutant
FinishFits(t) == /\ rs.state = "KEY_EX"
                 /\ rs.pendingAsym = (t = "FINISH")

\* RespHandleFinish and RespHandlePskFinish, then the sealed reply, then the
\* application keys.
Finish(m) ==
  LET th2   == Append(rs.trans, Token(m.t, 0))
      th    == Append(th2, Token("FINISH_RSP", 0))
      valid == m.mac = [key |-> rs.key, th |-> th2]
      done  == [Counted EXCEPT !.trans = th, !.state = "CONNECTED",
                               !.sessionAsym = (m.t = "FINISH")]
  IN
  /\ m.t \in {"FINISH", "PSK_FINISH"}
  /\ RespOpens(m)
  /\ \/ ~FinishFits(m.t) /\ Drop(Counted)
     \/ FinishFits(m.t) /\ ~valid /\ Drop([Counted EXCEPT !.trans = th2])
     \/ /\ FinishFits(m.t) /\ valid
        /\ SendSealed("FINISH_RSP",
             [done EXCEPT !.key = Key("APP", rs.key.secret, th),
                          !.reqSeq = 0, !.rspSeq = 0], done)
     \/ /\ FinishFits(m.t) /\ valid /\ "DERIVE" \in Faults
        /\ Seal /\ out' = NoReply /\ faulted' = TRUE
        /\ \E ph \in {"HS", "MIXED"} :
             rs' = [done EXCEPT !.key = Key(ph, rs.key.secret, rs.key.th),
                                !.rspSeq = rs.rspSeq + 1]
  /\ UNCHANGED <<prov, rnd, acted, signer>>

\* END_SESSION: the acknowledgement is sealed before the wipe.
EndSession(m) ==
  /\ m.t = "END_SESSION"
  /\ RespOpens(m)
  /\ SendSealed("END_SESSION_ACK", RespReset(rs.version), Counted)
  /\ UNCHANGED <<prov, rnd, acted, signer>>

\* Inside a session.  A TPM callback that is missing or fails ends the
\* command without a reply.
VendorSecured(m) ==
  /\ m.t \in Vendor
  /\ RespOpens(m)
  /\ \/ /\ VendorSucceeds(m, TRUE)
        /\ SendSealed(m.t, Replied, Counted)
        /\ prov' = Provisioned(m)
        /\ acted' = Acts(m)
     \/ /\ VendorSucceeds(m, TRUE) /\ m.t = "TPM2_CMD"
        /\ Drop(Counted)
        /\ acted' \in {acted, Acts(m)}
        /\ UNCHANGED prov
     \/ /\ ~VendorSucceeds(m, TRUE)
        /\ Drop(Counted)
        /\ UNCHANGED <<prov, acted>>
  /\ UNCHANGED <<rnd, signer>>

UnsupportedSecured(m) ==
  /\ m.t = "OTHER"
  /\ RespOpens(m)
  /\ SendSealed("ERROR", Replied, Counted)
  /\ UNCHANGED <<prov, rnd, acted, signer>>

-----------------------------------------------------------------------------
(* wolfSPDM_RespHandleMessage and the configuration calls *)

HandleClear(m) ==
  \/ GetVersion(m) \/ RefuseVersion(m) \/ Negotiate(m) \/ Unsupported(m)
  \/ RefuseExchange(m) \/ ExchangeUnconfigured(m)
  \/ KeyExchange(m) \/ PskExchange(m) \/ ExchangeFails(m) \/ VendorClear(m)

HandleSecured(m) ==
  Finish(m) \/ EndSession(m) \/ VendorSecured(m) \/ UnsupportedSecured(m)

\* wolfSPDM_RespSetPSK: a ClearAuth of an earlier PSK does not clear this one.
RespSetPSK(psk) ==
  /\ prov' = [prov EXCEPT !.psk = psk, !.provisioned = TRUE, !.clearAuth = 0]
  /\ UNCHANGED <<rs, out, rnd, sealed, dup, acted, signer, faulted>>

\* wolfSPDM_RespSetIdentityKey: never in mid-session.
RespSetIdentityKey(id) ==
  /\ rs.state = "INIT"
  /\ prov' = [prov EXCEPT !.id = id]
  /\ UNCHANGED <<rs, out, rnd, sealed, dup, acted, signer, faulted>>

\* wolfSPDM_RespReset called by the owner.
OwnerReset == Answer(RespReset(rs.version), NoReply)

=============================================================================
