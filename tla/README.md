# wolfSPDM: a TLA+ model

wolfSPDM implements the requester side of SPDM (DSP0274 and DSP0277) for TPMs
and MCTP devices, and a small responder. This directory models its protocol
logic. TLC checks the modules on small instances; TLAPS proves theorems about
every component of the model for every value of its constants. Paths below are
relative to the repository.

## The system

| Component | State | Operations | Modelled in |
|---|---|---|---|
| Secured records (`src/spdm_secured.c`) | data key, IV and 64-bit counter per direction | encrypt, decrypt, secured exchange, application data | `SecuredSession` |
| Session operations (`src/spdm_session.c`, `src/spdm_kdf.c`) | application secrets | FINISH, HEARTBEAT, KEY_UPDATE | `SecuredSession` |
| Context (`src/spdm_context.c`) | `ctx->state`, mode, configuration | Connect, ResetSession, Disconnect | `SecuredSession`, `Handshake`, `Standard` |
| TCG, Nuvoton and PSK handshake (`src/spdm_tcg.c`, `src/spdm_psk.c`, `src/spdm_msg.c`) | transcript, PSK, pinned key | each step of ConnectTCG and ConnectPsk | `Handshake` |
| Responder (`src/spdm_responder.c`) | session, PSK store, ClearAuth, SPDMONLY lock, identity key | RespHandleMessage, configuration calls | `Responder` |
| Transcript (`src/spdm_transcript.c`) | running hash | reset, add, hash | `Responder`, `Handshake`, `Standard` |
| Large messages (`src/spdm_chunk.c`) | `chunkHandle`, locals of a transfer | CHUNK_SEND, CHUNK_GET | `Chunk` |
| Standard requester, certificates (`src/spdm_standard.c`) | negotiated version and algorithms, chain, trust anchors, responder key | every step of ConnectStandard, on its own too; trust configuration | `Negotiate`, `Standard` |
| Attestation (`src/spdm_attest.c`) | L1/L2 and M1 hash runs | GET_MEASUREMENTS, CHALLENGE | `Attest` |
| Vendor commands (`src/vendor/`) | none | one exchange each | not modelled |
| Cryptography (`src/spdm_crypto.c`) | none | wrappers of wolfCrypt | assumed ideal |

Requester and responder share nothing but messages. The requester calls the
application's I/O callback for every round trip and blocks in it; a context
belongs to one thread, so between the request and the reply only the responder
and the transport move. Everything above the callback (handshake, chunks, key
update) is a sequence of such round trips, and everything below it may fail,
be late, be repeated or be lost.

What is hard here:

- a call can fail at each round trip, and the session must survive or be
  cleared; a record counts as soon as it is sealed, whether it arrives or not;
- KEY_UPDATE tries new keys and takes them back, with HKDF failing half-way;
- the two sides change keys and restart counters at different moments;
- a late frame of an earlier attempt can reach either side in mid-handshake;
- the responder answers any client in any order while its owner reconfigures it;
- chunk sizes, totals and flags come from the other side, and so do version
  lists, algorithm answers, certificate portions and chains;
- trust configuration, key and chain can change between two steps of a
  handshake the application drives itself;
- two running hashes must follow the responder's through every request that
  restarts, extends or ends one of them.

`PROJECT.json` lists these hazards line by line with the properties for each.

## Modules

`SecuredSession` models the requester from Connect to Disconnect. `req` and
`rsp` are the key material of the two directions: key, IV and secret as
generation numbers (0 for handshake keys, 1 for the first application keys, one
more for each "traffic upd") and the sequence number. A call that waits for the
transport is two actions: one seals the request (`SecuredExchange`,
`KeyUpdate`, ...), one handles what the callback returns (`ExchangeReturn`,
`UpdateKeyReturn`, ...) or its failure (`IoFail`). Records are never removed, so
any reply sealed so far can be delivered at any time, any number of times. The
responder is external and rotates keys as the loopback peer of
`test/unit_test.c` does; it may also answer ERROR or with an authentic record
that does not parse. Connect is in outline here: it fails somewhere before
FINISH or reaches it, and a derivation that fails after FINISH_RSP ends it in
ERROR. A record that opens under the trial keys of an UpdateAllKeys and does not
parse is dropped with them; `opened` does not count it, so it may be tried, and
dropped, again.

`Responder` models `wolfSPDM_RespHandleMessage`: one action per kind of frame,
each the whole handler. The transcript is a sequence of message tokens and a key
is named by its phase, its shared secret and the transcript it was derived over,
so that two keys are equal exactly when both sides hashed the same messages.
Faults (`Faults`) are a reply that cannot be sealed (ENCRYPT), a derivation that
fails at FINISH (DERIVE), after which the directions may hold keys of two phases
("MIXED"), and an exchange that fails at one of its steps (EXCHANGE): the
transcript then keeps what was hashed by that step, and handshake keys may be
left behind in INIT or VERSION (`FailHandshake`). The comment at
`src/spdm_responder.c:1190` says that the key material of these states is zeroed by
initialization and reset; after such a failure it is not, until the next
GET_VERSION or successful exchange, but the same lines refuse every record there.
`ResponderClient` drives it with every request, in any order and version,
secured under whatever session is live, and with the owner's calls.

`Handshake` composes the requester's Connect (three modes), a secured command
and Disconnect with `Responder` over a transport that loses frames and delivers
earlier ones again. `SessionSpec` is what it promises: the requester adopts only
sessions that the responder accepted, each once, one at a time. The refinement
maps the abstract current session to the requester's key while it is connected.

`Chunk` models both directions of a large transfer. A message is the sequence of
its byte positions, so an assembled message can be compared with the intended
one. The responder either keeps to the protocol, with chunks of any size, or
answers anything at all; a reply can be lost or be the previous one again. The
caller's buffer is taken to hold an ERROR message at least.

`Negotiate` has the choice of version, capabilities and algorithms as operators,
each parser with its early returns and the assignments made before them, beside
declarative definitions of what they should choose (`CommonVersions`,
`AnswersOffer`). An algorithm mask is a set of names. `VersionMsgs`,
`CapabilitiesMsgs` and `AlgorithmsMsgs` are the messages that are well formed:
lists of any length with whatever in them, except that a VERSION of more than 13
entries does not fit the 32 bytes GetVersion receives into and counts as lost.

`Standard` extends it with the standard requester: one action per step of
`wolfSPDM_ConnectStandard`, each callable by Connect (`pc` names the next step)
or by the application (`pc = "IDLE"`), one per configuration call, and the
GET_CERTIFICATE loop one portion per step. An exchange is one step, because the
requester blocks in it and the external responder only answers: the outcome is
the genuine reply, a loss on either leg, or a late reply of an earlier exchange.
A chain is a sequence of cells, the header (length, root) and one certificate
each (key, issuer's key, CA flag, algorithm); offset, portion and buffer are
counted in cells. The transcript is the sequence of messages with what they
commit to, so the responder's `sess` can be compared with it. `Vouched` says
declaratively which chains a configuration trusts. The header of a chain is a
cell and so cannot itself be split over portions. `Worlds` are the responders to
consider; `WorldsAssumption` asks only that their messages are well formed and
that a stored chain begins with a header, however long it really is.

`Attest` models what every call does to M1 and L1/L2 on both sides: a run is the
sequence of exchanges hashed into it, an exchange the numbers of the request and
of the request its reply answers. Connect, the fetch and the session are there as
far as the runs see them. The responder is external, after the peer of
`test/unit_test.c`: M1 restarts at KEY_EXCHANGE and after a CHALLENGE_AUTH;
L1/L2 restarts with any request but GET_MEASUREMENTS, after a signature and,
by assumption, after an ERROR. `Offers` pairs a version with the measurement
capability the responder announces. `GetMeasurements` sends and has four outcomes:
an answer, an ERROR, nothing (the counters then differ and `sync` is lost), or an
answer that opens and is of no use because it does not fit or does not parse: the
session goes on, but only the responder has hashed it. `MeasurementsRefused` is
the call that returns NOT_CONNECTED or CAPS_MISMATCH before it clears or sends
anything. `clean` remembers whether a run has been disturbed in a way the requester
cannot notice (for L1/L2: by a request past `SecuredExchange` while the run was
open, or by an unsigned answer of no use); the properties are stated for the rest.

The theorems are in modules of their own, each extending what it is about:
`SecuredSessionProofs`, `ResponderProofs` (lemmas about the handlers, for any
client), `ResponderClientProofs`, `HandshakeProofs`, `AttestProofs`, `ChunkProofs`,
`NegotiateProofs` (the parsers, for any message) and `StandardProofs`.

## Runs

| Run | Checks | Result |
|---|---|---|
| `secured` | `TypeOK`, `NonceFresh`, `NoReplay`, `WireIsCounter`, `KeysCoherent`, `NeverAhead`, `UpdateAgrees` | hold |
| `secured_hkdf` | `NonceFresh` when HKDF fails in an UpdateKey | violated |
| `responder` | `RespTypeOK`, `RespNonceFresh`, `IdentityIsSigner`, `PrivilegedNeedsFinish`, `KeysFitState`, `PskProtected` | hold |
| `responder_faults` | `ConnectedHasAppKeys` when a reply cannot be sealed | violated |
| `handshake` | `HandshakeTypeOK`, `CountersNeverCross`, `InStep`, `ImplementsSession` | hold |
| `handshake_recovery` | `Recovers` | holds |
| `handshake_psk` | `PskStays` | violated |
| `chunk` | `ChunkTypeOK`, `ReturnsWhatArrived`, `ResponseWhole`, `RequestWhole`, `FitsTheWire`, `Terminates` | hold |
| `standard` | `StandardTypeOK`, `VersionBest`, `AlgorithmsAnswerOffer`, `ChainComplete`, `ValidateIsVouched`, `NoHalfMessage`, `KexUnderPolicy`, `ConnectAgrees`, `FetchTerminates` | hold |
| `standard_steps` | `RetryBuildsOnNothing` when steps are repeated | violated |
| `attest` | `AttestTypeOK`, `RunAgrees`, `M1Agrees`, `ChallengeBinds`, `MeasVerified`, `LateKeepsM1` | hold |
| `attest_l1l2` | `OpenRunAgrees` for every request | violated |

Bounds, and why they are enough:

- `secured`: two handshakes and four calls, enough for a session, an update
  that fails, a second use of the keys and a reconnect. `SeqMax = 1` puts the
  16-bit limit within reach. One tag: tags only tell acknowledgements of
  different updates apart, and with one tag a late acknowledgement is as
  confusing as it can be.
- `responder`: six frames reach a session (GET_VERSION, exchange, FINISH) and
  leave three more for commands, END_SESSION or a second handshake, with two
  PSKs, two ClearAuth values, two identities, a version that is not offered and
  all three faults.
- `handshake`: two attempts, two commands, one loss and one late frame, in any
  of three modes per attempt, with and without a host key, and exchanges that the
  responder abandons. Recovery needs three attempts, because each of the two
  faults of the transport can spoil one; it assumes that the responder's own
  steps do not fail.
- `chunk`: the sizes are scaled (headers 1 and 2, transfers 3) so that a message
  takes up to three chunks, the 16-bit number runs out after two, a handle wraps
  and every limit (buffer, announced total, MaxSPDMmsgSize) is crossed. Two
  exchanges let a reply of the first reach the second.
- `standard`: a set of worlds, each a responder with an application, chosen so
  that the cases add up instead of multiplying: all version lists of up to three
  entries and every `SetMaxVersion`; 79 ALGORITHMS answers under every key
  exchange preference; eleven chain arrangements (forged, unrooted, non-CA issuer,
  wrong length, too long, second slot) with wrong CERTIFICATE replies under every
  pair of trust settings; two Connects with two faults and a replaced chain;
  seven steps called one by one with a fault; Connect after steps. A portion
  holds two cells and the buffer five, so a chain takes up to three portions and
  can be too long. `WOLFSPDM_MAX_CERT_CHAIN` is below 2^16
  (`StandardAssumption`), so the 16-bit offset cannot wrap.
- `attest`: eight requests reach a session and leave three for measurements,
  challenges and others in any order, or negotiation, fetch and two challenges
  with a second fetch; two faults, so that a reply can be given up and come late;
  one replaced chain; versions with (1.3) and without (1.2) RequesterContext, and
  a responder that does not sign measurements. `attest_l1l2` has no faults: its
  violation is due to the requests alone.

The runs set CHECK_DEADLOCK FALSE: with their bounds used up the systems stop.

Fairness. `Handshake` assumes that a frame that is not lost arrives, that the
I/O callback reports a timeout for one that is (every caller blocks in it, and
its contract is to return), and that the application retries a failed Connect
and sets a new PSK when the old one is used up. Losses and late frames are never
forced. `Chunk` assumes only that the callback returns and that a call goes on
when it does; so does `Standard` for the GET_CERTIFICATE loop (weak fairness of
`FetchStep` alone). `Attest` states no liveness.

## What the violations show

- `secured_hkdf`: `wolfSPDM_KeyUpdate` restarts the request counter
  (`src/spdm_session.c:348`) although the derivation failed. The old key stays
  in place and its nonces are used again. The UpdateAllKeys branch restores the
  counters.
- `responder_faults`: FINISH sets CONNECTED (`src/spdm_responder.c:887`) before
  the reply is sealed and the application keys are derived. When either fails
  the session is connected under handshake keys. `PrivilegedNeedsFinish` and what
  `KeysFitState` says of CONNECTED are therefore stated for runs in which no such
  failure happened; FINISH itself was verified in either case.
- `handshake_psk`: the comment on `wolfSPDM_ResetSession` says the PSK stays for
  a later connection; deriving the handshake keys wipes it
  (`src/spdm_psk.c:309`), so a second Connect needs a new SetPSK.
- `standard_steps`: `wolfSPDM_ExchangeMsg` takes a failed exchange out of the
  transcript, `wolfSPDM_KeyExchange` and `wolfSPDM_Finish` do not. An application
  that drives the steps itself and repeats them after a lost KEY_EXCHANGE_RSP,
  from GET_VERSION on if it likes, builds on the half message and cannot
  succeed; only Connect resets the transcript.
- `attest_l1l2`: only `wolfSPDM_SecuredExchange` closes an open L1/L2 run. A
  GET_DIGESTS, a CHALLENGE or a GET_CERTIFICATE that fails, all in the clear, a
  refused KEY_UPDATE or a request sealed with `wolfSPDM_EncryptMessage` (not an action, the same as a
  refused KEY_UPDATE to the runs) goes past it; the next signed GET_MEASUREMENTS
  then fails with BAD_SIGNATURE and the one after it succeeds.

Met while modelling, no violation of a stated claim: `wolfSPDM_Finish` as a step
leaves the state FINISH, only Connect sets CONNECTED, so a session set up step by
step cannot use the calls that ask for CONNECTED; `wolfSPDM_GetCertificate` in a
session sets the state to CERT, which ends it for the requester; Disconnect does
not reset the transcript, so a negotiation without a Connect after it has the
old messages in its VCA (`fresh` in `Attest`); of two AlgStructs of one type the
last counts; a refused CHALLENGE_AUTH leaves M1 behind the responder's until the
next KEY_EXCHANGE, Connect or NEGOTIATE_ALGORITHMS; a MEASUREMENTS that opens but
does not fit or parse leaves L1/L2 apart until the next signature, ERROR or other
request, so a signed GET_MEASUREMENTS right after it fails; a GET_MEASUREMENTS
refused with CAPS_MISMATCH leaves the blocks of an earlier call readable
(`src/spdm_attest.c:231` returns before the clear at 234), so that
"A failed fetch exposes no blocks" (`test/unit_test.c:5467`) holds for calls that
were sent, which is how `MeasVerified` states it.

## Proofs

Each component has one inductive invariant. It holds initially, every action
keeps it (one lemma per action, or per kind of action where several do the same
to it), and the properties follow from it. TLC checked every invariant on the
component's run before it was proved.

**Secured session** (`SecuredSessionProofs`), for every counter limit, tag set,
responder behaviour and number of sessions and calls:

- `TypeCorrect`: `TypeOK`, by induction on its own;
- `WireIsCounterCorrect`: header and IV counters agree, from `TypeOK` and the
  guard of `Seal`;
- `NonceFreshCorrect`, `NoReplayCorrect`, `KeysCoherentCorrect`,
  `NeverAheadCorrect`, `UpdateAgreesCorrect`, each assuming `UpdateKeyDerives`:
  HKDF does not fail in an UpdateKey. `secured_hkdf` shows that `NonceFresh`
  needs this assumption.

"No nonce was used twice" says nothing about the next record, so it is not
inductive. `SessionInv` adds that the current key and counter of each direction
lie beyond every record sealed or opened in this session (`SealedBehind`,
`OpenedBehind`): a higher generation, or the same one and a higher counter.
To keep that through an update, key, IV and secret of a direction must be of one
generation (`OneGeneration`), since the next key comes from the secret. To keep
it through the replacement of handshake keys by application keys, a call that
waits for FINISH_RSP must hold generation 0 and every other one a session
(`CallsHaveSession`). Sessions are numbered upwards, so nothing sealed in an
earlier one matters.

The agreement of the two sides needs more, because the requester learns of the
responder's keys only from replies, and any reply may be an old one. `SyncInv`
says what can be under way: the responder's keys and counters lie beyond every
reply it has sealed (`RepliesBehind`); the responder is level or one rotation
ahead, and an acknowledged update the requester has not read is then the last
thing it said (`RotationAgrees`); while VERIFY_NEW_KEY is outstanding, nothing
else was sealed under the new keys (`VerifyAgrees`), so its acknowledgement fixes
both counters.

**Responder** (`ResponderClientProofs`, on the lemmas of `ResponderProofs`), for
every set of versions, PSKs, ClearAuth values and identities and every sequence
of frames, faults and owner's calls: `RespTypeCorrect`, `RespNonceNeverReused`,
`IdentityBound`, `PrivilegedBound`, `KeysBound` and `PskStaysProtected`.

`RespInv` first sorts the handlers by what they do to the session: nothing that
matters, a reply, a restart, a new handshake, a finished one (`Shape`). A key is
new when it is derived because its transcript contains a random value the
responder has just drawn. So `SealInv` states that everything sealed so far was
sealed over older random values (`MarksBelow`), below the current counter where
the key is the current one, and that no record is sealed yet under a key this
handshake's FINISH may still derive; `KeyInv` keeps in KEY_EX that the handshake
key's transcript ends with such a value and begins the running one, and outside
a session that a key an abandoned exchange left behind (`Abandons`, one more shape)
does so too and has sealed nothing. `IdInv` ties
the identity to the signer from KEY_EXCHANGE on, `ClientInv` the stored
ClearAuth to the PSK it was accepted with.

**Handshake** (`HandshakeProofs`, on the lemmas of `ResponderProofs`), for every
set of modes and of responder faults, with or without a key pair of the
requester, and every number of attempts, commands, lost and late frames:
`HandshakeTypes`, `HandshakeCounters`, `HandshakeInStep` and the refinement
`HandshakeImplementsSession` (`Spec => S!Spec`). `HandshakeInv` contains `RespInv`,
which every request of this requester keeps, and says how far two contexts that
only exchange frames know each other:

- a key belongs to an attempt, the number that its KEY_EXCHANGE or PSK_EXCHANGE
  brought into the transcript (`Attempt`), so nothing was sealed or adopted before
  under what this attempt derives (`FreshInv`);
- a handshake key seals one finish, and a FINISH_RSP sealed under it was sent
  together with the acceptance of the session that finish asked for
  (`FinishInv`). Hence whatever FINISH_RSP the requester opens, in time or late,
  the session it enters is accepted and new, which is the `Adopt` of `SessionSpec`;
  a request that reaches the responder is an `Accept` or a stutter, and everything
  else keeps or leaves the session;
- a counter that has moved stands one past a record the other side has sealed
  under the same key (`CountInv`), which with `SealInv` keeps the counters from
  crossing;
- while nothing was lost or late, the two sides differ by exactly the record or
  the reply under way (`StepInv`).

**Attestation** (`AttestProofs`), for every set of offers and chains, number of
portions, requests and faults: `AttestTypeCorrect`, `L1L2Agreement`,
`M1Agreement`, `ChallengeBinding`, `MeasurementsVerified` and the action property
`LateNeverEndsM1`. `AttestInv` is close to the properties themselves, with the
types and with what each step finds when it is reached (`FlowInv`): a negotiated
VCA, an M1 run that contains it, a chain as long as the portions fetched.
`RunAgrees` speaks of the run the next GET_MEASUREMENTS will extend, the open one or
a new one at the VCA, and is kept by itself once both sides of a session have the
same VCA (`VcaAgrees`). A late CHALLENGE_AUTH is harmless because it is signed over a run that ends with its own
request (`ReplyOK`).

**Large messages** (`ChunkProofs`), for every header, transfer and message size,
sequence-number width, handle range and number of exchanges: `ChunkTypeCorrect`,
`ReturnsOnlyReceived`, `ResponseIsWhole`, `RequestIsWhole` and
`AlwaysFitsTheWire`. `ChunkAssumption` asks that both transfer sizes exceed the
longer header (DSP0274 and the code require at least 42), that requests have at
least one byte and a length that fits a `word32`, and that a response is not
empty. `SendInv` and `GetInv` bound the loops: every chunk adds a byte, so the
sequence number stays below the bytes moved, and these below a `word32`; it can
never come back to 0, where the checks for a first chunk would apply again.
`FetchInv` and `CollectInv` say that what one side has assembled is what the
other has sent, before the next chunk arrives and with it added, and that the
reply before (the only one the transport can repeat) never has the number
expected now. `ExchangeAdvances` is the safety half of `Terminates`, and needs no
responder that keeps to the protocol: each message received ends the exchange,
turns it from sending to fetching, or adds to the bytes sent, at most `reqSz`, or
collected, at most `MaxMsg`.

**Negotiation** (`NegotiateProofs`), for every message: `ParseVersionSelectsBest`
and `ParseAlgorithmsIsAnswer` state that the two parsers compute their
declarative definitions. Both parsers fold a list. The fold is unrolled into a
function of the position (`FoldRuns`), and what holds at every position is shown
by taking the least position where it does not.

**Standard requester** (`StandardProofs`, on the theorems of `NegotiateProofs`),
for every set of worlds, trust anchors and pinned keys that satisfies
`WorldsAssumption`, every size that satisfies `StandardAssumption`, and every
sequence of calls, faults and replaced chains: `TypeCorrect`, `NothingHalfHashed`,
`VersionIsBest`, `AlgorithmsAreAnOffer`, `ChainIsComplete`, `ValidatedIsVouched`
and the action properties `KexFollowsPolicy`, `ConnectedAgrees` and
`FetchAdvances`. The parts of `IInv`:

- `Typed` gives every variable its full type; without it the parsers' theorems do
  not apply to what the context holds;
- `KeyPart`: a pinned key stays, and any other is marked as taken from a chain.
  So KEY_EXCHANGE, the only step that sets TH1, either uses the pinned key or
  validates the chain again under the configuration of that moment, which is
  `KexUnderPolicy`;
- `FetchPart`: the chain fits its buffer, its length is the offset, and as long
  as nothing disturbed the fetch it is the beginning of the slot's chain. An
  undisturbed fetch therefore ends with all of it (`ChainComplete`), and every
  round that is followed by another has moved the offset on (`FetchAdvances`, the
  safety half of `FetchTerminates`);
- `VersionPart`: inside Connect the version is the best of the VERSION message
  that was hashed;
- `VcaPart`, `SessPart`, `RspsPart`: what the responder has hashed, and each reply
  still under way, covers a KEY_EXCHANGE already sent. A new KEY_EXCHANGE carries
  a new random value, so the KEY_EXCHANGE_RSP accepted for it is the answer to it
  and not an earlier one;
- `FinishPart`: before FINISH both sides hold the same transcript and no
  FINISH_RSP over it has been sent, so the one accepted ends this handshake
  (`ConnectAgrees`);
- `NoHalfMessage`, which is inductive beside the others.

`ValidateIsVouched` rests on an induction along the chain, by the least
certificate at which the loop of `wolfSPDM_ValidateCertChain` and `Vouched` would
differ.

Only model-checked: liveness (`Recovers`, `Terminates`, `FetchTerminates`), because
fairness and ENABLED are out of this prover's reach. For the last two, the
theorems above show the progress and the bound that a proof would rest on.

## Not modelled

Cryptography is ideal: a record opens only under its key and counter, a
signature or verify data is valid only for its transcript, hashes do not
collide. Message layout and the lengths of malformed messages are left out
except in `Chunk`; a framing error changes no state. `WOLFSPDM_MAX_TRANSCRIPT`
is not reached in the models. Left out: calling the steps of the TCG and PSK modes
one by one, mutual authentication in FINISH (no responder of the repository asks for it),
`SetMode` between connections, CHALLENGE between the KEY_EXCHANGE and FINISH of
handshake steps called one by one (`Attest` has these two only inside Connect), a
caller's buffer too small for an ERROR in `Chunk`, the accessors of the measurement
record, the demo, and the vendor wrappers of the requester, which build one
message, parse its reply and keep no state; what they ask for is modelled at the
responder.

## Plan

Done, in this order: `SecuredSession`, its proofs, `Responder` with
`ResponderClient`, `Handshake` with `SessionSpec`, `Chunk`, `Negotiate`,
`Standard`, `Attest`; then the agreement proofs of `SecuredSession` and the proofs
of `ResponderClient`, `Attest`, `Chunk`, `Handshake`, `Negotiate` and `Standard`.
Every invariant and every action property that a passing run checks is now a
theorem; the leads-to properties wait for a prover of liveness.
