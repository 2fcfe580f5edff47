----------------------------- MODULE MCStandard -----------------------------
(***************************************************************************)
(* Responders and applications for Standard.  Negotiation is varied with   *)
(* one chain, the chain with one negotiation, and calls with few of both,  *)
(* so that the cases add up instead of multiplying.                        *)
(***************************************************************************)
EXTENDS Standard

\* Certificates: two roots, an intermediate of R1, leaves.
Cert(key, by, ca, alg) ==
  [kind |-> "CERT", key |-> key, by |-> by, ca |-> ca, alg |-> alg]
Root1 == Cert("R1", "R1", TRUE, "P384")
Root2 == Cert("R2", "R2", TRUE, "P384")
Inter == Cert("I1", "R1", TRUE, "P384")
Chain(root, certs) ==
  <<[kind |-> "HEADER", len |-> Len(certs) + 1, root |-> root]>> \o certs

Good     == Chain("R1", <<Root1, Cert("L1", "R1", FALSE, "P384")>>)
GoodLong == Chain("R1", <<Root1, Inter, Cert("L1", "I1", FALSE, "P384")>>)
NoRoot   == Chain("R1", <<Cert("L2", "R1", FALSE, "P384")>>)
Other    == Chain("R2", <<Root2, Cert("L2", "R2", FALSE, "P384")>>)
Forged   == Chain("R1", <<Root1, Cert("L2", "R2", FALSE, "P384")>>)
Posing   == Chain("R1", <<Root2, Cert("L2", "R2", FALSE, "P384")>>)
LeafIssuer == Chain("R1", <<Cert("L1", "R1", FALSE, "P384"),
                            Cert("L2", "L1", FALSE, "P384")>>)
Quantum  == Chain("R1", <<Root1, Cert("Q1", "R1", FALSE, "ML_DSA_44")>>)
Lying    == <<[kind |-> "HEADER", len |-> 2, root |-> "R1"], Root1,
              Cert("L1", "R1", FALSE, "P384")>>
TooLong  == Chain("R1", <<Root1, Inter, Inter, Inter, Inter,
                          Cert("L1", "I1", FALSE, "P384")>>)

Version(count, oldCount, entries) ==
  [t |-> "VERSION", count |-> count, oldCount |-> oldCount, entries |-> entries]
Caps(version, caps, dts, maxMsg) ==
  [t |-> "CAPABILITIES", version |-> version, caps |-> caps, dts |-> dts,
   maxMsg |-> maxMsg]
Struct(type, sel) == [type |-> type, sel |-> sel]
AlgsMsg(version, base, pqc, structs) ==
  [t |-> "ALGORITHMS", version |-> version, fixed |-> TRUE, fits |-> TRUE,
   base |-> base, pqc |-> pqc, structs |-> structs]
Rest == <<Struct("AEAD", {"AES_256_GCM"}), Struct("KEY_SCHEDULE", {"SPDM"})>>
Dhe == Struct("DHE", {"SECP384R1"})
Kem == Struct("KEM", {"ML_KEM_768"})

PlainVersion == Version(1, 0, <<12>>)
PlainCaps == Caps(12, REQUIRED_CAPS, 9, 9)
PlainAlgs == AlgsMsg(12, {"P384"}, {}, <<Dhe>> \o Rest)

\* Every list of up to three versions, and counts that do not fit.
VersionLists ==
  {Version(Len(e), 0, e) : e \in SeqOf({10, 12, 13, 14, 15}, 3)}
    \union {Version(2, 0, <<13>>), Version(0, 1, <<13, 14>>)}

NegotiationWorld ==
  [versions |-> {Version(3, 0, <<14, 12, 13>>), Version(1, 0, <<13>>),
                 Version(1, 0, <<12>>)},
   caps |-> {Caps(v, REQUIRED_CAPS, dts, 9) : v \in {13, 14}, dts \in {1, 2, 9}}
              \union {Caps(12, REQUIRED_CAPS, 9, 9),
                      Caps(14, {"CERT", "KEY_EX"}, 9, 9),
                      Caps(14, REQUIRED_CAPS, 9, 8)},
   algs |-> {AlgsMsg(v, {"P384"}, {}, <<Dhe>> \o Rest) : v \in 12 .. 14}
              \union {AlgsMsg(14, base, pqc, kex \o Rest) :
                        base \in {{}, {"P384"}, {"X"}},
                        pqc \in {{}, {"ML_DSA_44"}, MLDSA_SETS},
                        kex \in {<<>>, <<Dhe>>, <<Kem>>, <<Dhe, Kem>>,
                                 <<Struct("DHE", {}), Kem>>,
                                 <<Dhe, Struct("DHE", {})>>,
                                 <<Struct("KEM", MLKEM_SETS)>>,
                                 <<Struct("DHE", {"X"}), Kem>>}}
              \union {AlgsMsg(13, {"P384"}, {}, <<Kem>> \o Rest),
                      AlgsMsg(14, {"P384"}, {}, <<Dhe>> \o Tail(Rest)),
                      [AlgsMsg(14, {"P384"}, {}, <<Dhe>> \o Rest)
                         EXCEPT !.fits = FALSE],
                      [AlgsMsg(14, {"P384"}, {}, <<Dhe>> \o Rest)
                         EXCEPT !.fixed = FALSE]},
   slots |-> {<<Good, <<>>>>, <<Quantum, <<>>>>}, chains |-> {},
   does |-> {"CONNECT", "PREF", "PIN", "ALLOW"}, odd |-> FALSE, mut |-> FALSE,
   max |-> [calls |-> 1, confs |-> 2, faults |-> 0, chains |-> 0]]

VersionWorld ==
  [versions |-> VersionLists, caps |-> {PlainCaps}, algs |-> {PlainAlgs},
   slots |-> {<<Good, <<>>>>}, chains |-> {}, does |-> {"CONNECT", "MAX"},
   odd |-> FALSE, mut |-> FALSE,
   max |-> [calls |-> 1, confs |-> 1, faults |-> 0, chains |-> 0]]

\* A responder with any chain, whose CERTIFICATE replies may be wrong.
ChainWorld ==
  [versions |-> {PlainVersion}, caps |-> {PlainCaps}, algs |-> {PlainAlgs},
   slots |-> {<<c, <<>>>> : c \in {Good, GoodLong, NoRoot, Other, Forged, Posing,
                                    LeafIssuer, Lying, TooLong}}
               \union {<<<<>>, Good>>, <<<<>>, <<>>>>},
   chains |-> {}, does |-> {"CONNECT", "TRUST", "ALLOW", "PIN"},
   odd |-> TRUE, mut |-> FALSE,
   max |-> [calls |-> 1, confs |-> 2, faults |-> 0, chains |-> 0]]

\* Two Connects to a responder that may replace its chain in between, with
\* replies that are lost or late.
ReconnectWorld ==
  [versions |-> {PlainVersion, Version(1, 0, <<12, 13>>)}, caps |-> {PlainCaps},
   algs |-> {PlainAlgs}, slots |-> {<<Good, <<>>>>},
   chains |-> {Other}, does |-> {"CONNECT", "TRUST", "ALLOW"},
   odd |-> FALSE, mut |-> FALSE,
   max |-> [calls |-> 2, confs |-> 2, faults |-> 2, chains |-> 1]]

MutWorld == [ChainWorld EXCEPT !.slots = {<<Good, <<>>>>}, !.mut = TRUE]

\* An application that calls the steps itself.
StepWorld ==
  [versions |-> {PlainVersion}, caps |-> {PlainCaps}, algs |-> {PlainAlgs},
   slots |-> {<<Good, <<>>>>}, chains |-> {},
   does |-> (Range(Steps) \ {"GET_DIGESTS"}) \union {"ALLOW"},
   odd |-> FALSE, mut |-> FALSE,
   max |-> [calls |-> 7, confs |-> 2, faults |-> 1, chains |-> 0]]

\* One that connects after some steps of its own.
MixedWorld ==
  [StepWorld EXCEPT !.does = {"CONNECT", "GET_VERSION", "GET_CERTIFICATE",
                              "VALIDATE", "KEY_EXCHANGE", "ALLOW"},
                    !.max.calls = 4]

MCWorlds == {NegotiationWorld, VersionWorld, ChainWorld, ReconnectWorld,
             MutWorld, StepWorld, MixedWorld}
MCRoots == {Root1, Cert("L1", "R1", FALSE, "P384")}
MCPins == {"L1"}

=============================================================================
