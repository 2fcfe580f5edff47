----------------------------- MODULE Negotiate -----------------------------
(***************************************************************************)
(* What a standard requester makes of VERSION, CAPABILITIES and ALGORITHMS *)
(* (a build with ML-DSA and ML-KEM): the parsers as operators on the       *)
(* context and the message.  Versions are numbers, 12 for 0x12; a bit mask *)
(* is the set of its bits, a bit the build does not know is "X".           *)
(***************************************************************************)
EXTENDS Integers, FiniteSets, SequencesExt

MIN_SPDM_VERSION == 12
MAX_SPDM_VERSION == 14
MLDSA_SETS == {"ML_DSA_44", "ML_DSA_65"}
MLKEM_SETS == {"ML_KEM_512", "ML_KEM_768"}

\* The messages: every value their fields may hold, sensible or not.
\* A VERSION of more entries does not fit GetVersion's rxBuf[32]: it is lost.
MAX_VERSION_ENTRIES == 13
Bits == {"SECP384R1", "AES_256_GCM", "SPDM", "X"} \union MLKEM_SETS
VersionMsgs ==
  {m \in [t : {"VERSION"}, count : Nat, oldCount : Nat, entries : Seq(Nat)] :
     Len(m.entries) <= MAX_VERSION_ENTRIES}
CapabilitiesMsgs ==
  [t : {"CAPABILITIES"}, version : Nat, caps : SUBSET STRING, dts : Nat,
   maxMsg : Nat]
AlgorithmsMsgs ==
  [t : {"ALGORITHMS"}, version : Nat, fixed : BOOLEAN, fits : BOOLEAN,
   base : SUBSET {"P384", "X"}, pqc : SUBSET (MLDSA_SETS \union {"X"}),
   structs : Seq([type : STRING, sel : SUBSET Bits])]

-----------------------------------------------------------------------------
(* wolfSPDM_ParseVersion *)

\* The count at offset 5, or at offset 4 where older responders have it.
EntryCount(m) == IF m.count # 0 THEN m.count ELSE m.oldCount

MaxVer(c) == IF c.maxVersion # 0 THEN c.maxVersion ELSE MAX_SPDM_VERSION

\* The version selected, 0 when the message is refused.
ParseVersionLast(c, m) ==   \* mutant: the last usable entry, not the highest
  IF EntryCount(m) > Len(m.entries) THEN 0
  ELSE FoldLeft(LAMBDA high, ver :
                  IF ver \in MIN_SPDM_VERSION .. MaxVer(c) THEN ver ELSE high,
                0, SubSeq(m.entries, 1, EntryCount(m)))
ParseVersion(c, m) ==
  IF EntryCount(m) > Len(m.entries) THEN 0
  ELSE FoldLeft(LAMBDA high, ver :
                  IF ver \in MIN_SPDM_VERSION .. MaxVer(c) /\ ver > high
                  THEN ver ELSE high,
                0, SubSeq(m.entries, 1, EntryCount(m)))

-----------------------------------------------------------------------------
(* wolfSPDM_ParseCapabilities *)

REQUIRED_CAPS == {"CERT", "ENCRYPT", "MAC", "KEY_EX"}

\* minDts is MinDataTransferSize.
ParseCapabilities(c, m, minDts) ==
  /\ m.version = c.version
  /\ REQUIRED_CAPS \subseteq m.caps
  /\ m.dts >= minDts /\ m.maxMsg >= m.dts

-----------------------------------------------------------------------------
(* wolfSPDM_BuildNegotiateAlgorithms, wolfSPDM_ParseAlgorithms *)

Offer(c) ==
  [dhe |-> IF c.kexAdvDhe THEN {"SECP384R1"} ELSE {},
   kem |-> IF c.version >= 14 THEN c.kexAdvKem ELSE {},
   asym |-> {"P384"} \union (IF c.version >= 14 THEN MLDSA_SETS ELSE {})]

\* A KEM-only preference does not fall back below 1.4.
CanOffer(c) == Offer(c).dhe # {} \/ Offer(c).kem # {}

\* One signature algorithm across BaseAsymSel and, from 1.4, PqcAsymSel.
PqcAsymSel(c, m) == IF c.version >= 14 THEN m.pqc ELSE {}
AsymOk(c, m) ==
  IF PqcAsymSel(c, m) # {}
  THEN m.base = {} /\ \E set \in MLDSA_SETS : m.pqc = {set}
  ELSE m.base = {"P384"}

\* One AlgStruct: f holds dheOk, the KEM selected, aeadOk, ksOk and whether
\* a selection was refused.
AlgStruct(c, f, s) ==
  CASE s.type = "DHE" ->
         [f EXCEPT !.dhe = s.sel = {"SECP384R1"},
                   !.bad = \/ f.bad
                           \/ s.sel \notin {{}, {"SECP384R1"}}
                           \/ s.sel = {"SECP384R1"} /\ ~c.kexAdvDhe]
    [] s.type = "KEM" ->
         [f EXCEPT !.kem = s.sel,
                   !.bad = \/ f.bad
                           \/ /\ s.sel # {}
                              /\ \/ Cardinality(s.sel) > 1
                                 \/ s.sel \intersect c.kexAdvKem = {}
                                 \/ c.version < 14]
    [] s.type = "AEAD" -> [f EXCEPT !.aead = s.sel = {"AES_256_GCM"}]
    [] s.type = "KEY_SCHEDULE" -> [f EXCEPT !.ks = s.sel = {"SPDM"}]
    [] OTHER -> f

AlgStructs(c, m) ==
  FoldLeft(LAMBDA f, s : AlgStruct(c, f, s),
           [dhe |-> FALSE, kem |-> {}, aead |-> FALSE, ks |-> FALSE,
            bad |-> FALSE], m.structs)

\* m.fixed: the length, the measurement specification, the opaque format and
\* the hash are the only ones accepted; m.fits: the AlgStructs lie in it.
ParseAlgorithmsEither(c, m) ==   \* mutant: a DHE group and a KEM together
  LET f == AlgStructs(c, m)
  IN  /\ m.fixed /\ m.version = c.version /\ AsymOk(c, m)
      /\ m.fits /\ ~f.bad /\ (f.dhe \/ f.kem # {}) /\ f.aead /\ f.ks
ParseAlgorithms(c, m) ==
  LET f == AlgStructs(c, m)
  IN  /\ m.fixed /\ m.version = c.version /\ AsymOk(c, m)
      /\ m.fits /\ ~f.bad /\ f.dhe # (f.kem # {}) /\ f.aead /\ f.ks

\* The context after ALGORITHMS: a message with the right fixed fields clears
\* the earlier selection before anything else is looked at.
AfterAlgorithms(c, m) ==
  IF ParseAlgorithms(c, m)
  THEN [c EXCEPT !.pqcAsymSel = PqcAsymSel(c, m), !.kemAlgSel = AlgStructs(c, m).kem]
  ELSE IF m.fixed /\ m.version = c.version
       THEN [c EXCEPT !.pqcAsymSel = {}, !.kemAlgSel = {}]
       ELSE c

-----------------------------------------------------------------------------
(* What they should compute *)

\* The versions of a complete list that both sides support.
CommonVersions(c, m) ==
  IF EntryCount(m) > Len(m.entries) THEN {}
  ELSE {m.entries[i] : i \in 1 .. EntryCount(m)}
         \intersect {v \in 12 .. 14 : c.maxVersion = 0 \/ v <= c.maxVersion}

\* What the responder finally selects for a type, {} without such a struct.
SelectedLast(m, type) ==
  LET at == {i \in DOMAIN m.structs : m.structs[i].type = type}
  IN  IF at = {} THEN {} ELSE m.structs[CHOOSE i \in at : \A j \in at : j <= i].sel

\* m answers the offer of c: it selects one key exchange and one signature
\* algorithm, both offered, and no structure selects anything else.
AnswersOffer(c, m) ==
  LET offer == Offer(c)
      sel   == SelectedLast(m, "DHE") \union SelectedLast(m, "KEM")
      asym  == IF c.version >= 14 THEN m.base \union m.pqc ELSE m.base
  IN  /\ m.fixed /\ m.fits /\ m.version = c.version
      /\ Cardinality(sel) = 1 /\ sel \subseteq offer.dhe \union offer.kem
      /\ Cardinality(asym) = 1 /\ asym \subseteq offer.asym
      /\ \A i \in DOMAIN m.structs :
           /\ m.structs[i].type = "DHE" => m.structs[i].sel \subseteq offer.dhe
           /\ m.structs[i].type = "KEM" =>
                /\ m.structs[i].sel \subseteq offer.kem
                /\ Cardinality(m.structs[i].sel) <= 1
      /\ SelectedLast(m, "AEAD") = {"AES_256_GCM"}
      /\ SelectedLast(m, "KEY_SCHEDULE") = {"SPDM"}

=============================================================================
