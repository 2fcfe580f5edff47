--------------------------- MODULE NegotiateProofs ---------------------------
(***************************************************************************)
(* What the parsers of Negotiate compute, for messages of any length.  The *)
(* loops of the code are left folds; a fold is unrolled into the sequence  *)
(* of its intermediate values, and induction over that sequence is a least *)
(* counterexample, which every non-empty set of naturals has.              *)
(***************************************************************************)
EXTENDS Negotiate, FiniteSetTheorems, WellFoundedInduction, TLAPS

\* Every non-empty set of naturals has a least element.
LEMMA LeastNat ==
  ASSUME NEW T \in SUBSET Nat, T # {}
  PROVE  \E x \in T : \A y \in T : x <= y
<1> DEFINE R == {ss \in Nat \X Nat : ss[1] < ss[2]}
<1>1. IsWellFoundedOn(R, Nat)
  BY NatLessThanWellFounded, Zenon DEF OpToRel
<1>2. PICK x \in T : \A y \in T : ~ (<<y, x>> \in R)
  <2> HIDE DEF R
  <2> QED
    BY <1>1, WFMin, Zenon
<1>3. ASSUME NEW y \in T
      PROVE  x <= y
  <2>1. x \in Nat /\ y \in Nat /\ <<y, x>> \in Nat \X Nat
    BY <1>2, <1>3
  <2>2. ~ (<<y, x>>[1] < <<y, x>>[2])
    BY <1>2, <1>3, <2>1
  <2> QED
    BY <2>1, <2>2
<1> QED
  BY <1>2, <1>3

\* Induction along an interval, on a set that holds what has been shown.
LEMMA IntervalInduction ==
  ASSUME NEW n \in Nat, NEW S, 0 \in S,
         \A i \in 0 .. n : i < n /\ i \in S => i + 1 \in S
  PROVE  \A i \in 0 .. n : i \in S
<1> SUFFICES ASSUME ~ \A i \in 0 .. n : i \in S
             PROVE  FALSE
  OBVIOUS
<1> DEFINE T == {i \in 0 .. n : i \notin S}
<1>1. T \in SUBSET Nat /\ T # {}
  OBVIOUS
<1>2. PICK x \in T : \A y \in T : x <= y
  BY <1>1, LeastNat
<1>3. x \in 0 .. n /\ x \notin S /\ x # 0
  BY <1>2
<1>4. x - 1 \in 0 .. n /\ x - 1 < n /\ x - 1 \notin T
  BY <1>2, <1>3
<1>5. x - 1 \in S
  BY <1>4
<1>6. (x - 1) + 1 \in S
  BY <1>4, <1>5
<1> QED
  BY <1>3, <1>6

\* Max of a non-empty set of positions.
LEMMA MaxIn ==
  ASSUME NEW n \in Nat, NEW s \in SUBSET (1 .. n), s # {}
  PROVE  Max(s) \in s /\ \A y \in s : y <= Max(s)
<1> DEFINE T == {k \in Nat : n - k \in s}
<1>1. T \in SUBSET Nat
  OBVIOUS
<1>2. PICK z \in s : TRUE
  OBVIOUS
<1>3. n - z \in T
  BY <1>2
<1>4. PICK x \in T : \A y \in T : x <= y
  BY <1>1, <1>3, LeastNat
<1>5. n - x \in s
  BY <1>4
<1>6. ASSUME NEW y \in s
      PROVE  n - x >= y
  <2>1. n - y \in T
    BY <1>6
  <2>2. x <= n - y /\ x \in Nat /\ y \in Nat
    BY <2>1, <1>4, <1>6
  <2> QED
    BY <2>2
<1>7. \E m \in s : \A y \in s : m >= y
  BY <1>5, <1>6
<1>8. Max(s) \in s /\ \A y \in s : Max(s) >= y
  BY <1>7, Zenon DEF Max
<1> QED
  BY <1>8

\* The greatest of a set that extends 1 .. k is the new element.
LEMMA MaxNew ==
  ASSUME NEW k \in Nat, NEW s \in SUBSET (1 .. k + 1), ~(s \subseteq 1 .. k)
  PROVE  Max(s) = k + 1 /\ s \ {k + 1} \subseteq 1 .. k
<1>1. k + 1 \in s /\ s # {}
  OBVIOUS
<1>2. Max(s) \in s /\ \A y \in s : y <= Max(s)
  BY <1>1, MaxIn
<1>3. Max(s) \in 1 .. k + 1 /\ k + 1 <= Max(s)
  BY <1>1, <1>2
<1>4. Max(s) = k + 1
  BY <1>3
<1> QED
  BY <1>4

\* The sets a fold visits: 1 .. k, and without its greatest 1 .. k - 1.
LEMMA MaxInterval ==
  ASSUME NEW k \in Nat, k # 0
  PROVE  Max(1 .. k) = k /\ (1 .. k) \ {k} = 1 .. k - 1
<1> DEFINE s == 1 .. k
<1>1. s \in SUBSET (1 .. k) /\ s # {} /\ k \in s
  OBVIOUS
<1>2. Max(s) \in s /\ \A y \in s : y <= Max(s)
  <2> HIDE DEF s
  <2> QED
    BY <1>1, MaxIn
<1>3. Max(s) \in s /\ k <= Max(s)
  BY <1>1, <1>2
<1> QED
  BY <1>3

\* it solves the recursion of a fold over 1 .. n that starts with base and goes
\* on from value a at position i with G[<<a, i>>].
Solution(it, n, base, G) ==
  \A s \in SUBSET (1 .. n) :
    it[s] = IF s = {} THEN base ELSE G[<<it[s \ {Max(s)}], Max(s)>>]

\* f holds the values the loop goes through, the first for no element.
Run(f, n, base, G) ==
  f[0] = base /\ \A i \in 1 .. n : f[i] = G[<<f[i - 1], i>>]

\* The recursion has a solution, with values in V.
LEMMA FoldExists ==
  ASSUME NEW n \in Nat, NEW V, NEW base \in V, NEW G \in [V \X (1 .. n) -> V]
  PROVE  \E it \in [SUBSET (1 .. n) -> V] : Solution(it, n, base, G)
<1> DEFINE Solves(it, k) ==
      \A s \in SUBSET (1 .. k) :
        it[s] = IF s = {} THEN base ELSE G[<<it[s \ {Max(s)}], Max(s)>>]
    S == {k \in 0 .. n : \E it \in [SUBSET (1 .. k) -> V] : Solves(it, k)}
<1>1. 0 \in S
  <2> DEFINE it == [s \in SUBSET (1 .. 0) |-> base]
  <2>1. it \in [SUBSET (1 .. 0) -> V]
    OBVIOUS
  <2>2. Solves(it, 0)
    OBVIOUS
  <2> HIDE DEF it
  <2>3. \E g \in [SUBSET (1 .. 0) -> V] : Solves(g, 0)
    BY <2>1, <2>2
  <2>4. 0 \in 0 .. n
    OBVIOUS
  <2> HIDE DEF Solves
  <2> QED
    BY <2>3, <2>4, Zenon
<1>2. ASSUME NEW k \in 0 .. n, k < n, k \in S
      PROVE  k + 1 \in S
  <2>1. PICK it \in [SUBSET (1 .. k) -> V] : Solves(it, k)
    BY <1>2
  <2> DEFINE jt == [s \in SUBSET (1 .. k + 1) |->
                      IF s \subseteq 1 .. k THEN it[s]
                      ELSE G[<<it[s \ {k + 1}], k + 1>>]]
  <2>2. ASSUME NEW s \in SUBSET (1 .. k + 1), ~(s \subseteq 1 .. k)
        PROVE  /\ jt[s] = G[<<it[s \ {k + 1}], k + 1>>] /\ jt[s] \in V
               /\ Max(s) = k + 1 /\ s # {} /\ s \ {k + 1} \in SUBSET (1 .. k)
    <3>1. Max(s) = k + 1 /\ s \ {k + 1} \in SUBSET (1 .. k)
      BY <2>2, MaxNew
    <3>2. it[s \ {k + 1}] \in V /\ k + 1 \in 1 .. n
      BY <3>1, <1>2
    <3> QED
      BY <3>1, <3>2, <2>2
  <2>3. ASSUME NEW s \in SUBSET (1 .. k)
        PROVE  jt[s] = it[s] /\ s \in SUBSET (1 .. k + 1)
    BY <2>3
  <2>4. jt \in [SUBSET (1 .. k + 1) -> V]
    BY <2>2, <2>3
  <2>5. ASSUME NEW s \in SUBSET (1 .. k + 1)
        PROVE  jt[s] = IF s = {} THEN base ELSE G[<<jt[s \ {Max(s)}], Max(s)>>]
    <3>1. CASE ~(s \subseteq 1 .. k)
      <4>1. jt[s \ {k + 1}] = it[s \ {k + 1}]
        BY <3>1, <2>2, <2>3
      <4> QED
        BY <3>1, <4>1, <2>2
    <3>2. CASE s \subseteq 1 .. k /\ s # {}
      <4>1. k \in Nat /\ s \in SUBSET (1 .. k)
        BY <3>2
      <4>2. s \ {Max(s)} \in SUBSET (1 .. k)
        BY <3>2
      <4>3. jt[s] = it[s] /\ jt[s \ {Max(s)}] = it[s \ {Max(s)}]
        BY <3>2, <4>2, <2>3
      <4> HIDE DEF jt
      <4> QED
        BY <3>2, <4>3, <2>1
    <3>3. CASE s = {}
      BY <3>3, <2>1
    <3> QED
      BY <3>1, <3>2, <3>3
  <2> HIDE DEF jt
  <2>6. Solves(jt, k + 1) /\ k + 1 \in 0 .. n
    BY <2>5, <1>2
  <2> QED
    BY <2>4, <2>6
<1>3. n \in S
  <2> HIDE DEF S
  <2>1. \A i \in 0 .. n : i \in S
    BY <1>1, <1>2, IntervalInduction
  <2> QED
    BY <2>1
<1> QED
  BY <1>3 DEF Solution

\* The same where it is known to hold only for values in V.
TypedSolution(it, n, V, base, G) ==
  /\ it[{}] = base
  /\ \A s \in SUBSET (1 .. n) : s # {} /\ it[s \ {Max(s)}] \in V =>
       it[s] = G[<<it[s \ {Max(s)}], Max(s)>>]

\* A fold that solves its recursion is the last of the values f[0] .. f[n] the
\* loop goes through, one for each element.
LEMMA FoldRuns ==
  ASSUME NEW n \in Nat, NEW V, NEW base \in V, NEW G \in [V \X (1 .. n) -> V],
         NEW it, TypedSolution(it, n, V, base, G)
  PROVE  \E f \in [0 .. n -> V] :
           f[n] = it[1 .. n] /\ Run(f, n, base, G)
<1> DEFINE S == {i \in 0 .. n : it[1 .. i] \in V}
<1>1. ASSUME NEW i \in 1 .. n, it[1 .. i - 1] \in V
      PROVE  it[1 .. i] = G[<<it[1 .. i - 1], i>>] /\ it[1 .. i] \in V
  <2>1. Max(1 .. i) = i /\ (1 .. i) \ {i} = 1 .. i - 1
    BY MaxInterval
  <2>2. 1 .. i \in SUBSET (1 .. n) /\ 1 .. i # {}
    OBVIOUS
  <2>3. it[1 .. i] = G[<<it[1 .. i - 1], i>>]
    BY <2>1, <2>2, <1>1 DEF TypedSolution
  <2> QED
    BY <2>3, <1>1
<1>2. 0 \in S
  <2>1. 1 .. 0 = {}
    OBVIOUS
  <2> QED
    BY <2>1 DEF TypedSolution
<1>3. ASSUME NEW i \in 0 .. n, i < n, i \in S
      PROVE  i + 1 \in S
  <2>1. i + 1 \in 1 .. n /\ (i + 1) - 1 = i
    BY <1>3
  <2>2. it[1 .. i + 1] \in V
    BY <2>1, <1>1, <1>3
  <2> QED
    BY <2>1, <2>2
<1>4. \A i \in 0 .. n : i \in S
  <2> HIDE DEF S
  <2> QED
    BY <1>2, <1>3, IntervalInduction
<1> DEFINE f == [i \in 0 .. n |-> it[1 .. i]]
<1>5. f \in [0 .. n -> V] /\ f[n] = it[1 .. n]
  BY <1>4
<1>6. f[0] = base
  <2>1. 1 .. 0 = {}
    OBVIOUS
  <2> QED
    BY <2>1 DEF TypedSolution
<1>7. ASSUME NEW i \in 1 .. n
      PROVE  f[i] = G[<<f[i - 1], i>>]
  <2>1. i - 1 \in 0 .. n /\ i \in 0 .. n
    OBVIOUS
  <2>2. it[1 .. i - 1] \in V
    BY <2>1, <1>4
  <2> QED
    BY <2>1, <2>2, <1>1
<1> HIDE DEF f
<1> QED
  BY <1>5, <1>6, <1>7 DEF Run

-----------------------------------------------------------------------------
(* wolfSPDM_ParseVersion *)

\* The loop of ParseVersion, entry by entry.
LEMMA ParseVersionRuns ==
  ASSUME NEW c, NEW m \in VersionMsgs, EntryCount(m) <= Len(m.entries)
  PROVE  LET n == EntryCount(m)
             e == m.entries
         IN  \E f \in [0 .. n -> Nat] :
               /\ f[0] = 0 /\ f[n] = ParseVersion(c, m)
               /\ \A i \in 1 .. n :
                    f[i] = IF e[i] \in MIN_SPDM_VERSION .. MaxVer(c) /\ e[i] > f[i - 1]
                           THEN e[i] ELSE f[i - 1]
<1> DEFINE n == EntryCount(m)
           seq == SubSeq(m.entries, 1, n)
           Best(high, ver) ==
             IF ver \in MIN_SPDM_VERSION .. MaxVer(c) /\ ver > high THEN ver ELSE high
           Body(g) == [s \in SUBSET DOMAIN seq |->
                         IF s = {} THEN 0
                         ELSE Best(g[s \ {Max(s)}], seq[Max(s)])]
           iter == CHOOSE g : g = Body(g)
           G == [p \in Nat \X (1 .. n) |-> Best(p[1], seq[p[2]])]
<1>1. n \in Nat /\ ~(EntryCount(m) > Len(m.entries)) /\ m.entries \in Seq(Nat)
  BY DEF EntryCount, VersionMsgs
<1>2. DOMAIN seq = 1 .. n /\ \A i \in 1 .. n : seq[i] = m.entries[i] /\ seq[i] \in Nat
  BY <1>1
<1>3. ParseVersion(c, m) = iter[DOMAIN seq]
  BY <1>1, Zenon DEF ParseVersion, FoldLeft, MapThenFoldSet
<1>4. G \in [Nat \X (1 .. n) -> Nat]
  <2>1. ASSUME NEW a \in Nat, NEW i \in 1 .. n
        PROVE  Best(a, seq[i]) \in Nat
    BY <1>2
  <2> HIDE DEF Best, n, seq
  <2> QED
    BY <2>1
<1>5. PICK it \in [SUBSET (1 .. n) -> Nat] : Solution(it, n, 0, G)
  <2>1. 0 \in Nat /\ n \in Nat
    BY <1>1
  <2> HIDE DEF G, n
  <2> QED
    BY <2>1, <1>4, FoldExists, Zenon
<1>6. ASSUME NEW s \in SUBSET (1 .. n), s # {}, NEW a \in Nat
      PROVE  G[<<a, Max(s)>>] = Best(a, seq[Max(s)]) /\ s \ {Max(s)} \in SUBSET (1 .. n)
  <2>1. Max(s) \in 1 .. n
    BY <1>1, <1>6, MaxIn
  <2> HIDE DEF Best, n, seq
  <2> QED
    BY <2>1
<1>7. it = Body(it)
  <2>1. \A s \in SUBSET (1 .. n) :
          it[s] = IF s = {} THEN 0 ELSE Best(it[s \ {Max(s)}], seq[Max(s)])
    <3> HIDE DEF Best, G, n, seq
    <3> QED
      BY <1>5, <1>6 DEF Solution
  <2> HIDE DEF Best, n, seq
  <2> QED
    BY <1>2, <1>5, <2>1
<1>8. iter = Body(iter)
  <2> HIDE DEF Body
  <2> QED
    BY <1>7, Zenon
<1>9. iter[{}] = 0
  <2> HIDE DEF iter, Best, n, seq
  <2> QED
    BY <1>8
<1>10. TypedSolution(iter, n, Nat, 0, G)
  <2> HIDE DEF iter, Best, n, seq, G
  <2>1. \A s \in SUBSET (1 .. n) : s # {} /\ iter[s \ {Max(s)}] \in Nat =>
          iter[s] = G[<<iter[s \ {Max(s)}], Max(s)>>]
    BY <1>2, <1>6, <1>8
  <2> QED
    BY <1>9, <2>1 DEF TypedSolution
<1>11. PICK f \in [0 .. n -> Nat] : f[n] = iter[1 .. n] /\ Run(f, n, 0, G)
  <2>1. 0 \in Nat /\ n \in Nat
    BY <1>1
  <2> HIDE DEF iter, G, n
  <2> QED
    BY <2>1, <1>4, <1>10, FoldRuns, Zenon
<1>12. \A i \in 1 .. n : f[i] = Best(f[i - 1], m.entries[i])
  <2>1. \A i \in 1 .. n : f[i - 1] \in Nat
    BY <1>1, <1>11
  <2> HIDE DEF Best, n, seq
  <2> QED
    BY <1>2, <1>11, <2>1 DEF Run
<1>13. f[n] = ParseVersion(c, m)
  <2> HIDE DEF iter, n, seq
  <2> QED
    BY <1>2, <1>3, <1>11
<1> QED
  BY <1>11, <1>12, <1>13 DEF Run

\* ParseVersion selects the highest version of the list both sides support,
\* and refuses, with 0, a list without one or with fewer entries than counted.
THEOREM ParseVersionSelectsBest ==
  ASSUME NEW c, c.maxVersion \in {0} \union MIN_SPDM_VERSION .. MAX_SPDM_VERSION,
         NEW m \in VersionMsgs
  PROVE  /\ ParseVersion(c, m) = Max({0} \union CommonVersions(c, m))
         /\ ParseVersion(c, m) \in {0} \union MIN_SPDM_VERSION .. MAX_SPDM_VERSION
<1> DEFINE n == EntryCount(m)
           e == m.entries
           Usable(v) == v \in MIN_SPDM_VERSION .. MaxVer(c)
<1>1. n \in Nat /\ e \in Seq(Nat) /\ Len(e) \in Nat
  BY DEF EntryCount, VersionMsgs
<1>2. \A v : Usable(v) <=> v \in {x \in 12 .. 14 : c.maxVersion = 0 \/ x <= c.maxVersion}
  BY DEF MaxVer, MIN_SPDM_VERSION, MAX_SPDM_VERSION
<1>3. \A v : Usable(v) => v \in MIN_SPDM_VERSION .. MAX_SPDM_VERSION
  BY DEF MaxVer, MIN_SPDM_VERSION, MAX_SPDM_VERSION
<1>4. CASE EntryCount(m) > Len(m.entries)
  <2>1. ParseVersion(c, m) = 0 /\ CommonVersions(c, m) = {}
    BY <1>4 DEF ParseVersion, CommonVersions
  <2>2. \E x \in {0} \union {} : \A y \in {0} \union {} : x >= y
    OBVIOUS
  <2>3. Max({0} \union {}) = 0
    BY <2>2, Zenon DEF Max
  <2> QED
    BY <2>1, <2>3
<1>5. CASE EntryCount(m) <= Len(m.entries)
  <2>1. PICK f \in [0 .. n -> Nat] :
          /\ f[0] = 0 /\ f[n] = ParseVersion(c, m)
          /\ \A i \in 1 .. n : f[i] = IF Usable(e[i]) /\ e[i] > f[i - 1]
                                      THEN e[i] ELSE f[i - 1]
    BY <1>5, ParseVersionRuns
  <2> HIDE DEF Usable
  <2> DEFINE Good(i) ==
        /\ f[i] = 0 \/ \E j \in 1 .. i : f[i] = e[j] /\ Usable(e[j])
        /\ \A j \in 1 .. i : Usable(e[j]) => e[j] <= f[i]
      S == {i \in 0 .. n : Good(i)}
  <2>2. 0 \in S
    BY <1>1, <2>1
  <2>3. ASSUME NEW i \in 0 .. n, i < n, i \in S
        PROVE  i + 1 \in S
    <3>1. i + 1 \in 1 .. n /\ (i + 1) - 1 = i /\ f[i] \in Nat /\ e[i + 1] \in Nat
      BY <2>3, <1>1, <1>5
    <3>2. f[i + 1] = IF Usable(e[i + 1]) /\ e[i + 1] > f[i] THEN e[i + 1] ELSE f[i]
      BY <3>1, <2>1
    <3>3. \A j \in 1 .. i + 1 : j \in 1 .. i \/ j = i + 1
      BY <3>1
    <3>4. \A j \in 1 .. i + 1 : e[j] \in Nat
      BY <3>1, <1>1, <1>5
    <3>5. Good(i)
      BY <2>3
    <3>6. \A j \in 1 .. i + 1 : Usable(e[j]) => e[j] <= f[i + 1]
      BY <3>1, <3>2, <3>3, <3>4, <3>5
    <3>7. f[i + 1] = 0 \/ \E j \in 1 .. i + 1 : f[i + 1] = e[j] /\ Usable(e[j])
      BY <3>1, <3>2, <3>5
    <3> QED
      BY <3>1, <3>6, <3>7
  <2>4. Good(n)
    <3>1. \A i \in 0 .. n : i \in S
      <4> HIDE DEF S
      <4> QED
        BY <1>1, <2>2, <2>3, IntervalInduction
    <3>2. n \in S
      BY <3>1, <1>1
    <3> QED
      BY <3>2
  <2>5. CommonVersions(c, m) = {v \in Nat : Usable(v) /\ \E j \in 1 .. n : v = e[j]}
    <3>1. CommonVersions(c, m) =
            {e[i] : i \in 1 .. n}
              \intersect {v \in 12 .. 14 : c.maxVersion = 0 \/ v <= c.maxVersion}
      BY <1>1, <1>5 DEF CommonVersions
    <3> QED
      BY <3>1, <1>2
  <2> DEFINE T == {0} \union CommonVersions(c, m)
             v == ParseVersion(c, m)
  <2>6. v \in T /\ \A y \in T : v >= y /\ y \in Nat
    <3>1. v \in Nat /\ v = f[n]
      BY <1>1, <2>1
    <3>2. v \in T
      BY <3>1, <2>4, <2>5
    <3>3. \A j \in 1 .. n : Usable(e[j]) => e[j] <= v
      BY <3>1, <2>4
    <3> HIDE DEF v
    <3>4. \A y \in CommonVersions(c, m) : v >= y /\ y \in Nat
      BY <3>1, <3>3, <2>5
    <3> QED
      BY <3>1, <3>2, <3>4
  <2>7. Max(T) \in T /\ \A y \in T : Max(T) >= y
    <3>1. \E x \in T : \A y \in T : x >= y
      BY <2>6
    <3> HIDE DEF T
    <3> QED
      BY <3>1, Zenon DEF Max
  <2>8. v = Max(T)
    <3> HIDE DEF T, v
    <3> QED
      BY <2>6, <2>7
  <2>9. v \in {0} \union MIN_SPDM_VERSION .. MAX_SPDM_VERSION
    BY <2>5, <2>6, <1>3
  <2> QED
    BY <2>8, <2>9
<1> QED
  BY <1>1, <1>4, <1>5

-----------------------------------------------------------------------------
(* wolfSPDM_ParseAlgorithms *)

Structs == [type : STRING, sel : SUBSET Bits]

\* What the loop over the AlgStructs keeps.
Flags == [dhe : BOOLEAN, kem : SUBSET Bits, aead : BOOLEAN, ks : BOOLEAN,
          bad : BOOLEAN]
NoFlags == [dhe |-> FALSE, kem |-> {}, aead |-> FALSE, ks |-> FALSE, bad |-> FALSE]

\* The selections of one AlgStruct that the loop refuses.
BadDhe(c, s) == \/ s.sel \notin {{}, {"SECP384R1"}}
                \/ s.sel = {"SECP384R1"} /\ ~c.kexAdvDhe
BadKem(c, s) == /\ s.sel # {}
                /\ \/ Cardinality(s.sel) > 1
                   \/ s.sel \intersect c.kexAdvKem = {}
                   \/ c.version < 14
Refused(c, s) == \/ s.type = "DHE" /\ BadDhe(c, s)
                 \/ s.type = "KEM" /\ BadKem(c, s)

\* From flags f the AlgStruct s leads to r.
Leads(c, f, s, r) ==
  /\ r.dhe <=> IF s.type = "DHE" THEN s.sel = {"SECP384R1"} ELSE f.dhe
  /\ r.kem = IF s.type = "KEM" THEN s.sel ELSE f.kem
  /\ r.aead <=> IF s.type = "AEAD" THEN s.sel = {"AES_256_GCM"} ELSE f.aead
  /\ r.ks <=> IF s.type = "KEY_SCHEDULE" THEN s.sel = {"SPDM"} ELSE f.ks
  /\ r.bad <=> f.bad \/ Refused(c, s)

\* One AlgStruct sets the field of its type, and may be refused.
LEMMA AlgStructStep ==
  ASSUME NEW c, NEW f \in Flags, NEW s \in Structs
  PROVE  AlgStruct(c, f, s) \in Flags /\ Leads(c, f, s, AlgStruct(c, f, s))
<1> USE DEF Leads
<1> DEFINE r == AlgStruct(c, f, s)
<1>1. CASE s.type = "DHE"
  <2> DEFINE d == (s.sel = {"SECP384R1"})
             b == (f.bad \/ BadDhe(c, s))
  <2>1. r = [f EXCEPT !.dhe = d, !.bad = b]
    BY <1>1 DEF AlgStruct, BadDhe
  <2>2. d \in BOOLEAN /\ b \in BOOLEAN
    OBVIOUS
  <2>3. Refused(c, s) <=> BadDhe(c, s)
    BY <1>1 DEF Refused
  <2> HIDE DEF d, b
  <2>4. r \in Flags /\ r.dhe = d /\ r.kem = f.kem /\ r.aead = f.aead /\ r.ks = f.ks
        /\ r.bad = b
    BY <2>1, <2>2 DEF Flags
  <2> QED
    BY <1>1, <2>3, <2>4 DEF d, b
<1>2. CASE s.type = "KEM"
  <2> DEFINE b == (f.bad \/ BadKem(c, s))
  <2>1. r = [f EXCEPT !.kem = s.sel, !.bad = b]
    BY <1>2 DEF AlgStruct, BadKem
  <2>2. s.sel \in SUBSET Bits /\ b \in BOOLEAN
    BY DEF Structs
  <2>3. Refused(c, s) <=> BadKem(c, s)
    BY <1>2 DEF Refused
  <2> HIDE DEF b
  <2>4. r \in Flags /\ r.dhe = f.dhe /\ r.kem = s.sel /\ r.aead = f.aead
        /\ r.ks = f.ks /\ r.bad = b
    BY <2>1, <2>2 DEF Flags
  <2> QED
    BY <1>2, <2>3, <2>4 DEF b
<1>3. CASE s.type = "AEAD"
  <2> DEFINE d == (s.sel = {"AES_256_GCM"})
  <2>1. r = [f EXCEPT !.aead = d]
    BY <1>3 DEF AlgStruct
  <2>2. d \in BOOLEAN /\ ~Refused(c, s)
    BY <1>3 DEF Refused
  <2> HIDE DEF d
  <2>3. r \in Flags /\ r.dhe = f.dhe /\ r.kem = f.kem /\ r.aead = d /\ r.ks = f.ks
        /\ r.bad = f.bad
    BY <2>1, <2>2 DEF Flags
  <2> QED
    BY <1>3, <2>2, <2>3 DEF d
<1>4. CASE s.type = "KEY_SCHEDULE"
  <2> DEFINE d == (s.sel = {"SPDM"})
  <2>1. r = [f EXCEPT !.ks = d]
    BY <1>4 DEF AlgStruct
  <2>2. d \in BOOLEAN /\ ~Refused(c, s)
    BY <1>4 DEF Refused
  <2> HIDE DEF d
  <2>3. r \in Flags /\ r.dhe = f.dhe /\ r.kem = f.kem /\ r.aead = f.aead /\ r.ks = d
        /\ r.bad = f.bad
    BY <2>1, <2>2 DEF Flags
  <2> QED
    BY <1>4, <2>2, <2>3 DEF d
<1>5. CASE s.type \notin {"DHE", "KEM", "AEAD", "KEY_SCHEDULE"}
  <2>1. r = f /\ ~Refused(c, s)
    BY <1>5 DEF AlgStruct, Refused
  <2> QED
    BY <1>5, <2>1
<1> QED
  BY <1>1, <1>2, <1>3, <1>4, <1>5

\* The loop of ParseAlgorithms, AlgStruct by AlgStruct.
LEMMA AlgStructsRuns ==
  ASSUME NEW c, NEW m \in AlgorithmsMsgs
  PROVE  LET n == Len(m.structs)
         IN  \E f \in [0 .. n -> Flags] :
               /\ f[0] = NoFlags /\ f[n] = AlgStructs(c, m)
               /\ \A i \in 1 .. n : f[i] = AlgStruct(c, f[i - 1], m.structs[i])
<1> DEFINE seq == m.structs
           n == Len(seq)
           Body(g) == [s \in SUBSET DOMAIN seq |->
                         IF s = {} THEN NoFlags
                         ELSE AlgStruct(c, g[s \ {Max(s)}], seq[Max(s)])]
           iter == CHOOSE g : g = Body(g)
           G == [p \in Flags \X (1 .. n) |-> AlgStruct(c, p[1], seq[p[2]])]
<1>1. n \in Nat /\ DOMAIN seq = 1 .. n /\ \A i \in 1 .. n : seq[i] \in Structs
  <2>1. seq \in Seq(Structs)
    BY DEF AlgorithmsMsgs, Structs
  <2> HIDE DEF seq
  <2> QED
    BY <2>1
<1>2. AlgStructs(c, m) = iter[DOMAIN seq]
  BY Zenon DEF AlgStructs, FoldLeft, MapThenFoldSet, NoFlags
<1>3. NoFlags \in Flags
  BY DEF NoFlags, Flags
<1>4. G \in [Flags \X (1 .. n) -> Flags]
  <2>1. ASSUME NEW a \in Flags, NEW i \in 1 .. n
        PROVE  AlgStruct(c, a, seq[i]) \in Flags
    BY <1>1, AlgStructStep
  <2> HIDE DEF n, seq
  <2> QED
    BY <2>1
<1>5. PICK it \in [SUBSET (1 .. n) -> Flags] : Solution(it, n, NoFlags, G)
  <2> HIDE DEF G, n
  <2> QED
    BY <1>1, <1>3, <1>4, FoldExists, Zenon
<1>6. ASSUME NEW s \in SUBSET (1 .. n), s # {}, NEW a \in Flags
      PROVE  /\ G[<<a, Max(s)>>] = AlgStruct(c, a, seq[Max(s)])
             /\ s \ {Max(s)} \in SUBSET (1 .. n)
  <2>1. Max(s) \in 1 .. n
    BY <1>1, <1>6, MaxIn
  <2> HIDE DEF n, seq
  <2> QED
    BY <2>1
<1>7. it = Body(it)
  <2>1. \A s \in SUBSET (1 .. n) :
          it[s] = IF s = {} THEN NoFlags
                  ELSE AlgStruct(c, it[s \ {Max(s)}], seq[Max(s)])
    <3> HIDE DEF G, n, seq
    <3> QED
      BY <1>5, <1>6 DEF Solution
  <2> HIDE DEF n, seq
  <2> QED
    BY <1>1, <1>5, <2>1
<1>8. iter = Body(iter)
  <2> HIDE DEF Body
  <2> QED
    BY <1>7, Zenon
<1>9. TypedSolution(iter, n, Flags, NoFlags, G)
  <2> HIDE DEF iter, n, seq, G
  <2>1. \A s \in SUBSET (1 .. n) : s # {} /\ iter[s \ {Max(s)}] \in Flags =>
          iter[s] = G[<<iter[s \ {Max(s)}], Max(s)>>]
    BY <1>1, <1>6, <1>8
  <2>2. iter[{}] = NoFlags
    BY <1>8
  <2> QED
    BY <2>1, <2>2 DEF TypedSolution
<1>10. PICK f \in [0 .. n -> Flags] : f[n] = iter[1 .. n] /\ Run(f, n, NoFlags, G)
  <2> HIDE DEF iter, G, n
  <2> QED
    BY <1>1, <1>3, <1>4, <1>9, FoldRuns, Zenon
<1>11. \A i \in 1 .. n : f[i] = AlgStruct(c, f[i - 1], seq[i])
  <2> HIDE DEF n, seq
  <2>1. \A i \in 1 .. n : f[i - 1] \in Flags
    BY <1>1, <1>10
  <2> QED
    BY <1>10, <2>1 DEF Run
<1>12. f[n] = AlgStructs(c, m)
  <2> HIDE DEF iter, n, seq
  <2> QED
    BY <1>1, <1>2, <1>10
<1> QED
  BY <1>10, <1>11, <1>12 DEF Run

\* What the first i structures select for a type in the end.
AtUpTo(m, type, i) == {j \in 1 .. i : m.structs[j].type = type}
SelUpTo(m, type, i) ==
  IF AtUpTo(m, type, i) = {} THEN {} ELSE m.structs[Max(AtUpTo(m, type, i))].sel

\* A structure of the type replaces the selection, any other leaves it.
Replaces(m, type, i, s) ==
  SelUpTo(m, type, i + 1) = IF s.type = type THEN s.sel ELSE SelUpTo(m, type, i)

\* The selection after one more structure.
LEMMA SelUpToStep ==
  ASSUME NEW m, NEW type, NEW i \in Nat
  PROVE  SelUpTo(m, type, 0) = {} /\ Replaces(m, type, i, m.structs[i + 1])
<1> USE DEF Replaces
<1>1. SelUpTo(m, type, 0) = {}
  BY DEF SelUpTo, AtUpTo
<1>2. CASE m.structs[i + 1].type = type
  <2> DEFINE s == AtUpTo(m, type, i + 1)
  <2>1. i + 1 \in s /\ s \in SUBSET (1 .. i + 1)
    BY <1>2 DEF AtUpTo
  <2>2. s # {} /\ ~(s \subseteq 1 .. i)
    BY <2>1
  <2>3. Max(s) = i + 1
    <3> HIDE DEF s
    <3> QED
      BY <2>1, <2>2, MaxNew
  <2> QED
    BY <1>1, <1>2, <2>2, <2>3 DEF SelUpTo
<1>3. CASE m.structs[i + 1].type # type
  <2>1. AtUpTo(m, type, i + 1) = AtUpTo(m, type, i)
    BY <1>3 DEF AtUpTo
  <2> QED
    BY <1>1, <1>3, <2>1 DEF SelUpTo
<1> QED
  BY <1>2, <1>3

\* After the last structure it is SelectedLast.
LEMMA SelUpToAll ==
  ASSUME NEW m \in AlgorithmsMsgs, NEW type
  PROVE  SelUpTo(m, type, Len(m.structs)) = SelectedLast(m, type)
<1> DEFINE n == Len(m.structs)
           at == {i \in DOMAIN m.structs : m.structs[i].type = type}
<1>1. n \in Nat /\ DOMAIN m.structs = 1 .. n
  BY DEF AlgorithmsMsgs
<1>2. at = AtUpTo(m, type, n) /\ at \in SUBSET (1 .. n)
  BY <1>1 DEF AtUpTo
<1>3. CASE at = {}
  BY <1>2, <1>3 DEF SelUpTo, SelectedLast
<1>4. CASE at # {}
  <2> DEFINE k == CHOOSE i \in at : \A j \in at : j <= i
  <2>1. Max(at) \in at /\ \A y \in at : y <= Max(at)
    <3> HIDE DEF at, n
    <3> QED
      BY <1>1, <1>2, <1>4, MaxIn
  <2>2. \E i \in at : \A j \in at : j <= i
    <3> HIDE DEF at
    <3> QED
      BY <2>1
  <2>3. k \in at /\ \A j \in at : j <= k
    <3> HIDE DEF at
    <3> QED
      BY <2>2, Zenon
  <2>4. k = Max(at)
    <3> HIDE DEF at, k
    <3>1. k <= Max(at) /\ Max(at) <= k /\ k \in Nat /\ Max(at) \in Nat
      BY <1>2, <2>1, <2>3
    <3> QED
      BY <3>1
  <2>5. SelectedLast(m, type) = m.structs[k].sel
    BY <1>4 DEF SelectedLast
  <2> HIDE DEF at, k
  <2> QED
    BY <1>2, <1>4, <2>4, <2>5 DEF SelUpTo
<1> QED
  BY <1>3, <1>4

\* What the loop has found out at its end.
LEMMA AlgStructsFlags ==
  ASSUME NEW c, NEW m \in AlgorithmsMsgs
  PROVE  LET r == AlgStructs(c, m)
         IN  /\ r \in Flags
             /\ r.dhe <=> SelectedLast(m, "DHE") = {"SECP384R1"}
             /\ r.kem = SelectedLast(m, "KEM")
             /\ r.aead <=> SelectedLast(m, "AEAD") = {"AES_256_GCM"}
             /\ r.ks <=> SelectedLast(m, "KEY_SCHEDULE") = {"SPDM"}
             /\ r.bad <=> \E i \in DOMAIN m.structs : Refused(c, m.structs[i])
<1> DEFINE n == Len(m.structs)
<1>1. n \in Nat /\ DOMAIN m.structs = 1 .. n /\ \A i \in 1 .. n : m.structs[i] \in Structs
  <2>1. m.structs \in Seq(Structs)
    BY DEF AlgorithmsMsgs, Structs
  <2> QED
    BY <2>1
<1>2. PICK f \in [0 .. n -> Flags] :
        /\ f[0] = NoFlags /\ f[n] = AlgStructs(c, m)
        /\ \A i \in 1 .. n : f[i] = AlgStruct(c, f[i - 1], m.structs[i])
  BY AlgStructsRuns
<1> HIDE DEF n
<1> DEFINE Found(i) ==
      /\ f[i].dhe <=> SelUpTo(m, "DHE", i) = {"SECP384R1"}
      /\ f[i].kem = SelUpTo(m, "KEM", i)
      /\ f[i].aead <=> SelUpTo(m, "AEAD", i) = {"AES_256_GCM"}
      /\ f[i].ks <=> SelUpTo(m, "KEY_SCHEDULE", i) = {"SPDM"}
      /\ f[i].bad <=> \E j \in 1 .. i : Refused(c, m.structs[j])
    S == {i \in 0 .. n : Found(i)}
<1>3. Found(0)
  <2>1. \A type : SelUpTo(m, type, 0) = {}
    BY SelUpToStep
  <2>2. ~ \E j \in 1 .. 0 : Refused(c, m.structs[j])
    OBVIOUS
  <2>3. ~NoFlags.dhe /\ NoFlags.kem = {} /\ ~NoFlags.aead /\ ~NoFlags.ks /\ ~NoFlags.bad
    BY DEF NoFlags
  <2> QED
    BY <1>2, <2>1, <2>2, <2>3
<1>4. ASSUME NEW i \in 0 .. n, i < n, Found(i)
      PROVE  Found(i + 1)
  <2> DEFINE s == m.structs[i + 1]
  <2>1. i \in Nat /\ i + 1 \in 1 .. n /\ (i + 1) - 1 = i /\ f[i] \in Flags
    BY <1>1, <1>2, <1>4
  <2>2. s \in Structs /\ f[i + 1] = AlgStruct(c, f[i], s)
    BY <1>1, <1>2, <2>1
  <2>3. \A type : Replaces(m, type, i, s)
    BY <2>1, SelUpToStep, Zenon
  <2>4. (\E j \in 1 .. i + 1 : Refused(c, m.structs[j])) <=>
          (\E j \in 1 .. i : Refused(c, m.structs[j])) \/ Refused(c, s)
    <3>1. \A j : j \in 1 .. i + 1 <=> j \in 1 .. i \/ j = i + 1
      BY <2>1
    <3> QED
      BY <3>1, Zenon
  <2> HIDE DEF s
  <2>5. Leads(c, f[i], s, f[i + 1])
    BY <2>1, <2>2, AlgStructStep, Zenon
  <2>6. f[i + 1].dhe <=> SelUpTo(m, "DHE", i + 1) = {"SECP384R1"}
    BY <1>4, <2>3, <2>5 DEF Leads, Replaces
  <2>7. f[i + 1].kem = SelUpTo(m, "KEM", i + 1)
    BY <1>4, <2>3, <2>5 DEF Leads, Replaces
  <2>8. f[i + 1].aead <=> SelUpTo(m, "AEAD", i + 1) = {"AES_256_GCM"}
    BY <1>4, <2>3, <2>5 DEF Leads, Replaces
  <2>9. f[i + 1].ks <=> SelUpTo(m, "KEY_SCHEDULE", i + 1) = {"SPDM"}
    BY <1>4, <2>3, <2>5 DEF Leads, Replaces
  <2>10. f[i + 1].bad <=> \E j \in 1 .. i + 1 : Refused(c, m.structs[j])
    BY <1>4, <2>4, <2>5 DEF Leads
  <2> QED
    BY <2>6, <2>7, <2>8, <2>9, <2>10
<1>5. Found(n)
  <2> HIDE DEF Found
  <2>1. 0 \in S
    BY <1>1, <1>3
  <2>2. ASSUME NEW i \in 0 .. n, i < n, i \in S
        PROVE  i + 1 \in S
    BY <1>1, <1>4, <2>2
  <2>3. \A i \in 0 .. n : i \in S
    <3> HIDE DEF S
    <3> QED
      BY <1>1, <2>1, <2>2, IntervalInduction
  <2> QED
    BY <1>1, <2>3
<1>6. \A type : SelUpTo(m, type, n) = SelectedLast(m, type)
  BY SelUpToAll DEF n
<1>7. f[n] \in Flags /\ f[n] = AlgStructs(c, m)
  BY <1>1, <1>2
<1> QED
  BY <1>1, <1>5, <1>6, <1>7

\* A selection is finite, and has one element exactly when it is a singleton.
LEMMA OneSelected ==
  ASSUME NEW S \in SUBSET (Bits \union MLDSA_SETS \union {"P384"})
  PROVE  /\ IsFiniteSet(S) /\ Cardinality(S) \in Nat
         /\ Cardinality(S) = 1 <=> \E x : S = {x}
         /\ Cardinality(S) = 0 <=> S = {}
<1> DEFINE T == Bits \union MLDSA_SETS \union {"P384"}
<1>1. ASSUME NEW a, NEW b, NEW c, NEW d
      PROVE  IsFiniteSet({a, b, c, d})
  <2>1. IsFiniteSet({a} \union {b})
    BY FS_Singleton, FS_AddElement
  <2>2. IsFiniteSet(({a} \union {b}) \union {c})
    BY <2>1, FS_AddElement
  <2>3. IsFiniteSet((({a} \union {b}) \union {c}) \union {d})
    BY <2>2, FS_AddElement
  <2>4. {a, b, c, d} = (({a} \union {b}) \union {c}) \union {d}
    OBVIOUS
  <2> QED
    BY <2>3, <2>4
<1>2. IsFiniteSet(T)
  <2> DEFINE A == {"SECP384R1", "AES_256_GCM", "SPDM", "X"}
             B == {"ML_KEM_512", "ML_KEM_768", "ML_DSA_44", "ML_DSA_65"}
  <2>1. IsFiniteSet(A) /\ IsFiniteSet(B) /\ IsFiniteSet({"P384"})
    BY <1>1, FS_Singleton
  <2>2. T = (A \union B) \union {"P384"}
    BY DEF Bits, MLDSA_SETS, MLKEM_SETS
  <2> HIDE DEF A, B
  <2>3. IsFiniteSet(A \union B)
    BY <2>1, FS_Union
  <2>4. IsFiniteSet((A \union B) \union {"P384"})
    BY <2>3, FS_AddElement
  <2> QED
    BY <2>2, <2>4
<1> HIDE DEF T
<1>3. IsFiniteSet(S)
  BY <1>2, FS_Subset DEF T
<1>4. Cardinality(S) \in Nat
  BY <1>3, FS_CardinalityType
<1> QED
  BY <1>3, <1>4, FS_Singleton, FS_EmptySet

\* An AlgStruct within the offer: what AnswersOffer asks of each one.
InOffer(c, s) ==
  /\ s.type = "DHE" => s.sel \subseteq Offer(c).dhe
  /\ s.type = "KEM" => s.sel \subseteq Offer(c).kem /\ Cardinality(s.sel) <= 1

\* The fields of the context that the offer is made of.
Negotiates(c) ==
  /\ c.version \in MIN_SPDM_VERSION .. MAX_SPDM_VERSION
  /\ c.kexAdvDhe \in BOOLEAN /\ c.kexAdvKem \in SUBSET MLKEM_SETS

\* The loop refuses exactly the selections outside the offer.
LEMMA RefusedIsOutside ==
  ASSUME NEW c, Negotiates(c), NEW s \in Structs
  PROVE  ~Refused(c, s) <=> InOffer(c, s)
<1>1. s.sel \in SUBSET Bits
  BY DEF Structs
<1>2. Cardinality(s.sel) \in Nat
      /\ (Cardinality(s.sel) = 1 <=> \E x : s.sel = {x})
      /\ (Cardinality(s.sel) = 0 <=> s.sel = {})
  BY <1>1, OneSelected
<1>3. Offer(c).dhe = (IF c.kexAdvDhe THEN {"SECP384R1"} ELSE {})
      /\ Offer(c).kem = (IF c.version >= 14 THEN c.kexAdvKem ELSE {})
  BY DEF Offer
<1>4. CASE s.type = "DHE"
  <2>1. ~BadDhe(c, s) <=> s.sel \subseteq Offer(c).dhe
    BY <1>3 DEF BadDhe, Negotiates
  <2> QED
    BY <1>4, <2>1 DEF Refused, InOffer
<1>5. CASE s.type = "KEM"
  <2>1. CASE s.sel = {}
    BY <1>2, <2>1, <1>5 DEF BadKem, Refused, InOffer
  <2>2. CASE \E x : s.sel = {x}
    <3>1. PICK x : s.sel = {x}
      BY <2>2
    <3>2. Cardinality(s.sel) = 1
      BY <1>2, <2>2
    <3>3. ~(c.version < 14) <=> c.version >= 14
      BY DEF Negotiates, MIN_SPDM_VERSION, MAX_SPDM_VERSION
    <3>4. s.sel \intersect c.kexAdvKem = {} <=> x \notin c.kexAdvKem
      BY <3>1
    <3>5. s.sel \subseteq Offer(c).kem <=> x \in c.kexAdvKem /\ c.version >= 14
      BY <1>3, <3>1
    <3>6. ~(Cardinality(s.sel) > 1) /\ Cardinality(s.sel) <= 1 /\ s.sel # {}
      BY <3>1, <3>2
    <3> QED
      BY <1>5, <3>3, <3>4, <3>5, <3>6 DEF BadKem, Refused, InOffer
  <2>3. CASE s.sel # {} /\ ~ \E x : s.sel = {x}
    <3>1. Cardinality(s.sel) > 1 /\ ~(Cardinality(s.sel) <= 1)
      BY <1>2, <2>3
    <3> QED
      BY <1>5, <2>3, <3>1 DEF BadKem, Refused, InOffer
  <2> QED
    BY <2>1, <2>2, <2>3
<1>6. CASE s.type \notin {"DHE", "KEM"}
  BY <1>6 DEF Refused, InOffer
<1> QED
  BY <1>4, <1>5, <1>6

\* One signature algorithm, of the offer.
LEMMA AsymAnswersOffer ==
  ASSUME NEW c, Negotiates(c), NEW m \in AlgorithmsMsgs
  PROVE  AsymOk(c, m) <=>
           LET asym == IF c.version >= 14 THEN m.base \union m.pqc ELSE m.base
           IN  Cardinality(asym) = 1 /\ asym \subseteq Offer(c).asym
<1> DEFINE asym == IF c.version >= 14 THEN m.base \union m.pqc ELSE m.base
<1>1. m.base \in SUBSET {"P384", "X"} /\ m.pqc \in SUBSET (MLDSA_SETS \union {"X"})
  BY DEF AlgorithmsMsgs
<1>2. asym \in SUBSET (Bits \union MLDSA_SETS \union {"P384"})
  BY <1>1 DEF Bits
<1>3. Cardinality(asym) = 1 <=> \E x : asym = {x}
  <2> HIDE DEF asym
  <2> QED
    BY <1>2, OneSelected
<1>4. Offer(c).asym = {"P384"} \union (IF c.version >= 14 THEN MLDSA_SETS ELSE {})
  BY DEF Offer
<1>5. CASE ~(c.version >= 14)
  <2>1. AsymOk(c, m) <=> m.base = {"P384"}
    BY <1>5 DEF AsymOk, PqcAsymSel
  <2>2. asym = m.base /\ Offer(c).asym = {"P384"}
    BY <1>4, <1>5
  <2>3. (\E x : m.base = {x}) /\ m.base \subseteq {"P384"} <=> m.base = {"P384"}
    OBVIOUS
  <2> QED
    BY <1>3, <2>1, <2>2, <2>3
<1>6. CASE c.version >= 14
  <2>1. asym = m.base \union m.pqc /\ Offer(c).asym = {"P384"} \union MLDSA_SETS
        /\ PqcAsymSel(c, m) = m.pqc
    BY <1>4, <1>6 DEF PqcAsymSel
  <2>2. ASSUME AsymOk(c, m)
        PROVE  (\E x : asym = {x}) /\ asym \subseteq Offer(c).asym
    <3>1. CASE m.pqc = {}
      BY <2>1, <2>2, <3>1 DEF AsymOk
    <3>2. CASE m.pqc # {}
      <4>1. PICK set \in MLDSA_SETS : m.pqc = {set} /\ m.base = {}
        BY <2>1, <2>2, <3>2 DEF AsymOk
      <4> QED
        BY <2>1, <4>1
    <3> QED
      BY <3>1, <3>2
  <2>3. ASSUME NEW x, asym = {x}, asym \subseteq Offer(c).asym
        PROVE  AsymOk(c, m)
    <3>1. "X" \notin asym /\ x \in {"P384"} \union MLDSA_SETS
      BY <2>1, <2>3 DEF MLDSA_SETS
    <3>2. "P384" \notin MLDSA_SETS /\ "X" \notin MLDSA_SETS
      BY DEF MLDSA_SETS
    <3>3. m.base \subseteq {"P384"} /\ m.pqc \subseteq MLDSA_SETS
      BY <1>1, <2>1, <3>1
    <3>4. CASE x = "P384"
      <4>1. m.base = {"P384"} /\ m.pqc = {}
        BY <2>1, <2>3, <3>2, <3>3, <3>4
      <4> QED
        BY <4>1, <2>1 DEF AsymOk
    <3>5. CASE x \in MLDSA_SETS
      <4>1. m.base = {} /\ m.pqc = {x}
        BY <2>1, <2>3, <3>2, <3>3, <3>5
      <4> QED
        BY <4>1, <2>1, <3>5 DEF AsymOk
    <3> QED
      BY <3>1, <3>4, <3>5
  <2> QED
    BY <1>3, <2>2, <2>3
<1> QED
  BY <1>5, <1>6

\* What is selected for a type is {}, or the selection of a structure.
LEMMA SelectedFrom ==
  ASSUME NEW m \in AlgorithmsMsgs, NEW type
  PROVE  \/ SelectedLast(m, type) = {}
         \/ \E i \in DOMAIN m.structs :
              m.structs[i].type = type /\ SelectedLast(m, type) = m.structs[i].sel
<1>1. DOMAIN m.structs = 1 .. Len(m.structs) /\ Len(m.structs) \in Nat
  BY DEF AlgorithmsMsgs
<1> DEFINE at == {i \in DOMAIN m.structs : m.structs[i].type = type}
           k == CHOOSE i \in at : \A j \in at : j <= i
<1>2. CASE at = {}
  BY <1>2 DEF SelectedLast
<1>3. CASE at # {}
  <2>1. at \in SUBSET (1 .. Len(m.structs))
    BY <1>1
  <2>2. Max(at) \in at /\ \A j \in at : j <= Max(at)
    <3> HIDE DEF at
    <3> QED
      BY <1>1, <1>3, <2>1, MaxIn
  <2>3. k \in at
    <3> HIDE DEF at
    <3>1. \E i \in at : \A j \in at : j <= i
      BY <2>2
    <3> QED
      BY <3>1, Zenon
  <2>4. SelectedLast(m, type) = m.structs[k].sel
    BY <1>3 DEF SelectedLast
  <2> HIDE DEF k
  <2> QED
    BY <2>3, <2>4
<1> QED
  BY <1>2, <1>3

\* ParseAlgorithms accepts exactly the answers to the requester's offer, of any
\* number of AlgStructs in any order.
THEOREM ParseAlgorithmsIsAnswer ==
  ASSUME NEW c, Negotiates(c), NEW m \in AlgorithmsMsgs
  PROVE  ParseAlgorithms(c, m) <=> AnswersOffer(c, m)
<1> DEFINE f == AlgStructs(c, m)
           D == SelectedLast(m, "DHE")
           K == SelectedLast(m, "KEM")
           sel == D \union K
           asym == IF c.version >= 14 THEN m.base \union m.pqc ELSE m.base
           Inside == \A i \in DOMAIN m.structs : InOffer(c, m.structs[i])
           One == Cardinality(sel) = 1 /\ sel \subseteq Offer(c).dhe \union Offer(c).kem
<1>1. DOMAIN m.structs = 1 .. Len(m.structs) /\ Len(m.structs) \in Nat
      /\ \A i \in DOMAIN m.structs : m.structs[i] \in Structs
  <2>1. m.structs \in Seq(Structs)
    BY DEF AlgorithmsMsgs, Structs
  <2> QED
    BY <2>1
<1>2. /\ f.dhe <=> D = {"SECP384R1"}
      /\ f.kem = K
      /\ f.aead <=> SelectedLast(m, "AEAD") = {"AES_256_GCM"}
      /\ f.ks <=> SelectedLast(m, "KEY_SCHEDULE") = {"SPDM"}
      /\ f.bad <=> \E i \in DOMAIN m.structs : Refused(c, m.structs[i])
      /\ f \in Flags
  BY AlgStructsFlags
<1>3. ~f.bad <=> Inside
  <2>1. \A i \in DOMAIN m.structs : ~Refused(c, m.structs[i]) <=> InOffer(c, m.structs[i])
    BY <1>1, RefusedIsOutside
  <2> HIDE DEF f
  <2> QED
    BY <1>2, <2>1, Zenon
<1>4. ASSUME NEW type
      PROVE  \/ SelectedLast(m, type) = {}
             \/ \E i \in DOMAIN m.structs :
                  m.structs[i].type = type /\ SelectedLast(m, type) = m.structs[i].sel
  BY SelectedFrom
<1>5. ASSUME Inside
      PROVE  (f.dhe # (f.kem # {})) <=> One
  <2>1. D \subseteq Offer(c).dhe
    BY <1>4, <1>5 DEF InOffer
  <2>2. K \subseteq Offer(c).kem /\ (K = {} \/ \E i \in DOMAIN m.structs :
                                      K = m.structs[i].sel /\ Cardinality(K) <= 1)
    BY <1>4, <1>5 DEF InOffer
  <2>3. Offer(c).dhe \subseteq {"SECP384R1"} /\ Offer(c).kem \subseteq MLKEM_SETS
    BY DEF Offer, Negotiates
  <2>4. "SECP384R1" \notin MLKEM_SETS /\ MLKEM_SETS \subseteq Bits /\ "SECP384R1" \in Bits
    BY DEF MLKEM_SETS, Bits
  <2> HIDE DEF D, K, f
  <2>5. D = {} \/ D = {"SECP384R1"}
    BY <2>1, <2>3
  <2>6. K = {} \/ \E x : K = {x}
    <3>1. K \in SUBSET (Bits \union MLDSA_SETS \union {"P384"})
      BY <2>2, <2>3, <2>4
    <3>2. Cardinality(K) \in Nat /\ (Cardinality(K) = 1 <=> \E x : K = {x})
          /\ (Cardinality(K) = 0 <=> K = {})
      BY <3>1, OneSelected
    <3>3. K = {} \/ Cardinality(K) <= 1
      BY <2>2, Zenon
    <3>4. K = {} \/ Cardinality(K) = 0 \/ Cardinality(K) = 1
      BY <3>2, <3>3
    <3> QED
      BY <3>2, <3>4, Zenon
  <2>7. Cardinality(sel) = 1 <=> \E x : sel = {x}
    <3>1. sel \in SUBSET (Bits \union MLDSA_SETS \union {"P384"})
      BY <2>2, <2>3, <2>4, <2>5
    <3> HIDE DEF sel
    <3> QED
      BY <3>1, OneSelected
  <2>8. sel \subseteq Offer(c).dhe \union Offer(c).kem
    BY <2>1, <2>2
  <2>9. (\E x : sel = {x}) <=> ((D = {"SECP384R1"}) # (K # {}))
    <3>1. CASE D = {}
      BY <2>6, <3>1
    <3>2. CASE D = {"SECP384R1"} /\ K = {}
      BY <3>2
    <3>3. CASE D = {"SECP384R1"} /\ K # {}
      <4>1. PICK x : x \in K /\ x # "SECP384R1"
        BY <2>2, <2>3, <2>4, <3>3
      <4> QED
        BY <3>3, <4>1
    <3> QED
      BY <2>5, <3>1, <3>2, <3>3
  <2>10. (f.dhe # (f.kem # {})) <=> ((D = {"SECP384R1"}) # (K # {}))
    <3>1. f.dhe \in BOOLEAN
      BY <1>2 DEF Flags
    <3> QED
      BY <1>2, <3>1
  <2> HIDE DEF sel
  <2> QED
    BY <2>7, <2>8, <2>9, <2>10
<1>6. AsymOk(c, m) <=> Cardinality(asym) = 1 /\ asym \subseteq Offer(c).asym
  BY AsymAnswersOffer
<1>7. ParseAlgorithms(c, m) <=>
        /\ m.fixed /\ m.version = c.version /\ AsymOk(c, m) /\ m.fits /\ ~f.bad
        /\ f.dhe # (f.kem # {}) /\ f.aead /\ f.ks
  BY DEF ParseAlgorithms
<1>8. AnswersOffer(c, m) <=>
        /\ m.fixed /\ m.version = c.version /\ m.fits
        /\ Cardinality(asym) = 1 /\ asym \subseteq Offer(c).asym
        /\ Inside /\ One
        /\ SelectedLast(m, "AEAD") = {"AES_256_GCM"}
        /\ SelectedLast(m, "KEY_SCHEDULE") = {"SPDM"}
  BY DEF AnswersOffer, InOffer
<1> HIDE DEF f, D, K, sel, asym, Inside, One
<1> QED
  BY <1>2, <1>3, <1>5, <1>6, <1>7, <1>8

\* What is selected in the end is at most one algorithm of each kind.
LEMMA AcceptedSelections ==
  ASSUME NEW c, Negotiates(c), NEW m \in AlgorithmsMsgs, ParseAlgorithms(c, m)
  PROVE  /\ PqcAsymSel(c, m) \in {{}} \union {{x} : x \in MLDSA_SETS}
         /\ AlgStructs(c, m).kem \in {{}} \union {{x} : x \in MLKEM_SETS}
<1> DEFINE f == AlgStructs(c, m)
           K == SelectedLast(m, "KEM")
<1>1. PqcAsymSel(c, m) \in {{}} \union {{x} : x \in MLDSA_SETS}
  <2>1. AsymOk(c, m)
    BY DEF ParseAlgorithms
  <2>2. PqcAsymSel(c, m) # {} => PqcAsymSel(c, m) = m.pqc
    BY DEF PqcAsymSel
  <2> QED
    BY <2>1, <2>2 DEF AsymOk
<1>2. ~f.bad
  BY DEF ParseAlgorithms
<1>3. f.kem = K /\ (f.bad <=> \E i \in DOMAIN m.structs : Refused(c, m.structs[i]))
  BY AlgStructsFlags
<1>4. CASE K = {}
  BY <1>1, <1>3, <1>4
<1>5. CASE K # {}
  <2>1. PICK i \in DOMAIN m.structs : m.structs[i].type = "KEM" /\ K = m.structs[i].sel
    BY <1>5, SelectedFrom
  <2>2. m.structs[i] \in Structs
    <3>1. m.structs \in Seq(Structs)
      BY DEF AlgorithmsMsgs, Structs
    <3> QED
      BY <2>1, <3>1
  <2>3. InOffer(c, m.structs[i])
    BY <1>2, <1>3, <2>1, <2>2, RefusedIsOutside
  <2>4. K \subseteq Offer(c).kem /\ Cardinality(K) <= 1
    BY <2>1, <2>3 DEF InOffer
  <2>5. Offer(c).kem \subseteq MLKEM_SETS /\ MLKEM_SETS \subseteq Bits
    BY DEF Offer, Negotiates, Bits
  <2>6. K \in SUBSET (Bits \union MLDSA_SETS \union {"P384"})
    BY <2>4, <2>5
  <2> HIDE DEF K
  <2>7. Cardinality(K) \in Nat /\ (Cardinality(K) = 1 <=> \E x : K = {x})
        /\ (Cardinality(K) = 0 <=> K = {})
    BY <2>6, OneSelected
  <2>8. \E x : K = {x}
    BY <1>5, <2>4, <2>7
  <2>9. K \in {{x} : x \in MLKEM_SETS}
    BY <2>4, <2>5, <2>8
  <2> QED
    BY <1>1, <1>3, <2>9
<1> QED
  BY <1>4, <1>5

==============================================================================
