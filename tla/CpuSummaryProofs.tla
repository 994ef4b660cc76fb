------------------------- MODULE CpuSummaryProofs ---------------------------
(***************************************************************************)
(* Proof that every reachable state of the CPU report analyzer is well    *)
(* typed (TypeOK), including the summary generate_summary_report writes:  *)
(* its category counts, totals, maxima and top functions.  The summary is *)
(* built by three loops over the hotspots, the categorisation loop        *)
(* (Members), the sum of children percentages (SumChildren) and max()     *)
(* (TopOf); the first two are recursive functions over 0..Len, and the    *)
(* lemmas below show that such a function exists and ranges over the set  *)
(* its step preserves.  Induction over 0..L is derived from the           *)
(* well-foundedness of < on Nat, for a set, so that it can be cited.       *)
(***************************************************************************)
EXTENDS CpuHotspotAnalyzer, TLAPS, WellFoundedInduction, FiniteSetTheorems

-----------------------------------------------------------------------------
(* Induction and minima on the naturals.                                   *)

(* A set of naturals that is not empty has a least element.                *)
LEMMA NatMinExists ==
    ASSUME NEW S \in SUBSET Nat, S # {}
    PROVE  \E m \in S : \A x \in S : m <= x
<1>1. PICK m \in S : \A y \in S : ~(<<y, m>> \in OpToRel(<, Nat))
  BY NatLessThanWellFounded, WFMin
<1>2. \A y \in S : ~(y < m)  BY <1>1 DEF OpToRel
<1>. QED  BY <1>2

(* Induction over the prefix 0..L: a set of its numbers that holds 0 and  *)
(* i whenever it holds i - 1 is all of it.                                 *)
LEMMA PrefixInduction ==
    ASSUME NEW L \in Nat, NEW P \in SUBSET (0..L), 0 \in P,
           \A i \in 1..L : i - 1 \in P => i \in P
    PROVE  P = 0..L
<1>. DEFINE Bad == (0..L) \ P
<1>1. SUFFICES ASSUME Bad # {} PROVE FALSE  OBVIOUS
<1>2. PICK x \in Bad : \A y \in Bad : x <= y
  <2>1. Bad \in SUBSET Nat /\ Bad # {}  BY <1>1
  <2>. QED  BY <2>1, NatMinExists, Zenon
<1>3. x \in 1..L  OBVIOUS
<1>4. x - 1 \in Bad  BY <1>3
<1>. QED  BY <1>2, <1>3, <1>4

(* A function on 0..L whose value at 0 is in T, and whose value at i is  *)
(* in T whenever the one at i - 1 is, ranges over T.                       *)
LEMMA RecursionType ==
    ASSUME NEW T, NEW L \in Nat, NEW f, f[0] \in T,
           \A i \in 1..L : f[i - 1] \in T => f[i] \in T
    PROVE  \A i \in 0..L : f[i] \in T
<1>. DEFINE P == {i \in 0..L : f[i] \in T}
<1>1. P \in SUBSET (0..L) /\ 0 \in P /\ \A i \in 1..L : i - 1 \in P => i \in P  OBVIOUS
<1>2. P = 0..L  BY <1>1, PrefixInduction, Zenon
<1>. QED  BY <1>2

(* Primitive recursion on 0..L: from the base c, with the step D that    *)
(* maps a value of T and an index to a value of T, there is a function on *)
(* 0..L, into T, that is c at 0 and D of its previous value elsewhere.    *)
(* Hypothesis and conclusion are named, so that the lemma is cited for   *)
(* one instance by matching RecursionHyp(T, c, L, D).                      *)
RecursionHyp(T, c, L, D) ==
    /\ c \in T /\ L \in Nat
    /\ \A x \in T : \A i \in 1..L : D[<<x, i>>] \in T

RecursionSol(g, T, c, L, D) ==
    /\ g \in [0..L -> T]
    /\ g[0] = c
    /\ \A i \in 1..L : g[i] = D[<<g[i - 1], i>>]

LEMMA RecursionExists ==
    \A T, c, L, D : RecursionHyp(T, c, L, D) => \E g : RecursionSol(g, T, c, L, D)
<1>. SUFFICES ASSUME NEW T, NEW c, NEW L, NEW D, RecursionHyp(T, c, L, D)
              PROVE  \E g : RecursionSol(g, T, c, L, D)
  OBVIOUS
<1>0. c \in T /\ L \in Nat /\ \A x \in T : \A i \in 1..L : D[<<x, i>>] \in T
  BY DEF RecursionHyp
<1>. DEFINE Sol(g, n) == /\ g \in [0..n -> T]
                         /\ g[0] = c
                         /\ \A i \in 1..n : g[i] = D[<<g[i - 1], i>>]
            P == {n \in 0..L : \E g : Sol(g, n)}
<1>1. 0 \in P
  <2>1. Sol([i \in 0..0 |-> c], 0)  BY <1>0
  <2>2. \E g : Sol(g, 0)  BY <2>1, Zenon
  <2>. QED  BY <2>2, <1>0
<1>2. ASSUME NEW n \in 1..L, n - 1 \in P PROVE n \in P
  <2>1. PICK g : Sol(g, n - 1)  BY <1>2
  <2>2. D[<<g[n - 1], n>>] \in T  BY <2>1, <1>0
  <2>. DEFINE h == [i \in 0..n |-> IF i < n THEN g[i] ELSE D[<<g[n - 1], n>>]]
  <2>3. h \in [0..n -> T]
    <3>1. \A i \in 0..n : h[i] \in T  BY <2>1, <2>2, <1>0
    <3>. QED  BY <3>1, Zenon
  <2>4. h[0] = c  BY <2>1, <1>0
  <2>5. \A i \in 1..n : h[i] = D[<<h[i - 1], i>>]
    <3>1. \A i \in 1..(n - 1) : h[i] = D[<<h[i - 1], i>>]  BY <2>1, <1>0
    <3>2. h[n] = D[<<h[n - 1], n>>]
      <4>1. h[n] = D[<<g[n - 1], n>>]  BY <1>0
      <4>2. h[n - 1] = g[n - 1]  BY <1>0
      <4>. QED  BY <4>1, <4>2, Zenon
    <3>3. \A i \in 1..n : i \in 1..(n - 1) \/ i = n  BY <1>0
    <3>. QED  BY <3>1, <3>2, <3>3, Zenon
  <2>6. \E g2 : Sol(g2, n)  BY <2>3, <2>4, <2>5, Zenon
  <2>. QED  BY <2>6
<1>3. P = 0..L
  <2>1. P \in SUBSET (0..L) /\ \A n \in 1..L : n - 1 \in P => n \in P  BY <1>2
  <2>. QED  BY <1>0, <1>1, <2>1, PrefixInduction, Zenon
<1>. QED  BY <1>0, <1>3 DEF RecursionSol

-----------------------------------------------------------------------------
(* The loops of generate_summary_report and categorize_functions.          *)

(* A hotspot's children percentage is a natural.                          *)
LEMMA HotspotChildren ==
    ASSUME NEW h \in Hotspot
    PROVE  h.children \in Nat
BY DEF Hotspot

(* The function f of SumChildren(s): f[i] is the sum over the first i    *)
(* hotspots of s.                                                          *)
SumF(s) ==
    CHOOSE f : f = [i \in 0..Len(s) |-> IF i = 0 THEN 0 ELSE f[i - 1] + s[i].children]

(* sum(f['children_percent'] for f in funcs), one hotspot at a time: the  *)
(* partial sums start at 0, add each hotspot's percentage and are whole   *)
(* percentages.                                                            *)
LEMMA SumChildrenRec ==
    ASSUME NEW s \in Seq(Hotspot)
    PROVE  /\ SumChildren(s) = SumF(s)[Len(s)]
           /\ SumF(s)[0] = 0
           /\ \A i \in 1..Len(s) : SumF(s)[i] = SumF(s)[i - 1] + s[i].children
           /\ \A i \in 0..Len(s) : SumF(s)[i] \in Nat
<1>. DEFINE L == Len(s)
            Body(g) == [i \in 0..L |-> IF i = 0 THEN 0 ELSE g[i - 1] + s[i].children]
            F == SumF(s)
            D == [p \in Nat \X (1..L) |-> p[1] + s[p[2]].children]
<1>1. SumChildren(s) = F[L]  BY DEF SumChildren, SumF
<1>2. \A i \in 1..L : s[i].children \in Nat  BY HotspotChildren
<1>3. \A x \in Nat : \A i \in 1..L : D[<<x, i>>] = x + s[i].children  OBVIOUS
<1>4. RecursionHyp(Nat, 0, L, D)  BY <1>2, <1>3 DEF RecursionHyp
<1>. HIDE DEF D
<1>5. PICK g : RecursionSol(g, Nat, 0, L, D)  BY <1>4, RecursionExists
<1>6. g = Body(g)
  <2>0. g \in [0..L -> Nat] /\ g[0] = 0  BY <1>5 DEF RecursionSol
  <2>1. g = [i \in 0..L |-> g[i]] /\ g[0] = 0 /\ \A i \in 0..L : g[i] \in Nat
    BY <2>0
  <2>2. \A i \in 1..L : g[i] = g[i - 1] + s[i].children
    <3> TAKE i \in 1..L
    <3>1. g[i] = D[<<g[i - 1], i>>]  BY <1>5 DEF RecursionSol
    <3>2. g[i - 1] \in Nat  BY <2>1
    <3>. QED  BY <3>1, <3>2, <1>3
  <2>3. \A i \in 0..L : g[i] = Body(g)[i]  BY <2>1, <2>2
  <2>. QED  BY <2>1, <2>3
<1>7. F = Body(F)  BY <1>6, Zenon DEF SumF
<1>. HIDE DEF F
<1>8. F[0] = 0 /\ \A i \in 1..L : F[i] = F[i - 1] + s[i].children  BY <1>7
<1>9. \A i \in 0..L : F[i] \in Nat
  <2>1. L \in Nat /\ 0 \in Nat  OBVIOUS
  <2>2. F[0] \in Nat /\ \A i \in 1..L : F[i - 1] \in Nat => F[i] \in Nat  BY <1>2, <1>8
  <2>. QED  BY <2>1, <2>2, RecursionType, Zenon
<1>. QED  BY <1>1, <1>8, <1>9, Zenon DEF F

(* sum(f['children_percent'] for f in funcs) is a whole percentage.        *)
LEMMA SumChildrenNat ==
    ASSUME NEW s \in Seq(Hotspot)
    PROVE  SumChildren(s) \in Nat
BY SumChildrenRec

(* The sum over no hotspots is 0.                                          *)
LEMMA SumChildrenEmpty == SumChildren(<<>>) = 0
<1>1. <<>> \in Seq(Hotspot) /\ Len(<<>>) = 0  OBVIOUS
<1>. QED  BY <1>1, SumChildrenRec

(* Summing a list with one more hotspot adds that hotspot's percentage:   *)
(* the partial sums over the common prefix agree.                          *)
LEMMA SumChildrenAppend ==
    ASSUME NEW s \in Seq(Hotspot), NEW x \in Hotspot
    PROVE  SumChildren(Append(s, x)) = SumChildren(s) + x.children
<1>. DEFINE t == Append(s, x)
            L == Len(s)
            P == {i \in 0..L : SumF(t)[i] = SumF(s)[i]}
<1>1. t \in Seq(Hotspot) /\ Len(t) = L + 1 /\ L \in Nat
      /\ \A i \in 1..L : t[i] = s[i]
      /\ t[L + 1] = x
  OBVIOUS
<1>2. /\ SumChildren(s) = SumF(s)[L] /\ SumF(s)[0] = 0
      /\ \A i \in 1..L : SumF(s)[i] = SumF(s)[i - 1] + s[i].children
  BY SumChildrenRec
<1>3. /\ SumChildren(t) = SumF(t)[L + 1] /\ SumF(t)[0] = 0
      /\ \A i \in 1..(L + 1) : SumF(t)[i] = SumF(t)[i - 1] + t[i].children
  BY <1>1, SumChildrenRec
<1>4. 0 \in P  BY <1>1, <1>2, <1>3
<1>5. \A i \in 1..L : i - 1 \in P => i \in P
  <2> TAKE i \in 1..L
  <2>1. SumF(t)[i] = SumF(t)[i - 1] + s[i].children  BY <1>1, <1>3
  <2>. QED  BY <1>2, <2>1
<1>6. L \in P
  <2>1. P = 0..L  BY <1>1, <1>4, <1>5, PrefixInduction, Zenon
  <2>. QED  BY <1>1, <2>1
<1>7. SumF(t)[L + 1] = SumF(t)[L] + x.children
  <2>1. L + 1 \in 1..(L + 1) /\ (L + 1) - 1 = L  BY <1>1
  <2>2. SumF(t)[L + 1] = SumF(t)[(L + 1) - 1] + t[L + 1].children  BY <1>3, <2>1, Zenon
  <2>3. SumF(t)[(L + 1) - 1] = SumF(t)[L]  BY <2>1
  <2>4. t[L + 1].children = x.children  BY <1>1
  <2>. QED  BY <2>2, <2>3, <2>4
<1>. QED  BY <1>2, <1>3, <1>6, <1>7, HotspotChildren

(* The function F of Members(c): F[i] is the list of category c after the *)
(* first i hotspots.                                                       *)
MemF(c) ==
    CHOOSE F : F = [i \in 0..Len(hotspots) |->
                      IF i = 0 THEN <<>>
                      ELSE IF CategoryOf(hotspots[i]) = c THEN Append(F[i - 1], hotspots[i])
                           ELSE F[i - 1]]

(* The categorisation loop, one hotspot at a time: the list of category c *)
(* starts empty, gains hotspot i when the first rule that applies to it   *)
(* is c's, and otherwise stays as it is; it always holds hotspots.        *)
LEMMA MembersRec ==
    ASSUME hotspots \in Seq(Hotspot), NEW c
    PROVE  /\ Members(c) = MemF(c)[Len(hotspots)]
           /\ MemF(c)[0] = <<>>
           /\ \A i \in 1..Len(hotspots) :
                 MemF(c)[i] = IF CategoryOf(hotspots[i]) = c
                              THEN Append(MemF(c)[i - 1], hotspots[i])
                              ELSE MemF(c)[i - 1]
           /\ \A i \in 0..Len(hotspots) : MemF(c)[i] \in Seq(Hotspot)
<1>. DEFINE L == Len(hotspots)
            Step(x, i) == IF CategoryOf(hotspots[i]) = c THEN Append(x, hotspots[i]) ELSE x
            Body(g) == [i \in 0..L |->
                          IF i = 0 THEN <<>>
                          ELSE IF CategoryOf(hotspots[i]) = c THEN Append(g[i - 1], hotspots[i])
                               ELSE g[i - 1]]
            F == MemF(c)
            D == [p \in Seq(Hotspot) \X (1..L) |-> Step(p[1], p[2])]
<1>1. Members(c) = F[L]  BY DEF Members, MemF
<1>2. \A x \in Seq(Hotspot) : \A i \in 1..L : Step(x, i) \in Seq(Hotspot)  OBVIOUS
<1>3. \A x \in Seq(Hotspot) : \A i \in 1..L : D[<<x, i>>] = Step(x, i)  OBVIOUS
<1>4. RecursionHyp(Seq(Hotspot), <<>>, L, D)  BY <1>2, <1>3 DEF RecursionHyp
<1>. HIDE DEF D
<1>5. PICK g : RecursionSol(g, Seq(Hotspot), <<>>, L, D)  BY <1>4, RecursionExists
<1>6. g = Body(g)
  <2>0. g \in [0..L -> Seq(Hotspot)] /\ g[0] = <<>>  BY <1>5 DEF RecursionSol
  <2>1. g = [i \in 0..L |-> g[i]] /\ g[0] = <<>> /\ \A i \in 0..L : g[i] \in Seq(Hotspot)
    BY <2>0
  <2>2. \A i \in 1..L : g[i] = Step(g[i - 1], i)
    <3> TAKE i \in 1..L
    <3>1. g[i] = D[<<g[i - 1], i>>]  BY <1>5 DEF RecursionSol
    <3>2. g[i - 1] \in Seq(Hotspot)  BY <2>1
    <3>. QED  BY <3>1, <3>2, <1>3
  <2>3. \A i \in 0..L : g[i] = Body(g)[i]
    <3> TAKE i \in 0..L
    <3>1. CASE i = 0  BY <2>1, <3>1
    <3>2. CASE i # 0
      <4>1. i \in 1..L  BY <3>2
      <4>2. Body(g)[i] = Step(g[i - 1], i)  BY <3>2, Zenon
      <4>. QED  BY <4>1, <4>2, <2>2
    <3>. QED  BY <3>1, <3>2
  <2>. QED  BY <2>1, <2>3
<1>7. F = Body(F)  BY <1>6, Zenon DEF MemF
<1>. HIDE DEF F
<1>8. /\ F[0] = <<>>
      /\ \A i \in 1..L : F[i] = Step(F[i - 1], i)
  <2>1. F[0] = <<>>  BY <1>7
  <2>2. \A i \in 1..L : F[i] = Step(F[i - 1], i)
    <3> TAKE i \in 1..L
    <3>1. i # 0 /\ i \in 0..L  OBVIOUS
    <3>2. Body(F)[i] = Step(F[i - 1], i)  BY <3>1, Zenon
    <3>. QED  BY <3>2, <1>7
  <2>. QED  BY <2>1, <2>2
<1>9. \A i \in 0..L : F[i] \in Seq(Hotspot)
  <2>1. L \in Nat  OBVIOUS
  <2>2. F[0] \in Seq(Hotspot)  BY <1>8
  <2>3. \A i \in 1..L : F[i - 1] \in Seq(Hotspot) => F[i] \in Seq(Hotspot)
    BY <1>2, <1>8, Zenon
  <2>. QED  BY <2>1, <2>2, <2>3, RecursionType, Zenon
<1>. QED  BY <1>1, <1>8, <1>9, Zenon DEF F

(* The list the categorisation loop builds for category c holds          *)
(* hotspots.                                                               *)
LEMMA MembersType ==
    ASSUME hotspots \in Seq(Hotspot), NEW c
    PROVE  Members(c) \in Seq(Hotspot)
BY MembersRec

(* The positions among the first i hotspots whose first applicable rule  *)
(* is c's.                                                                 *)
CatIdx(c, i) == {j \in 1..i : CategoryOf(hotspots[j]) = c}

(* e lists the positions S in increasing order, and s holds the hotspots  *)
(* at those positions.                                                     *)
Enumerates(e, s, S) ==
    /\ e \in [1..Len(s) -> S]
    /\ \A a, b \in 1..Len(s) : a < b => e[a] < e[b]
    /\ \A j \in S : \E k \in 1..Len(s) : e[k] = j
    /\ \A k \in 1..Len(s) : s[k] = hotspots[e[k]]

(* The list categorize_functions builds for c is the hotspots of c in     *)
(* report order, each once: it enumerates InCategory(c) in increasing      *)
(* order, and its length is the number of hotspots of c.                   *)
LEMMA MembersEnum ==
    ASSUME hotspots \in Seq(Hotspot), NEW c
    PROVE  /\ \E e : Enumerates(e, Members(c), InCategory(c))
           /\ IsFiniteSet(InCategory(c))
           /\ Len(Members(c)) = Cardinality(InCategory(c))
<1>. DEFINE L == Len(hotspots)
            F == MemF(c)
            Q(i) == /\ \E e : Enumerates(e, F[i], CatIdx(c, i))
                    /\ IsFiniteSet(CatIdx(c, i))
                    /\ Len(F[i]) = Cardinality(CatIdx(c, i))
            P == {i \in 0..L : Q(i)}
<1>1. /\ L \in Nat
      /\ Members(c) = F[L]
      /\ F[0] = <<>>
      /\ \A i \in 1..L : F[i] = IF CategoryOf(hotspots[i]) = c
                                THEN Append(F[i - 1], hotspots[i]) ELSE F[i - 1]
      /\ \A i \in 0..L : F[i] \in Seq(Hotspot)
  BY MembersRec
<1>. HIDE DEF F
<1>2. 0 \in P
  <2>1. CatIdx(c, 0) = {}  BY DEF CatIdx
  <2>2. Enumerates([k \in 1..0 |-> 0], F[0], {})  BY <1>1 DEF Enumerates
  <2>3. IsFiniteSet({}) /\ Cardinality({}) = 0  BY FS_EmptySet
  <2>4. Len(F[0]) = 0  BY <1>1
  <2>5. Q(0)  BY <2>1, <2>2, <2>3, <2>4, Zenon
  <2>. QED  BY <2>5, <1>1
<1>3. ASSUME NEW i \in 1..L, i - 1 \in P PROVE i \in P
  <2>1. PICK e : Enumerates(e, F[i - 1], CatIdx(c, i - 1))  BY <1>3
  <2>2. IsFiniteSet(CatIdx(c, i - 1)) /\ Len(F[i - 1]) = Cardinality(CatIdx(c, i - 1))
    BY <1>3
  <2>3. CatIdx(c, i - 1) \subseteq 1..(i - 1)  BY DEF CatIdx
  <2>. DEFINE n == Len(F[i - 1])
  <2>4. F[i - 1] \in Seq(Hotspot) /\ n \in Nat  BY <1>1
  <2>5. CASE CategoryOf(hotspots[i]) = c
    <3>1. F[i] = Append(F[i - 1], hotspots[i])  BY <1>1, <2>5
    <3>2. CatIdx(c, i) = CatIdx(c, i - 1) \cup {i}  BY <2>5 DEF CatIdx
    <3>3. i \notin CatIdx(c, i - 1)  BY <2>3
    <3>4. Len(F[i]) = n + 1  BY <3>1, <2>4
    <3>. DEFINE e2 == [k \in 1..(n + 1) |-> IF k <= n THEN e[k] ELSE i]
    <3>5. Enumerates(e2, F[i], CatIdx(c, i))
      <4>1. e2 \in [1..Len(F[i]) -> CatIdx(c, i)]  BY <2>1, <2>4, <3>2, <3>4 DEF Enumerates
      <4>2. \A a, b \in 1..Len(F[i]) : a < b => e2[a] < e2[b]
        <5> TAKE a, b \in 1..Len(F[i])
        <5> HAVE a < b
        <5>1. \A k \in 1..n : e[k] \in 1..(i - 1)  BY <2>1, <2>3 DEF Enumerates
        <5>2. \A k, m \in 1..n : k < m => e[k] < e[m]  BY <2>1 DEF Enumerates
        <5>3. CASE b <= n  BY <2>4, <3>4, <5>2, <5>3
        <5>4. CASE b = n + 1  BY <2>4, <3>4, <5>1, <5>4
        <5>. QED  BY <2>4, <3>4, <5>3, <5>4
      <4>3. \A j \in CatIdx(c, i) : \E k \in 1..Len(F[i]) : e2[k] = j
        <5> TAKE j \in CatIdx(c, i)
        <5>1. CASE j = i
          <6>1. e2[n + 1] = j /\ n + 1 \in 1..Len(F[i])  BY <2>4, <3>4, <5>1
          <6>. QED  BY <6>1
        <5>2. CASE j # i
          <6>1. j \in CatIdx(c, i - 1)  BY <3>2, <5>2
          <6>2. PICK k \in 1..n : e[k] = j  BY <2>1, <6>1 DEF Enumerates
          <6>3. e2[k] = j /\ k \in 1..Len(F[i])  BY <2>4, <3>4, <6>2
          <6>. QED  BY <6>3
        <5>. QED  BY <5>1, <5>2
      <4>4. \A k \in 1..Len(F[i]) : F[i][k] = hotspots[e2[k]]
        BY <2>1, <2>4, <3>1, <3>4 DEF Enumerates
      <4>. QED  BY <4>1, <4>2, <4>3, <4>4 DEF Enumerates
    <3>6. IsFiniteSet(CatIdx(c, i)) /\ Cardinality(CatIdx(c, i)) = Cardinality(CatIdx(c, i - 1)) + 1
      BY <2>2, <3>2, <3>3, FS_AddElement
    <3>. QED  BY <2>2, <3>4, <3>5, <3>6
  <2>6. CASE CategoryOf(hotspots[i]) # c
    <3>1. F[i] = F[i - 1]  BY <1>1, <2>6
    <3>2. CatIdx(c, i) = CatIdx(c, i - 1)  BY <2>6 DEF CatIdx
    <3>. QED  BY <2>1, <2>2, <3>1, <3>2
  <2>. QED  BY <2>5, <2>6
<1>4. L \in P
  <2>1. P \in SUBSET (0..L) /\ \A i \in 1..L : i - 1 \in P => i \in P  BY <1>3
  <2>2. P = 0..L  BY <1>1, <1>2, <2>1, PrefixInduction, Zenon
  <2>. QED  BY <1>1, <2>2
<1>5. CatIdx(c, L) = InCategory(c)  BY DEF CatIdx, InCategory
<1>. QED  BY <1>1, <1>4, <1>5

(* max(funcs, key=children_percent) of a non-empty list is one of its     *)
(* hotspots: some position holds the greatest percentage, and a first one *)
(* does.                                                                   *)
LEMMA TopOfSpec ==
    ASSUME NEW s \in Seq(Hotspot), s # <<>>
    PROVE  \E k \in DOMAIN s :
              /\ TopOf(s) = s[k]
              /\ \A j \in DOMAIN s : s[j].children <= s[k].children
              /\ \A j \in 1..(k - 1) : s[j].children < s[k].children
<1>. DEFINE L == Len(s)
            IsMax(i) == \A j \in DOMAIN s : s[j].children <= s[i].children
            P == {n \in 0..L : n = 0 \/ \E i \in 1..n : \A j \in 1..n : s[j].children <= s[i].children}
<1>1. /\ L \in Nat \ {0} /\ DOMAIN s = 1..L
      /\ \A j \in DOMAIN s : s[j].children \in Nat
  BY HotspotChildren
(* A greatest percentage among the first n, by induction on n.            *)
<1>2. P = 0..L
  <2>1. ASSUME NEW n \in 1..L, n - 1 \in P PROVE n \in P
    <3>1. CASE n = 1  BY <3>1, <1>1
    <3>2. CASE n # 1
      <4>1. PICK i \in 1..(n - 1) : \A j \in 1..(n - 1) : s[j].children <= s[i].children
        BY <2>1, <3>2
      <4>2. s[i].children \in Nat /\ s[n].children \in Nat  BY HotspotChildren
      <4>0. n \in 0..L /\ i \in 1..n /\ n \in 1..n /\ \A j \in 1..n : j \in 1..(n - 1) \/ j = n
        BY <2>1, <1>1
      <4>3. CASE s[n].children <= s[i].children
        <5>1. \A j \in 1..n : s[j].children <= s[i].children  BY <4>0, <4>1, <4>3, Zenon
        <5>. QED  BY <4>0, <5>1, Zenon
      <4>4. CASE s[i].children < s[n].children
        <5>1. \A j \in 1..(n - 1) : s[j].children <= s[n].children
          <6> TAKE j \in 1..(n - 1)
          <6>1. s[j].children \in Nat /\ s[j].children <= s[i].children  BY <4>1, <2>1, <1>1
          <6>. QED  BY <6>1, <4>2, <4>4
        <5>3. s[n].children <= s[n].children  BY <4>2
        <5>2. \A j \in 1..n : s[j].children <= s[n].children  BY <4>0, <5>1, <5>3, Zenon
        <5>. QED  BY <4>0, <5>2, Zenon
      <4>5. s[n].children <= s[i].children \/ s[i].children < s[n].children  BY <4>2
      <4>. QED  BY <4>3, <4>4, <4>5, Zenon
    <3>. QED  BY <3>1, <3>2
  <2>2. P \in SUBSET (0..L) /\ 0 \in P /\ \A n \in 1..L : n - 1 \in P => n \in P  BY <2>1
  <2>. QED  BY <1>1, <2>2, PrefixInduction, Zenon
<1>3. {i \in DOMAIN s : IsMax(i)} # {}
  <2>1. L \in P /\ L # 0  BY <1>1, <1>2
  <2>2. PICK i \in 1..L : \A j \in 1..L : s[j].children <= s[i].children  BY <2>1
  <2>. QED  BY <2>2, <1>1
(* The first position with the greatest percentage.                       *)
<1>4. PICK i0 \in {i \in DOMAIN s : IsMax(i)} : \A x \in {i \in DOMAIN s : IsMax(i)} : i0 <= x
  <2>1. {i \in DOMAIN s : IsMax(i)} \in SUBSET Nat  BY <1>1
  <2>. QED  BY <1>3, <2>1, NatMinExists, Zenon
<1>5. \A j \in 1..(i0 - 1) : s[j].children < s[i0].children
  <2>1. SUFFICES ASSUME NEW j \in 1..(i0 - 1) PROVE s[j].children < s[i0].children  OBVIOUS
  <2>2. j \in DOMAIN s /\ ~IsMax(j)  BY <1>1, <1>4
  <2>3. s[j].children <= s[i0].children  BY <1>4, <2>2
  <2>4. s[j].children # s[i0].children  BY <1>4, <2>2
  <2>5. s[j].children \in Nat /\ s[i0].children \in Nat  BY <1>1, <1>4, <2>2
  <2>. QED  BY <2>3, <2>4, <2>5
<1>6. \E i \in DOMAIN s : IsMax(i) /\ \A j \in 1..(i - 1) : s[j].children < s[i].children
  BY <1>4, <1>5
<1>7. PICK k \in DOMAIN s : TopOf(s) = s[k] /\ IsMax(k) /\ \A j \in 1..(k - 1) : s[j].children < s[k].children
  BY <1>6, Zenon DEF TopOf
<1>. QED  BY <1>7

(* max() of a non-empty list of hotspots is a hotspot.                    *)
LEMMA TopOfType ==
    ASSUME NEW s \in Seq(Hotspot), s # <<>>
    PROVE  TopOf(s) \in Hotspot
BY TopOfSpec

-----------------------------------------------------------------------------
(* The summary of generate_summary_report.                                 *)

(* The category_stats dict of lines 212-224 is keyed by categories and    *)
(* each entry holds a count, a total and a max that are whole numbers and *)
(* a top function that is one of the hotspots.                             *)
LEMMA CategoryStatsType ==
    ASSUME hotspots \in Seq(Hotspot)
    PROVE  /\ DOMAIN CategoryStats \subseteq Category
           /\ \A c \in DOMAIN CategoryStats : CategoryStats[c] \in Stats
<1>1. DOMAIN CategoryStats \subseteq Category  BY DEF CategoryStats
<1>2. ASSUME NEW c \in DOMAIN CategoryStats PROVE CategoryStats[c] \in Stats
  <2>1. Members(c) \in Seq(Hotspot) /\ Members(c) # <<>>  BY MembersType DEF CategoryStats
  <2>2. Len(Members(c)) \in Nat  BY <2>1
  <2>3. SumChildren(Members(c)) \in Nat  BY <2>1, SumChildrenNat
  <2>4. TopOf(Members(c)) \in Hotspot  BY <2>1, TopOfType
  <2>5. TopOf(Members(c)).children \in Nat  BY <2>4, HotspotChildren
  <2>. QED  BY <2>2, <2>3, <2>4, <2>5 DEF CategoryStats, Stats
<1>. QED  BY <1>1, <1>2

(* The report written by WriteSummary is well formed: the stats above,    *)
(* the first hotspot as top function, insights among the five messages of *)
(* _generate_insights and a modification time as timestamp.                *)
LEMMA SummaryType ==
    ASSUME hotspots \in Seq(Hotspot), hotspots # <<>>, NEW t \in Nat
    PROVE  ReportOK([stats     |-> CategoryStats,
                     top       |-> hotspots[1],
                     insights  |-> Insights(CategoryStats),
                     timestamp |-> t])
<1>1. hotspots[1] \in Hotspot  OBVIOUS
<1>2. Insights(CategoryStats) \subseteq {"network", "syscall", "webrtc_low", "webrtc_high", "video"}
  BY DEF Insights
<1>. QED  BY <1>1, <1>2, CategoryStatsType DEF ReportOK

(* A category's list is empty exactly when no hotspot is in it, so       *)
(* category_stats lists the categories with hotspots (the 'if funcs:'     *)
(* test of line 213).                                                      *)
LEMMA MembersNonEmpty ==
    ASSUME hotspots \in Seq(Hotspot), NEW c
    PROVE  Members(c) # <<>> <=> InCategory(c) # {}
<1>1. PICK e : Enumerates(e, Members(c), InCategory(c))  BY MembersEnum
<1>2. Members(c) \in Seq(Hotspot)  BY MembersType
<1>3. ASSUME Members(c) # <<>> PROVE InCategory(c) # {}
  <2>1. 1 \in 1..Len(Members(c))  BY <1>2, <1>3
  <2>. QED  BY <1>1, <2>1 DEF Enumerates
<1>4. ASSUME InCategory(c) # {} PROVE Members(c) # <<>>
  <2>1. PICK j \in InCategory(c) : TRUE  BY <1>4
  <2>2. PICK k \in 1..Len(Members(c)) : e[k] = j  BY <1>1, <2>1 DEF Enumerates
  <2>. QED  BY <1>2, <2>2
<1>. QED  BY <1>3, <1>4

(* category_stats meets the breakdown contract: over the hotspots of each *)
(* category, in report order, len() counts them, and max() returns the    *)
(* first of greatest children percentage.                                  *)
LEMMA StatsBreakdown ==
    ASSUME hotspots \in Seq(Hotspot)
    PROVE  BreakdownOf(CategoryStats)
<1>1. DOMAIN CategoryStats = {c \in Category : InCategory(c) # {}}
  <2>1. \A c \in Category : Members(c) # <<>> <=> InCategory(c) # {}  BY MembersNonEmpty
  <2>. QED  BY <2>1 DEF CategoryStats
<1>2. ASSUME NEW c \in DOMAIN CategoryStats
      PROVE  /\ CategoryStats[c].count = Cardinality(InCategory(c))
             /\ \A i \in InCategory(c) : hotspots[i].children <= CategoryStats[c].max
             /\ \E i \in InCategory(c) :
                   /\ hotspots[i] = CategoryStats[c].top
                   /\ CategoryStats[c].top.children = CategoryStats[c].max
                   /\ \A j \in InCategory(c) :
                         j < i => hotspots[j].children < CategoryStats[c].max
  <2>. DEFINE M == Members(c)
              I == InCategory(c)
  <2>1. /\ M \in Seq(Hotspot) /\ M # <<>>
        /\ CategoryStats[c].count = Len(M)
        /\ CategoryStats[c].max = TopOf(M).children
        /\ CategoryStats[c].top = TopOf(M)
    BY MembersType DEF CategoryStats
  <2>2. PICK e : Enumerates(e, M, I)  BY MembersEnum
  <2>3. Len(M) = Cardinality(I)  BY MembersEnum
  <2>4. PICK k \in DOMAIN M :
          /\ TopOf(M) = M[k]
          /\ \A j \in DOMAIN M : M[j].children <= M[k].children
          /\ \A j \in 1..(k - 1) : M[j].children < M[k].children
    BY <2>1, TopOfSpec
  <2>5. /\ DOMAIN M = 1..Len(M)
        /\ e \in [1..Len(M) -> I]
        /\ \A a, b \in 1..Len(M) : a < b => e[a] < e[b]
        /\ \A j \in I : \E m \in 1..Len(M) : e[m] = j
        /\ \A m \in 1..Len(M) : M[m] = hotspots[e[m]]
    BY <2>1, <2>2 DEF Enumerates
  <2>6. \A i \in I : hotspots[i].children <= TopOf(M).children
    <3> TAKE i \in I
    <3>1. PICK m \in 1..Len(M) : e[m] = i  BY <2>5
    <3>. QED  BY <2>4, <2>5, <3>1
  <2>7. \E i \in I :
          /\ hotspots[i] = TopOf(M)
          /\ TopOf(M).children = TopOf(M).children
          /\ \A j \in I : j < i => hotspots[j].children < TopOf(M).children
    <3>1. e[k] \in I /\ hotspots[e[k]] = TopOf(M)  BY <2>4, <2>5
    <3>2. ASSUME NEW j \in I, j < e[k] PROVE hotspots[j].children < TopOf(M).children
      <4>1. PICK m \in 1..Len(M) : e[m] = j  BY <2>5
      <4>2. m < k
        <5>1. k \in 1..Len(M) /\ (m = k \/ k < m \/ m < k)  BY <2>5
        <5>0. e[k] \in Nat /\ j \in Nat  BY <2>5 DEF InCategory
        <5>2. ~(m = k)  BY <3>2, <4>1, <5>0
        <5>3. ~(k < m)
          <6>1. k < m => e[k] < e[m]  BY <2>5, <5>1
          <6>. QED  BY <3>2, <4>1, <5>0, <6>1
        <5>. QED  BY <5>1, <5>2, <5>3
      <4>3. m \in 1..(k - 1)  BY <4>2
      <4>. QED  BY <2>4, <2>5, <4>1, <4>3
    <3>. QED  BY <3>1, <3>2
  <2>. QED  BY <2>1, <2>3, <2>6, <2>7
<1>. QED  BY <1>1, <1>2 DEF BreakdownOf

(* The first rule that applies always names one of the eight categories. *)
LEMMA CategoryOfType ==
    ASSUME NEW h
    PROVE  CategoryOf(h) \in Category
BY DEF CategoryOf, Category

(* The eight categories of categorize_functions (lines 82-91), by name. *)
CNet == "Network I/O"
CSys == "System Calls"
CWebRTC == "WebRTC Core"
CVideo == "Video Processing"
CAudio == "Audio Processing"
CMem == "Memory Management"
CThread == "Threading"
COther == "Other"

(* The categories are these eight, and they are distinct.                 *)
LEMMA CategoryNames ==
    /\ Category = {CNet, CSys, CWebRTC, CVideo, CAudio, CMem, CThread, COther}
    /\ CNet # CSys /\ CNet # CWebRTC /\ CNet # CVideo /\ CNet # CAudio
    /\ CNet # CMem /\ CNet # CThread /\ CNet # COther
    /\ CSys # CWebRTC /\ CSys # CVideo /\ CSys # CAudio /\ CSys # CMem
    /\ CSys # CThread /\ CSys # COther
    /\ CWebRTC # CVideo /\ CWebRTC # CAudio /\ CWebRTC # CMem
    /\ CWebRTC # CThread /\ CWebRTC # COther
    /\ CVideo # CAudio /\ CVideo # CMem /\ CVideo # CThread /\ CVideo # COther
    /\ CAudio # CMem /\ CAudio # CThread /\ CAudio # COther
    /\ CMem # CThread /\ CMem # COther
    /\ CThread # COther
BY Zenon DEF Category, CNet, CSys, CWebRTC, CVideo, CAudio, CMem, CThread, COther

(* The sum over the list of category c after the first i hotspots, and   *)
(* these sums added over the eight categories.                             *)
CatSum(c, i) == SumChildren(MemF(c)[i])

AllCatSums(i) ==
    CatSum(CNet, i) + CatSum(CSys, i) + CatSum(CWebRTC, i) + CatSum(CVideo, i)
    + CatSum(CAudio, i) + CatSum(CMem, i) + CatSum(CThread, i) + CatSum(COther, i)

(* When one hotspot is appended to the list of one category, the sum     *)
(* over the eight lists grows by its percentage.                           *)
LEMMA AllCatSumsStep ==
    ASSUME NEW i, NEW d \in Nat,
           CatSum(CNet, i - 1) \in Nat,
           CatSum(CSys, i - 1) \in Nat,
           CatSum(CWebRTC, i - 1) \in Nat,
           CatSum(CVideo, i - 1) \in Nat,
           CatSum(CAudio, i - 1) \in Nat,
           CatSum(CMem, i - 1) \in Nat,
           CatSum(CThread, i - 1) \in Nat,
           CatSum(COther, i - 1) \in Nat,
           \/ /\ CatSum(CNet, i) = CatSum(CNet, i - 1) + d
              /\ CatSum(CSys, i) = CatSum(CSys, i - 1) + 0
              /\ CatSum(CWebRTC, i) = CatSum(CWebRTC, i - 1) + 0
              /\ CatSum(CVideo, i) = CatSum(CVideo, i - 1) + 0
              /\ CatSum(CAudio, i) = CatSum(CAudio, i - 1) + 0
              /\ CatSum(CMem, i) = CatSum(CMem, i - 1) + 0
              /\ CatSum(CThread, i) = CatSum(CThread, i - 1) + 0
              /\ CatSum(COther, i) = CatSum(COther, i - 1) + 0
           \/ /\ CatSum(CNet, i) = CatSum(CNet, i - 1) + 0
              /\ CatSum(CSys, i) = CatSum(CSys, i - 1) + d
              /\ CatSum(CWebRTC, i) = CatSum(CWebRTC, i - 1) + 0
              /\ CatSum(CVideo, i) = CatSum(CVideo, i - 1) + 0
              /\ CatSum(CAudio, i) = CatSum(CAudio, i - 1) + 0
              /\ CatSum(CMem, i) = CatSum(CMem, i - 1) + 0
              /\ CatSum(CThread, i) = CatSum(CThread, i - 1) + 0
              /\ CatSum(COther, i) = CatSum(COther, i - 1) + 0
           \/ /\ CatSum(CNet, i) = CatSum(CNet, i - 1) + 0
              /\ CatSum(CSys, i) = CatSum(CSys, i - 1) + 0
              /\ CatSum(CWebRTC, i) = CatSum(CWebRTC, i - 1) + d
              /\ CatSum(CVideo, i) = CatSum(CVideo, i - 1) + 0
              /\ CatSum(CAudio, i) = CatSum(CAudio, i - 1) + 0
              /\ CatSum(CMem, i) = CatSum(CMem, i - 1) + 0
              /\ CatSum(CThread, i) = CatSum(CThread, i - 1) + 0
              /\ CatSum(COther, i) = CatSum(COther, i - 1) + 0
           \/ /\ CatSum(CNet, i) = CatSum(CNet, i - 1) + 0
              /\ CatSum(CSys, i) = CatSum(CSys, i - 1) + 0
              /\ CatSum(CWebRTC, i) = CatSum(CWebRTC, i - 1) + 0
              /\ CatSum(CVideo, i) = CatSum(CVideo, i - 1) + d
              /\ CatSum(CAudio, i) = CatSum(CAudio, i - 1) + 0
              /\ CatSum(CMem, i) = CatSum(CMem, i - 1) + 0
              /\ CatSum(CThread, i) = CatSum(CThread, i - 1) + 0
              /\ CatSum(COther, i) = CatSum(COther, i - 1) + 0
           \/ /\ CatSum(CNet, i) = CatSum(CNet, i - 1) + 0
              /\ CatSum(CSys, i) = CatSum(CSys, i - 1) + 0
              /\ CatSum(CWebRTC, i) = CatSum(CWebRTC, i - 1) + 0
              /\ CatSum(CVideo, i) = CatSum(CVideo, i - 1) + 0
              /\ CatSum(CAudio, i) = CatSum(CAudio, i - 1) + d
              /\ CatSum(CMem, i) = CatSum(CMem, i - 1) + 0
              /\ CatSum(CThread, i) = CatSum(CThread, i - 1) + 0
              /\ CatSum(COther, i) = CatSum(COther, i - 1) + 0
           \/ /\ CatSum(CNet, i) = CatSum(CNet, i - 1) + 0
              /\ CatSum(CSys, i) = CatSum(CSys, i - 1) + 0
              /\ CatSum(CWebRTC, i) = CatSum(CWebRTC, i - 1) + 0
              /\ CatSum(CVideo, i) = CatSum(CVideo, i - 1) + 0
              /\ CatSum(CAudio, i) = CatSum(CAudio, i - 1) + 0
              /\ CatSum(CMem, i) = CatSum(CMem, i - 1) + d
              /\ CatSum(CThread, i) = CatSum(CThread, i - 1) + 0
              /\ CatSum(COther, i) = CatSum(COther, i - 1) + 0
           \/ /\ CatSum(CNet, i) = CatSum(CNet, i - 1) + 0
              /\ CatSum(CSys, i) = CatSum(CSys, i - 1) + 0
              /\ CatSum(CWebRTC, i) = CatSum(CWebRTC, i - 1) + 0
              /\ CatSum(CVideo, i) = CatSum(CVideo, i - 1) + 0
              /\ CatSum(CAudio, i) = CatSum(CAudio, i - 1) + 0
              /\ CatSum(CMem, i) = CatSum(CMem, i - 1) + 0
              /\ CatSum(CThread, i) = CatSum(CThread, i - 1) + d
              /\ CatSum(COther, i) = CatSum(COther, i - 1) + 0
           \/ /\ CatSum(CNet, i) = CatSum(CNet, i - 1) + 0
              /\ CatSum(CSys, i) = CatSum(CSys, i - 1) + 0
              /\ CatSum(CWebRTC, i) = CatSum(CWebRTC, i - 1) + 0
              /\ CatSum(CVideo, i) = CatSum(CVideo, i - 1) + 0
              /\ CatSum(CAudio, i) = CatSum(CAudio, i - 1) + 0
              /\ CatSum(CMem, i) = CatSum(CMem, i - 1) + 0
              /\ CatSum(CThread, i) = CatSum(CThread, i - 1) + 0
              /\ CatSum(COther, i) = CatSum(COther, i - 1) + d
    PROVE  AllCatSums(i) = AllCatSums(i - 1) + d
BY DEF AllCatSums

(* The list of a category holds its hotspots' percentages once each: the *)
(* sums of the eight lists add up to the sum over all hotspots, because   *)
(* each hotspot is appended to the list of exactly one category.          *)
LEMMA TotalsPartition ==
    ASSUME hotspots \in Seq(Hotspot)
    PROVE  LET T(c) == TotalOf(CategoryStats, c)
           IN  SumChildren(hotspots) =
                  T("Network I/O") + T("System Calls") + T("WebRTC Core")
                  + T("Video Processing") + T("Audio Processing")
                  + T("Memory Management") + T("Threading") + T("Other")
<1>. DEFINE L == Len(hotspots)
            P == {i \in 0..L : AllCatSums(i) = SumF(hotspots)[i]}
<1>1. /\ L \in Nat
      /\ SumChildren(hotspots) = SumF(hotspots)[L] /\ SumF(hotspots)[0] = 0
      /\ \A i \in 1..L : SumF(hotspots)[i] = SumF(hotspots)[i - 1] + hotspots[i].children
  BY SumChildrenRec
(* A category's total is the sum over its list, 0 when it has none.       *)
<1>2. \A c \in Category : TotalOf(CategoryStats, c) = CatSum(c, L)
  <2> TAKE c \in Category
  <2>1. Members(c) = MemF(c)[L]  BY MembersRec
  <2>2. CASE Members(c) # <<>>
    BY <2>1, <2>2 DEF TotalOf, CategoryStats, CatSum
  <2>3. CASE Members(c) = <<>>
    <3>1. c \notin DOMAIN CategoryStats  BY <2>3 DEF CategoryStats
    <3>. QED  BY <2>1, <2>3, <3>1, SumChildrenEmpty DEF TotalOf, CatSum
  <2>. QED  BY <2>2, <2>3
<1>3. 0 \in P
  <2>1. \A c \in Category : CatSum(c, 0) = 0  BY MembersRec, SumChildrenEmpty DEF CatSum
  <2>2. AllCatSums(0) = 0
    <3>1.
          /\ CatSum(CNet, 0) = 0
          /\ CatSum(CSys, 0) = 0
          /\ CatSum(CWebRTC, 0) = 0
          /\ CatSum(CVideo, 0) = 0
          /\ CatSum(CAudio, 0) = 0
          /\ CatSum(CMem, 0) = 0
          /\ CatSum(CThread, 0) = 0
          /\ CatSum(COther, 0) = 0
      BY <2>1, CategoryNames, Zenon
    <3>. QED  BY <3>1 DEF AllCatSums
  <2>. QED  BY <1>1, <2>2
<1>4. ASSUME NEW i \in 1..L, i - 1 \in P PROVE i \in P
  <2>. DEFINE h == hotspots[i]
  <2>1. h \in Hotspot /\ h.children \in Nat /\ CategoryOf(h) \in Category
    BY HotspotChildren, CategoryOfType
  <2>2. \A c \in Category :
          /\ CatSum(c, i - 1) \in Nat
          /\ CatSum(c, i) = CatSum(c, i - 1) + (IF CategoryOf(h) = c THEN h.children ELSE 0)
    <3> TAKE c \in Category
    <3>1. /\ MemF(c)[i - 1] \in Seq(Hotspot)
          /\ MemF(c)[i] = IF CategoryOf(h) = c THEN Append(MemF(c)[i - 1], h)
                          ELSE MemF(c)[i - 1]
      BY MembersRec
    <3>2. CatSum(c, i - 1) \in Nat  BY <3>1, SumChildrenNat DEF CatSum
    <3>3. CASE CategoryOf(h) = c  BY <2>1, <3>1, <3>2, <3>3, SumChildrenAppend DEF CatSum
    <3>4. CASE CategoryOf(h) # c  BY <3>1, <3>2, <3>4 DEF CatSum
    <3>. QED  BY <3>3, <3>4
  <2>3. AllCatSums(i - 1) = SumF(hotspots)[i - 1]  BY <1>4
  <2>4. AllCatSums(i) = AllCatSums(i - 1) + h.children
    <3>1. CategoryOf(h) \in Category  BY <2>1
    <3>0.
          /\ CatSum(CNet, i - 1) \in Nat
          /\ CatSum(CSys, i - 1) \in Nat
          /\ CatSum(CWebRTC, i - 1) \in Nat
          /\ CatSum(CVideo, i - 1) \in Nat
          /\ CatSum(CAudio, i - 1) \in Nat
          /\ CatSum(CMem, i - 1) \in Nat
          /\ CatSum(CThread, i - 1) \in Nat
          /\ CatSum(COther, i - 1) \in Nat
      BY <2>2, CategoryNames, Zenon
    <3>20. h.children \in Nat  BY <2>1
    <3>2.
          /\ CatSum(CNet, i - 1) \in Nat /\ CatSum(CNet, i) = CatSum(CNet, i - 1) + (IF CategoryOf(h) = CNet THEN h.children ELSE 0)
          /\ CatSum(CSys, i - 1) \in Nat /\ CatSum(CSys, i) = CatSum(CSys, i - 1) + (IF CategoryOf(h) = CSys THEN h.children ELSE 0)
          /\ CatSum(CWebRTC, i - 1) \in Nat /\ CatSum(CWebRTC, i) = CatSum(CWebRTC, i - 1) + (IF CategoryOf(h) = CWebRTC THEN h.children ELSE 0)
          /\ CatSum(CVideo, i - 1) \in Nat /\ CatSum(CVideo, i) = CatSum(CVideo, i - 1) + (IF CategoryOf(h) = CVideo THEN h.children ELSE 0)
          /\ CatSum(CAudio, i - 1) \in Nat /\ CatSum(CAudio, i) = CatSum(CAudio, i - 1) + (IF CategoryOf(h) = CAudio THEN h.children ELSE 0)
          /\ CatSum(CMem, i - 1) \in Nat /\ CatSum(CMem, i) = CatSum(CMem, i - 1) + (IF CategoryOf(h) = CMem THEN h.children ELSE 0)
          /\ CatSum(CThread, i - 1) \in Nat /\ CatSum(CThread, i) = CatSum(CThread, i - 1) + (IF CategoryOf(h) = CThread THEN h.children ELSE 0)
          /\ CatSum(COther, i - 1) \in Nat /\ CatSum(COther, i) = CatSum(COther, i - 1) + (IF CategoryOf(h) = COther THEN h.children ELSE 0)
      BY <2>2, CategoryNames, Zenon
    <3>3. CASE CategoryOf(h) = CNet
      <4>1.
            /\ CatSum(CNet, i) = CatSum(CNet, i - 1) + h.children
            /\ CatSum(CSys, i) = CatSum(CSys, i - 1) + 0
            /\ CatSum(CWebRTC, i) = CatSum(CWebRTC, i - 1) + 0
            /\ CatSum(CVideo, i) = CatSum(CVideo, i - 1) + 0
            /\ CatSum(CAudio, i) = CatSum(CAudio, i - 1) + 0
            /\ CatSum(CMem, i) = CatSum(CMem, i - 1) + 0
            /\ CatSum(CThread, i) = CatSum(CThread, i - 1) + 0
            /\ CatSum(COther, i) = CatSum(COther, i - 1) + 0
        BY <3>2, <3>3, CategoryNames, Zenon
      <4>. QED  BY <3>0, <3>20, <4>1, AllCatSumsStep
    <3>4. CASE CategoryOf(h) = CSys
      <4>1.
            /\ CatSum(CNet, i) = CatSum(CNet, i - 1) + 0
            /\ CatSum(CSys, i) = CatSum(CSys, i - 1) + h.children
            /\ CatSum(CWebRTC, i) = CatSum(CWebRTC, i - 1) + 0
            /\ CatSum(CVideo, i) = CatSum(CVideo, i - 1) + 0
            /\ CatSum(CAudio, i) = CatSum(CAudio, i - 1) + 0
            /\ CatSum(CMem, i) = CatSum(CMem, i - 1) + 0
            /\ CatSum(CThread, i) = CatSum(CThread, i - 1) + 0
            /\ CatSum(COther, i) = CatSum(COther, i - 1) + 0
        BY <3>2, <3>4, CategoryNames, Zenon
      <4>. QED  BY <3>0, <3>20, <4>1, AllCatSumsStep
    <3>5. CASE CategoryOf(h) = CWebRTC
      <4>1.
            /\ CatSum(CNet, i) = CatSum(CNet, i - 1) + 0
            /\ CatSum(CSys, i) = CatSum(CSys, i - 1) + 0
            /\ CatSum(CWebRTC, i) = CatSum(CWebRTC, i - 1) + h.children
            /\ CatSum(CVideo, i) = CatSum(CVideo, i - 1) + 0
            /\ CatSum(CAudio, i) = CatSum(CAudio, i - 1) + 0
            /\ CatSum(CMem, i) = CatSum(CMem, i - 1) + 0
            /\ CatSum(CThread, i) = CatSum(CThread, i - 1) + 0
            /\ CatSum(COther, i) = CatSum(COther, i - 1) + 0
        BY <3>2, <3>5, CategoryNames, Zenon
      <4>. QED  BY <3>0, <3>20, <4>1, AllCatSumsStep
    <3>6. CASE CategoryOf(h) = CVideo
      <4>1.
            /\ CatSum(CNet, i) = CatSum(CNet, i - 1) + 0
            /\ CatSum(CSys, i) = CatSum(CSys, i - 1) + 0
            /\ CatSum(CWebRTC, i) = CatSum(CWebRTC, i - 1) + 0
            /\ CatSum(CVideo, i) = CatSum(CVideo, i - 1) + h.children
            /\ CatSum(CAudio, i) = CatSum(CAudio, i - 1) + 0
            /\ CatSum(CMem, i) = CatSum(CMem, i - 1) + 0
            /\ CatSum(CThread, i) = CatSum(CThread, i - 1) + 0
            /\ CatSum(COther, i) = CatSum(COther, i - 1) + 0
        BY <3>2, <3>6, CategoryNames, Zenon
      <4>. QED  BY <3>0, <3>20, <4>1, AllCatSumsStep
    <3>7. CASE CategoryOf(h) = CAudio
      <4>1.
            /\ CatSum(CNet, i) = CatSum(CNet, i - 1) + 0
            /\ CatSum(CSys, i) = CatSum(CSys, i - 1) + 0
            /\ CatSum(CWebRTC, i) = CatSum(CWebRTC, i - 1) + 0
            /\ CatSum(CVideo, i) = CatSum(CVideo, i - 1) + 0
            /\ CatSum(CAudio, i) = CatSum(CAudio, i - 1) + h.children
            /\ CatSum(CMem, i) = CatSum(CMem, i - 1) + 0
            /\ CatSum(CThread, i) = CatSum(CThread, i - 1) + 0
            /\ CatSum(COther, i) = CatSum(COther, i - 1) + 0
        BY <3>2, <3>7, CategoryNames, Zenon
      <4>. QED  BY <3>0, <3>20, <4>1, AllCatSumsStep
    <3>8. CASE CategoryOf(h) = CMem
      <4>1.
            /\ CatSum(CNet, i) = CatSum(CNet, i - 1) + 0
            /\ CatSum(CSys, i) = CatSum(CSys, i - 1) + 0
            /\ CatSum(CWebRTC, i) = CatSum(CWebRTC, i - 1) + 0
            /\ CatSum(CVideo, i) = CatSum(CVideo, i - 1) + 0
            /\ CatSum(CAudio, i) = CatSum(CAudio, i - 1) + 0
            /\ CatSum(CMem, i) = CatSum(CMem, i - 1) + h.children
            /\ CatSum(CThread, i) = CatSum(CThread, i - 1) + 0
            /\ CatSum(COther, i) = CatSum(COther, i - 1) + 0
        BY <3>2, <3>8, CategoryNames, Zenon
      <4>. QED  BY <3>0, <3>20, <4>1, AllCatSumsStep
    <3>9. CASE CategoryOf(h) = CThread
      <4>1.
            /\ CatSum(CNet, i) = CatSum(CNet, i - 1) + 0
            /\ CatSum(CSys, i) = CatSum(CSys, i - 1) + 0
            /\ CatSum(CWebRTC, i) = CatSum(CWebRTC, i - 1) + 0
            /\ CatSum(CVideo, i) = CatSum(CVideo, i - 1) + 0
            /\ CatSum(CAudio, i) = CatSum(CAudio, i - 1) + 0
            /\ CatSum(CMem, i) = CatSum(CMem, i - 1) + 0
            /\ CatSum(CThread, i) = CatSum(CThread, i - 1) + h.children
            /\ CatSum(COther, i) = CatSum(COther, i - 1) + 0
        BY <3>2, <3>9, CategoryNames, Zenon
      <4>. QED  BY <3>0, <3>20, <4>1, AllCatSumsStep
    <3>10. CASE CategoryOf(h) = COther
      <4>1.
            /\ CatSum(CNet, i) = CatSum(CNet, i - 1) + 0
            /\ CatSum(CSys, i) = CatSum(CSys, i - 1) + 0
            /\ CatSum(CWebRTC, i) = CatSum(CWebRTC, i - 1) + 0
            /\ CatSum(CVideo, i) = CatSum(CVideo, i - 1) + 0
            /\ CatSum(CAudio, i) = CatSum(CAudio, i - 1) + 0
            /\ CatSum(CMem, i) = CatSum(CMem, i - 1) + 0
            /\ CatSum(CThread, i) = CatSum(CThread, i - 1) + 0
            /\ CatSum(COther, i) = CatSum(COther, i - 1) + h.children
        BY <3>2, <3>10, CategoryNames, Zenon
      <4>. QED  BY <3>0, <3>20, <4>1, AllCatSumsStep
    <3>. QED  BY <3>1, <3>3, <3>4, <3>5, <3>6, <3>7, <3>8, <3>9, <3>10, CategoryNames, Zenon
  <2>. QED  BY <1>1, <2>3, <2>4
<1>5. L \in P
  <2>1. P \in SUBSET (0..L) /\ \A i \in 1..L : i - 1 \in P => i \in P  BY <1>4
  <2>2. P = 0..L  BY <1>1, <1>3, <2>1, PrefixInduction, Zenon
  <2>. QED  BY <1>1, <2>2
<1>6.
      /\ TotalOf(CategoryStats, CNet) = CatSum(CNet, L)
      /\ TotalOf(CategoryStats, CSys) = CatSum(CSys, L)
      /\ TotalOf(CategoryStats, CWebRTC) = CatSum(CWebRTC, L)
      /\ TotalOf(CategoryStats, CVideo) = CatSum(CVideo, L)
      /\ TotalOf(CategoryStats, CAudio) = CatSum(CAudio, L)
      /\ TotalOf(CategoryStats, CMem) = CatSum(CMem, L)
      /\ TotalOf(CategoryStats, CThread) = CatSum(CThread, L)
      /\ TotalOf(CategoryStats, COther) = CatSum(COther, L)
  BY <1>2, CategoryNames, Zenon
<1>7. SumChildren(hotspots) =
        TotalOf(CategoryStats, CNet) + TotalOf(CategoryStats, CSys)
        + TotalOf(CategoryStats, CWebRTC) + TotalOf(CategoryStats, CVideo)
        + TotalOf(CategoryStats, CAudio) + TotalOf(CategoryStats, CMem)
        + TotalOf(CategoryStats, CThread) + TotalOf(CategoryStats, COther)
  BY <1>1, <1>5, <1>6 DEF AllCatSums
<1>. QED  BY <1>7, Zenon DEF CNet, CSys, CWebRTC, CVideo, CAudio, CMem, CThread, COther

(* The stats depend on the hotspots alone.                                 *)
LEMMA CategoryStatsUnchanged ==
    ASSUME hotspots' = hotspots
    PROVE  CategoryStats' = CategoryStats
BY DEF CategoryStats, Members

-----------------------------------------------------------------------------
(* Type correctness of the analyzer.                                       *)

(* TypeOK, strengthened by the fact that the analyzer only reaches the    *)
(* report phase with hotspots: main stops at lines 331-333 when the       *)
(* parser returned none, so cpu_hotspots[0] on line 240 exists.            *)
TInv ==
    /\ TypeOK
    /\ phase = "report" => hotspots # <<>>

LEMMA InitTInv == Init => TInv
<1>. SUFFICES ASSUME Init PROVE TInv  OBVIOUS
<1>1. phase \in Phase /\ phase # "report"  BY DEF Init, Phase
<1>2. setup \in FileSetups /\ analyzed \in Files \cup {None} /\ report = None  BY DEF Init
<1>3. lines \in Seq(ReportLines) /\ Len(lines) <= MaxLines  BY LimitAssumption DEF Init
<1>4. in_section \in BOOLEAN  BY Zenon DEF Init
<1>5. hotspots \in Seq(Hotspot)  BY DEF Init
<1>. QED  BY <1>1, <1>2, <1>3, <1>4, <1>5 DEF TInv, TypeOK

(* Each step of the analyzer keeps TInv.                                   *)
LEMMA NextTInv == TInv /\ [Next]_vars => TInv'
<1>. SUFFICES ASSUME TInv, [Next]_vars PROVE TInv'  OBVIOUS
<1>0. TypeOK /\ (phase = "report" => hotspots # <<>>)  BY DEF TInv
<1>1. CASE FindReport
  <2>1. PICK f \in Candidates(setup) : analyzed' = f  BY <1>1 DEF FindReport
  <2>2. setup \in FileSetups  BY <1>0 DEF TypeOK
  <2>3. f \in Files  BY <2>1, <2>2, FileSetupsAssumption DEF Candidates
  <2>. QED  BY <1>0, <1>1, <2>1, <2>3 DEF FindReport, TInv, TypeOK, Phase
<1>2. CASE NoReportFound
  BY <1>0, <1>2 DEF NoReportFound, TInv, TypeOK, Phase
<1>3. ASSUME NEW l \in ReportLines, ReadHeader(l) \/ ReadRow(l) \/ SkipLine(l)
      PROVE  TInv'
  <2>1. /\ phase = "parse" /\ Len(lines) < MaxLines /\ lines' = Append(lines, l)
        /\ UNCHANGED <<phase, setup, analyzed, report>>
        /\ in_section' \in BOOLEAN
    BY <1>0, <1>3 DEF ReadHeader, ReadRow, SkipLine, ReadLine, TypeOK
  <2>2. hotspots' \in Seq(Hotspot)
    <3>1. CASE ReadRow(l)
      <4>1. l.hs \in Hotspot  BY <3>1, ReportLinesAssumption DEF ReadRow
      <4>. QED  BY <1>0, <3>1, <4>1 DEF ReadRow, TypeOK
    <3>2. CASE ReadHeader(l) \/ SkipLine(l)
      BY <1>0, <3>2 DEF ReadHeader, SkipLine, TypeOK
    <3>. QED  BY <1>3, <3>1, <3>2
  <2>3. lines' \in Seq(ReportLines) /\ Len(lines') <= MaxLines
    BY <1>0, <2>1, LimitAssumption DEF TypeOK
  <2>. QED  BY <1>0, <2>1, <2>2, <2>3 DEF TInv, TypeOK
<1>4. CASE EndOfReport
  <2>1. Truncate(hotspots) \in Seq(Hotspot)
    <3>1. CASE Len(hotspots) <= HotspotLimit  BY <1>0, <3>1 DEF Truncate, TypeOK
    <3>2. CASE ~(Len(hotspots) <= HotspotLimit)
      <4>1. HotspotLimit \in 0..Len(hotspots)  BY <3>2, <1>0, LimitAssumption DEF TypeOK
      <4>. QED  BY <1>0, <3>2, <4>1 DEF Truncate, TypeOK
    <3>. QED  BY <3>1, <3>2
  <2>. QED  BY <1>0, <1>4, <2>1 DEF EndOfReport, TInv, TypeOK, Phase
<1>5. CASE WriteSummary
  <2>1. PICK f \in {g \in setup.present : setup.loc[g] = "top"} :
          report' = [stats     |-> CategoryStats,
                     top       |-> hotspots[1],
                     insights  |-> Insights(CategoryStats),
                     timestamp |-> setup.mtime[f]]
    BY <1>5 DEF WriteSummary
  <2>2. setup.mtime[f] \in Nat  BY <1>0, <2>1, FileSetupsAssumption DEF TypeOK
  <2>3. hotspots \in Seq(Hotspot) /\ hotspots # <<>>  BY <1>0, <1>5 DEF WriteSummary, TypeOK
  <2>4. ReportOK(report')  BY <2>1, <2>2, <2>3, SummaryType
  <2>. QED  BY <1>0, <1>5, <2>4 DEF WriteSummary, TInv, TypeOK, Phase
<1>6. CASE SummaryCrash
  BY <1>0, <1>6 DEF SummaryCrash, TInv, TypeOK, Phase
<1>7. CASE UNCHANGED vars
  BY <1>0, <1>7 DEF vars, TInv, TypeOK
<1>. QED  BY <1>1, <1>2, <1>3, <1>4, <1>5, <1>6, <1>7 DEF Next

(* Every state the analyzer reaches is well typed, and so is the summary  *)
(* generate_summary_report writes: the stats of each category it lists    *)
(* are a count, a total and a max in Nat and a hotspot as top function,   *)
(* and the analysis timestamp is a modification time.                      *)
THEOREM TypeCorrect == Spec => []TypeOK
<1>1. TInv => TypeOK  BY DEF TInv
<1>. QED  BY <1>1, InitTInv, NextTInv, PTL DEF Spec

-----------------------------------------------------------------------------
(* The category breakdown of the summary.                                  *)

(* TInv, and a summary is written only at the end of the run, from the    *)
(* hotspots the analyzer keeps: nothing changes them afterwards.          *)
BInv ==
    /\ TInv
    /\ report # None => phase = "done" /\ report.stats = CategoryStats

LEMMA InitBInv == Init => BInv
BY InitTInv DEF Init, BInv

LEMMA NextBInv == BInv /\ [Next]_vars => BInv'
<1>. SUFFICES ASSUME BInv, [Next]_vars PROVE BInv'  OBVIOUS
<1>1. TInv'  BY NextTInv DEF BInv
<1>2. CASE WriteSummary
  <2>1. PICK f \in {g \in setup.present : setup.loc[g] = "top"} :
          report' = [stats     |-> CategoryStats,
                     top       |-> hotspots[1],
                     insights  |-> Insights(CategoryStats),
                     timestamp |-> setup.mtime[f]]
    BY <1>2 DEF WriteSummary
  <2>2. phase' = "done" /\ hotspots' = hotspots  BY <1>2 DEF WriteSummary
  <2>3. CategoryStats' = CategoryStats  BY <2>2, CategoryStatsUnchanged
  <2>. QED  BY <1>1, <2>1, <2>2, <2>3 DEF BInv
<1>3. CASE ~WriteSummary
  <2>1. report' = report
    BY <1>3 DEF Next, FindReport, NoReportFound, ReadHeader, ReadRow, SkipLine, ReadLine,
                EndOfReport, SummaryCrash, vars
  <2>2. ASSUME report # None PROVE UNCHANGED vars
    <3>1. phase = "done"  BY <2>2 DEF BInv
    <3>. QED  BY <1>3, <3>1 DEF Next, FindReport, NoReportFound, ReadHeader, ReadRow,
                                  SkipLine, ReadLine, EndOfReport, SummaryCrash
  <2>3. ASSUME report # None PROVE CategoryStats' = CategoryStats
    <3>1. hotspots' = hotspots  BY <2>2, <2>3, Zenon DEF vars
    <3>. QED  BY <3>1, CategoryStatsUnchanged
  <2>. QED  BY <1>1, <2>1, <2>2, <2>3 DEF BInv, vars
<1>. QED  BY <1>2, <1>3

(* The summary's category breakdown is exact for every report: each      *)
(* category listed has hotspots and each category with hotspots is        *)
(* listed, its count is the number of its hotspots, and its max and top   *)
(* function are the greatest children percentage among them and the first *)
(* hotspot to reach it, because the first rule of categorize_functions    *)
(* that applies puts each hotspot in one list, in report order.           *)
THEOREM CategoryBreakdownCorrect == Spec => []CategoryBreakdownExact
<1>1. BInv => CategoryBreakdownExact
  <2>. SUFFICES ASSUME BInv, report # None PROVE BreakdownOf(report.stats)
    BY DEF CategoryBreakdownExact
  <2>1. hotspots \in Seq(Hotspot) /\ report.stats = CategoryStats  BY DEF BInv, TInv, TypeOK
  <2>. QED  BY <2>1, StatsBreakdown
<1>. QED  BY <1>1, InitBInv, NextBInv, PTL DEF Spec

(* The category totals of every summary partition the hotspots' children *)
(* percentages: summed over the eight categories they give the sum over  *)
(* all hotspots, so the elif chain of categorize_functions counts each    *)
(* hotspot in exactly one category.                                       *)
THEOREM CategoryTotalsCorrect == Spec => []CategoryTotalsPartition
<1>1. BInv => CategoryTotalsPartition
  <2>. SUFFICES ASSUME BInv, report # None
                PROVE  LET T(c) == TotalOf(report.stats, c)
                       IN  SumChildren(hotspots) =
                              T("Network I/O") + T("System Calls") + T("WebRTC Core")
                              + T("Video Processing") + T("Audio Processing")
                              + T("Memory Management") + T("Threading") + T("Other")
    BY DEF CategoryTotalsPartition
  <2>1. hotspots \in Seq(Hotspot) /\ report.stats = CategoryStats  BY DEF BInv, TInv, TypeOK
  <2>. QED  BY <2>1, TotalsPartition
<1>. QED  BY <1>1, InitBInv, NextBInv, PTL DEF Spec

=============================================================================
