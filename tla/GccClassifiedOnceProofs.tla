--------------------- MODULE GccClassifiedOnceProofs ------------------------
(***************************************************************************)
(* Proof that parse_log_file classifies every line once, by precedence    *)
(* (ClassifiedOnce), for every set of lines satisfying the line grammar   *)
(* and every bound on the length of the log.  ClassifiedOnce speaks of    *)
(* the pattern that applies to each line read so far, judged with the     *)
(* timestamp carried up to that line; the proof shows that this judgement *)
(* does not change as later lines are read, and that the code's branch    *)
(* for the line just read is the judgement for it.                         *)
(***************************************************************************)
EXTENDS GccClassificationProofs, WellFoundedInduction

-----------------------------------------------------------------------------
(* What a line's judgement depends on.                                     *)

(* A non-empty set of line numbers has a greatest element.                 *)
LEMMA MaxExists ==
    ASSUME NEW i \in Nat, NEW S \in SUBSET (1..i), S # {}
    PROVE  \E j \in S : \A m \in S : m <= j
<1>. DEFINE T == {i - j : j \in S}
<1>1. \A j \in S : i - j \in Nat  OBVIOUS
<1>2. PICK j0 \in S : TRUE  OBVIOUS
<1>3. T \subseteq Nat /\ T # {}  BY <1>1, <1>2
<1>4. PICK x \in T : \A y \in T : ~(<<y, x>> \in OpToRel(<, Nat))
  BY <1>3, NatLessThanWellFounded, WFMin
<1>5. \A y \in T : ~(y < x)  BY <1>3, <1>4 DEF OpToRel
<1>6. PICK j1 \in S : x = i - j1  OBVIOUS
<1>7. \A m \in S : m <= j1
  <2> TAKE m \in S
  <2>1. i - m \in T  OBVIOUS
  <2>. QED  BY <1>5, <1>6, <2>1
<1>. QED  BY <1>7

(* Among lines 1..i, if one has a timestamp, one has the last.             *)
LEMMA LastStampedExists ==
    ASSUME NEW i \in Nat, \E j \in 1..i : lines[j].ts # None
    PROVE  \E j \in 1..i : lines[j].ts # None /\ \A m \in (j + 1)..i : lines[m].ts = None
<1>. DEFINE S == {j \in 1..i : lines[j].ts # None}
<1>1. PICK j \in S : \A m \in S : m <= j  BY MaxExists
<1>. QED  BY <1>1

(* The carried timestamp of line i depends on lines 1..i only.            *)
LEMMA LatestTsStable ==
    ASSUME NEW i \in Nat, \A j \in 1..i : lines'[j] = lines[j]
    PROVE  LatestTs(i)' = LatestTs(i)
<1>. DEFINE P(j) == lines[j].ts # None /\ \A m \in (j + 1)..i : lines[m].ts = None
            Q(j) == lines'[j].ts # None /\ \A m \in (j + 1)..i : lines'[m].ts = None
<1>1. \A j \in 1..i : P(j) <=> Q(j)  OBVIOUS
<1>2. (CHOOSE j \in 1..i : P(j)) = (CHOOSE j \in 1..i : Q(j))  BY <1>1, Zenon
<1>3. (\E j \in 1..i : lines[j].ts # None) <=> (\E j \in 1..i : lines'[j].ts # None)
  OBVIOUS
<1>4. LatestTs(i)' = IF \E j \in 1..i : lines'[j].ts # None
                     THEN lines'[CHOOSE j \in 1..i : Q(j)].ts ELSE None
  BY DEF LatestTs
<1>5. LatestTs(i) = IF \E j \in 1..i : lines[j].ts # None
                    THEN lines[CHOOSE j \in 1..i : P(j)].ts ELSE None
  BY DEF LatestTs
<1>6. CASE \E j \in 1..i : lines[j].ts # None
  <2>1. \E j \in 1..i : P(j)  BY <1>6, LastStampedExists
  <2>2. (CHOOSE j \in 1..i : P(j)) \in 1..i  BY <2>1
  <2>. QED  BY <1>2, <1>3, <1>4, <1>5, <1>6, <2>2
<1>7. CASE ~\E j \in 1..i : lines[j].ts # None  BY <1>3, <1>4, <1>5, <1>7
<1>. QED  BY <1>6, <1>7

(* The judgement of line i depends on lines 1..i only.                    *)
LEMMA FirstApplyingStable ==
    ASSUME NEW i \in Nat \ {0}, \A j \in 1..i : lines'[j] = lines[j]
    PROVE  FirstApplying(i)' = FirstApplying(i)
<1>1. LatestTs(i)' = LatestTs(i)  BY LatestTsStable
<1>2. lines'[i] = lines[i]  OBVIOUS
<1>3. \A p : Applies(p, i)' <=> Applies(p, i)  BY <1>1, <1>2 DEF Applies
<1>. QED  BY <1>3 DEF FirstApplying

(* The judgement of the line just read is the contract's class of it.     *)
LEMMA FirstApplyingLast ==
    ASSUME TypeOK, NEW l \in Lines, ReadLine(l), NEW n, n = Len(lines')
    PROVE  FirstApplying(n)' = Contract!Classes(lines')
<1>1. lines' \in Seq(Lines) /\ n \in Nat /\ DOMAIN lines' = 1..n
  BY ReadLineType
<1>2. LatestTs(n)' = Contract!Latest(lines')
  <2>. DEFINE P(j) == lines'[j].ts # None /\ \A m \in (j + 1)..n : lines'[m].ts = None
              Q(j) == lines'[j].ts # None /\ \A m \in (j + 1)..Len(lines') : lines'[m].ts = None
  <2>1. (CHOOSE j \in 1..n : P(j)) = (CHOOSE j \in DOMAIN lines' : Q(j))  BY <1>1, Zenon
  <2>2. LatestTs(n)' = IF \E j \in 1..n : lines'[j].ts # None
                       THEN lines'[CHOOSE j \in 1..n : P(j)].ts ELSE None
    BY DEF LatestTs
  <2>3. Contract!Latest(lines') = IF \E j \in DOMAIN lines' : lines'[j].ts # None
                                  THEN lines'[CHOOSE j \in DOMAIN lines' : Q(j)].ts ELSE None
    BY DEF Contract!Latest
  <2>. QED  BY <1>1, <2>1, <2>2, <2>3
<1>3. \A p : Applies(p, n)' <=> Contract!AppliesTo(p, lines')
  BY <1>2 DEF Applies, Contract!AppliesTo, LegacyPattern, Contract!Legacy
<1>4. Precedence = Contract!Order  BY DEF Precedence, Contract!Order
<1>. QED  BY <1>3, <1>4 DEF FirstApplying, Contract!Classes

-----------------------------------------------------------------------------
(* The three shapes of a parse step.                                       *)

(* A parse step appends one record, of the line's class, to one series;   *)
(* or fails on a line that has a class; or skips a line that has none.    *)
Shape(l) ==
    \/ \E s0 \in SeriesName : \E r :
          /\ series' = [series EXCEPT ![s0] = Append(series[s0], r)]
          /\ r.src = Len(lines) + 1
          /\ Contract!Classes(lines') = {PatternOf(s0, r)}
          /\ phase' = phase
    \/ series' = series /\ phase' = "failed" /\ Contract!Classes(lines') # {}
    \/ series' = series /\ phase' = phase /\ Contract!Classes(lines') = {}

(* An Emit for the branch taken has the first shape.                       *)
LEMMA EmitShape ==
    ASSUME RInv, NEW l \in Lines, ReadLine(l), NEW p, Branch(p, l, Resolve(l)),
           NEW s \in SeriesName, NEW ts, NEW v, Emit(s, l, ts, v),
           PatternOf(s, [src |-> Len(lines) + 1, ts |-> ts, val |-> v]) = p
    PROVE  Shape(l)
<1>1. Contract!Classes(lines') = {p}  BY ClassesOne DEF RInv, IInv
<1>. QED  BY <1>1 DEF Emit, Shape

LEMMA ParseStepShape ==
    ASSUME RInv, NEW l \in Lines, ParseStep(l)
    PROVE  Shape(l)
<1>0. TypeOK /\ LastTsInv /\ NoneInv  BY DEF RInv, IInv
<1>a. LineOK(l)  BY LinesAssumption
<1>. DEFINE Rec(ts, v) == [src |-> Len(lines) + 1, ts |-> ts, val |-> v]
<1>1. CASE ParseTrendline(l)
  <2>1. PatternOf("trendline", Rec(l.ts, <<TrendValue(l.arg[1]), ThresholdValue(l.arg[2])>>))
          = "trendline"
    BY DEF PatternOf
  <2>. QED  BY <1>1, <2>1, EmitShape DEF ParseTrendline, SeriesName
<1>2. CASE ParseRtt(l)
  <2>1. PatternOf("rtt", Rec(l.ts, "rtt")) = "rtt_bwe"  BY DEF PatternOf
  <2>. QED  BY <1>2, <2>1, EmitShape DEF ParseRtt, SeriesName
<1>3. CASE ParseLossEstimate(l)
  <2>1. l.arg \in Nat  BY <1>3, <1>a, BranchMatches DEF LineOK, ParseLossEstimate
  <2>2. PatternOf("loss", Rec(l.ts, [state |-> l.arg, bandwidth |-> "bw"])) = "loss_bwe"
    BY <2>1 DEF PatternOf
  <2>. QED  BY <1>3, <2>2, EmitShape DEF ParseLossEstimate, SeriesName
<1>4. CASE ParseLossCandidates(l)
  <2>. DEFINE v == [state |-> -1, bandwidth |-> MaxCandidateBps(l.arg),
                    observations |-> Len(l.arg.items)]
  <2>1. PatternOf("loss", Rec(l.ts, v)) = "loss_candidates"  BY DEF PatternOf
  <2>. QED  BY <1>4, <2>1, EmitShape DEF ParseLossCandidates, SeriesName
<1>5. CASE ParseProbe(l)
  <2>1. /\ PatternOf("probe", Rec(l.ts, "result")) = "probe_result"
        /\ PatternOf("probe", Rec(l.ts, "success")) = "probe_success"
        /\ PatternOf("probe", Rec(Resolve(l), "result_old")) = "probe_result_old"
        /\ PatternOf("probe", Rec(Resolve(l), "success_old")) = "probe_success_old"
    BY DEF PatternOf
  <2>2. "probe" \in SeriesName  BY DEF SeriesName
  <2>3. ReadLine(l)  BY <1>5 DEF ParseProbe
  <2>. QED  BY <1>5, <2>1, <2>2, <2>3, EmitShape DEF ParseProbe
<1>6. CASE ParseDecision(l)
  <2>1. PatternOf("decision", Rec(l.own, l.arg)) = "decision"  BY DEF PatternOf
  <2>. QED  BY <1>6, <2>1, EmitShape DEF ParseDecision, SeriesName
<1>7. CASE ParseConstraint(l)
  <2>1. ReadLine(l)  BY <1>7 DEF ParseConstraint
  <2>2. ASSUME NEW p \in {"constraint_apply", "delay_limit", "receiver_limit"},
               NEW v, Branch(p, l, Resolve(l)), Emit(p, l, l.ts, v)
        PROVE  Shape(l)
    <3>1. PatternOf(p, Rec(l.ts, v)) = p  BY DEF PatternOf
    <3>2. p \in SeriesName  BY DEF SeriesName
    <3>. QED  BY <2>1, <2>2, <3>1, <3>2, EmitShape
  <2>. QED  BY <1>7, <2>2 DEF ParseConstraint
<1>8. CASE ParsePushback(l)
  <2>1. PatternOf("pushback", Rec(l.ts, PyFloat(l.arg))) = "pushback"  BY DEF PatternOf
  <2>. QED  BY <1>8, <2>1, EmitShape DEF ParsePushback, SeriesName
<1>9. CASE LossCandidatesInvalid(l) \/ PushbackInvalid(l)
  <2>1. PICK p : /\ ReadLine(l) /\ Branch(p, l, Resolve(l))
                 /\ phase' = "failed" /\ series' = series
    BY <1>9 DEF LossCandidatesInvalid, PushbackInvalid
  <2>2. p \in Contract!Classes(lines')  BY <2>1, <1>0, BranchIffClass
  <2>. QED  BY <2>1, <2>2 DEF Shape
<1>10. CASE SkipLine(l)
  <2>1. /\ ReadLine(l) /\ \A p \in Pattern : ~Branch(p, l, Resolve(l))
        /\ phase' = phase /\ series' = series
    BY <1>10 DEF SkipLine
  <2>2. Contract!Classes(lines') = {}  BY <2>1, <1>0, ClassesNone
  <2>. QED  BY <2>1, <2>2 DEF Shape
<1>. QED  BY <1>1, <1>2, <1>3, <1>4, <1>5, <1>6, <1>7, <1>8, <1>9, <1>10 DEF ParseStep

-----------------------------------------------------------------------------
(* The inductive invariant.                                                *)

(* No two records, in one series or in two, come from the same line.       *)
Uniq ==
    \A s, t \in SeriesName :
        \A k \in DOMAIN series[s], k2 \in DOMAIN series[t] :
            series[s][k].src = series[t][k2].src => s = t /\ k = k2

(* Every record carries the first applying pattern of its line.           *)
PatOK ==
    \A s \in SeriesName : \A k \in DOMAIN series[s] :
        FirstApplying(series[s][k].src) = {PatternOf(s, series[s][k])}

(* A line some pattern applies to has a record, unless the parse failed   *)
(* on it.                                                                  *)
Cover ==
    \A i \in 1..Len(lines) :
        FirstApplying(i) # {} =>
            \/ \E s \in SeriesName : \E k \in DOMAIN series[s] : series[s][k].src = i
            \/ phase = "failed" /\ i = Len(lines)

CInv == RInv /\ Uniq /\ PatOK /\ Cover

(* Under the first shape, the records after the step are the records      *)
(* before it and the one appended.                                         *)
LEMMA AppendEntries ==
    ASSUME TypeOK, NEW s0 \in SeriesName, NEW r,
           series' = [series EXCEPT ![s0] = Append(series[s0], r)]
    PROVE  /\ \A s \in SeriesName : \A k \in DOMAIN series[s] :
                 k \in DOMAIN series'[s] /\ series'[s][k] = series[s][k]
           /\ \A s \in SeriesName : \A k \in DOMAIN series'[s] :
                 \/ k \in DOMAIN series[s] /\ series'[s][k] = series[s][k]
                 \/ s = s0 /\ k = Len(series[s0]) + 1 /\ series'[s][k] = r
           /\ Len(series[s0]) + 1 \in DOMAIN series'[s0]
           /\ series'[s0][Len(series[s0]) + 1] = r
<1>1. series[s0] \in Seq(RecordOf(s0)) /\ DOMAIN series = SeriesName  BY DEF TypeOK
<1>2. \A s \in SeriesName \ {s0} : series'[s] = series[s]  BY <1>1
<1>. QED  BY <1>1, <1>2

(* The judgements of the lines before the one read do not change.         *)
LEMMA ReadLineJudgements ==
    ASSUME TypeOK, NEW l \in Lines, ReadLine(l)
    PROVE  \A i \in 1..Len(lines) : FirstApplying(i)' = FirstApplying(i)
<1>1. /\ Len(lines) \in Nat
      /\ \A j \in 1..Len(lines) : lines'[j] = lines[j]
  BY ReadLinePrefix DEF TypeOK
<1>. QED  BY <1>1, FirstApplyingStable

(* A step that leaves the lines alone leaves every judgement alone.        *)
LEMMA SameLinesJudgements ==
    ASSUME lines' = lines
    PROVE  \A i \in Nat \ {0} : FirstApplying(i)' = FirstApplying(i)
BY FirstApplyingStable

(* A parse step preserves Uniq, PatOK and Cover.                           *)
LEMMA ParseStepCInv ==
    ASSUME CInv, NEW l \in Lines, ParseStep(l)
    PROVE  Uniq' /\ PatOK' /\ Cover'
<1>0. /\ TypeOK /\ SrcInv
      /\ ReadLine(l) /\ phase = "parse"
      /\ Len(lines) \in Nat /\ Len(lines') = Len(lines) + 1
  BY ParseStepFrame, ReadLinePrefix DEF CInv, RInv, IInv, ReadLine, TypeOK
<1>a. PICK n \in Nat : n = Len(lines) + 1 /\ n = Len(lines')  BY <1>0
<1>1. \A i \in 1..Len(lines) : FirstApplying(i)' = FirstApplying(i)
  BY <1>0, ReadLineJudgements
<1>2. FirstApplying(n)' = Contract!Classes(lines')  BY <1>0, <1>a, FirstApplyingLast
<1>3. \A s \in SeriesName : \A k \in DOMAIN series[s] : series[s][k].src \in 1..Len(lines)
  BY <1>0 DEF SrcInv
(* A line before the one read that has a judgement has a record.          *)
<1>4. \A i \in 1..Len(lines) :
         FirstApplying(i) # {} =>
            \E s \in SeriesName : \E k \in DOMAIN series[s] : series[s][k].src = i
  BY <1>0 DEF CInv, Cover
<1>5. Shape(l)  BY ParseStepShape DEF CInv
<1>6. CASE \E s0 \in SeriesName : \E r :
              /\ series' = [series EXCEPT ![s0] = Append(series[s0], r)]
              /\ r.src = n
              /\ Contract!Classes(lines') = {PatternOf(s0, r)}
              /\ phase' = phase
  <2>0. PICK s0 \in SeriesName : \E r :
              /\ series' = [series EXCEPT ![s0] = Append(series[s0], r)]
              /\ r.src = n
              /\ Contract!Classes(lines') = {PatternOf(s0, r)}
              /\ phase' = phase
    BY <1>6
  <2>1. PICK r :
              /\ series' = [series EXCEPT ![s0] = Append(series[s0], r)]
              /\ r.src = n
              /\ Contract!Classes(lines') = {PatternOf(s0, r)}
              /\ phase' = phase
    BY <2>0
  <2>2. /\ \A s \in SeriesName : \A k \in DOMAIN series[s] :
              k \in DOMAIN series'[s] /\ series'[s][k] = series[s][k]
        /\ \A s \in SeriesName : \A k \in DOMAIN series'[s] :
              \/ k \in DOMAIN series[s] /\ series'[s][k] = series[s][k]
              \/ s = s0 /\ k = Len(series[s0]) + 1 /\ series'[s][k] = r
        /\ Len(series[s0]) + 1 \in DOMAIN series'[s0]
        /\ series'[s0][Len(series[s0]) + 1] = r
    BY <1>0, <2>1, AppendEntries
  <2>3. Uniq'
    <3> SUFFICES ASSUME NEW s \in SeriesName, NEW t \in SeriesName,
                        NEW k \in DOMAIN series'[s], NEW k2 \in DOMAIN series'[t],
                        series'[s][k].src = series'[t][k2].src
                 PROVE  s = t /\ k = k2
      BY DEF Uniq
    <3>1. CASE k \in DOMAIN series[s] /\ k2 \in DOMAIN series[t]
      BY <3>1, <2>2 DEF CInv, Uniq
    <3>2. CASE k \notin DOMAIN series[s] /\ k2 \notin DOMAIN series[t]  BY <3>2, <2>2
    (* An old record's line precedes the one just read.                 *)
    <3>a. ASSUME NEW u \in SeriesName, NEW j \in DOMAIN series[u]
          PROVE  series'[u][j].src \in 1..Len(lines)
      BY <2>2, <1>3
    <3>b. ASSUME NEW u \in SeriesName, NEW j \in DOMAIN series'[u], j \notin DOMAIN series[u]
          PROVE  series'[u][j].src = n
      <4>1. series'[u][j] = r  BY <3>b, <2>2
      <4>. QED  BY <4>1, <2>1
    <3>3. CASE k \in DOMAIN series[s] /\ k2 \notin DOMAIN series[t]
      BY <3>3, <3>a, <3>b, <1>a
    <3>4. CASE k \notin DOMAIN series[s] /\ k2 \in DOMAIN series[t]
      BY <3>4, <3>a, <3>b, <1>a
    <3>. QED  BY <3>1, <3>2, <3>3, <3>4
  <2>4. PatOK'
    <3> SUFFICES ASSUME NEW s \in SeriesName, NEW k \in DOMAIN series'[s]
                 PROVE  (FirstApplying(series[s][k].src) = {PatternOf(s, series[s][k])})'
      BY DEF PatOK
    <3>1. CASE k \in DOMAIN series[s]
      <4>1. series'[s][k] = series[s][k] /\ series[s][k].src \in 1..Len(lines)
        BY <3>1, <2>2, <1>3
      <4>2. PICK c \in 1..Len(lines) : c = series[s][k].src /\ c = series'[s][k].src
        BY <4>1
      <4>3. FirstApplying(c)' = FirstApplying(c)  BY <1>1
      <4>4. FirstApplying(c) = {PatternOf(s, series[s][k])}  BY <3>1, <4>2 DEF CInv, PatOK
      <4>. QED  BY <4>1, <4>2, <4>3, <4>4
    <3>2. CASE k \notin DOMAIN series[s]
      <4>1. s = s0 /\ series'[s][k] = r  BY <3>2, <2>2
      <4>2. series'[s][k].src = n  BY <4>1, <2>1
      <4>. QED  BY <4>1, <4>2, <2>1, <1>2
    <3>. QED  BY <3>1, <3>2
  <2>5. Cover'
    <3> SUFFICES ASSUME NEW i \in 1..Len(lines'), FirstApplying(i)' # {}
                 PROVE  \E s \in SeriesName : \E k \in DOMAIN series'[s] : series'[s][k].src = i
      BY DEF Cover
    <3>1. CASE i \in 1..Len(lines)
      <4>1. PICK s \in SeriesName : \E k \in DOMAIN series[s] : series[s][k].src = i
        BY <3>1, <1>1, <1>4
      <4>2. PICK k \in DOMAIN series[s] : series[s][k].src = i  BY <4>1
      <4>. QED  BY <4>2, <2>2
    <3>2. CASE i = n  BY <3>2, <2>1, <2>2
    <3>. QED  BY <3>1, <3>2, <1>0, <1>a
  <2>. QED  BY <2>3, <2>4, <2>5
(* The two shapes that leave the series alone.                             *)
<1>7. CASE series' = series /\ (Contract!Classes(lines') # {} => phase' = "failed")
  <2>1. Uniq'  BY <1>7 DEF CInv, Uniq
  <2>2. PatOK'
    <3> SUFFICES ASSUME NEW s \in SeriesName, NEW k \in DOMAIN series[s]
                 PROVE  (FirstApplying(series[s][k].src) = {PatternOf(s, series[s][k])})'
      BY <1>7 DEF PatOK
    <3>1. series'[s][k] = series[s][k] /\ series[s][k].src \in 1..Len(lines)  BY <1>7, <1>3
    <3>2. PICK c \in 1..Len(lines) : c = series[s][k].src /\ c = series'[s][k].src
      BY <3>1
    <3>3. FirstApplying(c)' = FirstApplying(c)  BY <1>1
    <3>4. FirstApplying(c) = {PatternOf(s, series[s][k])}  BY <3>2 DEF CInv, PatOK
    <3>. QED  BY <3>1, <3>2, <3>3, <3>4
  <2>3. Cover'
    <3> SUFFICES ASSUME NEW i \in 1..Len(lines'), FirstApplying(i)' # {}
                 PROVE  \/ \E s \in SeriesName : \E k \in DOMAIN series[s] : series[s][k].src = i
                        \/ phase' = "failed" /\ i = Len(lines')
      BY <1>7 DEF Cover
    <3>1. CASE i \in 1..Len(lines)  BY <3>1, <1>1, <1>4
    <3>2. CASE i = n  BY <3>2, <1>a, <1>2, <1>7
    <3>. QED  BY <3>1, <3>2, <1>0, <1>a
  <2>. QED  BY <2>1, <2>2, <2>3
<1>. QED  BY <1>5, <1>6, <1>7, <1>a DEF Shape

(* A step after the loop, or a stuttering step, preserves the invariant:  *)
(* it changes neither the lines nor the series, and never leaves "failed". *)
LEMMA SameLinesCInv ==
    ASSUME CInv, lines' = lines, series' = series, phase = "failed" => phase' = "failed"
    PROVE  Uniq' /\ PatOK' /\ Cover'
<1>0. TypeOK /\ SrcInv  BY DEF CInv, RInv, IInv
<1>1. \A i \in Nat \ {0} : FirstApplying(i)' = FirstApplying(i)  BY SameLinesJudgements
<1>2. Uniq'  BY DEF CInv, Uniq
<1>3. PatOK'
  <2> SUFFICES ASSUME NEW s \in SeriesName, NEW k \in DOMAIN series[s]
               PROVE  (FirstApplying(series[s][k].src) = {PatternOf(s, series[s][k])})'
    BY DEF PatOK
  <2>1. PICK c \in 1..Len(lines) : c = series[s][k].src /\ c = series'[s][k].src
    BY <1>0 DEF SrcInv
  <2>2. FirstApplying(c)' = FirstApplying(c)  BY <1>1
  <2>3. FirstApplying(c) = {PatternOf(s, series[s][k])}  BY <2>1 DEF CInv, PatOK
  <2>. QED  BY <2>1, <2>2, <2>3
<1>4. Cover'
  <2> SUFFICES ASSUME NEW i \in 1..Len(lines), FirstApplying(i)' # {}
               PROVE  \/ \E s \in SeriesName : \E k \in DOMAIN series[s] : series[s][k].src = i
                      \/ phase' = "failed" /\ i = Len(lines)
    BY DEF Cover
  <2>1. FirstApplying(i) # {}  BY <1>1
  <2>. QED  BY <2>1 DEF CInv, Cover
<1>. QED  BY <1>2, <1>3, <1>4

(* CInv is inductive.                                                      *)
LEMMA CInvStep == CInv /\ [Next]_vars => CInv'
<1> SUFFICES ASSUME CInv, [Next]_vars PROVE CInv'
  OBVIOUS
<1>0. RInv'  BY RInvStep DEF CInv
<1>1. ASSUME NEW l \in Lines, ParseStep(l) PROVE CInv'
  BY <1>0, <1>1, ParseStepCInv DEF CInv
<1>2. CASE lines' = lines /\ series' = series /\ (phase = "failed" => phase' = "failed")
  BY <1>0, <1>2, SameLinesCInv DEF CInv
<1>. QED  BY <1>1, <1>2 DEF Next, ParseStep, EndOfFile, PlotDecisions, PlotSkipped, vars

(* CInv implies ClassifiedOnce.                                            *)
LEMMA CInvClassifiedOnce == CInv => ClassifiedOnce
<1> SUFFICES ASSUME CInv, NEW i \in 1..Len(lines)
             PROVE  LET E == {e \in UNION {{<<s, k>> : k \in DOMAIN series[s]} : s \in SeriesName} :
                                 series[e[1]][e[2]].src = i}
                    IN  /\ \A e1, e2 \in E : e1 = e2
                        /\ \A e \in E : FirstApplying(i) = {PatternOf(e[1], series[e[1]][e[2]])}
                        /\ (E = {} /\ FirstApplying(i) # {}) =>
                               (phase = "failed" /\ i = Len(lines))
  BY DEF ClassifiedOnce
<1>. DEFINE E == {e \in UNION {{<<s, k>> : k \in DOMAIN series[s]} : s \in SeriesName} :
                     series[e[1]][e[2]].src = i}
<1>1. \A e \in E : \E s \in SeriesName : \E k \in DOMAIN series[s] :
          e = <<s, k>> /\ series[s][k].src = i
  OBVIOUS
<1>2. \A e1, e2 \in E : e1 = e2  BY <1>1 DEF CInv, Uniq
<1>3. \A e \in E : FirstApplying(i) = {PatternOf(e[1], series[e[1]][e[2]])}
  BY <1>1 DEF CInv, PatOK
<1>4. (E = {} /\ FirstApplying(i) # {}) => (phase = "failed" /\ i = Len(lines))
  <2> SUFFICES ASSUME E = {}, FirstApplying(i) # {}
               PROVE  phase = "failed" /\ i = Len(lines)
    OBVIOUS
  <2>1. ~\E s \in SeriesName : \E k \in DOMAIN series[s] : series[s][k].src = i
    <3> SUFFICES ASSUME NEW s \in SeriesName, NEW k \in DOMAIN series[s], series[s][k].src = i
                 PROVE  FALSE
      OBVIOUS
    <3>1. <<s, k>> \in E  OBVIOUS
    <3>. QED  BY <3>1
  <2>. QED  BY <2>1 DEF CInv, Cover
<1>. QED  BY <1>2, <1>3, <1>4

(* Every line is classified once, by precedence: in every reachable       *)
(* state of parse_log_file, each line read yields at most one record, of  *)
(* the first pattern (in the order of its if/continue chain) that applies *)
(* to it with the timestamp carried to it, and a line some pattern applies *)
(* to yields one unless the parse failed on it.                            *)
THEOREM ClassifiedOnceCorrect == Spec => []ClassifiedOnce
<1>1. Init => CInv
  <2> SUFFICES ASSUME Init PROVE CInv
    OBVIOUS
  <2>1. RInv
    BY MaxLinesAssumption
    DEF Init, RInv, IInv, TypeOK, LastTsInv, SrcInv, CarryForward, NoneInv, SeriesName, Ts
  <2>2. \A s \in SeriesName : DOMAIN series[s] = {}  BY DEF Init
  <2>3. Len(lines) = 0  BY DEF Init
  <2>. QED  BY <2>1, <2>2, <2>3 DEF CInv, Uniq, PatOK, Cover
<1>. QED  BY <1>1, CInvStep, CInvClassifiedOnce, PTL DEF Spec

=============================================================================
