---------------------- MODULE GccDecisionAnalyzerProofs ----------------------
(***************************************************************************)
(* Proofs about the classification engine of GccDecisionAnalyzer, for     *)
(* every set of lines satisfying the line grammar and every bound on the   *)
(* length of the log.                                                      *)
(***************************************************************************)
EXTENDS GccDecisionAnalyzer, TLAPS

-----------------------------------------------------------------------------
(* Lemmas about the helpers.                                               *)

(* A branch is only taken for a pattern that matches the line.             *)
LEMMA BranchMatches ==
    ASSUME NEW p, NEW l, NEW lt, Branch(p, l, lt)
    PROVE  p \in l.pats
BY DEF Branch, Fires

(* The carried timestamp after a line is a timestamp or None.             *)
LEMMA ResolveType ==
    ASSUME last_timestamp \in Ts, NEW l \in Lines
    PROVE  Resolve(l) \in Ts
BY LinesAssumption DEF Resolve, LineOK

(* Appending a record of series s keeps every series a sequence of its    *)
(* records.                                                                *)
LEMMA EmitType ==
    ASSUME NEW s \in SeriesName, NEW r \in RecordOf(s),
           \A t \in SeriesName : series[t] \in Seq(RecordOf(t)),
           DOMAIN series = SeriesName
    PROVE  LET S == [series EXCEPT ![s] = Append(@, r)]
           IN  /\ \A t \in SeriesName : S[t] \in Seq(RecordOf(t))
               /\ DOMAIN S = SeriesName
BY DEF SeriesName

(* The record Emit appends, when its value fits series s.                 *)
LEMMA EmitRecord ==
    ASSUME NEW s \in SeriesName, NEW ts \in Ts, NEW v \in ValOf(s),
           lines \in Seq(Lines)
    PROVE  [src |-> Len(lines) + 1, ts |-> ts, val |-> v] \in RecordOf(s)
BY DEF RecordOf

(* An Emit step preserves the type of the series.                          *)
LEMMA EmitPreservesType ==
    ASSUME TypeOK, NEW s \in SeriesName, NEW l, NEW ts \in Ts, NEW v \in ValOf(s),
           Emit(s, l, ts, v)
    PROVE  /\ \A t \in SeriesName : series'[t] \in Seq(RecordOf(t))
           /\ DOMAIN series' = SeriesName
<1>1. [src |-> Len(lines) + 1, ts |-> ts, val |-> v] \in RecordOf(s)
  BY EmitRecord DEF TypeOK
<1>. QED  BY <1>1, EmitType DEF Emit, TypeOK

-----------------------------------------------------------------------------
(* Type correctness.                                                       *)

(* A ReadLine step leaves the phase-independent parts of TypeOK typed.     *)
LEMMA ReadLineType ==
    ASSUME TypeOK, NEW l \in Lines, ReadLine(l)
    PROVE  /\ lines' \in Seq(Lines)
           /\ Len(lines') <= MaxLines
           /\ last_timestamp' \in Ts
           /\ timeline' = timeline
<1>1. last_timestamp' \in Ts  BY ResolveType DEF ReadLine, TypeOK
<1>. QED  BY <1>1, MaxLinesAssumption DEF ReadLine, TypeOK

(* The parse steps of Next, one per branch of parse_log_file.              *)
ParseStep(l) ==
    \/ ParseTrendline(l) \/ ParseRtt(l) \/ ParseLossEstimate(l)
    \/ ParseLossCandidates(l) \/ LossCandidatesInvalid(l) \/ ParseProbe(l)
    \/ ParseDecision(l) \/ ParseConstraint(l) \/ ParsePushback(l)
    \/ PushbackInvalid(l) \/ SkipLine(l)

(* The series after a parse step are sequences of their records.           *)
LEMMA ParseStepSeries ==
    ASSUME TypeOK, NEW l \in Lines, ParseStep(l)
    PROVE  /\ \A t \in SeriesName : series'[t] \in Seq(RecordOf(t))
           /\ DOMAIN series' = SeriesName
<1>. USE DEF SeriesName
<1>0. Resolve(l) \in Ts  BY ResolveType DEF TypeOK
<1>a. LineOK(l)  BY LinesAssumption
<1>1. CASE ParseTrendline(l)
  <2>1. "trendline" \in l.pats  BY <1>1, BranchMatches DEF ParseTrendline
  <2>2. l.arg \in FloatText \X FloatText  BY <2>1, <1>a DEF LineOK
  <2>3. <<TrendValue(l.arg[1]), ThresholdValue(l.arg[2])>> \in ValOf("trendline")
    BY <2>2 DEF ValOf, TrendValue, ThresholdValue, PyFloat, FloatVal, FloatText
  <2>4. l.ts \in Ts  BY <1>a DEF LineOK
  <2>. QED  BY <1>1, <2>3, <2>4, EmitPreservesType DEF ParseTrendline
<1>2. CASE ParseRtt(l)
  <2>1. "rtt" \in ValOf("rtt")  BY DEF ValOf
  <2>2. l.ts \in Ts  BY <1>a DEF LineOK
  <2>. QED  BY <1>2, <2>1, <2>2, EmitPreservesType DEF ParseRtt
<1>3. CASE ParseLossEstimate(l)
  <2>1. "loss_bwe" \in l.pats  BY <1>3, BranchMatches DEF ParseLossEstimate
  <2>2. l.arg \in Nat  BY <2>1, <1>a DEF LineOK
  <2>3. [state |-> l.arg, bandwidth |-> "bw"] \in ValOf("loss")  BY <2>2 DEF ValOf
  <2>4. l.ts \in Ts  BY <1>a DEF LineOK
  <2>. QED  BY <1>3, <2>3, <2>4, EmitPreservesType DEF ParseLossEstimate
<1>4. CASE ParseLossCandidates(l)
  <2>1. "loss_candidates" \in l.pats  BY <1>4, BranchMatches DEF ParseLossCandidates
  <2>2. l.arg \in [items : Seq(Nat), parses : BOOLEAN]  BY <2>1, <1>a DEF LineOK
  <2>3. Len(l.arg.items) \in Nat  BY <2>2
  <2>4. MaxCandidateBps(l.arg) \in
            {MaxCandidateBps(m.arg) : m \in {m \in Lines : "loss_candidates" \in m.pats}}
    BY <2>1
  <2>5. [state |-> -1, bandwidth |-> MaxCandidateBps(l.arg),
         observations |-> Len(l.arg.items)] \in ValOf("loss")
    BY <2>3, <2>4 DEF ValOf
  <2>6. l.ts \in Ts  BY <1>a DEF LineOK
  <2>. QED  BY <1>4, <2>5, <2>6, EmitPreservesType DEF ParseLossCandidates
<1>5. CASE LossCandidatesInvalid(l)  BY <1>5 DEF LossCandidatesInvalid, TypeOK
<1>6. CASE ParseProbe(l)
  <2>1. {"result", "success", "result_old", "success_old"} \subseteq ValOf("probe")
    BY DEF ValOf
  <2>2. l.ts \in Ts  BY <1>a DEF LineOK
  <2>. QED  BY <1>6, <1>0, <2>1, <2>2, EmitPreservesType DEF ParseProbe
<1>7. CASE ParseDecision(l)
  <2>1. "decision" \in l.pats  BY <1>7, BranchMatches DEF ParseDecision
  <2>2. l.arg \in ValOf("decision")  BY <2>1, <1>a DEF LineOK, ValOf
  <2>3. l.own \in Ts  BY <1>a DEF LineOK, Ts
  <2>. QED  BY <1>7, <2>2, <2>3, EmitPreservesType DEF ParseDecision
<1>8. CASE ParseConstraint(l)
  <2>1. /\ "apply" \in ValOf("constraint_apply")
        /\ "limit" \in ValOf("delay_limit")
        /\ "limit" \in ValOf("receiver_limit")
    BY DEF ValOf
  <2>2. l.ts \in Ts  BY <1>a DEF LineOK
  <2>. QED  BY <1>8, <2>1, <2>2, EmitPreservesType DEF ParseConstraint
<1>9. CASE ParsePushback(l)
  <2>1. PyFloat(l.arg) \in ValOf("pushback")  BY DEF PyFloat, ValOf, FloatVal
  <2>2. l.ts \in Ts  BY <1>a DEF LineOK
  <2>. QED  BY <1>9, <2>1, <2>2, EmitPreservesType DEF ParsePushback
<1>10. CASE PushbackInvalid(l)  BY <1>10 DEF PushbackInvalid, TypeOK
<1>11. CASE SkipLine(l)  BY <1>11 DEF SkipLine, TypeOK
<1>. QED  BY <1>1, <1>2, <1>3, <1>4, <1>5, <1>6, <1>7, <1>8, <1>9, <1>10, <1>11
          DEF ParseStep

(* Every parse step reads a line and sets the phase to "parse" or          *)
(* "failed".                                                               *)
LEMMA ParseStepFrame ==
    ASSUME TypeOK, NEW l \in Lines, ParseStep(l)
    PROVE  /\ ReadLine(l)
           /\ phase' \in {"parse", "failed"}
BY DEF ParseStep, ParseTrendline, ParseRtt, ParseLossEstimate, ParseLossCandidates,
       LossCandidatesInvalid, ParseProbe, ParseDecision, ParseConstraint,
       ParsePushback, PushbackInvalid, SkipLine, Emit, ReadLine

(* ReasonRank is a rank of the table.                                      *)
LEMMA ReasonRankType ==
    ASSUME NEW r
    PROVE  ReasonRank(r) \in 0..4
BY DEF ReasonRank

(* The timeline built from a typed decision series is typed.               *)
LEMMA PlotDecisionsType ==
    ASSUME TypeOK, PlotDecisions
    PROVE  timeline' \in Seq(Ts \X (0..4))
<1>. DEFINE d == series["decision"]
<1>1. d \in Seq(RecordOf("decision"))  BY DEF TypeOK, SeriesName
<1>2. \A i \in 1..Len(d) : <<d[i].ts, ReasonRank(d[i].val)>> \in Ts \X (0..4)
  <2> TAKE i \in 1..Len(d)
  <2>1. d[i] \in RecordOf("decision")  BY <1>1
  <2>2. d[i].ts \in Ts  BY <2>1 DEF RecordOf
  <2>. QED  BY <2>2, ReasonRankType
<1>3. timeline' = [i \in 1..Len(d) |-> <<d[i].ts, ReasonRank(d[i].val)>>]
  BY <1>1 DEF PlotDecisions
<1>4. Len(d) \in Nat  BY <1>1
<1>. QED  BY <1>2, <1>3, <1>4

(* TypeOK is inductive.                                                    *)
LEMMA TypeStep == TypeOK /\ [Next]_vars => TypeOK'
<1> SUFFICES ASSUME TypeOK, [Next]_vars PROVE TypeOK'
  OBVIOUS
<1>1. ASSUME NEW l \in Lines, ParseStep(l) PROVE TypeOK'
  BY <1>1, ParseStepSeries, ParseStepFrame, ReadLineType DEF TypeOK
<1>2. CASE EndOfFile  BY <1>2 DEF EndOfFile, TypeOK
<1>3. CASE PlotDecisions  BY <1>3, PlotDecisionsType DEF PlotDecisions, TypeOK
<1>4. CASE PlotSkipped  BY <1>4 DEF PlotSkipped, TypeOK
<1>5. CASE UNCHANGED vars  BY <1>5 DEF vars, TypeOK
<1>. QED  BY <1>1, <1>2, <1>3, <1>4, <1>5 DEF Next, ParseStep

(* Type correctness: every reachable state satisfies TypeOK.               *)
THEOREM TypeCorrect == Spec => []TypeOK
<1>1. Init => TypeOK
  BY MaxLinesAssumption DEF Init, TypeOK, SeriesName, Ts
<1>. QED  BY <1>1, TypeStep, PTL DEF Spec

-----------------------------------------------------------------------------
(* Carry-forward correctness.                                              *)

(* The carried timestamp is the one of the most recent line that had one, *)
(* or None when no line read so far had one.                               *)
LastTsInv ==
    \/ /\ last_timestamp = None
       /\ \A k \in 1..Len(lines) : lines[k].ts = None
    \/ \E j \in 1..Len(lines) :
          /\ lines[j].ts = last_timestamp
          /\ \A m \in (j + 1)..Len(lines) : lines[m].ts = None

(* Every record comes from a line already read.                            *)
SrcInv ==
    \A s \in SeriesName : \A k \in DOMAIN series[s] :
        series[s][k].src \in 1..Len(lines)

(* The inductive invariant behind CarryForward.                            *)
IInv == TypeOK /\ LastTsInv /\ SrcInv /\ CarryForward

(* A legacy branch is only taken with a truthy carried timestamp.          *)
LEMMA BranchLegacyTruthy ==
    ASSUME NEW p \in LegacyPattern, NEW l, NEW lt, Branch(p, l, lt)
    PROVE  Truthy(lt)
BY DEF Branch, Fires

(* A parse step leaves each series as it was or appends one record, from  *)
(* the line just read; a legacy probe record it appends is stamped with   *)
(* the truthy carried timestamp.                                           *)
NewRecordOK(s, r, l) ==
    /\ r.src = Len(lines) + 1
    /\ (s = "probe" /\ IsLegacy(r)) => (r.ts = Resolve(l) /\ Truthy(Resolve(l)))

LEMMA ParseStepAppends ==
    ASSUME TypeOK, NEW l \in Lines, ParseStep(l), NEW s \in SeriesName
    PROVE  \/ series'[s] = series[s]
           \/ \E r : series'[s] = Append(series[s], r) /\ NewRecordOK(s, r, l)
<1>. DEFINE Rec(ts, v) == [src |-> Len(lines) + 1, ts |-> ts, val |-> v]
<1>1. ASSUME NEW s0 \in SeriesName, NEW ts, NEW v, Emit(s0, l, ts, v),
             s0 = "probe" => ~IsLegacy(Rec(ts, v))
      PROVE  \/ series'[s] = series[s]
             \/ \E r : series'[s] = Append(series[s], r) /\ NewRecordOK(s, r, l)
  <2>1. CASE s = s0
    <3>1. series'[s] = Append(series[s], Rec(ts, v))  BY <1>1, <2>1 DEF Emit, TypeOK
    <3>2. NewRecordOK(s, Rec(ts, v), l)  BY <1>1, <2>1 DEF NewRecordOK
    <3>. QED  BY <3>1, <3>2
  <2>2. CASE s # s0  BY <1>1, <2>2 DEF Emit, TypeOK
  <2>. QED  BY <2>1, <2>2
<1>2. ASSUME NEW p \in LegacyPattern, NEW v \in {"result_old", "success_old"},
             Branch(p, l, Resolve(l)), Emit("probe", l, Resolve(l), v)
      PROVE  \/ series'[s] = series[s]
             \/ \E r : series'[s] = Append(series[s], r) /\ NewRecordOK(s, r, l)
  <2>1. Truthy(Resolve(l))  BY <1>2, BranchLegacyTruthy
  <2>2. CASE s = "probe"
    <3>1. series'[s] = Append(series[s], Rec(Resolve(l), v))
      BY <1>2, <2>2 DEF Emit, TypeOK, SeriesName
    <3>2. NewRecordOK(s, Rec(Resolve(l), v), l)  BY <2>1, <2>2 DEF NewRecordOK
    <3>. QED  BY <3>1, <3>2
  <2>3. CASE s # "probe"  BY <1>2, <2>3 DEF Emit, TypeOK
  <2>. QED  BY <2>2, <2>3
<1>3. CASE ParseProbe(l)
  <2>. ~IsLegacy(Rec(l.ts, "result")) /\ ~IsLegacy(Rec(l.ts, "success"))
    BY DEF IsLegacy
  <2>. QED  BY <1>3, <1>1, <1>2 DEF ParseProbe, LegacyPattern, SeriesName
<1>4. CASE ParseTrendline(l) \/ ParseRtt(l) \/ ParseLossEstimate(l)
           \/ ParseLossCandidates(l) \/ ParseDecision(l) \/ ParseConstraint(l)
           \/ ParsePushback(l)
  BY <1>4, <1>1 DEF ParseTrendline, ParseRtt, ParseLossEstimate, ParseLossCandidates,
                    ParseDecision, ParseConstraint, ParsePushback, SeriesName
<1>5. CASE LossCandidatesInvalid(l) \/ PushbackInvalid(l) \/ SkipLine(l)
  BY <1>5 DEF LossCandidatesInvalid, PushbackInvalid, SkipLine
<1>. QED  BY <1>3, <1>4, <1>5 DEF ParseStep

(* Reading a line keeps the lines read before it.                          *)
LEMMA ReadLinePrefix ==
    ASSUME TypeOK, NEW l \in Lines, ReadLine(l)
    PROVE  /\ Len(lines') = Len(lines) + 1
           /\ \A j \in 1..Len(lines) : lines'[j] = lines[j]
           /\ lines'[Len(lines) + 1] = l
BY DEF ReadLine, TypeOK

(* The carried timestamp stays the latest one after a line is read.        *)
LEMMA ParseStepLastTs ==
    ASSUME TypeOK, LastTsInv, NEW l \in Lines, ReadLine(l)
    PROVE  LastTsInv'
<1>1. /\ Len(lines') = Len(lines) + 1
      /\ \A j \in 1..Len(lines) : lines'[j] = lines[j]
      /\ lines'[Len(lines) + 1] = l
  BY ReadLinePrefix
<1>2. Len(lines) \in Nat  BY DEF TypeOK
<1>3. CASE l.ts # None
  <2>1. last_timestamp' = l.ts  BY <1>3 DEF ReadLine, Resolve
  <2>. QED  BY <1>1, <1>2, <2>1 DEF LastTsInv
<1>4. CASE l.ts = None
  <2>1. last_timestamp' = last_timestamp  BY <1>4 DEF ReadLine, Resolve
  <2>. QED  BY <1>1, <1>2, <1>4, <2>1 DEF LastTsInv
<1>. QED  BY <1>3, <1>4

(* The probe records of CarryForward, for a given series value.            *)
CarryForwardOf(P) ==
    \A k \in DOMAIN P :
        IsLegacy(P[k]) =>
            \E j \in 1..P[k].src :
                /\ lines[j].ts = P[k].ts
                /\ \A m \in (j + 1)..P[k].src : lines[m].ts = None

(* A parse step preserves SrcInv and CarryForward.                         *)
LEMMA ParseStepRecords ==
    ASSUME IInv, NEW l \in Lines, ParseStep(l)
    PROVE  SrcInv' /\ CarryForward'
<1>0. TypeOK  BY DEF IInv
<1>1. /\ ReadLine(l)
      /\ Len(lines') = Len(lines) + 1
      /\ \A j \in 1..Len(lines) : lines'[j] = lines[j]
      /\ lines'[Len(lines) + 1] = l
  BY <1>0, ParseStepFrame, ReadLinePrefix
<1>2. Len(lines) \in Nat  BY <1>0 DEF TypeOK
<1>3. \A s \in SeriesName : series[s] \in Seq(RecordOf(s))  BY <1>0 DEF TypeOK
<1>4. SrcInv'
  <2> SUFFICES ASSUME NEW s \in SeriesName, NEW k \in DOMAIN series'[s]
               PROVE  series'[s][k].src \in 1..Len(lines')
    BY DEF SrcInv, SeriesName
  <2>1. CASE series'[s] = series[s]  BY <2>1, <1>1, <1>2, <1>3 DEF IInv, SrcInv
  <2>2. ASSUME NEW r, series'[s] = Append(series[s], r), NewRecordOK(s, r, l)
        PROVE  series'[s][k].src \in 1..Len(lines')
    <3>1. CASE k \in DOMAIN series[s]  BY <2>2, <3>1, <1>1, <1>2, <1>3 DEF IInv, SrcInv
    <3>2. CASE k \notin DOMAIN series[s]
      BY <2>2, <3>2, <1>1, <1>2, <1>3 DEF NewRecordOK
    <3>. QED  BY <3>1, <3>2
  <2>. QED  BY <2>1, <2>2, <1>0, ParseStepAppends
<1>5. CarryForward'
  <2>. DEFINE P == series["probe"]
  <2>0. P \in Seq(RecordOf("probe"))  BY <1>3 DEF SeriesName
  <2>a. \A k \in DOMAIN P : P[k].src \in 1..Len(lines)  BY DEF IInv, SrcInv, SeriesName
  <2>b. CarryForwardOf(P)  BY DEF IInv, CarryForward, CarryForwardOf
  (* What CarryForwardOf says of the old records stays true in the        *)
  (* extended log.                                                         *)
  <2>c. \A k \in DOMAIN P :
           IsLegacy(P[k]) =>
              \E j \in 1..P[k].src :
                 /\ lines'[j].ts = P[k].ts
                 /\ \A m \in (j + 1)..P[k].src : lines'[m].ts = None
    <3> SUFFICES ASSUME NEW k \in DOMAIN P, IsLegacy(P[k])
                 PROVE  \E j \in 1..P[k].src :
                           /\ lines'[j].ts = P[k].ts
                           /\ \A m \in (j + 1)..P[k].src : lines'[m].ts = None
      OBVIOUS
    <3>1. PICK j \in 1..P[k].src : /\ lines[j].ts = P[k].ts
                                   /\ \A m \in (j + 1)..P[k].src : lines[m].ts = None
      BY <2>b DEF CarryForwardOf
    <3>2. P[k].src \in 1..Len(lines)  BY <2>a
    <3>. QED  BY <3>1, <3>2, <1>1, <1>2
  <2>1. CASE series'["probe"] = P  BY <2>1, <2>c DEF CarryForward
  <2>2. ASSUME NEW r, series'["probe"] = Append(P, r), NewRecordOK("probe", r, l)
        PROVE  CarryForward'
    <3> SUFFICES ASSUME NEW k \in DOMAIN series'["probe"], IsLegacy(series'["probe"][k])
                 PROVE  \E j \in 1..series'["probe"][k].src :
                           /\ lines'[j].ts = series'["probe"][k].ts
                           /\ \A m \in (j + 1)..series'["probe"][k].src :
                                 lines'[m].ts = None
      BY DEF CarryForward
    <3>1. CASE k \in DOMAIN P  BY <3>1, <2>2, <2>c, <2>0
    <3>2. CASE k \notin DOMAIN P
      <4>1. series'["probe"][k] = r  BY <3>2, <2>2, <2>0
      <4>2. r.src = Len(lines) + 1 /\ r.ts = Resolve(l) /\ Truthy(Resolve(l))
        BY <4>1, <2>2 DEF NewRecordOK
      <4>3. CASE l.ts # None
        <5>. DEFINE n == Len(lines) + 1
        <5>1. r.ts = l.ts  BY <4>2, <4>3 DEF Resolve
        <5>2. n \in 1..series'["probe"][k].src  BY <4>1, <4>2, <1>2
        <5>3. lines'[n].ts = series'["probe"][k].ts  BY <5>1, <4>1, <1>1
        <5>4. \A m \in (n + 1)..series'["probe"][k].src : lines'[m].ts = None
          BY <4>1, <4>2, <1>2
        <5>. QED  BY <5>2, <5>3, <5>4
      <4>4. CASE l.ts = None
        <5>1. r.ts = last_timestamp /\ last_timestamp # None
          BY <4>2, <4>4 DEF Resolve, Truthy
        <5>2. PICK j \in 1..Len(lines) :
                 /\ lines[j].ts = last_timestamp
                 /\ \A m \in (j + 1)..Len(lines) : lines[m].ts = None
          BY <5>1 DEF IInv, LastTsInv
        <5>. QED  BY <5>1, <5>2, <4>1, <4>2, <4>4, <1>1, <1>2
      <4>. QED  BY <4>3, <4>4
    <3>. QED  BY <3>1, <3>2
  <2>. QED  BY <2>1, <2>2, <1>0, ParseStepAppends DEF SeriesName
<1>. QED  BY <1>4, <1>5

(* IInv is inductive.                                                      *)
LEMMA IInvStep == IInv /\ [Next]_vars => IInv'
<1> SUFFICES ASSUME IInv, [Next]_vars PROVE IInv'
  OBVIOUS
<1>0. TypeOK'  BY TypeStep DEF IInv
<1>1. ASSUME NEW l \in Lines, ParseStep(l) PROVE IInv'
  <2>1. LastTsInv'  BY <1>1, ParseStepFrame, ParseStepLastTs DEF IInv
  <2>2. SrcInv' /\ CarryForward'  BY <1>1, ParseStepRecords
  <2>. QED  BY <1>0, <2>1, <2>2 DEF IInv
<1>2. CASE UNCHANGED <<lines, last_timestamp, series>>
  BY <1>0, <1>2 DEF IInv, LastTsInv, SrcInv, CarryForward
<1>. QED  BY <1>1, <1>2 DEF Next, ParseStep, EndOfFile, PlotDecisions, PlotSkipped, vars

(* Carry-forward correctness: in every reachable state, every legacy      *)
(* probe record is stamped with the timestamp of the most recent line,    *)
(* up to its own, that carried one.                                        *)
THEOREM CarryForwardCorrect == Spec => []CarryForward
<1>1. Init => IInv
  BY MaxLinesAssumption
  DEF Init, IInv, TypeOK, LastTsInv, SrcInv, CarryForward, SeriesName, Ts
<1>2. IInv => CarryForward  BY DEF IInv
<1>. QED  BY <1>1, <1>2, IInvStep, PTL DEF Spec


=============================================================================
