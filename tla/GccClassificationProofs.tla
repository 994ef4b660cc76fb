---------------------- MODULE GccClassificationProofs -----------------------
(***************************************************************************)
(* Proof that parse_log_file, as GccDecisionAnalyzer models it, implements *)
(* the classification contract GccClassification under the refinement     *)
(* mapping ContractPhase, ContractRecs, for every set of lines satisfying *)
(* the line grammar and every bound on the length of the log.  The proof  *)
(* rests on the inductive invariant IInv of GccDecisionAnalyzerProofs: its *)
(* LastTsInv makes the carried variable last_timestamp equal to the       *)
(* contract's Latest of the lines read, which has no such variable.        *)
(***************************************************************************)
EXTENDS GccDecisionAnalyzerProofs

-----------------------------------------------------------------------------
(* The tagged records after one record is appended to one series.         *)

LEMMA RecsAppend ==
    ASSUME TypeOK, NEW s0 \in SeriesName, NEW r
    PROVE  RecsOf([series EXCEPT ![s0] = Append(series[s0], r)])
              = RecsOf(series) \cup {Tag(s0, r)}
<1>. DEFINE S == series
<1>0. S[s0] \in Seq(RecordOf(s0)) /\ DOMAIN S = SeriesName  BY DEF TypeOK
<1>. DEFINE T == [S EXCEPT ![s0] = Append(S[s0], r)]
<1>1. \A s \in SeriesName \ {s0} : T[s] = S[s]  BY <1>0
<1>2. /\ DOMAIN T[s0] = (DOMAIN S[s0]) \cup {Len(S[s0]) + 1}
      /\ \A k \in DOMAIN S[s0] : T[s0][k] = S[s0][k]
      /\ T[s0][Len(S[s0]) + 1] = r
  BY <1>0
<1>3. {Tag(s0, T[s0][k]) : k \in DOMAIN T[s0]}
        = {Tag(s0, S[s0][k]) : k \in DOMAIN S[s0]} \cup {Tag(s0, r)}
  BY <1>2
<1>. QED  BY <1>0, <1>1, <1>3 DEF RecsOf

-----------------------------------------------------------------------------
(* The contract's Latest and the carried timestamp.                        *)

(* Latest is the timestamp of the one line that has one with none after. *)
LEMMA LatestIs ==
    ASSUME NEW X, NEW ls \in Seq(X), NEW j0 \in DOMAIN ls, ls[j0].ts # None,
           \A m \in (j0 + 1)..Len(ls) : ls[m].ts = None
    PROVE  Contract!Latest(ls) = ls[j0].ts
<1>. DEFINE Good(j) == ls[j].ts # None /\ \A m \in (j + 1)..Len(ls) : ls[m].ts = None
<1>1. \A j \in DOMAIN ls : Good(j) <=> j = j0  OBVIOUS
<1>2. (CHOOSE j \in DOMAIN ls : Good(j)) = j0  BY <1>1
<1>. QED  BY <1>2 DEF Contract!Latest

(* Latest is None on lines without a timestamp.                            *)
LEMMA LatestNone ==
    ASSUME NEW ls, \A j \in DOMAIN ls : ls[j].ts = None
    PROVE  Contract!Latest(ls) = None
BY DEF Contract!Latest

(* The carried timestamp is None only while no line read had one.        *)
NoneInv == last_timestamp = None => \A k \in 1..Len(lines) : lines[k].ts = None

LEMMA NoneInvRead ==
    ASSUME TypeOK, NoneInv, NEW l \in Lines, ReadLine(l)
    PROVE  NoneInv'
<1>1. /\ Len(lines') = Len(lines) + 1
      /\ \A j \in 1..Len(lines) : lines'[j] = lines[j]
      /\ lines'[Len(lines) + 1] = l
  BY ReadLinePrefix
<1>2. Len(lines) \in Nat  BY DEF TypeOK
<1>. QED  BY <1>1, <1>2 DEF ReadLine, Resolve, NoneInv

(* After a line is read, the carried timestamp Resolve(l) is the latest   *)
(* timestamp of the lines read.                                            *)
LEMMA LatestAfterRead ==
    ASSUME TypeOK, LastTsInv, NoneInv, NEW l \in Lines, ReadLine(l)
    PROVE  Contract!Latest(lines') = Resolve(l)
<1>. DEFINE n == Len(lines) + 1
<1>1. /\ Len(lines') = n
      /\ \A j \in 1..Len(lines) : lines'[j] = lines[j]
      /\ lines'[n] = l
      /\ lines' \in Seq(Lines)
  BY ReadLinePrefix, ReadLineType
<1>2. Len(lines) \in Nat  BY DEF TypeOK
<1>3. CASE l.ts # None
  <2>1. Contract!Latest(lines') = lines'[n].ts  BY <1>1, <1>2, <1>3, LatestIs
  <2>. QED  BY <2>1, <1>1, <1>3 DEF Resolve
<1>4. CASE l.ts = None /\ last_timestamp = None
  <2>1. \A k \in 1..Len(lines) : lines[k].ts = None
    BY <1>4 DEF NoneInv
  <2>2. Contract!Latest(lines') = None  BY <2>1, <1>1, <1>2, <1>4, LatestNone
  <2>. QED  BY <2>2, <1>4 DEF Resolve
<1>5. CASE l.ts = None /\ last_timestamp # None
  <2>1. PICK j \in 1..Len(lines) : /\ lines[j].ts = last_timestamp
                                   /\ \A m \in (j + 1)..Len(lines) : lines[m].ts = None
    BY <1>5 DEF LastTsInv
  <2>2. Contract!Latest(lines') = lines'[j].ts  BY <2>1, <1>1, <1>2, <1>5, LatestIs
  <2>. QED  BY <2>1, <2>2, <1>1, <1>5 DEF Resolve
<1>. QED  BY <1>3, <1>4, <1>5

-----------------------------------------------------------------------------
(* The code's branch is the contract's class.                              *)

(* A pattern fires in the code exactly when it applies in the contract.   *)
LEMMA FiresIffApplies ==
    ASSUME TypeOK, LastTsInv, NoneInv, NEW l \in Lines, ReadLine(l), NEW q
    PROVE  Fires(q, l, Resolve(l)) <=> Contract!AppliesTo(q, lines')
<1>1. Contract!Latest(lines') = Resolve(l)  BY LatestAfterRead
<1>2. lines'[Len(lines')] = l  BY ReadLinePrefix
<1>. QED  BY <1>1, <1>2 DEF Fires, Truthy, Contract!AppliesTo, LegacyPattern, Contract!Legacy

(* The branch taken for the line read is the contract's class of it.      *)
LEMMA BranchIffClass ==
    ASSUME TypeOK, LastTsInv, NoneInv, NEW l \in Lines, ReadLine(l), NEW p
    PROVE  Branch(p, l, Resolve(l)) <=> p \in Contract!Classes(lines')
<1>1. \A q : Fires(q, l, Resolve(l)) <=> Contract!AppliesTo(q, lines')
  BY FiresIffApplies
<1>2. Precedence = Contract!Order  BY DEF Precedence, Contract!Order
<1>. QED  BY <1>1, <1>2 DEF Branch, Contract!Classes

(* At most one branch is the first taken.                                  *)
LEMMA BranchUnique ==
    ASSUME NEW p, NEW q, NEW l, NEW lt, Branch(p, l, lt), Branch(q, l, lt)
    PROVE  p = q
<1>1. PICK i \in DOMAIN Precedence :
          Precedence[i] = p /\ Fires(p, l, lt) /\ \A j \in 1..(i - 1) : ~Fires(Precedence[j], l, lt)
  BY DEF Branch
<1>2. PICK k \in DOMAIN Precedence :
          Precedence[k] = q /\ Fires(q, l, lt) /\ \A j \in 1..(k - 1) : ~Fires(Precedence[j], l, lt)
  BY DEF Branch
<1>3. DOMAIN Precedence = 1..13  BY DEF Precedence
<1>4. i = k  BY <1>1, <1>2, <1>3
<1>. QED  BY <1>1, <1>2, <1>4

(* The contract's class of a line whose branch is p is {p}.                *)
LEMMA ClassesOne ==
    ASSUME TypeOK, LastTsInv, NoneInv, NEW l \in Lines, ReadLine(l), NEW p,
           Branch(p, l, Resolve(l))
    PROVE  Contract!Classes(lines') = {p}
<1>1. \A q : q \in Contract!Classes(lines') <=> Branch(q, l, Resolve(l))
  BY BranchIffClass
<1>2. \A q : Branch(q, l, Resolve(l)) => q = p  BY BranchUnique
<1>. QED  BY <1>1, <1>2

(* A line no branch is taken for has no class.                             *)
LEMMA ClassesNone ==
    ASSUME TypeOK, LastTsInv, NoneInv, NEW l \in Lines, ReadLine(l),
           \A p \in Pattern : ~Branch(p, l, Resolve(l))
    PROVE  Contract!Classes(lines') = {}
<1>1. \A q : Branch(q, l, Resolve(l)) => q \in Pattern
  BY DEF Branch, Precedence, Pattern
<1>. QED  BY <1>1, BranchIffClass

-----------------------------------------------------------------------------
(* The parse steps as steps of the contract.                               *)

(* The invariant the refinement rests on.                                  *)
RInv == IInv /\ NoneInv

(* Reading a line is the contract's Read.                                  *)
LEMMA ReadRefines ==
    ASSUME TypeOK, NEW l \in Lines, ReadLine(l)
    PROVE  Contract!Read(l)
BY DEF ReadLine, Contract!Read, ContractPhase

(* A step that appends, for the branch p taken, the record the contract   *)
(* prescribes is the contract's Classify.                                  *)
LEMMA EmitRefines ==
    ASSUME RInv, NEW l \in Lines, ReadLine(l), NEW p, Branch(p, l, Resolve(l)),
           NEW s \in SeriesName, NEW ts, NEW v, Emit(s, l, ts, v),
           PatternOf(s, [src |-> Len(lines) + 1, ts |-> ts, val |-> v]) = p,
           ts = Contract!Stamp(p, lines'),
           ~Contract!Unconvertible(p, l)
    PROVE  Contract!Classify(l)
<1>0. TypeOK /\ LastTsInv /\ NoneInv  BY DEF RInv, IInv
<1>1. Contract!Classes(lines') = {p}  BY <1>0, ClassesOne
<1>2. Len(lines') = Len(lines) + 1  BY <1>0, ReadLinePrefix
<1>3. ContractRecs' = ContractRecs \cup
          {[src |-> Len(lines'), pat |-> p, ts |-> Contract!Stamp(p, lines')]}
  <2>. DEFINE rec == [src |-> Len(lines) + 1, ts |-> ts, val |-> v]
  <2>1. series' = [series EXCEPT ![s] = Append(series[s], rec)]  BY DEF Emit
  <2>3. RecsOf([series EXCEPT ![s] = Append(series[s], rec)])
          = RecsOf(series) \cup {Tag(s, rec)}
    BY <1>0, RecsAppend
  <2>4. ContractRecs' = RecsOf(series) \cup {Tag(s, rec)}  BY <2>1, <2>3 DEF ContractRecs
  <2>5. Tag(s, rec) = [src |-> Len(lines'), pat |-> p, ts |-> Contract!Stamp(p, lines')]
    BY <1>2 DEF Tag
  <2>. QED  BY <2>4, <2>5 DEF ContractRecs
<1>4. ContractPhase' = ContractPhase  BY DEF Emit, ContractPhase
<1>5. Contract!Read(l)  BY <1>0, ReadRefines
<1>. QED  BY <1>1, <1>3, <1>4, <1>5 DEF Contract!Classify

(* The contract's stamp of the line read, for the three kinds of pattern. *)
LEMMA StampOf ==
    ASSUME TypeOK, LastTsInv, NoneInv, NEW l \in Lines, ReadLine(l), NEW p
    PROVE  Contract!Stamp(p, lines') =
               CASE p \in LegacyPattern -> Resolve(l)
                 [] p = "decision"      -> l.own
                 [] OTHER               -> l.ts
<1>1. lines'[Len(lines')] = l  BY ReadLinePrefix
<1>2. Contract!Latest(lines') = Resolve(l)  BY LatestAfterRead
<1>3. "decision" \notin LegacyPattern  BY DEF LegacyPattern
<1>. QED  BY <1>1, <1>2, <1>3 DEF Contract!Stamp, Contract!Legacy, LegacyPattern

(* A step that takes no branch, or ends the parse, adds no record.         *)
LEMMA NoRecord ==
    ASSUME series' = series
    PROVE  ContractRecs' = ContractRecs
BY DEF ContractRecs

(* Every parse step of the code is a Classify or an Abort step of the     *)
(* contract.                                                               *)
LEMMA ParseRefines ==
    ASSUME RInv, NEW l \in Lines, ParseStep(l)
    PROVE  Contract!Classify(l) \/ Contract!Abort(l)
<1>0. TypeOK /\ LastTsInv /\ NoneInv  BY DEF RInv, IInv
<1>a. LineOK(l)  BY LinesAssumption
<1>b. \A p : /\ p \notin LegacyPattern /\ p # "decision" => Contract!Stamp(p, lines') = l.ts
             /\ p \in LegacyPattern => Contract!Stamp(p, lines') = Resolve(l)
             /\ p = "decision" => Contract!Stamp(p, lines') = l.own
  BY ParseStepFrame, StampOf, <1>0 DEF LegacyPattern
<1>. DEFINE Rec(ts, v) == [src |-> Len(lines) + 1, ts |-> ts, val |-> v]
<1>1. CASE ParseTrendline(l)
  <2>1. /\ ReadLine(l) /\ Branch("trendline", l, Resolve(l))
        /\ Emit("trendline", l, l.ts, <<TrendValue(l.arg[1]), ThresholdValue(l.arg[2])>>)
    BY <1>1 DEF ParseTrendline
  <2>2. PatternOf("trendline", Rec(l.ts, <<TrendValue(l.arg[1]), ThresholdValue(l.arg[2])>>))
          = "trendline"
    BY DEF PatternOf
  <2>3. l.ts = Contract!Stamp("trendline", lines')  BY <1>b DEF LegacyPattern
  <2>4. ~Contract!Unconvertible("trendline", l)  BY DEF Contract!Unconvertible
  <2>. QED  BY <2>1, <2>2, <2>3, <2>4, EmitRefines DEF SeriesName
<1>2. CASE ParseRtt(l)
  <2>1. ReadLine(l) /\ Branch("rtt_bwe", l, Resolve(l)) /\ Emit("rtt", l, l.ts, "rtt")
    BY <1>2 DEF ParseRtt
  <2>2. PatternOf("rtt", Rec(l.ts, "rtt")) = "rtt_bwe"  BY DEF PatternOf
  <2>3. l.ts = Contract!Stamp("rtt_bwe", lines')  BY <1>b DEF LegacyPattern
  <2>4. ~Contract!Unconvertible("rtt_bwe", l)  BY DEF Contract!Unconvertible
  <2>. QED  BY <2>1, <2>2, <2>3, <2>4, EmitRefines DEF SeriesName
<1>3. CASE ParseLossEstimate(l)
  <2>1. /\ ReadLine(l) /\ Branch("loss_bwe", l, Resolve(l))
        /\ Emit("loss", l, l.ts, [state |-> l.arg, bandwidth |-> "bw"])
    BY <1>3 DEF ParseLossEstimate
  <2>2. l.arg \in Nat  BY <2>1, <1>a, BranchMatches DEF LineOK
  <2>3. PatternOf("loss", Rec(l.ts, [state |-> l.arg, bandwidth |-> "bw"])) = "loss_bwe"
    BY <2>2 DEF PatternOf
  <2>4. l.ts = Contract!Stamp("loss_bwe", lines')  BY <1>b DEF LegacyPattern
  <2>5. ~Contract!Unconvertible("loss_bwe", l)  BY DEF Contract!Unconvertible
  <2>. QED  BY <2>1, <2>3, <2>4, <2>5, EmitRefines DEF SeriesName
<1>4. CASE ParseLossCandidates(l)
  <2>. DEFINE v == [state |-> -1, bandwidth |-> MaxCandidateBps(l.arg),
                    observations |-> Len(l.arg.items)]
  <2>1. /\ ReadLine(l) /\ Branch("loss_candidates", l, Resolve(l))
        /\ CandidatesParse(l.arg) /\ Emit("loss", l, l.ts, v)
    BY <1>4 DEF ParseLossCandidates
  <2>2. PatternOf("loss", Rec(l.ts, v)) = "loss_candidates"  BY DEF PatternOf
  <2>3. l.ts = Contract!Stamp("loss_candidates", lines')  BY <1>b DEF LegacyPattern
  <2>4. ~Contract!Unconvertible("loss_candidates", l)
    BY <2>1 DEF Contract!Unconvertible, CandidatesParse
  <2>. QED  BY <2>1, <2>2, <2>3, <2>4, EmitRefines DEF SeriesName
<1>5. CASE ParseProbe(l)
  <2>1. ReadLine(l)  BY <1>5 DEF ParseProbe
  <2>2. CASE Branch("probe_result", l, Resolve(l)) /\ Emit("probe", l, l.ts, "result")
    <3>1. PatternOf("probe", Rec(l.ts, "result")) = "probe_result"  BY DEF PatternOf
    <3>2. l.ts = Contract!Stamp("probe_result", lines')  BY <1>b DEF LegacyPattern
    <3>3. ~Contract!Unconvertible("probe_result", l)  BY DEF Contract!Unconvertible
    <3>. QED  BY <2>1, <2>2, <3>1, <3>2, <3>3, EmitRefines DEF SeriesName
  <2>3. CASE Branch("probe_success", l, Resolve(l)) /\ Emit("probe", l, l.ts, "success")
    <3>1. PatternOf("probe", Rec(l.ts, "success")) = "probe_success"  BY DEF PatternOf
    <3>2. l.ts = Contract!Stamp("probe_success", lines')  BY <1>b DEF LegacyPattern
    <3>3. ~Contract!Unconvertible("probe_success", l)  BY DEF Contract!Unconvertible
    <3>. QED  BY <2>1, <2>3, <3>1, <3>2, <3>3, EmitRefines DEF SeriesName
  <2>4. CASE Branch("probe_result_old", l, Resolve(l))
               /\ Emit("probe", l, Resolve(l), "result_old")
    <3>1. PatternOf("probe", Rec(Resolve(l), "result_old")) = "probe_result_old"
      BY DEF PatternOf
    <3>2. Resolve(l) = Contract!Stamp("probe_result_old", lines')  BY <1>b DEF LegacyPattern
    <3>3. ~Contract!Unconvertible("probe_result_old", l)  BY DEF Contract!Unconvertible
    <3>. QED  BY <2>1, <2>4, <3>1, <3>2, <3>3, EmitRefines DEF SeriesName
  <2>5. CASE Branch("probe_success_old", l, Resolve(l))
               /\ Emit("probe", l, Resolve(l), "success_old")
    <3>1. PatternOf("probe", Rec(Resolve(l), "success_old")) = "probe_success_old"
      BY DEF PatternOf
    <3>2. Resolve(l) = Contract!Stamp("probe_success_old", lines')  BY <1>b DEF LegacyPattern
    <3>3. ~Contract!Unconvertible("probe_success_old", l)  BY DEF Contract!Unconvertible
    <3>. QED  BY <2>1, <2>5, <3>1, <3>2, <3>3, EmitRefines DEF SeriesName
  <2>. QED  BY <1>5, <2>2, <2>3, <2>4, <2>5 DEF ParseProbe
<1>6. CASE ParseDecision(l)
  <2>1. ReadLine(l) /\ Branch("decision", l, Resolve(l)) /\ Emit("decision", l, l.own, l.arg)
    BY <1>6 DEF ParseDecision
  <2>2. PatternOf("decision", Rec(l.own, l.arg)) = "decision"  BY DEF PatternOf
  <2>3. l.own = Contract!Stamp("decision", lines')  BY <1>b
  <2>4. ~Contract!Unconvertible("decision", l)  BY DEF Contract!Unconvertible
  <2>. QED  BY <2>1, <2>2, <2>3, <2>4, EmitRefines DEF SeriesName
<1>7. CASE ParseConstraint(l)
  <2>1. ReadLine(l)  BY <1>7 DEF ParseConstraint
  <2>2. ASSUME NEW p \in {"constraint_apply", "delay_limit", "receiver_limit"},
               NEW v, Branch(p, l, Resolve(l)), Emit(p, l, l.ts, v)
        PROVE  Contract!Classify(l)
    <3>1. PatternOf(p, Rec(l.ts, v)) = p  BY DEF PatternOf
    <3>2. l.ts = Contract!Stamp(p, lines')  BY <1>b DEF LegacyPattern
    <3>3. ~Contract!Unconvertible(p, l)  BY DEF Contract!Unconvertible
    <3>4. p \in SeriesName  BY DEF SeriesName
    <3>. QED  BY <2>1, <2>2, <3>1, <3>2, <3>3, <3>4, EmitRefines
  <2>. QED  BY <1>7, <2>2 DEF ParseConstraint
<1>8. CASE ParsePushback(l)
  <2>1. /\ ReadLine(l) /\ Branch("pushback", l, Resolve(l)) /\ l.arg # "junk"
        /\ Emit("pushback", l, l.ts, PyFloat(l.arg))
    BY <1>8 DEF ParsePushback
  <2>2. PatternOf("pushback", Rec(l.ts, PyFloat(l.arg))) = "pushback"  BY DEF PatternOf
  <2>3. l.ts = Contract!Stamp("pushback", lines')  BY <1>b DEF LegacyPattern
  <2>4. ~Contract!Unconvertible("pushback", l)  BY <2>1 DEF Contract!Unconvertible
  <2>. QED  BY <2>1, <2>2, <2>3, <2>4, EmitRefines DEF SeriesName
<1>9. CASE LossCandidatesInvalid(l) \/ PushbackInvalid(l)
  <2>1. PICK p \in {"loss_candidates", "pushback"} :
            /\ ReadLine(l) /\ Branch(p, l, Resolve(l))
            /\ Contract!Unconvertible(p, l)
            /\ phase' = "failed" /\ series' = series
    BY <1>9 DEF LossCandidatesInvalid, PushbackInvalid, CandidatesParse,
                Contract!Unconvertible
  <2>2. p \in Contract!Classes(lines')  BY <2>1, <1>0, BranchIffClass
  <2>3. ContractPhase' = "failed" /\ ContractRecs' = ContractRecs
    BY <2>1, NoRecord DEF ContractPhase
  <2>4. Contract!Read(l)  BY <2>1, <1>0, ReadRefines
  <2>. QED  BY <2>1, <2>2, <2>3, <2>4 DEF Contract!Abort
<1>10. CASE SkipLine(l)
  <2>1. /\ ReadLine(l) /\ \A p \in Pattern : ~Branch(p, l, Resolve(l))
        /\ phase' = phase /\ series' = series
    BY <1>10 DEF SkipLine
  <2>2. Contract!Classes(lines') = {}  BY <2>1, <1>0, ClassesNone
  <2>3. ContractPhase' = ContractPhase /\ ContractRecs' = ContractRecs
    BY <2>1, NoRecord DEF ContractPhase
  <2>4. Contract!Read(l)  BY <2>1, <1>0, ReadRefines
  <2>. QED  BY <2>2, <2>3, <2>4 DEF Contract!Classify
<1>. QED  BY <1>1, <1>2, <1>3, <1>4, <1>5, <1>6, <1>7, <1>8, <1>9, <1>10 DEF ParseStep

-----------------------------------------------------------------------------
(* The refinement.                                                         *)

(* RInv is inductive.                                                      *)
LEMMA RInvStep == RInv /\ [Next]_vars => RInv'
<1> SUFFICES ASSUME RInv, [Next]_vars PROVE RInv'
  OBVIOUS
<1>1. IInv'  BY IInvStep DEF RInv
<1>2. NoneInv'
  <2>1. ASSUME NEW l \in Lines, ParseStep(l) PROVE NoneInv'
    BY <2>1, ParseStepFrame, NoneInvRead DEF RInv, IInv
  <2>2. CASE UNCHANGED <<lines, last_timestamp>>  BY <2>2 DEF RInv, NoneInv
  <2>. QED  BY <2>1, <2>2 DEF Next, ParseStep, EndOfFile, PlotDecisions, PlotSkipped, vars
<1>. QED  BY <1>1, <1>2 DEF RInv

(* Every step of the code is a step of the contract or leaves its state   *)
(* unchanged.                                                              *)
LEMMA StepRefines == RInv /\ [Next]_vars => [Contract!Next]_Contract!vars
<1> SUFFICES ASSUME RInv, [Next]_vars PROVE [Contract!Next]_Contract!vars
  OBVIOUS
<1>1. ASSUME NEW l \in Lines, ParseStep(l) PROVE Contract!Next
  BY <1>1, ParseRefines DEF Contract!Next
<1>2. CASE EndOfFile
  <2>1. ContractPhase = "parse" /\ ContractPhase' = "done"  BY <1>2 DEF EndOfFile, ContractPhase
  <2>2. ContractRecs' = ContractRecs  BY <1>2, NoRecord DEF EndOfFile
  <2>. QED  BY <1>2, <2>1, <2>2 DEF EndOfFile, Contract!Next, Contract!Finish
<1>3. CASE PlotDecisions \/ PlotSkipped
  <2>1. ContractPhase' = ContractPhase  BY <1>3 DEF PlotDecisions, PlotSkipped, ContractPhase
  <2>2. ContractRecs' = ContractRecs  BY <1>3, NoRecord DEF PlotDecisions, PlotSkipped
  <2>. QED  BY <1>3, <2>1, <2>2 DEF PlotDecisions, PlotSkipped, Contract!vars
<1>4. CASE UNCHANGED vars
  <2>1. ContractPhase' = ContractPhase /\ ContractRecs' = ContractRecs
    BY <1>4, NoRecord DEF vars, ContractPhase
  <2>. QED  BY <1>4, <2>1 DEF vars, Contract!vars
<1>. QED  BY <1>1, <1>2, <1>3, <1>4 DEF Next, ParseStep

(* parse_log_file implements the classification contract: from its       *)
(* initial state, every step of the per-line loop adds the one record the *)
(* contract prescribes for the line read (the first applying pattern,     *)
(* stamped with the line's own or the carried timestamp), a conversion    *)
(* failure ends the run, and nothing after the loop changes a record.     *)
THEOREM ContractRefinement == Spec => ImplementsContract
<1>1. Init => RInv
  BY MaxLinesAssumption
  DEF Init, RInv, IInv, TypeOK, LastTsInv, SrcInv, CarryForward, NoneInv, SeriesName, Ts
<1>2. Init => Contract!Init
  BY DEF Init, Contract!Init, ContractPhase, ContractRecs, RecsOf
<1>. QED  BY <1>1, <1>2, RInvStep, StepRefines, PTL
          DEF Spec, ImplementsContract, Contract!Spec

=============================================================================
