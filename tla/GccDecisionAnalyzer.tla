------------------------- MODULE GccDecisionAnalyzer -------------------------
(***************************************************************************)
(* The log-classification engine of GccDecisionAnalyzer                    *)
(* (src/webrtc_config_results/plot_gcc_decision_analysis_vertical.py):     *)
(* parse_log_file reads the log one line at a time, first updating the     *)
(* carried-forward timestamp, then trying the patterns in a fixed order    *)
(* and appending at most one record to one of ten series; afterwards       *)
(* plot_gcc_decision_metrics turns the decision series into the            *)
(* (timestamp, priority) timeline.                                         *)
(*                                                                         *)
(* A log line is abstracted to a record:                                   *)
(*   pats : the patterns whose regular expression `search`es the line,     *)
(*   ts   : the number the timestamp regex 'Time: N ms|at N ms' finds in   *)
(*          it, or None,                                                   *)
(*   own  : the timestamp a pattern captures itself (for the decision      *)
(*          snapshot, 'at Nms', which the timestamp regex does not see),   *)
(*   arg  : the one captured field whose conversion matters: the trend and *)
(*          threshold text of a Trendline line, the candidate list of a    *)
(*          LossBWE-Candidates line, the ratio text of a pushback line,    *)
(*          the reason token of a decision snapshot.                       *)
(* The other captured integers are abstracted away: they are converted by  *)
(* int() of a \d+ group, which cannot fail.                                *)
(***************************************************************************)
EXTENDS Integers, Sequences, FiniteSets

CONSTANTS
    Lines,      \* the lines a log may contain
    MaxLines,   \* bound on the length of the log
    None        \* Python's None

ASSUME MaxLinesAssumption == MaxLines \in Nat
ASSUME NoneAssumption == None \notin Nat

(* Names of the compiled regular expressions of __init__ (lines 23-49).    *)
Pattern == {"decision", "trendline", "rtt_bwe", "loss_bwe", "loss_candidates",
            "delay_bwe", "probe_result", "probe_success", "probe_result_old",
            "probe_success_old", "constraint_apply", "delay_limit",
            "receiver_limit", "config_limit", "pushback"}

(* The order in which parse_log_file tries the patterns; 'delay_bwe' and  *)
(* 'config_limit' are compiled but never tried.                            *)
Precedence == <<"trendline", "rtt_bwe", "loss_bwe", "loss_candidates",
                "probe_result", "probe_success", "probe_result_old",
                "probe_success_old", "decision", "constraint_apply",
                "delay_limit", "receiver_limit", "pushback">>

(* The legacy probe patterns, tried only when last_timestamp is truthy.    *)
LegacyPattern == {"probe_result_old", "probe_success_old"}

(* The ten collections, later DataFrames, returned by parse_log_file.      *)
SeriesName == {"trendline", "rtt", "loss", "probe", "decision",
               "constraint_apply", "delay_limit", "receiver_limit",
               "config_limit", "pushback"}

(* Text of a float field: a number, 'nan', '-nan' or anything else.       *)
FloatText == {"num", "nan", "-nan", "junk"}

(* Abstract value of a Python float: a number, 0.0, or NaN.                *)
FloatVal == {"num", "zero", "NaN"}

Ts == Nat \cup {None}

(* The patterns whose format contains 'Time: N ms'.                        *)
TimedPattern == Pattern \ (LegacyPattern \cup {"decision", "config_limit"})

(* The line grammar: what the regular expressions capture.  A line that a *)
(* 'Time: N ms' pattern matches carries a timestamp; the captured         *)
(* argument has the shape its pattern gives it.                            *)
LineOK(l) ==
    /\ l \in [pats : SUBSET Pattern, ts : Ts, own : Nat, arg : {l.arg}]
    /\ l.pats \cap TimedPattern # {} => l.ts \in Nat
    /\ "trendline" \in l.pats => l.arg \in FloatText \X FloatText
    /\ "loss_bwe" \in l.pats => l.arg \in Nat
    /\ "loss_candidates" \in l.pats => l.arg \in [items : Seq(Nat), parses : BOOLEAN]
    /\ "decision" \in l.pats => l.arg \in STRING
    /\ "pushback" \in l.pats => l.arg \in FloatText

ASSUME LinesAssumption == \A l \in Lines : LineOK(l)

VARIABLES
    phase,           \* "parse", "parsed", "plotted" or "failed"
    lines,           \* the lines read so far, in file order
    last_timestamp,  \* the carried-forward timestamp (line 72)
    series,          \* SeriesName -> sequence of records
    timeline         \* decision timeline of plot_gcc_decision_metrics, or None

vars == <<phase, lines, last_timestamp, series, timeline>>

-----------------------------------------------------------------------------
(* Conversions.                                                            *)

(* float(text) of a captured group; "junk" raises ValueError.              *)
PyFloat(t) == IF t = "num" THEN "num" ELSE "NaN"

(* modified_trend_val, lines 90-93: 'nan' and unparsable text give 0.0;   *)
(* '-nan' is not the string 'nan' and reaches float().                     *)
TrendValue(t) == IF t = "nan" \/ t = "junk" THEN "zero" ELSE PyFloat(t)

(* threshold_val, lines 95-98: only unparsable text gives 0.0.             *)
ThresholdValue(t) == IF t = "junk" THEN "zero" ELSE PyFloat(t)

(* A candidate list is abstracted to [items, parses]: the numbers (kbps)  *)
(* of its non-empty comma-separated items, and whether every item         *)
(* converts with float() (line 146).                                       *)
CandidatesParse(c) == c.parses

(* int(max(candidates) * 1000) if candidates else 0, line 151.             *)
MaxCandidateBps(c) ==
    IF c.items = <<>> THEN 0
    ELSE 1000 * (CHOOSE m \in {c.items[i] : i \in DOMAIN c.items} :
                    \A i \in DOMAIN c.items : c.items[i] <= m)

(* Python truthiness of last_timestamp (lines 189, 202): None and 0 are   *)
(* false.                                                                  *)
Truthy(t) == t # None /\ t # 0

-----------------------------------------------------------------------------
(* Classification.                                                         *)

(* Whether the branch of pattern p is taken for line l when the carried   *)
(* timestamp is lt: its regex matches and, for a legacy probe pattern,    *)
(* lt is truthy.                                                           *)
Fires(p, l, lt) == p \in l.pats /\ (p \in LegacyPattern => Truthy(lt))

(* Mutant of Branch: a branch is taken even when an earlier one fired (a  *)
(* missing `continue`).                                                    *)
BranchWithoutContinue(p, l, lt) ==
    \E i \in DOMAIN Precedence : Precedence[i] = p /\ Fires(p, l, lt)

(* The branch of p is the first one taken: no earlier branch fired, so no *)
(* earlier `continue` was reached.                                         *)
Branch(p, l, lt) ==
    \E i \in DOMAIN Precedence :
        /\ Precedence[i] = p
        /\ Fires(p, l, lt)
        /\ \A j \in 1..(i - 1) : ~Fires(Precedence[j], l, lt)

(* The timestamp after lines 77-79 have run on line l.                     *)
Resolve(l) == IF l.ts # None THEN l.ts ELSE last_timestamp

(* One iteration of the loop of line 75: read the next line, update the   *)
(* carried timestamp from it, then take the branch of pattern p.           *)
ReadLine(l) ==
    /\ phase = "parse"
    /\ Len(lines) < MaxLines
    /\ lines' = Append(lines, l)
    /\ last_timestamp' = Resolve(l)
    /\ UNCHANGED timeline

(* Append a record to series s; src is the line number it comes from      *)
(* (history only, used by the properties).                                 *)
Emit(s, l, ts, val) ==
    /\ series' = [series EXCEPT ![s] =
                     Append(@, [src |-> Len(lines) + 1, ts |-> ts, val |-> val])]
    /\ UNCHANGED phase

ParseTrendline(l) ==
    /\ ReadLine(l)
    /\ Branch("trendline", l, Resolve(l))
    /\ Emit("trendline", l, l.ts,
            <<TrendValue(l.arg[1]), ThresholdValue(l.arg[2])>>)

ParseRtt(l) ==
    /\ ReadLine(l)
    /\ Branch("rtt_bwe", l, Resolve(l))
    /\ Emit("rtt", l, l.ts, "rtt")

(* Mutant of ParseLossEstimate: the estimate is written with the          *)
(* candidate sentinel.                                                     *)
ParseLossEstimateSentinel(l) ==
    /\ ReadLine(l)
    /\ Branch("loss_bwe", l, Resolve(l))
    /\ Emit("loss", l, l.ts, [state |-> -1, bandwidth |-> "bw"])

(* A loss estimate: its state is captured by \d+, so state >= 0.           *)
ParseLossEstimate(l) ==
    /\ ReadLine(l)
    /\ Branch("loss_bwe", l, Resolve(l))
    /\ Emit("loss", l, l.ts, [state |-> l.arg, bandwidth |-> "bw"])

(* A candidate list that converts: the record with the sentinel state -1. *)
ParseLossCandidates(l) ==
    /\ ReadLine(l)
    /\ Branch("loss_candidates", l, Resolve(l))
    /\ CandidatesParse(l.arg)
    /\ Emit("loss", l, l.ts,
            [state |-> -1, bandwidth |-> MaxCandidateBps(l.arg),
             observations |-> Len(l.arg.items)])

(* A candidate item float() cannot convert: the ValueError leaves         *)
(* parse_log_file and main (lines 777-778) prints it; nothing is plotted. *)
LossCandidatesInvalid(l) ==
    /\ ReadLine(l)
    /\ Branch("loss_candidates", l, Resolve(l))
    /\ ~CandidatesParse(l.arg)
    /\ phase' = "failed"
    /\ UNCHANGED series

(* Mutant of ParseProbe: a legacy probe is stamped with the timestamp    *)
(* read before lines 77-79 ran on its own line.                            *)
ParseProbeStaleTs(l) ==
    /\ ReadLine(l)
    /\ \/ Branch("probe_result", l, Resolve(l)) /\ Emit("probe", l, l.ts, "result")
       \/ Branch("probe_success", l, Resolve(l)) /\ Emit("probe", l, l.ts, "success")
       \/ Branch("probe_result_old", l, Resolve(l))
            /\ Emit("probe", l, last_timestamp, "result_old")
       \/ Branch("probe_success_old", l, Resolve(l))
            /\ Emit("probe", l, last_timestamp, "success_old")

(* The four probe branches, lines 157-212: the timestamped ones use the   *)
(* line's own timestamp, the legacy ones the carried one.                  *)
ParseProbe(l) ==
    /\ ReadLine(l)
    /\ \/ Branch("probe_result", l, Resolve(l)) /\ Emit("probe", l, l.ts, "result")
       \/ Branch("probe_success", l, Resolve(l)) /\ Emit("probe", l, l.ts, "success")
       \/ Branch("probe_result_old", l, Resolve(l))
            /\ Emit("probe", l, Resolve(l), "result_old")
       \/ Branch("probe_success_old", l, Resolve(l))
            /\ Emit("probe", l, Resolve(l), "success_old")

(* Mutant of ParseDecision: the snapshot is stamped with last_timestamp   *)
(* instead of its own captured 'at Nms'.                                   *)
ParseDecisionCarriedTs(l) ==
    /\ ReadLine(l)
    /\ Branch("decision", l, Resolve(l))
    /\ Emit("decision", l, Resolve(l), l.arg)

ParseDecision(l) ==
    /\ ReadLine(l)
    /\ Branch("decision", l, Resolve(l))
    /\ Emit("decision", l, l.own, l.arg)

(* The three limit records of lines 226-282.                               *)
ParseConstraint(l) ==
    /\ ReadLine(l)
    /\ \/ Branch("constraint_apply", l, Resolve(l))
            /\ Emit("constraint_apply", l, l.ts, "apply")
       \/ Branch("delay_limit", l, Resolve(l)) /\ Emit("delay_limit", l, l.ts, "limit")
       \/ Branch("receiver_limit", l, Resolve(l))
            /\ Emit("receiver_limit", l, l.ts, "limit")

(* reduction_ratio = float(group 6), line 292, outside any try.            *)
ParsePushback(l) ==
    /\ ReadLine(l)
    /\ Branch("pushback", l, Resolve(l))
    /\ l.arg # "junk"
    /\ Emit("pushback", l, l.ts, PyFloat(l.arg))

PushbackInvalid(l) ==
    /\ ReadLine(l)
    /\ Branch("pushback", l, Resolve(l))
    /\ l.arg = "junk"
    /\ phase' = "failed"
    /\ UNCHANGED series

(* No branch is taken: the line is dropped, its timestamp kept.           *)
SkipLine(l) ==
    /\ ReadLine(l)
    /\ \A p \in Pattern : ~Branch(p, l, Resolve(l))
    /\ UNCHANGED <<phase, series>>

(* The `with open` loop ends; the series become DataFrames.               *)
EndOfFile ==
    /\ phase = "parse"
    /\ phase' = "parsed"
    /\ UNCHANGED <<lines, last_timestamp, series, timeline>>

-----------------------------------------------------------------------------
(* Decision classification, plot_gcc_decision_metrics.                     *)

(* reason_map(...).fillna(0), lines 580-587.                               *)
ReasonRank(r) ==
    CASE r = "Hold" -> 0
      [] r = "LossEstimate" -> 1
      [] r = "ProbeResult" -> 2
      [] r = "RttBackoff" -> 3
      [] r = "DelayLimit" -> 4
      [] OTHER -> 0

(* Lines 353-355: no chart when trendline, rtt and loss are all empty.    *)
ChartSkipped ==
    series["trendline"] = <<>> /\ series["rtt"] = <<>> /\ series["loss"] = <<>>

(* The decision step function, lines 576-590, in arrival order.            *)
PlotDecisions ==
    /\ phase = "parsed"
    /\ ~ChartSkipped
    /\ phase' = "plotted"
    /\ timeline' = [i \in DOMAIN series["decision"] |->
                      <<series["decision"][i].ts,
                        ReasonRank(series["decision"][i].val)>>]
    /\ UNCHANGED <<lines, last_timestamp, series>>

PlotSkipped ==
    /\ phase = "parsed"
    /\ ChartSkipped
    /\ phase' = "plotted"
    /\ UNCHANGED <<lines, last_timestamp, series, timeline>>

-----------------------------------------------------------------------------

Init ==
    /\ phase = "parse"
    /\ lines = <<>>
    /\ last_timestamp = None
    /\ series = [s \in SeriesName |-> <<>>]
    /\ timeline = None

Next ==
    \/ \E l \in Lines :
          \/ ParseTrendline(l)
          \/ ParseRtt(l)
          \/ ParseLossEstimate(l)
          \/ ParseLossCandidates(l)
          \/ LossCandidatesInvalid(l)
          \/ ParseProbe(l)
          \/ ParseDecision(l)
          \/ ParseConstraint(l)
          \/ ParsePushback(l)
          \/ PushbackInvalid(l)
          \/ SkipLine(l)
    \/ EndOfFile
    \/ PlotDecisions
    \/ PlotSkipped

Spec == Init /\ [][Next]_vars

-----------------------------------------------------------------------------
(* Properties.                                                             *)

(* The values the records of series s hold: a trend/threshold pair, a    *)
(* loss estimate or candidate record, a probe source, a pushback ratio, a *)
(* reason token, or a tag for the series whose fields are abstracted.      *)
ValOf(s) ==
    CASE s = "trendline" -> FloatVal \X FloatVal
      [] s = "loss"      -> [state : Nat, bandwidth : {"bw"}]
                            \cup [state : {-1},
                                  bandwidth : {MaxCandidateBps(l.arg) :
                                                 l \in {l \in Lines : "loss_candidates" \in l.pats}},
                                  observations : Nat]
      [] s = "probe"     -> {"result", "success", "result_old", "success_old"}
      [] s = "pushback"  -> FloatVal
      [] s = "decision"  -> STRING
      [] OTHER           -> {"rtt", "apply", "limit"}

RecordOf(s) == [src : Nat \ {0}, ts : Ts, val : ValOf(s)]

(* Type invariant.                                                          *)
TypeOK ==
    /\ phase \in {"parse", "parsed", "plotted", "failed"}
    /\ lines \in Seq(Lines)
    /\ Len(lines) <= MaxLines
    /\ last_timestamp \in Ts
    /\ \A s \in SeriesName : series[s] \in Seq(RecordOf(s))
    /\ DOMAIN series = SeriesName
    /\ timeline \in Seq(Ts \X (0..4)) \cup {None}

(* The most recent number the timestamp regex found in lines 1..i, or     *)
(* None: the value the carried timestamp must have after line i.           *)
LatestTs(i) ==
    IF \E j \in 1..i : lines[j].ts # None
    THEN lines[CHOOSE j \in 1..i : /\ lines[j].ts # None
                                   /\ \A m \in (j + 1)..i : lines[m].ts = None].ts
    ELSE None

IsLegacy(r) == r.val \in {"result_old", "success_old"}

(* Carry-forward correctness (spec, section 8, property 3): a legacy      *)
(* probe record (lines 187-212) is stamped with the timestamp of the most *)
(* recent line, up to and including its own, that carried one, whatever   *)
(* other lines, recognized or not, came in between.                        *)
CarryForward ==
    \A k \in DOMAIN series["probe"] :
        LET r == series["probe"][k] IN
        IsLegacy(r) =>
            \E j \in 1..r.src :
                /\ lines[j].ts = r.ts
                /\ \A m \in (j + 1)..r.src : lines[m].ts = None

(* The pattern a record was produced by, read off its series and, for the *)
(* shared loss and probe series, its sentinel state or its source.         *)
PatternOf(s, r) ==
    CASE s = "trendline" -> "trendline"
      [] s = "rtt"       -> "rtt_bwe"
      [] s = "loss"      -> IF r.val.state = -1 THEN "loss_candidates" ELSE "loss_bwe"
      [] s = "probe"     -> [result |-> "probe_result", success |-> "probe_success",
                             result_old |-> "probe_result_old",
                             success_old |-> "probe_success_old"][r.val]
      [] OTHER           -> s

(* Whether pattern p, as the code tries it, applies to line i: it matches *)
(* the line and, for a legacy probe pattern, the carried timestamp is     *)
(* truthy.                                                                 *)
Applies(p, i) ==
    /\ p \in lines[i].pats
    /\ p \in LegacyPattern => LatestTs(i) \notin {None, 0}

(* The first pattern in the order of parse_log_file that applies to line i. *)
FirstApplying(i) ==
    {Precedence[n] : n \in {n \in DOMAIN Precedence :
        Applies(Precedence[n], i) /\ \A m \in 1..(n - 1) : ~Applies(Precedence[m], i)}}

(* Every line is classified once, by precedence (spec 4.1 and section 8,  *)
(* property 5): a line yields at most one record, of the first pattern    *)
(* that applies to it; and a line some pattern applies to yields one,     *)
(* unless it is the line on which the parse failed.                        *)
ClassifiedOnce ==
    \A i \in 1..Len(lines) :
        LET E == {e \in UNION {{<<s, k>> : k \in DOMAIN series[s]} : s \in SeriesName} :
                     series[e[1]][e[2]].src = i}
        IN  /\ \A e1, e2 \in E : e1 = e2
            /\ \A e \in E : FirstApplying(i) = {PatternOf(e[1], series[e[1]][e[2]])}
            /\ (E = {} /\ FirstApplying(i) # {}) =>
                   (phase = "failed" /\ i = Len(lines))

-----------------------------------------------------------------------------
(* Refinement: parse_log_file implements the classification contract.     *)

(* The contract's phase: the end of the loop and the plots that follow it *)
(* are one "done" state to the contract.                                   *)
ContractPhase == IF phase \in {"parsed", "plotted"} THEN "done" ELSE phase

(* A record r of series s, tagged with the pattern that made it and       *)
(* stripped of its value.                                                  *)
Tag(s, r) == [src |-> r.src, pat |-> PatternOf(s, r), ts |-> r.ts]

(* The tagged records of all the series of S.                              *)
RecsOf(S) == UNION {{Tag(s, S[s][k]) : k \in DOMAIN S[s]} : s \in SeriesName}

ContractRecs == RecsOf(series)

Contract == INSTANCE GccClassification WITH phase <- ContractPhase, recs <- ContractRecs

(* parse_log_file implements the contract: every step of the loop of line *)
(* 75 adds exactly the record the contract prescribes for the line (first *)
(* applying pattern, its own or the carried timestamp), a conversion      *)
(* failure adds none and ends the run, and plotting changes no record.    *)
ImplementsContract == Contract!Spec

-----------------------------------------------------------------------------
(* Statements of the spec the code does not meet (the violation runs).    *)

(* The timestamp a line carries explicitly, counting the decision         *)
(* snapshot's own 'at Nms'.                                                *)
ExplicitTs(i) == IF "decision" \in lines[i].pats THEN lines[i].own ELSE lines[i].ts

(* Spec section 3: the timestamp context is updated whenever a recognized *)
(* line carries an explicit timestamp, so a legacy probe after a decision *)
(* snapshot is stamped with the snapshot's time.                           *)
CarryForwardFromAnyTimestamp ==
    \A k \in DOMAIN series["probe"] :
        LET r == series["probe"][k] IN
        IsLegacy(r) =>
            \E j \in 1..r.src :
                /\ ExplicitTs(j) = r.ts
                /\ \A m \in (j + 1)..r.src : ExplicitTs(m) = None

(* Spec 4.2: a legacy probe line is dropped only when no timestamp has    *)
(* been observed before it.                                                *)
LegacyDroppedOnlyWithoutTimestamp ==
    \A i \in 1..Len(lines) :
        (lines[i].pats = {"probe_result_old"} /\ LatestTs(i) # None) =>
            \E k \in DOMAIN series["probe"] : series["probe"][k].src = i

(* Spec section 3: ConfigLimitUpdate is one of the typed events, so a     *)
(* BWE-ConfigLimit line yields a record of the config_limit series.        *)
ConfigLimitRecorded ==
    \A i \in 1..Len(lines) :
        lines[i].pats = {"config_limit"} =>
            \E k \in DOMAIN series["config_limit"] : series["config_limit"][k].src = i

(* Spec 4.1 and section 7: a float field logged as "nan" is read as 0.0,  *)
(* so no trendline record holds NaN.                                       *)
NanReadAsZero ==
    \A k \in DOMAIN series["trendline"] :
        "NaN" \notin {series["trendline"][k].val[1], series["trendline"][k].val[2]}

(* Spec section 7: a numeric field that does not parse on a matched line  *)
(* is replaced by 0.0; only an unreadable input file ends the run.         *)
OnlyIoErrorsFatal == phase # "failed"

(* Spec section 8, property 7: a log whose decisions were parsed yields   *)
(* the decision timeline.                                                  *)
DecisionTimelineProduced ==
    (phase = "plotted" /\ series["decision"] # <<>>) => timeline # None

=============================================================================
