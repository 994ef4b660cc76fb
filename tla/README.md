# TLA+ models of the WebRTC log and CPU analysis tools

This directory holds TLA+ models of the analysis scripts in
`src/webrtc_config_results/`. It contains the TLC configurations that check
them and the TLAPS proofs of their main invariants.

## The system

The scripts are three sequential batch programs. Nothing runs concurrently. The
hard behaviours are about *order*:

- the order of the lines of a log;
- the order of the branches that classify a line;
- the order of the steps of `main`.

They are also about *data edges*: a timestamp of 0, `nan` text, a malformed
number, a report in an unexpected directory.

| Part | Source | What it does |
|---|---|---|
| Log ingestion and timestamp resolver | `plot_gcc_decision_analysis_vertical.py` 72-79 | Reads the sender log line by line. Any `Time: N ms` / `at N ms` updates `last_timestamp`. |
| Pattern classifier and series parsers | same, 81-302 | A chain of `search`/`continue` branches. The first pattern that matches appends one record to one of 10 series. |
| Legacy probe fallback | same, 187-212 | A probe line without a timestamp takes `last_timestamp`, but only if that value is truthy. |
| Decision timeline | same, 343-355, 575-590 | Maps `DecisionReason` to a rank 0-4, but only when some trendline, RTT or loss data exists. |
| Constraint chart | same, 620-745 | Rendering only. |
| CPU report discovery | `analyze_cpu_usage.py` 315-333 | Picks the newest `*analysis*.txt`. It looks in `webrtc_config_results/` first, then in `data_dir`. |
| Hotspot parser | same, 22-65 | Takes the rows after the `Children Self Command` header and keeps the first 20. |
| Categorisation, summary, insights | same, 67-108, 204-278 | Uses an elif chain of keyword rules, computes per-category count/total/max/top, and applies threshold insights. |
| Flame graph generator | `generate_webrtc_flamegraph.py` 56-170, 298-381 | Four non-exclusive sub-parsers turn each log line into timeline events. The events are sorted by timestamp, summed per function into folded stacks, written to the stack file, and summarised per category in a JSON report. |

## Modules

### `GccDecisionAnalyzer.tla`: the GCC log parser and the decision timeline

**How a line is represented.** A log line is a record `[pats, ts, own, arg]`:
- `pats`: the set of patterns whose regex `search`es it;
- `ts`: what the resolver regex of line 77 finds, or `None`;
- `own`: the `at Nms` of a decision snapshot;
- `arg`: the captured field whose conversion matters:
  - the trend and threshold text;
  - the loss state;
  - the candidate list, and whether every item parses;
  - the decision reason;
  - the pushback ratio.

`LineOK` restricts `Lines` to what the regexes can produce. For example, every
timed pattern has a `Time: N ms`, so `ts` is a number for it.

**State.**
- `lines`: the lines read so far.
- `last_timestamp`.
- `series`: one sequence of records per series. Each record carries `src`, the
  index of its line, so that properties can relate records to lines.
- `timeline`: the plotted decision ranks, or `None`.
- `phase`: `parse`, `parsed`, `plotted`, or `failed` (an uncaught exception).

**Actions.** The loop body, per line, is one step:
- `ReadLine` resolves the timestamp (lines 76-79).
- `Branch(p, l, lt)` holds when `p` is the first pattern in `Precedence` that
  fires on the line. This is how the `continue` chain is encoded.
- There is one action per branch: `ParseTrendline`, `ParseRtt`,
  `ParseLossEstimate`, `ParseLossCandidates`, `ParseProbe` (the timed and legacy
  formats), `ParseDecision`, `ParseConstraint`, `ParsePushback`, and `SkipLine`.
- The failing conversions are actions of their own. `LossCandidatesInvalid` and
  `PushbackInvalid` model the `float()` calls that raise.
- `EndOfFile` ends the loop.
- `PlotDecisions` and `PlotSkipped` model `plot_gcc_decision_metrics`.

Conversions are modelled by what they do:
- `TrendValue` and `ThresholdValue` follow the try/except code exactly: `'nan'`
  becomes 0.0 for the trend only, and `'-nan'` becomes NaN.
- `MaxCandidateBps` is `int(max * 1000)` or 0.

**Refinement mapping.** The end of the module maps the parser onto the
contract of `GccClassification`:
- `ContractPhase` merges `parsed` and `plotted` into `done`.
- `ContractRecs` (through `Tag` and `RecsOf`) is the set of all records, each
  tagged with the pattern `PatternOf` reads off its series, and stripped of its
  value.
- `ImplementsContract == Contract!Spec` is the refinement property.

### `CpuHotspotAnalyzer.tla`: the CPU report analyzer

**How a report is represented.** A report line is the header, a row, or any
other line. A hotspot keeps three things:
- its children percentage, as a whole number;
- the keyword classes its symbol contains;
- whether its shared object is WebRTC.

**The file system.** `setup` is a record: the reports present, each one's
directory (`top` or `sub`), and its mtime.

**Actions.**
- `FindReport` and `NoReportFound` model `main` at lines 315-322.
- `ReadHeader`, `ReadRow` and `SkipLine` are the loop at lines 41-60.
- `EndOfReport` models the `[:20]` truncation and the early return when there
  are no hotspots.
- `WriteSummary` models `generate_summary_report`: `CategoryOf` is the elif
  chain, and `CategoryStats` and `Insights` are the aggregates.
  - `Members(c)` is the categorisation loop of lines 80-106, written as a
    recursive function over `0..Len(hotspots)`. `F[i]` is the list of
    category `c` after the first `i` hotspots.
  - `SumChildren` is the `sum(...)` of line 216, written the same way.
  - The provers cannot expand the built-in `SelectSeq`, so `SelectSeq` is used
    only by the mutant `MembersNoElif`.

**Assumptions.**
- `ReportLinesAssumption`: every line the row regex matches carries a hotspot.
- `FileSetupsAssumption`: `glob` lists only existing report files, and an
  `st_mtime` is a natural.
- `SummaryCrash` is the `IndexError` of line 232.

### `GccClassification.tla`: the classifier's contract

This module is the abstract specification of what the classifier promises
(spec §3, §4.1, §4.2). It has no carried variable and no series. Its state is
`phase`, `lines`, and a set `recs` of `[src, pat, ts]`. Its actions:
- `Classify(l)` adds the record of the line's first applying pattern (`Classes`),
  stamped by `Stamp`:
  - the latest timestamp of the lines read (`Latest`) for a legacy probe;
  - the snapshot's own time for a decision;
  - otherwise the line's `Time: N ms`.
- `Abort(l)` ends the parse when that pattern's field does not convert.
- `Finish` ends the loop.

The legacy patterns apply only after a non-zero timestamp. This is the code's
truthiness test, which the `MCLegacyZero` finding contrasts with the spec's
wording.

### `FlameGraph.tla`: the flame graph generator

**How a line is represented.** A log line is a record of what each sub-parser's
regex captures, or `None`:
- `vq`: the video-quality time, event type (a sequence of dotted parts), FPS
  and `decode_ms`;
- `dec`: the decision snapshot's time;
- `bwe`: the BWE line's time and type;
- `rtp`: the RTP function, and whether its name holds a keyword;
- `thr`: the thread message duration.

A function name is a sequence of its dot-separated parts, so `split('.')` is
modelled by what it does.

**Actions.**
- `ReadLine` is one iteration of the loop of lines 66-75. All four parsers run
  (`LineEvents`), and RTP and thread events are stamped `line_num * 100`.
- `GenerateStacks` is `generate_flame_graph_data`:
  - a stable sort by timestamp (`SortByTs`);
  - `function_stats` in insertion order (`FunctionsOf`, `DurationOf`);
  - the folded stacks (`StackOf`, `FoldedStacks`);
  - `nodata` when there are no stacks, where `main` stops.
- `WriteStackFile` is the stack file written by `create_flamegraph_svg`.
- `SummaryReport` is `generate_summary_report`. Its categories are the first
  part of each function name.

### `GccDecisionAnalyzerProofs.tla`, `GccClassificationProofs.tla`, `GccClassifiedOnceProofs.tla`, `CpuHotspotAnalyzerProofs.tla`, `CpuSummaryProofs.tla`: TLAPS proofs

See "What is proved" below.

### `MC*.tla`: TLC instances

The MC modules give the constants their values for TLC.

## Runs

| Run (cfg) | Expect | Checks |
|---|---|---|
| `MCGccDecisionAnalyzer.cfg` | pass | `TypeOK`, `CarryForward`, `ClassifiedOnce`, `ImplementsContract` |
| `MCLegacyZero.cfg` | violation | `LegacyDroppedOnlyWithoutTimestamp` |
| `MCDecisionContext.cfg` | violation | `CarryForwardFromAnyTimestamp` |
| `MCConfigLimit.cfg` | violation | `ConfigLimitRecorded` |
| `MCNanThreshold.cfg` | violation | `NanReadAsZero` |
| `MCFatalParse.cfg` | violation | `OnlyIoErrorsFatal` |
| `MCTimelineSkipped.cfg` | violation | `DecisionTimelineProduced` |
| `MCCpuHotspotAnalyzer.cfg` | pass | `TypeOK`, `HotspotsFromSection`, `CategoryBreakdownExact`, `CategoryTotalsPartition` |
| `MCCpuReportLocation.cfg` | violation | `SummaryWrittenForFoundReport` |
| `MCCpuTimestamp.cfg` | violation | `TimestampOfAnalyzedReport` |
| `MCFlameGraph.cfg` | pass | `TypeOK`, `FlameGraphMatchesReport` |
| `MCFlameOrder.cfg` | violation | `TimelineFollowsLog` |

### What the passing properties say

- **`CarryForward`**: every legacy probe record is stamped with the timestamp of
  the last earlier line that had one, and no line between them had one.
- **`ClassifiedOnce`**:
  - every line yields at most one record;
  - that record is in the series of the first pattern that applies;
  - a line to which some pattern applies yields no record only when the parse
    failed on it.
- **`ImplementsContract`**: every step of the parser is a step of
  `GccClassification` under the refinement mapping, or leaves the mapped state
  unchanged. This covers three things:
  - the record of each line, and its pattern;
  - the record's timestamp, including for timed and decision records, which
    `CarryForward` does not look at;
  - the failure step.
- **`FlameGraphMatchesReport`**:
  - the stack file has one line per distinct function;
  - every event's stack is in it;
  - each stack's total is the sum of its events' durations;
  - the report's `total_time_ms` is the sum of the stack totals;
  - each category's total is the sum of the totals of the stacks under it.

  The property ties the two outputs of `main` together across non-exclusive
  sub-parsers.
- **`HotspotsFromSection`**: the hotspots are the rows after a header line, in
  order. It is stated with an enumeration `m` of their line positions:
  - `m` is increasing;
  - hotspot `i` is the row at `m[i]`;
  - no section row before a listed one is left out (`ListsFirstRows`).

  While the file is read, `m` lists every section row. At the end there are at
  most `HotspotLimit` hotspots, and either all rows are listed or exactly
  `HotspotLimit` are. So the slice keeps the first rows and never a later row
  in place of an earlier one.
- **`CategoryBreakdownExact`**: the summary is the contract of spec §4.6.
  `BreakdownOf(stats)` says it for each category `c` with at least one
  hotspot, where `InCategory(c)` is the set of hotspot indices that the elif
  chain sends to `c`:
  - `count` is the number of those hotspots;
  - `max` bounds each of their percentages;
  - `top` is the first of them that reaches `max`.
- **`CategoryTotalsPartition`**: the eight category totals add up to the sum
  of all hotspot percentages. This holds only if every hotspot lands in
  exactly one category list. An `if` chain instead of `elif` would count a
  hotspot twice.

### What the violations show

Each violation is a disagreement found while modelling, listed under
`findings` in PROJECT.json:
- **`MCLegacyZero`**: a carried timestamp of 0 is falsy (line 189), so a legacy
  probe after `Time: 0 ms` is dropped.
- **`MCDecisionContext`**: the snapshot's `at Nms` has no space before `ms`, so
  the resolver never sees it.
- **`MCConfigLimit`**: `config_limit` is compiled but never tried.
- **`MCNanThreshold`**: `float('nan')` succeeds, so NaN reaches the series.
- **`MCFatalParse`**: a malformed candidate list or pushback ratio raises and
  aborts the whole parse.
- **`MCTimelineSkipped`**: a log with only decision snapshots gets no timeline.
- **`MCCpuReportLocation`**: a report found under `webrtc_config_results/` is
  parsed, then the summary's `glob(...)[0]` in `data_dir` raises `IndexError`.
- **`MCCpuTimestamp`**: `analysis_timestamp` is the mtime of whichever report
  `glob` lists first, not of the report analyzed.
- **`MCFlameOrder`**: RTP and thread events are stamped `line_num * 100`
  (lines 126, 134), and the sort of line 150 mixes them with the log's
  milliseconds. So a log whose times rise is still reordered, although spec
  §1(c) asks for temporal alignment across subsystems.

### Bounds and why they suffice

**The GCC parser.** Logs have up to 3 lines, drawn from:
- one line of each format;
- lines matched by several patterns at once;
- unrecognised lines with and without a timestamp;
- a legacy line with a timestamp elsewhere in its text.

Timestamps are 0, 3 and 7:
- 0 because Python treats it as false;
- two positive values so that a carried timestamp can be overtaken.

Three lines are enough for every pattern the properties look at:
- a timestamp, a legacy probe, then a second timestamp;
- a timestamp, an unrecognised line, then a probe.

The run has 39,266 distinct states. Together the runs fire every action and
every disjunct.

**The CPU analyzer.**
- Reports have up to 5 lines and keep at most 3 hotspots, so truncation happens.
- Percentages are 5, 12 and 25, so that two or three hotspots cross each
  insight cutoff.
- The rows are chosen to exercise rule precedence:
  - a network symbol in a WebRTC library;
  - video before memory;
  - two hotspots of one category with equal percentages, which tests the
    "first maximal" choice of `max`.
- The main run covers three setups: no report, a report in `data_dir`, and a
  report only in the subdirectory. It has 311,224 distinct states.

**The flame graph generator.** Logs have up to 4 lines, drawn from 10 line
shapes:
- video lines with FPS and decode, with a dotted event type, and with 0 decode;
- a decision snapshot;
- a BWE line;
- RTP lines with and without a keyword;
- a thread line;
- a line that both the video and thread parsers match;
- an irrelevant line.

So the sort, the per-function sums over repeated functions and the
several-events-per-line case all occur. The run has 44,202 distinct states.
`MCFlameOrder` uses 3 lines: two video lines at 5 and 7 ms, and a thread line.

### Fairness and deadlock

No run assumes fairness and none checks a liveness property. The programs are
single-threaded loops over a bounded file, and every non-final state of each
model has a successor, so termination holds by the shape of the models and
would say nothing about the code.

Every cfg says `CHECK_DEADLOCK FALSE`, because the final states (plotted,
failed, nodata, done, crashed) have no successor: the program has exited.

### Mutants

Each property of a passing run is broken by a plausible bug in the code it is
about:

| Mutant | Plausible bug | Breaks |
|---|---|---|
| `ParseProbeStaleTs` | legacy records keep the previous timestamp | `CarryForward` |
| `BranchWithoutContinue` | the `continue` statements are dropped | `ClassifiedOnce` |
| `ParseLossEstimateSentinel` | the candidates' state `-1` is used for estimates | `TypeOK` |
| `ReadRowMatch` | the match is appended instead of the dict | `TypeOK` (CPU) |
| `ReadRowAnywhere` | the section flag is ignored | `HotspotsFromSection` |
| `MembersNoElif` | `if` used instead of `elif` | `CategoryBreakdownExact`, `CategoryTotalsPartition` |
| `ParseDecisionCarriedTs` | the snapshot is stamped with `last_timestamp` | `ImplementsContract` |
| `RtpEventsBare` | the `RTP.` prefix is dropped from the function name | `TypeOK` (flame graph) |
| `LastDurationOf` | `=` instead of `+=` in `function_stats` | `FlameGraphMatchesReport` |

## What is proved

`GccDecisionAnalyzerProofs.tla` proves two theorems for every set of lines
satisfying `LineOK` and every `MaxLines \in Nat`. The assumptions are
`MaxLinesAssumption`, `NoneAssumption` and `LinesAssumption`.

- **`TypeCorrect`: `Spec => []TypeOK`.** The proof goes through one lemma per
  parse action (`ParseStepSeries`): the series it touches gets a record of that
  series' type. `EmitPreservesType` and `ReadLineType` carry the rest.
- **`CarryForwardCorrect`: `Spec => []CarryForward`.** `CarryForward` alone is
  not inductive, because a new legacy record needs a fact about
  `last_timestamp`. The strengthening is
  `IInv == TypeOK /\ LastTsInv /\ SrcInv /\ CarryForward`:
  - `LastTsInv`: `last_timestamp` is the `ts` of the last line that had one, or
    `None` if no line had one.
  - `SrcInv`: every record's `src` is the index of a line already read.

  Each parse step appends one line and possibly one record for that line
  (`ParseStepAppends`). Old records keep their witness, because the line
  sequence only grows (`ReadLinePrefix`). A new legacy record gets its witness
  from `LastTsInv`, and `BranchLegacyTruthy` shows `last_timestamp` is then not
  `None`. TLC also checked `IInv` as an invariant of the main run.

`GccClassificationProofs.tla` proves that the parser implements its contract.

- **`ContractRefinement`: `Spec => ImplementsContract`.**
  - The invariant is `RInv == IInv /\ NoneInv`. `NoneInv` says that
    `last_timestamp` is `None` only while no line read had a timestamp.
    `LastTsInv` alone allows an earlier timestamped line in that case.
  - With `RInv`, `LatestAfterRead` shows that the carried `Resolve(l)` equals
    the contract's `Latest` of the lines read. So the code's `Fires` is the
    contract's `AppliesTo` (`FiresIffApplies`).
  - Because `Precedence` is the contract's `Order`, `Branch` is membership in
    `Classes` (`BranchIffClass`). The class is `{p}` when branch `p` is taken
    (`BranchUnique`, `ClassesOne`), and empty for a skipped line
    (`ClassesNone`).
  - `RecsAppend` and `EmitRefines` turn one `Emit` into the contract's new
    record.
  - `ParseRefines` takes the parse actions one by one. It shows each is a
    `Classify` or an `Abort`.
  - `StepRefines` maps `EndOfFile` to `Finish` and the plots to stutters.

`GccClassifiedOnceProofs.tla` proves **`ClassifiedOnceCorrect`:
`Spec => []ClassifiedOnce`.** `ClassifiedOnce` judges each line with the
timestamp carried up to it. That judgement is `FirstApplying(i)`, the
contract's `Classes` of the first `i` lines.

The invariant is `CInv == RInv /\ Uniq /\ PatOK /\ Cover`:
- `Uniq`: no two records come from the same line.
- `PatOK`: every record carries the first applying pattern of its line.
- `Cover`: a line with an applying pattern has a record, or the parse failed on
  it.

Two facts make `CInv` inductive:
- Judgements are stable (`FirstApplyingStable`). Reading later lines does not
  change the latest timestamp before line `i` (`LatestTsStable`). That needs
  the last stamped line to exist, which `MaxExists` derives from the
  well-foundedness of `<` on `Nat` (`WFMin`).
- For the line just read, the judgement is the contract's class
  (`FirstApplyingLast`). So `ParseStepShape`, together with `BranchIffClass`
  from the refinement proof, gives one of three outcomes:
  - one record of that class is appended;
  - the parse fails;
  - nothing is appended for a line with no class.

TLC checked `CInv` as an invariant of the main run before it was proved.

`CpuHotspotAnalyzerProofs.tla` proves **`HotspotsFromSectionCorrect`:
`Spec => []HotspotsFromSection`**, for every set of report lines, every
`MaxLines` and every `HotspotLimit` (`LimitAssumption`).

The invariant `HInv` adds three conjuncts to `HotspotsFromSection`:
- the types of `lines` and `hotspots`;
- `lines` and `hotspots` are empty before the report is found;
- `in_hotspot_section` is true exactly when some header was read.

The last conjunct is what the property needs. Without it, a row read after a
forgotten header could not be told apart from one read before any header.

The step lemmas:
- `SectionRowsAppend`: reading a line keeps every old position and its
  membership of the section. The new line is a section row iff it is a row and
  a header came before.
- `SameRowsStep`, `NewRowStep` and `ReadStep`: for a header or a skipped line
  the same enumeration serves. For a row, it is extended by the new position.
- `PrefixStep` and `EndStep`: the slice keeps the first `HotspotLimit`
  positions. A section row before a kept position is listed at a smaller
  index, because the enumeration is increasing, so it is kept too.
- `FindStep`, `KeepStep` and `InitHInv`: the remaining steps.

TLC checked `HInv` as an invariant of `MCCpuHotspotAnalyzer.cfg` before it was
proved.

All proofs are checked by `tlapm` to the last leaf.

`CpuSummaryProofs.tla` proves **`TypeCorrect`: `Spec => []TypeOK`** for the
CPU analyzer. It holds for every set of report lines, every set of file-system
states and every limit, under `LimitAssumption`, `ReportLinesAssumption` and
`FileSetupsAssumption`.
- The invariant is `TInv == TypeOK /\ (phase = "report" => hotspots # <<>>)`.
  The second conjunct is the early return of lines 331-333. It is needed
  because `WriteSummary` reads `cpu_hotspots[0]` as the top function.
- `CategoryStatsType` and `SummaryType` show that the report written is well
  typed. They rest on three loop lemmas:
  - `MembersType`: the categorisation loop builds lists of hotspots;
  - `SumChildrenNat`: a sum of children percentages is a natural;
  - `TopOfType`: `max()` of a non-empty list picks one of its hotspots. A
    greatest element exists by induction on the prefix, and a first one by
    `NatMinExists`.
- Induction over `0..L` is derived once, in `PrefixInduction`, from the
  well-foundedness of `<` on `Nat` (`WFMin` of `WellFoundedInduction`). It is
  stated for a set, not for an operator parameter, so the provers can
  instantiate it.
- `RecursionExists` shows that a function defined by `g[0] = c` and
  `g[i] = D[<<g[i-1], i>>]` exists. `RecursionType` shows that it ranges over
  any set its step preserves. Together they turn the recursive definitions of
  `Members` and `SumChildren` into facts about each index.
- TLC checked `TInv` as an invariant of `MCCpuHotspotAnalyzer.cfg` before it
  was proved.

The same module proves that the summary is right for every instance:
**`CategoryBreakdownCorrect`: `Spec => []CategoryBreakdownExact`** and
**`CategoryTotalsCorrect`: `Spec => []CategoryTotalsPartition`**.
- The invariant is `BInv == TInv /\ (report # None => phase = "done" /\
  report.stats = CategoryStats)`. Once the summary is written, no step
  changes `hotspots` (`CategoryStatsUnchanged`). So the stored statistics
  stay those of the current hotspots. TLC checked `BInv` before it was
  proved.
- `StatsBreakdown` proves `BreakdownOf(CategoryStats)`, the breakdown of the
  statistics computed from the hotspots:
  - `MembersEnum`: the list `Members(c)` enumerates `InCategory(c)` in index
    order, so its length is `Cardinality(InCategory(c))`. This follows by
    prefix induction with `FS_AddElement` of `FiniteSetTheorems`.
  - `TopOfSpec`: `max(..., key=children)` returns the first hotspot of the
    list with the greatest percentage, as Python's `max` does.
- `TotalsPartition` proves the sum identity by prefix induction. Each step
  appends one hotspot to exactly one of the eight lists. The arithmetic of
  that step is the lemma `AllCatSumsStep`.
- The category names are strings with spaces (`"Network I/O"`). The SMT
  backend rejects such literals, so the proof names them (`CNet`, ...).
  `CategoryNames` proves with Zenon that they are eight distinct strings
  that make up `Category`.

## What is only model-checked

- All flame graph properties are checked only on the instances above.
  `FlameGraph` reaches `RECURSIVE` operators through `FiniteSetsExt` and
  `Folds` (`SumFunctionOnSet`), and its sort uses `Cardinality`. A module
  with a theorem cannot reach a `RECURSIVE` operator.
- The violation runs are disagreements between the code and the spec. They are
  shown by TLC counterexamples, not by proofs.

## Not modelled

- **The constraint chart, the other subplots, the CPU charts and the text
  report.** These are rendering.
- **`flamegraph.pl` and `generate_interactive_flamegraph`.** These are
  rendering. Whether perl succeeds changes nothing `main` does afterwards.
- **CLI parsing and file writing.**

## Plan for later work

1. An abstract contract for the CPU hotspot parser (the first rows of the
   section), refined by `CpuHotspotAnalyzer`, with the refinement proved from
   `HInv`.
2. An action property of the CPU analyzer (the summary is written once, from
   the hotspots parsed), proved from `HInv`.
3. An abstract contract for the flame graph's report, refined by `FlameGraph`.
