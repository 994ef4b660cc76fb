------------------------------ MODULE FlameGraph ------------------------------
(***************************************************************************)
(* The flame graph generator of                                            *)
(* src/webrtc_config_results/generate_webrtc_flamegraph.py.                *)
(* parse_webrtc_logs runs four independent sub-parsers on every line and  *)
(* appends each event they find to timeline_data.  generate_flame_graph_  *)
(* data sorts the timeline by timestamp, sums the durations per function  *)
(* name and folds each name into a stack.  main writes the stacks for     *)
(* flamegraph.pl and then the per-category summary report.                 *)
(*                                                                         *)
(* A line is abstracted to what each sub-parser's regex captures from it, *)
(* None where it does not match.  A function name is kept as the          *)
(* sequence of its '.'-separated parts, which is what function.split('.') *)
(* gives back; an event type captured by a regex may itself hold a dot.   *)
(* Every event carries the number of its line, src, used by properties    *)
(* only.  Rendering (the SVG and HTML output) is left out.                 *)
(***************************************************************************)
EXTENDS Integers, Sequences, SequencesExt, FiniteSets, FiniteSetsExt, Functions

CONSTANTS
    Lines,     \* the lines a log may contain
    MaxLines,  \* bound on the length of a log
    None

ASSUME MaxLinesAssumption == MaxLines \in Nat

VARIABLES
    phase,       \* "parse", "generated", "nodata", "rendered", "done"
    lines,       \* the log lines read so far
    timeline,    \* timeline_data
    stacks,      \* stack_data returned by generate_flame_graph_data
    stack_file,  \* webrtc_stacks.txt, the input of flamegraph.pl, or None
    report       \* webrtc_performance_report.json, or None

vars == <<phase, lines, timeline, stacks, stack_file, report>>

-----------------------------------------------------------------------------
(* _add_timeline_event, lines 137-143.                                     *)
Event(ts, fn, dur, n) == [ts |-> ts, fn |-> fn, dur |-> dur, src |-> n]

(* _parse_video_quality_events, lines 79-98: an FPS value gives a         *)
(* ProcessFrame event of fps * 10, a positive decode_ms a Decode event.    *)
VideoEvents(l, n) ==
    IF l.vq = None THEN <<>>
    ELSE (IF l.vq.fps # None
          THEN <<Event(l.vq.ts, <<"VideoQuality">> \o l.vq.type \o <<"ProcessFrame">>,
                       l.vq.fps * 10, n)>>
          ELSE <<>>)
         \o
         (IF l.vq.decode # None /\ l.vq.decode > 0
          THEN <<Event(l.vq.ts, <<"VideoQuality">> \o l.vq.type \o <<"Decode">>,
                       l.vq.decode, n)>>
          ELSE <<>>)

(* _parse_gcc_events, lines 100-114: a decision snapshot and a BWE line   *)
(* are searched independently; the gcc_trendline pattern is never used.   *)
GccEvents(l, n) ==
    (IF l.dec = None THEN <<>>
     ELSE <<Event(l.dec, <<"GCC", "DecisionSnapshot">>, 5, n)>>)
    \o
    (IF l.bwe = None THEN <<>>
     ELSE <<Event(l.bwe.ts, <<"GCC">> \o l.bwe.type, 3, n)>>)

(* Mutant: the RTP event named by the bare function, without "RTP.".     *)
RtpEventsBare(l, n) ==
    IF l.rtp = None \/ ~l.rtp.key THEN <<>>
    ELSE <<Event(n * 100, <<l.rtp.fn>>, Max({1, n % 50}), n)>>

(* _parse_rtp_events, lines 116-127: a function whose name holds Receive, *)
(* Process, Decode or Render; its time is the line number times 100 and   *)
(* its duration max(1, line_num % 50).                                     *)
RtpEvents(l, n) ==
    IF l.rtp = None \/ ~l.rtp.key THEN <<>>
    ELSE <<Event(n * 100, <<"RTP", l.rtp.fn>>, Max({1, n % 50}), n)>>

(* _parse_thread_timing, lines 129-135: also stamped line_num * 100.       *)
ThreadEvents(l, n) ==
    IF l.thr = None THEN <<>>
    ELSE <<Event(n * 100, <<"Threading", "MessageDispatch">>, l.thr, n)>>

(* The body of the loop of parse_webrtc_logs, lines 66-75, for line n.    *)
LineEvents(l, n) ==
    VideoEvents(l, n) \o GccEvents(l, n) \o RtpEvents(l, n) \o ThreadEvents(l, n)

ReadLine(l) ==
    /\ phase = "parse"
    /\ Len(lines) < MaxLines
    /\ lines' = Append(lines, l)
    /\ timeline' = timeline \o LineEvents(l, Len(lines) + 1)
    /\ UNCHANGED <<phase, stacks, stack_file, report>>

-----------------------------------------------------------------------------
(* generate_flame_graph_data, lines 145-170.                               *)

(* timeline_data.sort(key=timestamp), line 150: Python's sort is stable,  *)
(* so events of equal timestamp keep their order.                          *)
(* Event i goes to position Rank(i): one past the events with an earlier  *)
(* timestamp, or the same timestamp and an earlier position.               *)
SortByTs(s) ==
    LET Before(j, i) == s[j].ts < s[i].ts \/ (s[j].ts = s[i].ts /\ j < i)
        Rank(i) == Cardinality({j \in DOMAIN s : Before(j, i)}) + 1
    IN  [k \in DOMAIN s |-> s[CHOOSE i \in DOMAIN s : Rank(i) = k]]

(* The keys of function_stats in insertion order: each function name at   *)
(* its first event.                                                        *)
FunctionsOf(s) ==
    LET f[n \in 0..Len(s)] ==
          IF n = 0 THEN <<>>
          ELSE IF s[n].fn \in Range(f[n - 1]) THEN f[n - 1]
               ELSE Append(f[n - 1], s[n].fn)
    IN  f[Len(s)]

(* Mutant: function_stats[f] = duration, the last duration only.          *)
LastDurationOf(s, fn) ==
    s[CHOOSE i \in DOMAIN s : s[i].fn = fn /\ \A j \in DOMAIN s : s[j].fn = fn => j <= i].dur

(* function_stats[function] += duration, lines 156-158.                    *)
DurationOf(s, fn) ==
    SumFunctionOnSet([i \in DOMAIN s |-> s[i].dur], {i \in DOMAIN s : s[i].fn = fn})

(* Lines 163-168: a name of two parts or more is its own stack, any other *)
(* goes under a WebRTC root frame.                                         *)
StackOf(fn) == IF Len(fn) >= 2 THEN fn ELSE <<"WebRTC">> \o fn

FoldedStacks(s) ==
    LET F == FunctionsOf(s)
    IN  [k \in DOMAIN F |-> [stack |-> StackOf(F[k]), total |-> DurationOf(s, F[k])]]

GenerateStacks ==
    /\ phase = "parse"
    /\ timeline' = SortByTs(timeline)
    /\ stacks' = FoldedStacks(timeline')
    /\ phase' = IF stacks' = <<>> THEN "nodata" ELSE "generated"
    /\ UNCHANGED <<lines, stack_file, report>>

(* create_flamegraph_svg, lines 172-209: the stacks are written to the    *)
(* file flamegraph.pl reads; whether the perl run succeeds changes        *)
(* nothing main uses later, and the interactive chart is rendering only.   *)
WriteStackFile ==
    /\ phase = "generated"
    /\ stack_file' = stacks
    /\ phase' = "rendered"
    /\ UNCHANGED <<lines, timeline, stacks, report>>

-----------------------------------------------------------------------------
(* generate_summary_report, lines 298-338: per category (the first part of *)
(* the function name) the count, total and max of the durations.           *)
CategoryStats(s) ==
    [c \in {s[i].fn[1] : i \in DOMAIN s} |->
        LET I == {i \in DOMAIN s : s[i].fn[1] = c}
        IN  [count |-> Cardinality(I),
             total |-> SumFunctionOnSet([i \in DOMAIN s |-> s[i].dur], I),
             max   |-> Max({0} \cup {s[i].dur : i \in I})]]

SummaryReport ==
    /\ phase = "rendered"
    /\ report' = [events |-> Len(timeline),
                  total  |-> SumFunctionOnSet([i \in DOMAIN timeline |-> timeline[i].dur],
                                              DOMAIN timeline),
                  cats   |-> CategoryStats(timeline)]
    /\ phase' = "done"
    /\ UNCHANGED <<lines, timeline, stacks, stack_file>>

-----------------------------------------------------------------------------

Init ==
    /\ phase = "parse"
    /\ lines = <<>>
    /\ timeline = <<>>
    /\ stacks = <<>>
    /\ stack_file = None
    /\ report = None

(* main, lines 340-381: parse, fold, and when there are stacks write the  *)
(* stack file and the report.                                              *)
Next ==
    \/ \E l \in Lines : ReadLine(l)
    \/ GenerateStacks
    \/ WriteStackFile
    \/ SummaryReport

Spec == Init /\ [][Next]_vars

-----------------------------------------------------------------------------
(* Properties.                                                             *)

EventOK(e) ==
    /\ e.ts \in Nat /\ e.dur \in Nat /\ e.src \in 1..Len(lines)
    /\ e.fn \in Seq(STRING) /\ Len(e.fn) >= 2

TypeOK ==
    /\ phase \in {"parse", "generated", "nodata", "rendered", "done"}
    /\ lines \in Seq(Lines) /\ Len(lines) <= MaxLines
    /\ timeline \in Seq([ts : Nat, fn : Seq(STRING), dur : Nat, src : Nat])
    /\ \A i \in DOMAIN timeline : EventOK(timeline[i])
    /\ stacks \in Seq([stack : Seq(STRING), total : Nat])
    /\ stack_file \in Seq([stack : Seq(STRING), total : Nat]) \cup {None}
    /\ report = None \/ report.events = Len(timeline)

(* The durations of the events whose function folds into stack st.        *)
StackDuration(st) ==
    SumFunctionOnSet([i \in DOMAIN timeline |-> timeline[i].dur],
                     {i \in DOMAIN timeline : StackOf(timeline[i].fn) = st})

(* The flame graph input and the summary report account for the same      *)
(* events: every event lies under exactly one line of webrtc_stacks.txt,  *)
(* whose weight is the sum of its events' durations; and the report's     *)
(* total, and each category's total, equal the weights of the stacks that *)
(* start with that category.  A fold that loses or double-counts events   *)
(* makes the flame graph and the report disagree.                          *)
FlameGraphMatchesReport ==
    /\ stack_file # None =>
          /\ \A i, j \in DOMAIN stack_file :
                i # j => stack_file[i].stack # stack_file[j].stack
          /\ \A i \in DOMAIN timeline :
                \E k \in DOMAIN stack_file : stack_file[k].stack = StackOf(timeline[i].fn)
          /\ \A k \in DOMAIN stack_file :
                stack_file[k].total = StackDuration(stack_file[k].stack)
    /\ report # None =>
          /\ report.total = SumFunctionOnSet([k \in DOMAIN stack_file |-> stack_file[k].total],
                                             DOMAIN stack_file)
          /\ \A c \in DOMAIN report.cats :
                report.cats[c].total =
                    SumFunctionOnSet([k \in DOMAIN stack_file |-> stack_file[k].total],
                                     {k \in DOMAIN stack_file : stack_file[k].stack[1] = c})

(* The timestamps the log itself carries (a video quality, decision or    *)
(* BWE time), in line order.                                               *)
LogTimes(l) ==
    {t \in {IF l.vq = None THEN None ELSE l.vq.ts,
            l.dec,
            IF l.bwe = None THEN None ELSE l.bwe.ts} : t # None}

LogInTimeOrder ==
    \A i, j \in DOMAIN lines :
        i < j => \A a \in LogTimes(lines[i]), b \in LogTimes(lines[j]) : a <= b

(* Spec 1(c) and 8.2: the engine preserves temporal alignment across      *)
(* subsystems, so when the log's own timestamps rise with the line order, *)
(* the sorted timeline (line 150) lists events in line order.  RTP and    *)
(* thread events are stamped line_num * 100 (lines 126, 134), a clock    *)
(* that the sort mixes with the log's milliseconds.                        *)
TimelineFollowsLog ==
    (phase # "parse" /\ LogInTimeOrder) =>
        \A i, j \in DOMAIN timeline : i < j => timeline[i].src <= timeline[j].src

=============================================================================
