-------------------------- MODULE CpuHotspotAnalyzer --------------------------
(***************************************************************************)
(* The CPU report analyzer of src/webrtc_config_results/analyze_cpu_usage.py: *)
(* main finds the latest perf analysis report, parse_cpu_analysis_report   *)
(* reads its hotspot rows after the 'Children Self Command' header and     *)
(* keeps the first HotspotLimit of them, and generate_summary_report      *)
(* sorts them into categories by the first keyword rule that applies,     *)
(* aggregates each category and derives the insights.                      *)
(*                                                                         *)
(* A report line is abstracted to its kind: the header, a hotspot row the *)
(* row regex matches, or any other line (blank, '#' comment, text; none    *)
(* of these matches the row regex, which starts with \s*\d).  A hotspot   *)
(* keeps its children percentage (a float, here a whole number), the      *)
(* keyword classes its lower-cased symbol contains and whether its shared *)
(* object names webrtc or peerconnection.  The chart code is left out.     *)
(***************************************************************************)
EXTENDS Integers, Sequences, FiniteSets

CONSTANTS
    ReportLines,   \* the lines a report may contain
    MaxLines,      \* bound on the length of a report
    HotspotLimit,  \* the 20 of hotspots[:20]
    Files,         \* the analysis report files that may exist
    FileSetups,    \* the possible file-system states: present, loc, mtime
    None

ASSUME LimitAssumption == HotspotLimit \in Nat /\ MaxLines \in Nat

(* The keyword lists of categorize_functions (lines 85-103), each a class *)
(* of substrings of the symbol.                                            *)
SymbolClass == {"net", "sys", "video", "audio", "mem", "thread"}

Category == {"Network I/O", "System Calls", "WebRTC Core", "Video Processing",
             "Audio Processing", "Memory Management", "Threading", "Other"}

Hotspot == [children : Nat, sym : SUBSET SymbolClass, webrtc : BOOLEAN]

(* A line the row regex of lines 49-60 matches yields a hotspot.          *)
ASSUME ReportLinesAssumption ==
    \A l \in ReportLines : l.kind = "row" => l.hs \in Hotspot

(* glob lists report files that exist, and st_mtime is a time, never     *)
(* negative.                                                               *)
ASSUME FileSetupsAssumption ==
    \A s \in FileSetups : s.present \subseteq Files /\ \A f \in s.present : s.mtime[f] \in Nat

VARIABLES
    phase,      \* "find", "parse", "report", "done", "nofile", "nodata", "crashed"
    setup,      \* the file-system state: which reports exist, where, mtimes
    analyzed,   \* the report main chose
    lines,      \* the report lines read so far
    in_section, \* in_hotspot_section, line 39
    hotspots,   \* cpu_hotspots
    report      \* the summary report written, or None

vars == <<phase, setup, analyzed, lines, in_section, hotspots, report>>

-----------------------------------------------------------------------------
(* Finding the report, main lines 315-325.                                 *)

(* Reports under data_dir/webrtc_config_results/ are preferred; only when *)
(* there are none does main glob data_dir itself.                          *)
Candidates(s) ==
    LET sub == {f \in s.present : s.loc[f] = "sub"}
    IN  IF sub # {} THEN sub ELSE {f \in s.present : s.loc[f] = "top"}

(* max(analysis_files, key=st_mtime): one of the newest candidates.        *)
FindReport ==
    /\ phase = "find"
    /\ \E f \in Candidates(setup) :
          /\ \A g \in Candidates(setup) : setup.mtime[g] <= setup.mtime[f]
          /\ analyzed' = f
    /\ phase' = "parse"
    /\ UNCHANGED <<setup, lines, in_section, hotspots, report>>

NoReportFound ==
    /\ phase = "find"
    /\ Candidates(setup) = {}
    /\ phase' = "nofile"
    /\ UNCHANGED <<setup, analyzed, lines, in_section, hotspots, report>>

-----------------------------------------------------------------------------
(* parse_cpu_analysis_report, lines 22-65: one step per line.              *)

ReadLine(l) ==
    /\ phase = "parse"
    /\ Len(lines) < MaxLines
    /\ lines' = Append(lines, l)
    /\ UNCHANGED <<phase, setup, analyzed, report>>

(* Lines 42-44: the header opens the hotspot section.                      *)
ReadHeader(l) ==
    /\ ReadLine(l)
    /\ l.kind = "header"
    /\ in_section' = TRUE
    /\ UNCHANGED hotspots

(* Mutant: a row is a hotspot wherever it stands.                          *)
ReadRowAnywhere(l) ==
    /\ ReadLine(l)
    /\ l.kind = "row"
    /\ hotspots' = Append(hotspots, l.hs)
    /\ UNCHANGED in_section

(* Mutant: the match itself is appended, not the hotspot dict.            *)
ReadRowMatch(l) ==
    /\ ReadLine(l)
    /\ l.kind = "row"
    /\ in_section
    /\ hotspots' = Append(hotspots, l)
    /\ UNCHANGED in_section

(* Lines 49-60: a row in the section is a hotspot.                         *)
ReadRow(l) ==
    /\ ReadLine(l)
    /\ l.kind = "row"
    /\ in_section
    /\ hotspots' = Append(hotspots, l.hs)
    /\ UNCHANGED in_section

(* Any other line (lines 46-47 skip '#' comments), and a row before the  *)
(* header, is passed over.                                                 *)
SkipLine(l) ==
    /\ ReadLine(l)
    /\ l.kind # "header"
    /\ l.kind = "row" => ~in_section
    /\ UNCHANGED <<in_section, hotspots>>

(* Line 64: the first HotspotLimit hotspots are returned; main stops     *)
(* when there are none (lines 331-333).                                    *)
Truncate(h) == IF Len(h) <= HotspotLimit THEN h ELSE SubSeq(h, 1, HotspotLimit)

EndOfReport ==
    /\ phase = "parse"
    /\ hotspots' = Truncate(hotspots)
    /\ phase' = IF hotspots' = <<>> THEN "nodata" ELSE "report"
    /\ UNCHANGED <<setup, analyzed, lines, in_section, report>>

-----------------------------------------------------------------------------
(* generate_summary_report, lines 204-250.                                 *)

(* categorize_functions, lines 80-106: the first rule that applies.        *)
CategoryOf(h) ==
    CASE "net" \in h.sym    -> "Network I/O"
      [] "sys" \in h.sym    -> "System Calls"
      [] h.webrtc           -> "WebRTC Core"
      [] "video" \in h.sym  -> "Video Processing"
      [] "audio" \in h.sym  -> "Audio Processing"
      [] "mem" \in h.sym    -> "Memory Management"
      [] "thread" \in h.sym -> "Threading"
      [] OTHER              -> "Other"

(* Mutant: the rules as independent ifs, not an elif chain.               *)
RuleApplies(c, h) ==
    \/ c = "Network I/O"       /\ "net" \in h.sym
    \/ c = "System Calls"      /\ "sys" \in h.sym
    \/ c = "WebRTC Core"       /\ h.webrtc
    \/ c = "Video Processing"  /\ "video" \in h.sym
    \/ c = "Audio Processing"  /\ "audio" \in h.sym
    \/ c = "Memory Management" /\ "mem" \in h.sym
    \/ c = "Threading"         /\ "thread" \in h.sym
    \/ c = "Other"             /\ CategoryOf(h) = "Other"

MembersNoElif(c) == SelectSeq(hotspots, LAMBDA h : RuleApplies(c, h))

(* The hotspots of category c, in report order: the loop of lines 80-106 *)
(* appends each hotspot to the list of its category.  F[i] is the list    *)
(* after the first i hotspots.                                             *)
Members(c) ==
    LET F[i \in 0..Len(hotspots)] ==
          IF i = 0 THEN <<>>
          ELSE IF CategoryOf(hotspots[i]) = c THEN Append(F[i - 1], hotspots[i])
               ELSE F[i - 1]
    IN  F[Len(hotspots)]

(* sum(f['children_percent'] for f in funcs).                              *)
SumChildren(s) ==
    LET f[i \in 0..Len(s)] == IF i = 0 THEN 0 ELSE f[i - 1] + s[i].children
    IN  f[Len(s)]

(* max(funcs, key=children_percent): the first hotspot of greatest        *)
(* children percentage.                                                    *)
TopOf(s) ==
    s[CHOOSE i \in DOMAIN s :
          /\ \A j \in DOMAIN s : s[j].children <= s[i].children
          /\ \A j \in 1..(i - 1) : s[j].children < s[i].children]

(* category_stats, lines 212-224, for the categories with hotspots; the   *)
(* average is total / count and is not kept.                               *)
CategoryStats ==
    [c \in {c \in Category : Members(c) # <<>>} |->
        [count |-> Len(Members(c)),
         total |-> SumChildren(Members(c)),
         max   |-> TopOf(Members(c)).children,
         top   |-> TopOf(Members(c))]]

(* _generate_insights, lines 252-278, over the category totals.           *)
TotalOf(st, c) == IF c \in DOMAIN st THEN st[c].total ELSE 0

Insights(st) ==
    {i \in {"network", "syscall", "webrtc_low", "webrtc_high", "video"} :
        \/ i = "network"     /\ TotalOf(st, "Network I/O") > 15
        \/ i = "syscall"     /\ TotalOf(st, "System Calls") > 20
        \/ i = "webrtc_low"  /\ TotalOf(st, "WebRTC Core") < 10
        \/ i = "webrtc_high" /\ TotalOf(st, "WebRTC Core") > 30
        \/ i = "video"       /\ TotalOf(st, "Video Processing") > 25}

(* The summary is written; analysis_timestamp is the mtime of             *)
(* glob('*analysis*.txt')[0] in data_dir itself (line 232), any one of    *)
(* the top-level reports.                                                  *)
WriteSummary ==
    /\ phase = "report"
    /\ \E f \in {g \in setup.present : setup.loc[g] = "top"} :
          report' = [stats     |-> CategoryStats,
                     top       |-> hotspots[1],
                     insights  |-> Insights(CategoryStats),
                     timestamp |-> setup.mtime[f]]
    /\ phase' = "done"
    /\ UNCHANGED <<setup, analyzed, lines, in_section, hotspots>>

(* No report in data_dir itself: list(...)[0] raises IndexError, which    *)
(* main does not catch.                                                    *)
SummaryCrash ==
    /\ phase = "report"
    /\ {g \in setup.present : setup.loc[g] = "top"} = {}
    /\ phase' = "crashed"
    /\ UNCHANGED <<setup, analyzed, lines, in_section, hotspots, report>>

-----------------------------------------------------------------------------

Init ==
    /\ phase = "find"
    /\ setup \in FileSetups
    /\ analyzed = None
    /\ lines = <<>>
    /\ in_section = FALSE
    /\ hotspots = <<>>
    /\ report = None

Next ==
    \/ FindReport
    \/ NoReportFound
    \/ \E l \in ReportLines : ReadHeader(l) \/ ReadRow(l) \/ SkipLine(l)
    \/ EndOfReport
    \/ WriteSummary
    \/ SummaryCrash

Spec == Init /\ [][Next]_vars

-----------------------------------------------------------------------------
(* Properties.                                                             *)

Phase == {"find", "parse", "report", "done", "nofile", "nodata", "crashed"}

Stats == [count : Nat, total : Nat, max : Nat, top : Hotspot]

ReportOK(r) ==
    /\ DOMAIN r = {"stats", "top", "insights", "timestamp"}
    /\ DOMAIN r.stats \subseteq Category
    /\ \A c \in DOMAIN r.stats : r.stats[c] \in Stats
    /\ r.top \in Hotspot
    /\ r.insights \subseteq {"network", "syscall", "webrtc_low", "webrtc_high", "video"}
    /\ r.timestamp \in Nat

TypeOK ==
    /\ phase \in Phase
    /\ setup \in FileSetups
    /\ analyzed \in Files \cup {None}
    /\ lines \in Seq(ReportLines)
    /\ Len(lines) <= MaxLines
    /\ in_section \in BOOLEAN
    /\ hotspots \in Seq(Hotspot)
    /\ report = None \/ ReportOK(report)

(* The positions of the hotspot rows of a report: the rows that follow   *)
(* some header line, over the whole text read so far.                      *)
SectionRowsAt(s) ==
    {n \in DOMAIN s : s[n].kind = "row" /\ \E j \in 1..(n - 1) : s[j].kind = "header"}

(* The hotspots h are the rows of s at the positions m lists, in          *)
(* increasing order, and these are the first section rows of s: no        *)
(* section row before a listed one is left out.                            *)
ListsFirstRows(m, h, s) ==
    /\ \A i, j \in DOMAIN m : i < j => m[i] < m[j]
    /\ \A i \in DOMAIN m : h[i] = s[m[i]].hs
    /\ \A i \in DOMAIN m : \A n \in SectionRowsAt(s) :
          n < m[i] => \E j \in DOMAIN m : m[j] = n

(* parse_cpu_analysis_report keeps exactly the rows that come after the   *)
(* 'Children Self Command' header, in order, and after the end of the     *)
(* file the first HotspotLimit of them, or all when there are fewer: a    *)
(* row before the header, or a header forgotten by the in_hotspot_section *)
(* flag, never counts, and the slice never drops a row it should keep.    *)
HotspotsFromSection ==
    \E m \in [DOMAIN hotspots -> SectionRowsAt(lines)] :
        /\ ListsFirstRows(m, hotspots, lines)
        /\ phase = "parse" => {m[i] : i \in DOMAIN m} = SectionRowsAt(lines)
        /\ phase \in {"report", "done", "crashed", "nodata"} =>
              /\ Len(hotspots) <= HotspotLimit
              /\ \/ {m[i] : i \in DOMAIN m} = SectionRowsAt(lines)
                 \/ Len(hotspots) = HotspotLimit

(* The indices of the hotspots the first applicable rule puts in c.       *)
InCategory(c) == {i \in DOMAIN hotspots : CategoryOf(hotspots[i]) = c}

(* The category breakdown stats must have: a category is listed iff it   *)
(* has hotspots, its count is over its hotspots each counted once, its    *)
(* max is the greatest children percentage among them, and its top       *)
(* function is the first hotspot that reaches that maximum.               *)
BreakdownOf(stats) ==
    /\ DOMAIN stats = {c \in Category : InCategory(c) # {}}
    /\ \A c \in DOMAIN stats :
          /\ stats[c].count = Cardinality(InCategory(c))
          /\ \A i \in InCategory(c) : hotspots[i].children <= stats[c].max
          /\ \E i \in InCategory(c) :
                /\ hotspots[i] = stats[c].top
                /\ stats[c].top.children = stats[c].max
                /\ \A j \in InCategory(c) : j < i => hotspots[j].children < stats[c].max

(* The summary's category breakdown is the handoff contract of spec 4.6:  *)
(* the first rule of categorize_functions that applies puts each hotspot *)
(* in exactly one category, and category_stats (lines 212-224) counts,    *)
(* maximises and picks the top function over exactly those hotspots.     *)
CategoryBreakdownExact ==
    report # None => BreakdownOf(report.stats)

(* The category totals of the summary partition the hotspots' children   *)
(* percentages: summed over the eight categories (a category without      *)
(* hotspots is not listed and counts 0, as in _generate_insights) they    *)
(* give the sum over all hotspots, so no hotspot is counted in two        *)
(* categories or in none.                                                  *)
CategoryTotalsPartition ==
    report # None =>
        LET T(c) == TotalOf(report.stats, c)
        IN  SumChildren(hotspots) =
                T("Network I/O") + T("System Calls") + T("WebRTC Core")
                + T("Video Processing") + T("Audio Processing")
                + T("Memory Management") + T("Threading") + T("Other")

(* The summary's analysis_timestamp (line 232) is the modification time  *)
(* of the report main analyzed (line 325).                                *)
TimestampOfAnalyzedReport ==
    report # None => report.timestamp = setup.mtime[analyzed]

(* Once main has found a report with hotspots (lines 315-335), the run    *)
(* does not end in an exception: the summary is written.                  *)
SummaryWrittenForFoundReport == phase # "crashed"

=============================================================================
