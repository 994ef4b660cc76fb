--------------------- MODULE CpuHotspotAnalyzerProofs -----------------------
(***************************************************************************)
(* Proof that parse_cpu_analysis_report keeps exactly the first           *)
(* HotspotLimit rows of the hotspot section, in order (HotspotsFromSection), *)
(* for every set of report lines, every bound on the length of a report   *)
(* and every limit.  The proof rests on the flag in_hotspot_section       *)
(* meaning that a header was read, and on the positions of the section    *)
(* rows growing only at the end as lines are read.                         *)
(***************************************************************************)
EXTENDS CpuHotspotAnalyzer, TLAPS

(* The inductive invariant behind HotspotsFromSection: the flag records   *)
(* whether a header was read, and nothing is read before the report is    *)
(* found.                                                                  *)
HInv ==
    /\ phase \in Phase
    /\ lines \in Seq(ReportLines)
    /\ hotspots \in Seq({l.hs : l \in ReportLines})
    /\ phase \in {"find", "nofile"} => lines = <<>> /\ hotspots = <<>>
    /\ in_section = \E j \in DOMAIN lines : lines[j].kind = "header"
    /\ HotspotsFromSection

-----------------------------------------------------------------------------
(* Reading a line.                                                         *)

(* Reading a line leaves the section rows before it as they were; the     *)
(* line read is a section row iff it is a row and a header came before.   *)
LEMMA SectionRowsAppend ==
    ASSUME lines \in Seq(ReportLines), NEW l, lines' = Append(lines, l)
    PROVE  /\ \A n \in 1..Len(lines) :
                 /\ lines'[n] = lines[n]
                 /\ n \in SectionRowsAt(lines') <=> n \in SectionRowsAt(lines)
           /\ Len(lines) + 1 \in SectionRowsAt(lines') <=>
                 (l.kind = "row" /\ \E j \in DOMAIN lines : lines[j].kind = "header")
           /\ SectionRowsAt(lines') \subseteq SectionRowsAt(lines) \cup {Len(lines) + 1}
           /\ SectionRowsAt(lines) \subseteq 1..Len(lines)
<1>1. /\ Len(lines') = Len(lines) + 1 /\ DOMAIN lines' = 1..(Len(lines) + 1)
      /\ \A n \in 1..Len(lines) : lines'[n] = lines[n]
      /\ lines'[Len(lines) + 1] = l
      /\ Len(lines) \in Nat
  OBVIOUS
<1>2. \A n \in 1..Len(lines) : n \in SectionRowsAt(lines') <=> n \in SectionRowsAt(lines)
  BY <1>1 DEF SectionRowsAt
<1>3. Len(lines) + 1 \in SectionRowsAt(lines') <=>
         (l.kind = "row" /\ \E j \in DOMAIN lines : lines[j].kind = "header")
  BY <1>1 DEF SectionRowsAt
<1>4. SectionRowsAt(lines') \subseteq SectionRowsAt(lines) \cup {Len(lines) + 1}
  BY <1>1, <1>2 DEF SectionRowsAt
<1>5. SectionRowsAt(lines) \subseteq 1..Len(lines)  BY DEF SectionRowsAt
<1>. QED  BY <1>1, <1>2, <1>3, <1>4, <1>5

(* The positions m of the hotspots after a line is read that is not a     *)
(* section row: the same as before.                                        *)
LEMMA SameRowsStep ==
    ASSUME lines \in Seq(ReportLines), NEW l, lines' = Append(lines, l),
           hotspots' = hotspots, Len(lines) + 1 \notin SectionRowsAt(lines'),
           NEW m \in [DOMAIN hotspots -> SectionRowsAt(lines)],
           ListsFirstRows(m, hotspots, lines),
           {m[i] : i \in DOMAIN m} = SectionRowsAt(lines)
    PROVE  /\ m \in [DOMAIN hotspots' -> SectionRowsAt(lines')]
           /\ ListsFirstRows(m, hotspots', lines')
           /\ {m[i] : i \in DOMAIN m} = SectionRowsAt(lines')
<1>1. SectionRowsAt(lines') = SectionRowsAt(lines)  BY SectionRowsAppend
<1>2. \A i \in DOMAIN m : lines'[m[i]] = lines[m[i]]  BY SectionRowsAppend
<1>. QED  BY <1>1, <1>2 DEF ListsFirstRows

(* The positions after a section row is read: the old ones and its own.   *)
LEMMA NewRowStep ==
    ASSUME lines \in Seq(ReportLines), NEW l, lines' = Append(lines, l),
           hotspots \in Seq({r.hs : r \in ReportLines}),
           hotspots' = Append(hotspots, l.hs), Len(lines) + 1 \in SectionRowsAt(lines'),
           NEW m \in [DOMAIN hotspots -> SectionRowsAt(lines)],
           ListsFirstRows(m, hotspots, lines),
           {m[i] : i \in DOMAIN m} = SectionRowsAt(lines)
    PROVE  \E mm \in [DOMAIN hotspots' -> SectionRowsAt(lines')] :
              /\ ListsFirstRows(mm, hotspots', lines')
              /\ {mm[i] : i \in DOMAIN mm} = SectionRowsAt(lines')
<1>. DEFINE n == Len(lines) + 1
            k == Len(hotspots)
            mm == [i \in 1..(k + 1) |-> IF i <= k THEN m[i] ELSE n]
<1>1. /\ \A j \in 1..Len(lines) : lines'[j] = lines[j]
      /\ SectionRowsAt(lines') \subseteq SectionRowsAt(lines) \cup {n}
      /\ SectionRowsAt(lines) \subseteq 1..Len(lines)
      /\ SectionRowsAt(lines) \subseteq SectionRowsAt(lines')
  BY SectionRowsAppend
<1>2. /\ k \in Nat /\ DOMAIN hotspots = 1..k /\ DOMAIN hotspots' = 1..(k + 1)
      /\ \A i \in 1..k : hotspots'[i] = hotspots[i]
      /\ hotspots'[k + 1] = l.hs
  OBVIOUS
<1>3. lines'[n] = l  OBVIOUS
<1>4. mm \in [DOMAIN hotspots' -> SectionRowsAt(lines')]  BY <1>1, <1>2
<1>5. \A i, j \in DOMAIN mm : i < j => mm[i] < mm[j]
  BY <1>1, <1>2 DEF ListsFirstRows
<1>6. \A i \in DOMAIN mm : hotspots'[i] = lines'[mm[i]].hs
  BY <1>1, <1>2, <1>3 DEF ListsFirstRows
<1>7. {mm[i] : i \in DOMAIN mm} = SectionRowsAt(lines')
  <2>1. DOMAIN mm = 1..(k + 1) /\ DOMAIN m = 1..k  BY <1>2
  <2>2. \A i \in 1..k : mm[i] = m[i]  OBVIOUS
  <2>3. mm[k + 1] = n  BY <1>2
  <2>4. {mm[i] : i \in DOMAIN mm} \subseteq {m[i] : i \in DOMAIN m} \cup {n}
    <3>1. \A i \in 1..(k + 1) : i \in 1..k \/ i = k + 1  BY <1>2
    <3>. QED  BY <3>1, <2>1, <2>2, <2>3
  <2>5. {m[i] : i \in DOMAIN m} \cup {n} \subseteq {mm[i] : i \in DOMAIN mm}
    <3>1. 1..k \subseteq 1..(k + 1) /\ k + 1 \in 1..(k + 1)  BY <1>2
    <3>. QED  BY <3>1, <2>1, <2>2, <2>3
  <2>6. {mm[i] : i \in DOMAIN mm} = {m[i] : i \in DOMAIN m} \cup {n}
    BY <2>4, <2>5
  <2>. QED  BY <2>6, <1>1
<1>8. \A i \in DOMAIN mm : \A r \in SectionRowsAt(lines') :
         r < mm[i] => \E j \in DOMAIN mm : mm[j] = r
  BY <1>7
<1>. QED  BY <1>4, <1>5, <1>6, <1>7, <1>8 DEF ListsFirstRows

(* Reading a line preserves HInv.                                          *)
LEMMA ReadStep ==
    ASSUME HInv, NEW l \in ReportLines, ReadHeader(l) \/ ReadRow(l) \/ SkipLine(l)
    PROVE  HInv'
<1>0. /\ phase = "parse" /\ phase' = "parse"
      /\ lines' = Append(lines, l)
      /\ lines \in Seq(ReportLines) /\ hotspots \in Seq({r.hs : r \in ReportLines})
  BY DEF ReadHeader, ReadRow, SkipLine, ReadLine, HInv
<1>1. PICK m \in [DOMAIN hotspots -> SectionRowsAt(lines)] :
         /\ ListsFirstRows(m, hotspots, lines)
         /\ {m[i] : i \in DOMAIN m} = SectionRowsAt(lines)
  BY <1>0 DEF HInv, HotspotsFromSection
<1>2. /\ \A n \in 1..Len(lines) : lines'[n] = lines[n]
      /\ Len(lines) + 1 \in SectionRowsAt(lines') <=>
            (l.kind = "row" /\ \E j \in DOMAIN lines : lines[j].kind = "header")
  BY <1>0, SectionRowsAppend
<1>3. in_section = \E j \in DOMAIN lines : lines[j].kind = "header"  BY DEF HInv
<1>4. lines' \in Seq(ReportLines)  BY <1>0
(* The section rows after the step, as HotspotsFromSection' needs them.  *)
<1>5. \E mm \in [DOMAIN hotspots' -> SectionRowsAt(lines')] :
         /\ ListsFirstRows(mm, hotspots', lines')
         /\ {mm[i] : i \in DOMAIN mm} = SectionRowsAt(lines')
  <2>1. CASE ReadRow(l)
    <3>1. Len(lines) + 1 \in SectionRowsAt(lines')  BY <2>1, <1>2, <1>3 DEF ReadRow
    <3>. QED  BY <2>1, <3>1, <1>0, <1>1, NewRowStep DEF ReadRow
  <2>2. CASE ReadHeader(l) \/ SkipLine(l)
    <3>1. Len(lines) + 1 \notin SectionRowsAt(lines')  BY <2>2, <1>2, <1>3 DEF ReadHeader, SkipLine
    <3>2. hotspots' = hotspots  BY <2>2 DEF ReadHeader, SkipLine
    <3>. QED  BY <3>1, <3>2, <1>0, <1>1, SameRowsStep
  <2>. QED  BY <2>1, <2>2
<1>6. HotspotsFromSection'  BY <1>5, <1>0 DEF HotspotsFromSection
<1>7. in_section' = \E j \in DOMAIN lines' : lines'[j].kind = "header"
  <2>1. /\ DOMAIN lines' = DOMAIN lines \cup {Len(lines) + 1}
        /\ lines'[Len(lines) + 1] = l
        /\ DOMAIN lines = 1..Len(lines)
    BY <1>0
  <2>2. (\E j \in DOMAIN lines' : lines'[j].kind = "header") <=>
           (l.kind = "header" \/ \E j \in DOMAIN lines : lines[j].kind = "header")
    BY <2>1, <1>2
  <2>3. CASE ReadHeader(l)  BY <2>3, <2>2 DEF ReadHeader
  <2>4. CASE ReadRow(l)  BY <2>4, <2>2, <1>3 DEF ReadRow
  <2>5. CASE SkipLine(l)  BY <2>5, <2>2, <1>3 DEF SkipLine
  <2>. QED  BY <2>3, <2>4, <2>5
<1>8. hotspots' \in Seq({r.hs : r \in ReportLines})
  <2>1. CASE ReadRow(l)
    <3>1. l.hs \in {r.hs : r \in ReportLines}  OBVIOUS
    <3>. QED  BY <2>1, <3>1, <1>0 DEF ReadRow
  <2>2. CASE ReadHeader(l) \/ SkipLine(l)  BY <2>2, <1>0 DEF ReadHeader, SkipLine
  <2>. QED  BY <2>1, <2>2
<1>. QED  BY <1>0, <1>4, <1>6, <1>7, <1>8 DEF HInv, Phase

-----------------------------------------------------------------------------
(* The end of the report: hotspots[:HotspotLimit].                         *)

(* Keeping the first L positions of an enumeration of the first rows     *)
(* still enumerates first rows: a row before a kept one is listed at a    *)
(* smaller index, so it is kept too.                                       *)
LEMMA PrefixStep ==
    ASSUME lines \in Seq(ReportLines),
           hotspots \in Seq({r.hs : r \in ReportLines}),
           NEW L \in Nat, L < Len(hotspots),
           NEW m \in [DOMAIN hotspots -> SectionRowsAt(lines)],
           ListsFirstRows(m, hotspots, lines)
    PROVE  LET mm == [i \in 1..L |-> m[i]]
           IN  /\ mm \in [DOMAIN SubSeq(hotspots, 1, L) -> SectionRowsAt(lines)]
               /\ ListsFirstRows(mm, SubSeq(hotspots, 1, L), lines)
<1>. DEFINE mm == [i \in 1..L |-> m[i]]
            h == SubSeq(hotspots, 1, L)
<1>1. /\ DOMAIN m = 1..Len(hotspots) /\ DOMAIN h = 1..L /\ DOMAIN mm = 1..L
      /\ 1..L \subseteq 1..Len(hotspots)
      /\ \A i \in 1..L : h[i] = hotspots[i] /\ mm[i] = m[i]
  OBVIOUS
<1>2. mm \in [DOMAIN h -> SectionRowsAt(lines)]  BY <1>1
<1>3. \A i, j \in DOMAIN mm : i < j => mm[i] < mm[j]  BY <1>1 DEF ListsFirstRows
<1>4. \A i \in DOMAIN mm : h[i] = lines[mm[i]].hs  BY <1>1 DEF ListsFirstRows
<1>5. \A i \in DOMAIN mm : \A n \in SectionRowsAt(lines) :
         n < mm[i] => \E j \in DOMAIN mm : mm[j] = n
  <2>1. SUFFICES ASSUME NEW i \in 1..L, NEW n \in SectionRowsAt(lines), n < m[i]
                 PROVE  \E j \in 1..L : m[j] = n
    BY <1>1
  <2>2. PICK j \in DOMAIN m : m[j] = n  BY <2>1, <1>1 DEF ListsFirstRows
  (* m is increasing, so the index of a smaller position is smaller.      *)
  <2>3. j < i
    <3>1. SectionRowsAt(lines) \subseteq Nat  BY DEF SectionRowsAt
    <3>2. m[i] \in Nat /\ m[j] \in Nat  BY <3>1, <1>1
    <3>3. ~(i < j) /\ i # j  BY <2>1, <2>2, <3>2, <1>1 DEF ListsFirstRows
    <3>. QED  BY <3>3, <1>1
  <2>. QED  BY <2>2, <2>3, <1>1
<1>. QED  BY <1>2, <1>3, <1>4, <1>5 DEF ListsFirstRows

(* The end of the report preserves HInv.                                   *)
LEMMA EndStep ==
    ASSUME HInv, EndOfReport
    PROVE  HInv'
<1>0. /\ phase = "parse" /\ phase' \in {"report", "nodata"}
      /\ lines' = lines /\ in_section' = in_section
      /\ hotspots' = Truncate(hotspots)
      /\ lines \in Seq(ReportLines) /\ hotspots \in Seq({r.hs : r \in ReportLines})
      /\ HotspotLimit \in Nat
  BY LimitAssumption DEF EndOfReport, HInv
<1>1. PICK m \in [DOMAIN hotspots -> SectionRowsAt(lines)] :
         /\ ListsFirstRows(m, hotspots, lines)
         /\ {m[i] : i \in DOMAIN m} = SectionRowsAt(lines)
  BY <1>0 DEF HInv, HotspotsFromSection
<1>2. HotspotsFromSection'
  <2>1. CASE Len(hotspots) <= HotspotLimit
    <3>1. hotspots' = hotspots  BY <2>1, <1>0 DEF Truncate
    <3>. QED  BY <3>1, <2>1, <1>0, <1>1 DEF HotspotsFromSection
  <2>2. CASE ~(Len(hotspots) <= HotspotLimit)
    <3>. DEFINE mm == [i \in 1..HotspotLimit |-> m[i]]
    <3>1. hotspots' = SubSeq(hotspots, 1, HotspotLimit)  BY <2>2, <1>0 DEF Truncate
    <3>2. HotspotLimit < Len(hotspots)  BY <2>2, <1>0
    <3>3. /\ mm \in [DOMAIN hotspots' -> SectionRowsAt(lines')]
          /\ ListsFirstRows(mm, hotspots', lines')
      BY <3>1, <3>2, <1>0, <1>1, PrefixStep
    <3>4. Len(hotspots') = HotspotLimit  BY <3>1, <3>2, <1>0
    <3>5. phase' # "parse" /\ phase' \in {"report", "done", "crashed", "nodata"}  BY <1>0
    <3>6. /\ ListsFirstRows(mm, hotspots', lines')
          /\ phase' = "parse" => {mm[i] : i \in DOMAIN mm} = SectionRowsAt(lines')
          /\ phase' \in {"report", "done", "crashed", "nodata"} =>
                /\ Len(hotspots') <= HotspotLimit
                /\ \/ {mm[i] : i \in DOMAIN mm} = SectionRowsAt(lines')
                   \/ Len(hotspots') = HotspotLimit
      BY <3>3, <3>4, <3>5, <1>0
    <3>. QED  BY <3>3, <3>6 DEF HotspotsFromSection
  <2>. QED  BY <2>1, <2>2
<1>3. hotspots' \in Seq({r.hs : r \in ReportLines})
  BY <1>0 DEF Truncate
<1>. QED  BY <1>0, <1>2, <1>3 DEF HInv, Phase

-----------------------------------------------------------------------------
(* The steps that read nothing.                                            *)

(* Finding the report starts the parse on an empty text.                  *)
LEMMA FindStep ==
    ASSUME HInv, FindReport
    PROVE  HInv'
<1>1. lines = <<>> /\ hotspots = <<>>  BY DEF FindReport, HInv
<1>2. SectionRowsAt(lines) = {}  BY <1>1 DEF SectionRowsAt
<1>3. PICK m \in [DOMAIN hotspots -> SectionRowsAt(lines)] : ListsFirstRows(m, hotspots, lines)
  BY DEF HInv, HotspotsFromSection
<1>4. {m[i] : i \in DOMAIN m} = SectionRowsAt(lines)  BY <1>1, <1>2
<1>5. HotspotsFromSection'  BY <1>3, <1>4 DEF FindReport, HotspotsFromSection
<1>. QED  BY <1>5 DEF FindReport, HInv, Phase

(* A step that keeps the text and the hotspots and moves the phase within *)
(* the classes HotspotsFromSection distinguishes preserves HInv.          *)
LEMMA KeepStep ==
    ASSUME HInv, lines' = lines, hotspots' = hotspots, in_section' = in_section,
           \/ phase = "find" /\ phase' = "nofile"
           \/ phase = "report" /\ phase' \in {"done", "crashed"}
           \/ phase' = phase
    PROVE  HInv'
<1>1. HotspotsFromSection'  BY DEF HInv, HotspotsFromSection
<1>. QED  BY <1>1 DEF HInv, Phase

-----------------------------------------------------------------------------
(* The theorem.                                                            *)

LEMMA InitHInv == Init => HInv
<1>1. SUFFICES ASSUME Init PROVE HInv  OBVIOUS
<1>2. SectionRowsAt(lines) = {}  BY <1>1 DEF Init, SectionRowsAt
<1>3. HotspotsFromSection
  <2>1. [i \in {} |-> 0] \in [DOMAIN hotspots -> SectionRowsAt(lines)]  BY <1>1 DEF Init
  <2>. QED  BY <2>1, <1>2, <1>1 DEF Init, HotspotsFromSection, ListsFirstRows
<1>4. in_section = \E j \in DOMAIN lines : lines[j].kind = "header"
  <2>1. DOMAIN lines = {} /\ in_section = FALSE  BY <1>1 DEF Init
  <2>. QED  BY <2>1, Zenon
<1>. QED  BY <1>1, <1>3, <1>4 DEF Init, HInv, Phase

LEMMA HInvStep == HInv /\ [Next]_vars => HInv'
<1>1. SUFFICES ASSUME HInv, [Next]_vars PROVE HInv'  OBVIOUS
<1>2. CASE FindReport  BY <1>1, <1>2, FindStep
<1>3. CASE NoReportFound  BY <1>1, <1>3, KeepStep DEF NoReportFound
<1>4. CASE \E l \in ReportLines : ReadHeader(l) \/ ReadRow(l) \/ SkipLine(l)
  BY <1>1, <1>4, ReadStep
<1>5. CASE EndOfReport  BY <1>1, <1>5, EndStep
<1>6. CASE WriteSummary  BY <1>1, <1>6, KeepStep DEF WriteSummary
<1>7. CASE SummaryCrash  BY <1>1, <1>7, KeepStep DEF SummaryCrash
<1>8. CASE UNCHANGED vars  BY <1>1, <1>8, KeepStep DEF vars
<1>. QED  BY <1>1, <1>2, <1>3, <1>4, <1>5, <1>6, <1>7, <1>8 DEF Next

(* parse_cpu_analysis_report keeps exactly the first HotspotLimit rows    *)
(* after the 'Children Self Command' header, in order, in every run of   *)
(* main, for every report text, every MaxLines and every HotspotLimit.    *)
THEOREM HotspotsFromSectionCorrect == Spec => []HotspotsFromSection
<1>1. HInv => HotspotsFromSection  BY DEF HInv
<1>. QED  BY <1>1, InitHInv, HInvStep, PTL DEF Spec

=============================================================================
