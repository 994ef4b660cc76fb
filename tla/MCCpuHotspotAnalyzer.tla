------------------------ MODULE MCCpuHotspotAnalyzer ------------------------
(***************************************************************************)
(* Model-checking instance of CpuHotspotAnalyzer.  Children percentages   *)
(* are 5, 12 and 25 so that two or three hotspots of a category cross the *)
(* insight cutoffs 10, 15, 20, 25 and 30; rows are chosen so that a rule  *)
(* of higher precedence competes with a later one and so that a category  *)
(* has two hotspots of equal percentage.                                   *)
(***************************************************************************)
EXTENDS CpuHotspotAnalyzer

CONSTANTS NoneValue, f1, f2

H(c, sy, w) == [children |-> c, sym |-> sy, webrtc |-> w]

Row(h) == [kind |-> "row", hs |-> h]

HeaderLine == [kind |-> "header", hs |-> NoneValue]

OtherLine == [kind |-> "other", hs |-> NoneValue]

MCRows ==
    { H(12, {"net"}, TRUE),          \* recvmsg in libwebrtc: Network I/O
      H(12, {"net"}, FALSE),         \* same category, same percentage
      H(25, {}, TRUE),               \* WebRTC Core
      H(25, {"video", "mem"}, FALSE),\* video before memory
      H(25, {"sys"}, FALSE),
      H(5, {"thread"}, FALSE),
      H(12, {}, FALSE) }             \* Other

MCLines == {HeaderLine, OtherLine} \cup {Row(h) : h \in MCRows}

(* A file-system state: the reports present, where, and their mtimes.     *)
Setup(p, lo, mt) == [present |-> p, loc |-> lo, mtime |-> mt]

(* One report at the top level of data_dir.                               *)
OneReport == { Setup({f1}, [f \in {f1, f2} |-> "top"], [f \in {f1, f2} |-> 1]) }

(* No report at all, one in data_dir, one only in the subdirectory.      *)
MainSetups ==
    OneReport \cup
    { Setup({}, [f \in {f1, f2} |-> "top"], [f \in {f1, f2} |-> 1]),
      Setup({f1}, [f \in {f1, f2} |-> "sub"], [f \in {f1, f2} |-> 1]) }

(* Every arrangement of two reports over the two directories, with        *)
(* distinct modification times.                                            *)
AllSetups ==
    { Setup(p, lo, [f \in {f1, f2} |-> IF f = f1 THEN 1 ELSE 2]) :
        p \in SUBSET {f1, f2}, lo \in [{f1, f2} -> {"top", "sub"}] }

(* A short report: the header and one row.                                 *)
ShortLines == {HeaderLine, Row(H(12, {"net"}, FALSE))}

=============================================================================
