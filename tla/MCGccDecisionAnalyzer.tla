------------------------ MODULE MCGccDecisionAnalyzer ------------------------
(***************************************************************************)
(* Model-checking instance of GccDecisionAnalyzer: the lines a log may     *)
(* contain, built from the formats of __init__ (lines 23-49).  Timestamps  *)
(* are 0, 3 and 7: 0 because Python treats it as false, 3 and 7 so that   *)
(* the carried timestamp can be overtaken by a later, different one.       *)
(***************************************************************************)
EXTENDS GccDecisionAnalyzer

CONSTANT NoneValue

(* A line matched by the patterns ps, with timestamp t (as the timestamp  *)
(* regex sees it), own timestamp o and captured argument a.                *)
L(ps, t, o, a) == [pats |-> ps, ts |-> t, own |-> o, arg |-> a]

(* One line per format, with the timestamps and arguments that matter.    *)
FormatLines ==
    { L({"trendline"}, 7, 0, <<"num", "nan">>),
      L({"trendline"}, 3, 0, <<"-nan", "junk">>),
      L({"rtt_bwe"}, 0, 0, "none"),
      L({"loss_bwe"}, 7, 0, 2),
      L({"loss_candidates"}, 7, 0, [items |-> <<1, 3>>, parses |-> TRUE]),
      L({"loss_candidates"}, 3, 0, [items |-> <<>>, parses |-> TRUE]),
      L({"loss_candidates"}, 7, 0, [items |-> <<2>>, parses |-> FALSE]),
      L({"probe_result"}, 7, 0, "none"),
      L({"probe_success"}, 0, 0, "none"),
      L({"probe_result_old"}, NoneValue, 0, "none"),
      L({"probe_success_old"}, NoneValue, 0, "none"),
      L({"decision"}, NoneValue, 7, "DelayLimit"),
      L({"decision"}, NoneValue, 3, "Mystery"),
      L({"constraint_apply"}, 7, 0, "none"),
      L({"delay_limit"}, 3, 0, "none"),
      L({"receiver_limit"}, 0, 0, "none"),
      L({"config_limit"}, NoneValue, 0, "none"),
      L({"pushback"}, 7, 0, "nan"),
      L({"pushback"}, 3, 0, "junk") }

(* Irrelevant lines, with and without an 'at N ms' in their text.          *)
OtherLines ==
    { L({}, NoneValue, 0, "none"),
      L({}, 3, 0, "none") }

(* Lines that several patterns search successfully.                        *)
OverlapLines ==
    { L({"probe_result", "probe_result_old"}, 7, 0, "none"),
      L({"trendline", "rtt_bwe"}, 3, 0, <<"num", "num">>),
      L({"probe_success_old", "decision"}, NoneValue, 3, "RttBackoff") }

(* A legacy probe line with an 'at N ms' elsewhere in its text.            *)
TimedLegacyLines ==
    { L({"probe_success_old"}, 3, 0, "none") }

MCLines == FormatLines \cup OtherLines \cup OverlapLines \cup TimedLegacyLines

(* The lines of the legacy-probe questions: timestamps and legacy probes. *)
ProbeLines ==
    { L({"probe_result_old"}, NoneValue, 0, "none"),
      L({"rtt_bwe"}, 0, 0, "none"),
      L({"trendline"}, 7, 0, <<"num", "num">>),
      L({"decision"}, NoneValue, 3, "DelayLimit"),
      L({}, 3, 0, "none") }

=============================================================================
