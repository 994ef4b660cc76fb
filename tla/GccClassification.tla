------------------------- MODULE GccClassification --------------------------
(***************************************************************************)
(* What the log classifier of the GCC decision analyzer promises (spec,   *)
(* sections 3, 4.1 and 4.2), stated without its carried variable, its ten *)
(* series or its branch structure.  The log is read line by line; each    *)
(* line yields at most one record, tagged with the first pattern, in the  *)
(* precedence order, that applies to it, and stamped with the line's own  *)
(* timestamp or, for a legacy probe, with the most recent timestamp seen. *)
(* A field that fails to convert ends the parse.                           *)
(*                                                                         *)
(* The record set recs holds [src, pat, ts]: the line number, the pattern *)
(* and the timestamp.  Lines are records [pats, ts, own, arg] as in        *)
(* GccDecisionAnalyzer.                                                    *)
(***************************************************************************)
EXTENDS Integers, Sequences

CONSTANTS Lines, MaxLines, None

VARIABLES
    phase,   \* "parse", "done" or "failed"
    lines,   \* the lines read so far
    recs     \* the records produced so far

vars == <<phase, lines, recs>>

(* The classification order of the contract, spec 4.1.                     *)
Order == <<"trendline", "rtt_bwe", "loss_bwe", "loss_candidates",
           "probe_result", "probe_success", "probe_result_old",
           "probe_success_old", "decision", "constraint_apply",
           "delay_limit", "receiver_limit", "pushback">>

Legacy == {"probe_result_old", "probe_success_old"}

(* The most recent timestamp on the lines of the sequence ls, or None.    *)
Latest(ls) ==
    IF \E j \in DOMAIN ls : ls[j].ts # None
    THEN ls[CHOOSE j \in DOMAIN ls : /\ ls[j].ts # None
                                     /\ \A m \in (j + 1)..Len(ls) : ls[m].ts = None].ts
    ELSE None

(* Pattern p applies to the last line of ls: it matches, and a legacy     *)
(* probe needs an earlier non-zero timestamp.                              *)
AppliesTo(p, ls) ==
    /\ p \in ls[Len(ls)].pats
    /\ p \in Legacy => Latest(ls) \notin {None, 0}

(* The patterns that classify the last line of ls: the first applying one *)
(* in Order, or none.                                                      *)
Classes(ls) ==
    {Order[n] : n \in {n \in DOMAIN Order :
        AppliesTo(Order[n], ls) /\ \A m \in 1..(n - 1) : ~AppliesTo(Order[m], ls)}}

(* The timestamp of a record of pattern p for the last line of ls.         *)
Stamp(p, ls) ==
    CASE p \in Legacy    -> Latest(ls)
      [] p = "decision"  -> ls[Len(ls)].own
      [] OTHER           -> ls[Len(ls)].ts

(* The line's field for pattern p does not convert (spec section 7).      *)
Unconvertible(p, l) ==
    \/ p = "loss_candidates" /\ ~l.arg.parses
    \/ p = "pushback" /\ l.arg = "junk"

Read(l) ==
    /\ phase = "parse"
    /\ Len(lines) < MaxLines
    /\ lines' = Append(lines, l)

(* A line is classified: its record, if any, is added.                     *)
Classify(l) ==
    /\ Read(l)
    /\ \A p \in Classes(lines') : ~Unconvertible(p, l)
    /\ recs' = recs \cup {[src |-> Len(lines'), pat |-> p, ts |-> Stamp(p, lines')] :
                              p \in Classes(lines')}
    /\ UNCHANGED phase

(* A line whose field does not convert ends the parse, adding nothing.    *)
Abort(l) ==
    /\ Read(l)
    /\ \E p \in Classes(lines') : Unconvertible(p, l)
    /\ phase' = "failed"
    /\ UNCHANGED recs

Finish ==
    /\ phase = "parse"
    /\ phase' = "done"
    /\ UNCHANGED <<lines, recs>>

Init ==
    /\ phase = "parse"
    /\ lines = <<>>
    /\ recs = {}

Next ==
    \/ \E l \in Lines : Classify(l) \/ Abort(l)
    \/ Finish

Spec == Init /\ [][Next]_vars

=============================================================================
