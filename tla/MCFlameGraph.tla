---------------------------- MODULE MCFlameGraph ----------------------------
(***************************************************************************)
(* Model-checking instance of FlameGraph.  Log timestamps are 5, 7 and    *)
(* 900 ms, below and above the line-number stamps 100..400 of RTP and     *)
(* thread events.  The lines cover each sub-parser, a line two parsers    *)
(* match, an event type with a dot in it, zero durations and an RTP line  *)
(* whose function is not one of the recognised ones.                       *)
(***************************************************************************)
EXTENDS FlameGraph

CONSTANT NoneValue

(* A line with what each sub-parser captures: video quality, decision     *)
(* time, BWE, RTP function and thread duration.                            *)
L(vq, dec, bwe, rtp, thr) == [vq |-> vq, dec |-> dec, bwe |-> bwe, rtp |-> rtp, thr |-> thr]

VQ(ts, type, fps, decode) == [ts |-> ts, type |-> type, fps |-> fps, decode |-> decode]

N == NoneValue

MCLines ==
    { L(VQ(5, <<"Recv">>, 3, 4), N, N, N, N),          \* FPS and decode_ms
      L(VQ(7, <<"Recv", "v2">>, N, 0), N, N, N, N),    \* decode_ms 0: no event
      L(VQ(900, <<"Send">>, 0, N), N, N, N, N),         \* FPS 0
      L(N, 7, N, N, N),                                 \* decision snapshot
      L(N, N, [ts |-> 5, type |-> <<"RttBWE-Update">>], N, N),
      L(N, N, N, [fn |-> "OnReceivePacket", key |-> TRUE], N),
      L(N, N, N, [fn |-> "SendPacket", key |-> FALSE], N),
      L(N, N, N, N, 12),                                \* thread dispatch
      L(VQ(7, <<"Recv">>, 3, N), N, N, N, 2),           \* two sub-parsers
      L(N, N, N, N, N) }                                \* irrelevant line

(* A log whose own times rise with the line order, with a thread line.    *)
OrderLines ==
    { L(VQ(5, <<"Recv">>, 3, N), N, N, N, N),
      L(VQ(7, <<"Recv">>, 3, N), N, N, N, N),
      L(N, N, N, N, 12) }

=============================================================================
