----------------------------- MODULE MCAudioPath -----------------------------
(* Narrow counters that wrap soon, nonces that first repeat after eight    *)
(* packets, and sources from empty to two frames and a tail.               *)
EXTENDS AudioPath

SmallSizes == {0, 4, 5}
=============================================================================
