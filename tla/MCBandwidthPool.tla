--------------------------- MODULE MCBandwidthPool ---------------------------
(* The limits of ar.c:61-62 divided by 100: 10 MB/s, 5 MB/s initially.     *)
EXTENDS BandwidthLedger

(* Estimates of -1 (negative), 1 (feeds the pool, and makes an uneven share *)
(* with a large one) and 10 (the limit).                                   *)
MCPredictions == {-6, -4, 5}

(* A core that takes little at a time and one that takes a lot.            *)
MCSamples == {2, 6}

(* For the lost updates: estimates of -1, 0 (leaves the whole limit to the *)
(* pool) and 7 (over the limit with another of 7).                         *)
MCLedgerPredictions == {-6, -5, 2}
MCLedgerSamples == {1, 9}
=============================================================================
