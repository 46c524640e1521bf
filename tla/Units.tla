-------------------------------- MODULE Units --------------------------------
(***************************************************************************)
(* The conversions of utils.c between cache-line events counted in one     *)
(* regulation interval of t milliseconds and bandwidth in MB/s.            *)
(***************************************************************************)
EXTENDS Integers

CacheLineSize == 64
Mega == 1024 * 1024

(* convert_events_to_mb rounds up ...                                      *)
ConvertEventsToMb(events, t) ==
  (events * CacheLineSize * 1000 + (t * Mega - 1)) \div (t * Mega)

(* Slip: the interval is taken for a divisor of the rate.                  *)
ConvertMbToEventsDivided(mb, t) == (mb * Mega) \div (CacheLineSize * 1000 * t)

(* ... and convert_mb_to_events rounds down, after truncating 1000/t: it   *)
(* is defined for 1 <= t <= 1000 only.                                     *)
ConvertMbToEvents(mb, t) == (mb * Mega) \div (CacheLineSize * (1000 \div t))
=============================================================================
