-------------------------- MODULE MCGatedSkeleton --------------------------
(* A small instance of GatedSkeleton for TLC: hundredths, strikes at whole  *)
(* numbers, the thresholds of the code and a window of three.               *)
EXTENDS GatedSkeleton

\* At 100: on the strike, near it, choppy with it, a trend from it.  At 500: off
\* the strike below, and half-way between two strikes.
MCMids == {10000, 10015, 10030, 10060, 50060, 50150}
=============================================================================
