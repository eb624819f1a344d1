-------------------------- MODULE MCSelectorSystem --------------------------
(* Small instances of SelectorSystem for TLC.                               *)
EXTENDS SelectorSystem

\* Fewer places than strategies, and one place per instrument as by default.
TwoPlaces == [topN |-> 2, perInstrument |-> 1, strategyShare |-> 50]
=============================================================================
