---------------------------- MODULE MCAuditTrail ----------------------------
(* Values for model-checking AuditTrail. *)
EXTENDS AuditTrail

Plumbing  == [mode |-> "direct",   plumbing |-> TRUE,  hedging |-> FALSE]
Hedged    == [mode |-> "direct",   plumbing |-> FALSE, hedging |-> TRUE]
Competing == [mode |-> "selector", plumbing |-> FALSE, hedging |-> FALSE]
DryRun    == [mode |-> "dryRun",   plumbing |-> FALSE, hedging |-> FALSE]

MCProfiles == {Plumbing, Hedged, Competing, DryRun}
=============================================================================
