------------------------- MODULE MCZeroDteStrategy -------------------------
(* Small instances of ZeroDteStrategy and StateDiagram for TLC.             *)
EXTENDS StateDiagram

Run(selector, plumbing, hedging, dryRun) ==
    [selector |-> selector, plumbing |-> plumbing, hedging |-> hedging, dryRun |-> dryRun]

\* One profile per code path: direct submission with hedges, the same behind
\* a selector, market orders on the underlying, and a dry run.
MCProfiles == { Run(FALSE, FALSE, TRUE,  FALSE),
                Run(TRUE,  FALSE, FALSE, FALSE),
                Run(FALSE, TRUE,  FALSE, FALSE),
                Run(FALSE, FALSE, TRUE,  TRUE) }

DirectProfile == { Run(FALSE, FALSE, FALSE, FALSE) }

MCRegimeTags     == {"UNKNOWN", "PIN_RISK"}
MCBlockedRegimes == {"PIN_RISK"}
OneRegimeTag     == {"UNKNOWN"}
NoRegimeBlocked  == {}
=============================================================================
