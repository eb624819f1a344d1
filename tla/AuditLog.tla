------------------------------ MODULE AuditLog ------------------------------
(***************************************************************************)
(* What an append-only audit log promises: entries are added one at a time *)
(* and behind all others, and none is ever changed or taken away.  The log *)
(* is a set of entries with the place each has in it.                      *)
(***************************************************************************)
EXTENDS Naturals

CONSTANT Entries

VARIABLE log

Place(r) == r[1]

Init == log = {}

Record ==
    \E r \in log' :
        /\ r \in Nat \X Entries
        /\ \A q \in log : Place(q) < Place(r)
        /\ log' = log \cup {r}

Spec == Init /\ [][Record]_log
=============================================================================
