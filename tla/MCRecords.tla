------------------------------ MODULE MCRecords -----------------------------
(***************************************************************************)
(* Instances of the components that keep records across steps and deaths:  *)
(* Archive, Ledger, Definitions and HostLease. They have no variable in    *)
(* common, and the properties of each speak of its own, so that running    *)
(* them one at a time visits every state that matters to a property: part  *)
(* is chosen at the start, and the others stay where they are.             *)
(***************************************************************************)
EXTENDS Archive, Ledger, Definitions, HostLease

VARIABLE part

AllPlaces == {<<1, "always">>, <<1, "sometimes">>, <<2, "always">>}

Init == /\ ArchiveInit /\ LedgerInit /\ DefinitionsInit /\ LeaseInit
        /\ part \in {"archive", "following", "working", "definitions", "leases"}
        /\ part # "archive" => \A r \in Runs : runner[r] = "none"  \* one archive is enough

Archives  == /\ part = "archive" /\ ArchiveNext
             /\ UNCHANGED <<part, ledgerVars, definitionVars, leaseVars>>
Follows   == /\ part = "following" /\ (LedgerLife \/ LedgerFollow)
             /\ UNCHANGED <<part, archiveVars, definitionVars, leaseVars>>
Works     == /\ part = "working" /\ (LedgerLife \/ LedgerWork)
             /\ UNCHANGED <<part, archiveVars, definitionVars, leaseVars>>
Defines   == /\ part = "definitions" /\ DefinitionsNext
             /\ UNCHANGED <<part, archiveVars, ledgerVars, leaseVars>>
Leases    == /\ part = "leases" /\ LeaseNext
             /\ UNCHANGED <<part, archiveVars, ledgerVars, definitionVars>>

Next == Archives \/ Follows \/ Works \/ Defines \/ Leases
vars == <<part, archiveVars, ledgerVars, definitionVars, leaseVars>>
Spec == Init /\ [][Next]_vars
=============================================================================
