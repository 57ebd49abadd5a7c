-------------------------- MODULE TournamentOutcome --------------------------
(***************************************************************************)
(* What RunTournament promises its caller: one record for each task, the   *)
(* one its seeded game determines, whoever played it and in which order.   *)
(* There are no threads here.                                              *)
(***************************************************************************)
EXTENDS Naturals

CONSTANTS
    TaskIds,        \* the indices of the tasks
    Blank           \* a record nothing has been written to

VARIABLES
    verdict,        \* the record each task deserves, fixed by its seed
    records,
    recorded,       \* the tasks that have theirs
    returned        \* the caller has the records

vars == <<verdict, records, recorded, returned>>

Init ==
    /\ records = [i \in TaskIds |-> Blank]
    /\ recorded = {}
    /\ returned = FALSE

RecordGame(i) ==
    /\ i \in TaskIds \ recorded
    /\ records' = [records EXCEPT ![i] = verdict[i]]
    /\ recorded' = recorded \cup {i}
    /\ UNCHANGED <<verdict, returned>>

Return ==
    /\ recorded = TaskIds
    /\ ~returned
    /\ returned' = TRUE
    /\ UNCHANGED <<verdict, records, recorded>>

Next == Return \/ \E i \in TaskIds : RecordGame(i)

Safety == Init /\ [][Next]_vars
Spec == Safety /\ WF_vars(Next)
=============================================================================
