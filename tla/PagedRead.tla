------------------------------ MODULE PagedRead ------------------------------
(***************************************************************************)
(* What get_data_from_server and get_entities promise for a result that    *)
(* the service splits into pages: the task ends with all values of all     *)
(* pages in the order the service sent them, or with an exception and no   *)
(* value at all.                                                           *)
(***************************************************************************)
EXTENDS SequencesExt

CONSTANTS
    Reads,      \* the calls
    PageSet,    \* the values a page can carry, each a sequence
    Unknown,    \* the outcome of a task that has not completed
    Failed      \* the outcome of a task that holds an exception

VARIABLES
    served,     \* served[r]: the pages sent for read r, in order
    outcome     \* outcome[r]: what the task of read r holds

Init ==
    /\ served = [r \in Reads |-> <<>>]
    /\ outcome = [r \in Reads |-> Unknown]

Serve(r, page) ==
    /\ outcome[r] = Unknown
    /\ served' = [served EXCEPT ![r] = Append(@, page)]
    /\ UNCHANGED outcome

Deliver(r) ==
    /\ outcome[r] = Unknown
    /\ outcome' = [outcome EXCEPT ![r] = FlattenSeq(served[r])]
    /\ UNCHANGED served

Fail(r) ==
    /\ outcome[r] = Unknown
    /\ outcome' = [outcome EXCEPT ![r] = Failed]
    /\ UNCHANGED served

Next ==
    \E r \in Reads : Deliver(r) \/ Fail(r) \/ \E page \in PageSet : Serve(r, page)

Spec == Init /\ [][Next]_<<served, outcome>>
==============================================================================
