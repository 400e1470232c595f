------------------------------- MODULE Paging --------------------------------
(***************************************************************************)
(* Server-driven paging in odata_client::get_data_from_server and          *)
(* get_entities (src/client/odata_client.cpp).  The continuation of each   *)
(* answer runs on a thread of the pplx pool; when the payload has a next   *)
(* link it calls the function again and waits for the nested task with     *)
(* .get(), so it keeps its thread until every later page has been read.    *)
(***************************************************************************)
EXTENDS Naturals, FiniteSetsExt, SequencesExt

CONSTANTS
    Reads,      \* calls of get_data_from_server or get_entities
    Typed,      \* those of them that are get_entities
    PageSet,    \* the values a page can carry, each a sequence
    MaxPages,   \* bound on the number of pages of a result
    Threads,    \* number of threads of the pool
    Unknown,    \* the outcome of a task that has not completed
    Failed      \* the outcome of a task that holds an exception

ASSUME TypedAssumption == Typed \subseteq Reads
\* The values that pages carry.
Values == UNION {Range(p) : p \in PageSet}

ASSUME ValuesAssumption == PageSet \subseteq Seq(Values)
ASSUME BoundsAssumption == MaxPages \in Nat \ {0} /\ Threads \in Nat \ {0}

VARIABLES
    phase,      \* phase[r]: what the innermost call of r waits for
    reply,      \* reply[r]: the answer its continuation is to look at
    payloads,   \* payloads[r]: values of the pages whose continuations wait
    result,     \* result[r]: what the innermost task that has completed holds
    served,     \* history: the pages the service has sent for r
    outcome     \* outcome[r]: what the task given to the caller holds

vars == <<phase, reply, payloads, result, served, outcome>>

\* A page, with no next link, one to another page, or one that is the service
\* root itself.
Page == [values : PageSet, link : {"none", "page", "root"}]

\* A reply is a page, "none" of these, "empty": 2xx whose body is not JSON, or
\* "bad": another status, a body that does not parse, or no answer.
IsPage(x) == x \in Page

Init ==
    /\ phase = [r \in Reads |-> "idle"]
    /\ reply = [r \in Reads |-> [bad |-> "none"]]
    /\ payloads = [r \in Reads |-> <<>>]
    /\ result = [r \in Reads |-> Unknown]
    /\ served = [r \in Reads |-> <<>>]
    /\ outcome = [r \in Reads |-> Unknown]

-----------------------------------------------------------------------------
\* Each continuation that waits in .get() holds a thread.
Busy == MapThenSumSet(LAMBDA r : Len(payloads[r]), Reads)
ThreadFree == Busy < Threads

\* The caller's thread sends the first request.
Start(r) ==
    /\ phase[r] = "idle"
    /\ phase' = [phase EXCEPT ![r] = "sent"]
    /\ UNCHANGED <<reply, payloads, result, served, outcome>>

\* get_relative_path of a next link equal to the root url throws out_of_range;
\* get_entities follows the link as it is, and asks for the root.
LinkThrows(r, page) == page.link = "root" /\ r \notin Typed
LinkLeadsOn(r, page) == page.link # "none" /\ ~LinkThrows(r, page)

\* The service sends a page, which is the last one if it is the MaxPages-th.
ServePage(r, page) ==
    /\ phase[r] = "sent"
    /\ Len(served[r]) < MaxPages
    /\ Len(served[r]) = MaxPages - 1 => ~LinkLeadsOn(r, page)
    /\ served' = [served EXCEPT ![r] = Append(@, page.values)]
    /\ reply' = [reply EXCEPT ![r] = page]
    /\ phase' = [phase EXCEPT ![r] = "answered"]
    /\ UNCHANGED <<payloads, result, outcome>>

\* The service refuses, sends no JSON, or does not answer in time.
RefusePage(r, why) ==
    /\ phase[r] = "sent"
    /\ reply' = [reply EXCEPT ![r] = [bad |-> why]]
    /\ phase' = [phase EXCEPT ![r] = "answered"]
    /\ UNCHANGED <<payloads, result, served, outcome>>

\* The nested task of the innermost waiting continuation completes with x.
Return(r, x) ==
    /\ result' = [result EXCEPT ![r] = x]
    /\ reply' = [reply EXCEPT ![r] = [bad |-> "none"]]
    /\ phase' = [phase EXCEPT ![r] = "returned"]
    /\ UNCHANGED <<payloads, served, outcome>>

\* Mutant: a bad answer makes the continuation ask for the page again.
ThrowRetries(r) ==
    /\ phase[r] = "answered"
    /\ ThreadFree
    /\ IF IsPage(reply[r])
       THEN LinkThrows(r, reply[r])
       ELSE reply[r].bad = "bad" \/ (reply[r].bad = "empty" /\ r \in Typed)
    /\ reply' = [reply EXCEPT ![r] = [bad |-> "none"]]
    /\ phase' = [phase EXCEPT ![r] = "sent"]
    /\ UNCHANGED <<payloads, result, served, outcome>>

\* The continuation throws, on a bad answer or a bad link.
Throw(r) ==
    /\ phase[r] = "answered"
    /\ ThreadFree
    /\ IF IsPage(reply[r])
       THEN LinkThrows(r, reply[r])
       ELSE reply[r].bad = "bad" \/ (reply[r].bad = "empty" /\ r \in Typed)
    /\ Return(r, Failed)

\* The continuation of the last page returns its values; parse_payload_from_response
\* takes a body that is not JSON for a page with no values.
ReturnLast(r) ==
    /\ phase[r] = "answered"
    /\ ThreadFree
    /\ \/ IsPage(reply[r]) /\ reply[r].link = "none" /\ Return(r, reply[r].values)
       \/ reply[r] = [bad |-> "empty"] /\ r \notin Typed /\ Return(r, <<>>)

\* The continuation of a page with a next link asks for the next page and waits.
FollowLink(r) ==
    /\ phase[r] = "answered"
    /\ ThreadFree
    /\ IsPage(reply[r])
    /\ LinkLeadsOn(r, reply[r])
    /\ payloads' = [payloads EXCEPT ![r] = Append(@, reply[r].values)]
    /\ reply' = [reply EXCEPT ![r] = [bad |-> "none"]]
    /\ phase' = [phase EXCEPT ![r] = "sent"]
    /\ UNCHANGED <<result, served, outcome>>

\* Mutant: the later values are inserted in front.
ResumeSwapped(r) ==
    /\ phase[r] = "returned"
    /\ payloads[r] # <<>>
    /\ result' = [result EXCEPT ![r] = IF @ = Failed THEN @ ELSE @ \o Last(payloads[r])]
    /\ payloads' = [payloads EXCEPT ![r] = Front(@)]
    /\ UNCHANGED <<phase, reply, served, outcome>>

\* Mutant: an exception of a later page is caught and what is there returned.
ResumeSwallows(r) ==
    /\ phase[r] = "returned"
    /\ payloads[r] # <<>>
    /\ result' = [result EXCEPT ![r] = Last(payloads[r]) \o (IF @ = Failed THEN <<>> ELSE @)]
    /\ payloads' = [payloads EXCEPT ![r] = Front(@)]
    /\ UNCHANGED <<phase, reply, served, outcome>>

\* .get() returns in the innermost waiting continuation: insert_values puts the
\* later values behind its own, or the exception goes on.
Resume(r) ==
    /\ phase[r] = "returned"
    /\ payloads[r] # <<>>
    /\ result' = [result EXCEPT ![r] = IF @ = Failed THEN @ ELSE Last(payloads[r]) \o @]
    /\ payloads' = [payloads EXCEPT ![r] = Front(@)]
    /\ UNCHANGED <<phase, reply, served, outcome>>

\* The outermost continuation has returned: the caller's task is complete.
Complete(r) ==
    /\ phase[r] = "returned"
    /\ payloads[r] = <<>>
    /\ outcome' = [outcome EXCEPT ![r] = result[r]]
    /\ phase' = [phase EXCEPT ![r] = "done"]
    /\ UNCHANGED <<reply, payloads, result, served>>

Step(r) == Throw(r) \/ ReturnLast(r) \/ FollowLink(r) \/ Resume(r) \/ Complete(r)
Network(r) ==
    \/ \E page \in Page : ServePage(r, page)
    \/ \E why \in {"empty", "bad"} : RefusePage(r, why)

Finished == (\A r \in Reads : phase[r] = "done") /\ UNCHANGED vars

Next == (\E r \in Reads : Start(r) \/ Step(r) \/ Network(r)) \/ Finished

\* A continuation that waits for a thread gets one of those that come free again
\* and again: the queue of the pool is served in order.
Fairness == \A r \in Reads : WF_vars(Network(r)) /\ SF_vars(Step(r))

Spec == Init /\ [][Next]_vars
FairSpec == Spec /\ Fairness

-----------------------------------------------------------------------------
(* Properties *)

\* The values that wait on the stack and those already returned are, at every
\* moment of a read that has not failed, exactly the pages served so far in
\* order: none is lost, repeated or swapped on the way down or up.
NothingLost ==
    \A r \in Reads :
        LET below == FlattenSeq(payloads[r])
            all == FlattenSeq(served[r])
        IN CASE phase[r] = "returned" -> result[r] = Failed \/ below \o result[r] = all
             [] IsPage(reply[r])      -> below \o reply[r].values = all
             [] OTHER                 -> phase[r] = "done" \/ below = all

\* Every read ends, with its values or with an exception.
ReadsComplete == \A r \in Reads : phase[r] = "sent" ~> phase[r] = "done"

\* Where a read is, what it holds and what it has returned.
TypeOK ==
    /\ phase \in [Reads -> {"idle", "sent", "answered", "returned", "done"}]
    /\ reply \in [Reads -> Page \cup [bad : {"none", "empty", "bad"}]]
    /\ payloads \in [Reads -> Seq(Seq(Values))]
    /\ served \in [Reads -> Seq(Seq(Values))]
    /\ result \in [Reads -> Seq(Values) \cup {Unknown, Failed}]
    /\ outcome \in [Reads -> Seq(Values) \cup {Unknown, Failed}]

\* The nested calls implement one read of all pages.
Abstract == INSTANCE PagedRead
ImplementsPagedRead == Abstract!Spec
==============================================================================
