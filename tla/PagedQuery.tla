------------------------------ MODULE PagedQuery -----------------------------
(***************************************************************************)
(* Paging driven by the caller: odata_entityset_query_executor's           *)
(* execute_paged_query (include/odata/codegen) over the client's           *)
(* get_paged_data_from_server.  The caller's next_link_url is both the     *)
(* argument, read when the call is made, and the result, written through a *)
(* captured reference when the answer has been decoded.                    *)
(***************************************************************************)
EXTENDS Naturals, Sequences

CONSTANTS
    Pages,      \* number of pages of the result
    Calls       \* the calls of execute_paged_query, each made at most once

ASSUME PagesAssumption == Pages \in Nat \ {0}

VARIABLES
    link,       \* next_link_url: the page it names, NoLink when it is empty
    pc,         \* pc[x]: where call x is
    path,       \* path[x]: the page call x has asked for
    got,        \* history: the pages whose values a call has returned
    received,   \* history: the same in the order they were returned
    blank,      \* history: a page was answered with a body of another type
    overlapped  \* history: a call was made before the one before it had ended

vars == <<link, pc, path, got, received, blank, overlapped>>

NoLink == 0
Links == 0 .. Pages

TypeOK ==
    /\ link \in Links
    /\ pc \in [Calls -> {"idle", "sent", "answered", "empty", "refused", "done", "failed"}]
    /\ path \in [Calls -> Links]
    /\ got \subseteq 1 .. Pages
    /\ received \in Seq(1 .. Pages)
    /\ blank \in BOOLEAN
    /\ overlapped \in BOOLEAN

\* The caller begins with the query itself, which names the first page.
Init ==
    /\ link = 1
    /\ pc = [x \in Calls |-> "idle"]
    /\ path = [x \in Calls |-> NoLink]
    /\ got = {}
    /\ received = <<>>
    /\ blank = FALSE
    /\ overlapped = FALSE

Pending(x) == pc[x] \in {"sent", "answered", "empty", "refused"}

\* Mutant: the link is moved on when the call is made, as if it could not fail.
CallMovesOn(x) ==
    /\ pc[x] = "idle"
    /\ overlapped' = (overlapped \/ \E y \in Calls : Pending(y))
    /\ link # NoLink
    /\ link' = IF link = Pages THEN NoLink ELSE link + 1
    /\ path' = [path EXCEPT ![x] = link]
    /\ pc' = [pc EXCEPT ![x] = "sent"]
    /\ UNCHANGED <<got, received, blank>>

\* Mutant: an answer that is refused leaves the link empty.
FailClears(x) ==
    /\ pc[x] = "refused"
    /\ link' = NoLink
    /\ pc' = [pc EXCEPT ![x] = "failed"]
    /\ UNCHANGED <<path, got, received, blank, overlapped>>

\* With an empty link the call returns no values at once; else it sends the
\* request with a copy of the link.
Call(x) ==
    /\ pc[x] = "idle"
    /\ overlapped' = (overlapped \/ \E y \in Calls : Pending(y))
    /\ IF link = NoLink
       THEN /\ pc' = [pc EXCEPT ![x] = "done"]
            /\ UNCHANGED path
       ELSE /\ path' = [path EXCEPT ![x] = link]
            /\ pc' = [pc EXCEPT ![x] = "sent"]
    /\ UNCHANGED <<link, got, received, blank>>

\* The service answers 2xx with the page, or with a body that does not call itself
\* JSON; or the status is another, the JSON does not parse, or no answer comes.
Answer(x) ==
    /\ pc[x] = "sent"
    /\ \E how \in {"answered", "empty", "refused"} : pc' = [pc EXCEPT ![x] = how]
    /\ UNCHANGED <<link, path, got, received, blank, overlapped>>

\* The continuation throws and does not touch the link.
Fail(x) ==
    /\ pc[x] = "refused"
    /\ pc' = [pc EXCEPT ![x] = "failed"]
    /\ UNCHANGED <<link, path, got, received, blank, overlapped>>

\* payload->get_next_link() of page p.
NextLink(p) == IF p = Pages THEN NoLink ELSE p + 1

\* The continuation writes the link and returns the values.
Deliver(x) ==
    /\ pc[x] = "answered"
    /\ link' = NextLink(path[x])
    /\ got' = got \cup {path[x]}
    /\ received' = Append(received, path[x])
    /\ pc' = [pc EXCEPT ![x] = "done"]
    /\ UNCHANGED <<path, blank, overlapped>>

\* parse_payload_from_response makes an empty payload of a body that is not JSON:
\* the continuation writes its empty link and returns no values.
DeliverNothing(x) ==
    /\ pc[x] = "empty"
    /\ link' = NoLink
    /\ blank' = TRUE
    /\ pc' = [pc EXCEPT ![x] = "done"]
    /\ UNCHANGED <<path, got, received, overlapped>>

Finished == (\A x \in Calls : pc[x] \in {"done", "failed"}) /\ UNCHANGED vars

Next ==
    \/ \E x \in Calls :
          Call(x) \/ Answer(x) \/ Fail(x) \/ Deliver(x) \/ DeliverNothing(x)
    \/ Finished

Spec == Init /\ [][Next]_vars

-----------------------------------------------------------------------------
\* No page is skipped, even when calls on one link overlap and their answers
\* come in any order: the pages before the one the link names, or all of them
\* when it is empty, have been returned.  The one way to lose pages is an answer
\* 2xx that is not JSON: it leaves the link empty, never ahead of a page.
Before(l) == IF l = NoLink THEN 1 .. Pages ELSE 1 .. (l - 1)
NoPageSkipped == link # NoLink \/ ~blank => Before(link) \subseteq got

\* As long as the caller awaits each call, it gets pages once and in order, and
\* all of them by the time the link is empty unless an answer was not JSON,
\* however often a call fails and is made again: a failed call does not move the
\* link.
EachPageOnce ==
    ~overlapped =>
        /\ received = [i \in 1 .. Len(received) |-> i]
        /\ link # NoLink => Len(received) = link - 1
        /\ link = NoLink /\ ~blank => Len(received) = Pages
==============================================================================
