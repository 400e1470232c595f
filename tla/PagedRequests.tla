---------------------------- MODULE PagedRequests ----------------------------
(***************************************************************************)
(* Paged queries over the http client that sends their requests: the steps *)
(* of get_paged_data_from_server (src/client/odata_client.cpp) that join   *)
(* execute_paged_query (PagedQuery) to getOrCreateClient (HttpClient).     *)
(* A call of PagedQuery that finds a link is a request of HttpClient under *)
(* the same name, and its answer can come when that request has been sent. *)
(* Other operations of the client are requests too.                        *)
(***************************************************************************)
EXTENDS PagedQuery, HttpClient

ASSUME CallsAssumption == Calls \subseteq Requests

PagedInit == Init /\ ClientInit

\* The request of a page is a GET without payload: it is never refused.  It
\* goes out on the caller's thread, or behind a model found in the cache.
CallPage(x) ==
    /\ CallerFree
    /\ Call(x)
    /\ IF link = NoLink
       THEN UNCHANGED client_vars
       ELSE \E t \in {"caller", "pool"} : Send(x, t) /\ at'[x] = "check"

\* The response task of a request completes when http_client has sent it.
AnswerPage(x) == at[x] = "sent" /\ Answer(x) /\ UNCHANGED client_vars

Continue(x) ==
    /\ Fail(x) \/ Deliver(x) \/ DeliverNothing(x)
    /\ UNCHANGED client_vars

\* Another operation uses the client.
Other(c) ==
    /\ c \notin Calls
    /\ \E t \in {"caller", "pool"} : Send(c, t)
    /\ UNCHANGED vars

\* The application chooses settings, and requests pass through getOrCreateClient.
Prepare ==
    /\ \/ \E s \in Settings : Configure(s)
       \/ \E c \in Requests : Step(c) \/ Crash(c)
    /\ UNCHANGED vars

\* Every call has ended, or the process has.
PagedDone ==
    /\ crashed \/ \A x \in Calls : pc[x] \in {"done", "failed"}
    /\ UNCHANGED <<vars, client_vars>>

PagedNext ==
    \/ /\ ~crashed
       /\ \/ \E x \in Calls : CallPage(x) \/ AnswerPage(x) \/ Continue(x)
          \/ \E c \in Requests : Other(c)
          \/ Prepare
    \/ PagedDone

PagedSpec == PagedInit /\ [][PagedNext]_<<vars, client_vars>>

-----------------------------------------------------------------------------
\* A page is decoded only after its request went out through a client that had
\* the credentials: no answer can belong to a request nobody authenticated.
PagesAreAuthenticated ==
    \A x \in Calls : path[x] # NoLink /\ pc[x] # "sent" =>
        sent[x] # NoClient /\ (Credential => sent[x].config.credentials)
==============================================================================
