------------------------- MODULE PagedRequestsProofs --------------------------
(***************************************************************************)
(* Proofs about PagedQuery, for any number of pages and of calls; about    *)
(* HttpClient, for any number of requests and any settings, whether        *)
(* callers wait or not; and about the two together: PagedRequests          *)
(* implements both of its components, every step of it is a step of        *)
(* PagedQuery or leaves the paging alone, and a step of HttpClient or      *)
(* leaves the client alone.  What is proved of each component therefore    *)
(* holds in the composition, and together they say that pages come only    *)
(* from requests that carried the credentials.                             *)
(***************************************************************************)
EXTENDS PagedRequests, SequenceTheorems, TLAPS

(* PagedQuery: the next link and the calls that follow it *)

\* A page is asked for only when all pages before it have been returned.
AskedInOrder ==
    \A x \in Calls : Pending(x) => path[x] # NoLink /\ 1 .. (path[x] - 1) \subseteq got

IInv == TypeOK /\ NoPageSkipped /\ AskedInOrder

USE PagesAssumption

\* The link of page p leads to what is left when p has been returned too.
LEMMA NextLinkSkipsNothing ==
  ASSUME NEW p \in 1 .. Pages, NEW S, 1 .. (p - 1) \subseteq S
  PROVE  /\ NextLink(p) \in Links
         /\ Before(NextLink(p)) \subseteq S \cup {p}
<1>1. CASE p = Pages
  <2>1. 1 .. Pages \subseteq S \cup {p}
    BY <1>1
  <2>. QED
    BY <1>1, <2>1 DEF NextLink, Before, NoLink, Links
<1>2. CASE p # Pages
  <2>1. p + 1 \in 1 .. Pages /\ p + 1 # NoLink /\ (p + 1) - 1 = p
    BY <1>2 DEF NoLink
  <2>2. 1 .. p \subseteq S \cup {p}
    OBVIOUS
  <2>. QED
    BY <1>2, <2>1, <2>2 DEF NextLink, Before, Links
<1>. QED
  BY <1>1, <1>2

LEMMA InitInvariant == Init => IInv
<1>. SUFFICES ASSUME Init PROVE IInv
  OBVIOUS
<1>1. received \in Seq(1 .. Pages)
  BY DEF Init
<1>2. link \in Links /\ path \in [Calls -> Links]
  BY DEF Init, NoLink, Links
<1>3. TypeOK
  BY <1>1, <1>2 DEF Init, TypeOK
<1>. QED
  BY <1>3 DEF Init, IInv, NoPageSkipped, AskedInOrder, Before, Pending, NoLink

LEMMA NextInvariant == IInv /\ [Next]_vars => IInv'
<1>. SUFFICES ASSUME IInv, [Next]_vars PROVE IInv'
  OBVIOUS
<1>. USE DEF IInv, TypeOK, NoPageSkipped, AskedInOrder, Pending
<1>1. ASSUME NEW x \in Calls, Call(x) PROVE IInv'
  BY <1>1 DEF Call, Before, Links, NoLink
<1>2. ASSUME NEW x \in Calls, Answer(x) PROVE IInv'
  BY <1>2 DEF Answer
<1>3. ASSUME NEW x \in Calls, Fail(x) PROVE IInv'
  BY <1>3 DEF Fail
<1>4. ASSUME NEW x \in Calls, Deliver(x) PROVE IInv'
  <2>. DEFINE p == path[x]
  <2>1. p \in 1 .. Pages /\ 1 .. (p - 1) \subseteq got
    BY <1>4 DEF Deliver, Links, NoLink
  <2>2. NextLink(p) \in Links /\ Before(NextLink(p)) \subseteq got \cup {p}
    BY <2>1, NextLinkSkipsNothing
  <2>3. TypeOK'
    <3>1. received' \in Seq(1 .. Pages)
      BY <1>4, <2>1 DEF Deliver
    <3>. QED
      BY <1>4, <2>1, <2>2, <3>1 DEF Deliver
  <2>4. NoPageSkipped'
    BY <1>4, <2>2 DEF Deliver
  <2>5. AskedInOrder'
    BY <1>4 DEF Deliver
  <2>. QED
    BY <2>3, <2>4, <2>5
<1>5. ASSUME NEW x \in Calls, DeliverNothing(x) PROVE IInv'
  BY <1>5 DEF DeliverNothing, Links, NoLink
<1>6. CASE UNCHANGED vars
  BY <1>6 DEF vars, Before
<1>. QED
  BY <1>1, <1>2, <1>3, <1>4, <1>5, <1>6 DEF Next, Finished

THEOREM Invariant == Spec => []IInv
  BY InitInvariant, NextInvariant, PTL DEF Spec

\* Whatever calls of execute_paged_query overlap on one next_link_url, and in
\* whatever order their answers come, the link never leads past a page that has
\* not been returned, and is empty before the last has only after an answer that
\* was not JSON.
THEOREM NoPageIsSkipped == Spec => []NoPageSkipped
  BY Invariant, PTL DEF IInv
-----------------------------------------------------------------------------
(* A caller that awaits *)

\* Until calls overlap at most one is under way, and it has asked for the page
\* the link still names.
OneAtATime ==
    ~overlapped =>
        /\ \A x \in Calls : Pending(x) => path[x] = link
        /\ \A x, y \in Calls : Pending(x) /\ Pending(y) => x = y

AwaitedInv == IInv /\ OneAtATime /\ EachPageOnce

\* The page after the first n is appended where it belongs.
LEMMA PagesInOrder ==
  ASSUME NEW s \in Seq(1 .. Pages), NEW p \in 1 .. Pages,
         s = [i \in 1 .. Len(s) |-> i], Len(s) = p - 1
  PROVE  /\ Append(s, p) = [i \in 1 .. Len(Append(s, p)) |-> i]
         /\ Len(Append(s, p)) = p
<1>1. Len(Append(s, p)) = p /\ DOMAIN Append(s, p) = 1 .. p
  OBVIOUS
<1>2. \A i \in 1 .. p : Append(s, p)[i] = i
  OBVIOUS
<1>3. [i \in 1 .. p |-> i] \in Seq(1 .. Pages) /\ Len([i \in 1 .. p |-> i]) = p
  OBVIOUS
<1>4. Append(s, p) \in Seq(1 .. Pages)
  OBVIOUS
<1>5. Append(s, p) = [i \in 1 .. p |-> i]
  BY <1>1, <1>2, <1>3, <1>4, SeqEqual
<1>. QED
  BY <1>1, <1>5

LEMMA InitAwaited == Init => AwaitedInv
<1>. SUFFICES ASSUME Init PROVE AwaitedInv
  OBVIOUS
<1>1. EachPageOnce
  BY DEF Init, EachPageOnce, NoLink
<1>. QED
  BY <1>1, InitInvariant DEF AwaitedInv, OneAtATime, Init, Pending

LEMMA NextAwaited == AwaitedInv /\ [Next]_vars => AwaitedInv'
<1>. SUFFICES ASSUME AwaitedInv, [Next]_vars PROVE OneAtATime' /\ EachPageOnce'
  BY NextInvariant DEF AwaitedInv
<1>. USE DEF AwaitedInv, IInv, TypeOK, OneAtATime
<1>1. ASSUME NEW x \in Calls, Call(x) PROVE OneAtATime' /\ EachPageOnce'
  <2>1. OneAtATime'
    BY <1>1 DEF Call, Pending
  <2>2. EachPageOnce'
    BY <1>1 DEF Call, EachPageOnce
  <2>. QED
    BY <2>1, <2>2
<1>2. ASSUME NEW x \in Calls, Answer(x) \/ Fail(x) PROVE OneAtATime' /\ EachPageOnce'
  <2>1. OneAtATime'
    BY <1>2 DEF Answer, Fail, Pending
  <2>2. EachPageOnce'
    BY <1>2 DEF Answer, Fail, EachPageOnce
  <2>. QED
    BY <2>1, <2>2
<1>3. ASSUME NEW x \in Calls, Deliver(x) PROVE OneAtATime' /\ EachPageOnce'
  <2>. DEFINE p == path[x]
  <2>1. Pending(x) /\ p \in 1 .. Pages
    BY <1>3 DEF Deliver, Pending, AskedInOrder, Links, NoLink
  <2>2. OneAtATime'
    BY <1>3, <2>1 DEF Deliver, Pending
  <2>3. ASSUME ~overlapped PROVE EachPageOnce'
    <3>1. link = p
      BY <2>1, <2>3
    <3>2. received = [i \in 1 .. Len(received) |-> i] /\ Len(received) = p - 1
      <4>1. link # NoLink
        BY <2>1, <3>1 DEF NoLink
      <4>. QED
        BY <2>3, <3>1, <4>1 DEF EachPageOnce
    <3>3. received' = [i \in 1 .. Len(received') |-> i] /\ Len(received') = p
      BY <1>3, <2>1, <3>2, PagesInOrder DEF Deliver
    <3>4. /\ link' # NoLink => p = link' - 1
          /\ link' = NoLink => p = Pages
      BY <1>3, <2>1 DEF Deliver, NextLink, NoLink
    <3>. QED
      BY <3>3, <3>4 DEF EachPageOnce
  <2>4. overlapped' = overlapped
    BY <1>3 DEF Deliver
  <2>. QED
    BY <2>2, <2>3, <2>4 DEF EachPageOnce
<1>4. ASSUME NEW x \in Calls, DeliverNothing(x) PROVE OneAtATime' /\ EachPageOnce'
  <2>1. OneAtATime'
    BY <1>4 DEF DeliverNothing, Pending
  <2>2. EachPageOnce'
    BY <1>4 DEF DeliverNothing, EachPageOnce
  <2>. QED
    BY <2>1, <2>2
<1>5. CASE UNCHANGED vars
  BY <1>5 DEF vars, Pending, EachPageOnce
<1>. QED
  BY <1>1, <1>2, <1>3, <1>4, <1>5 DEF Next, Finished

\* A caller that awaits each execute_paged_query is given the pages in order and
\* once each, however many there are and however often a call fails, and all of
\* them unless an answer was not JSON.
THEOREM AwaitedPagesAreInOrder == Spec => []EachPageOnce
<1>1. AwaitedInv => EachPageOnce
  BY DEF AwaitedInv
<1>. QED
  BY <1>1, InitAwaited, NextAwaited, PTL DEF Spec

-----------------------------------------------------------------------------
(* HttpClient: the client that is made with the first request *)

\* What a client must have been made from to serve a request.
Good(cl) ==
    /\ cl # NoClient
    /\ Credential => cl.config.credentials
    /\ ~late => cl.config.setting = first

\* Nothing is made before the first request; until it is late, the setting is
\* the one the first request found.
SettingIsFirst ==
    /\ NothingCalled => m_client = NoClient
    /\ ~NothingCalled /\ ~late => client_config.setting = first
    /\ late => ~NothingCalled

\* The credentials are in the configuration when a client is constructed.
ConfiguredBeforeUse ==
    \A c \in Requests :
        /\ at[c] = "construct" => (Credential => client_config.credentials)
        /\ at[c] = "storing" => Good(made[c])
        /\ at[c] = "use" => m_client # NoClient
        /\ at[c] = "sent" => Good(sent[c])

ClientIInv ==
    /\ ClientTypeOK
    /\ SettingIsFirst
    /\ ConfiguredBeforeUse
    /\ m_client # NoClient => Good(m_client)

USE DefaultAssumption, CredentialAssumption

-----------------------------------------------------------------------------
\* The marker of a client that is not there is none.
LEMMA NoClientIsNone == NoClient \notin Client
BY DEF NoClient, Client

LEMMA ClientInitInvariant == ClientInit => ClientIInv
<1>. SUFFICES ASSUME ClientInit PROVE ClientIInv
  OBVIOUS
<1>. USE DEF ClientInit
<1>1. ClientTypeOK
  BY DEF ClientTypeOK, Labels, Config
<1>2. SettingIsFirst
  BY DEF SettingIsFirst, NothingCalled
<1>3. ConfiguredBeforeUse
  BY DEF ConfiguredBeforeUse
<1>. QED
  BY <1>1, <1>2, <1>3 DEF ClientIInv

LEMMA ClientNextInvariant == ClientIInv /\ [ClientNext]_client_vars => ClientIInv'
<1>. SUFFICES ASSUME ClientIInv, [ClientNext]_client_vars PROVE ClientIInv'
  OBVIOUS
<1>. USE NoClientIsNone
     DEF ClientIInv, ClientTypeOK, SettingIsFirst, ConfiguredBeforeUse, Good, NothingCalled,
         Labels, Config, Client, Goto, Overlap
<1>1. ASSUME NEW s \in Settings, Configure(s) PROVE ClientIInv'
  BY <1>1 DEF Configure
<1>2. ASSUME NEW c \in Requests, NEW t \in {"caller", "pool"}, Send(c, t)
      PROVE  ClientIInv'
  BY <1>2 DEF Send
<1>3. ASSUME NEW c \in Requests, Check(c) PROVE ClientIInv'
  BY <1>3 DEF Check
<1>4. ASSUME NEW c \in Requests, SetCredentials(c) PROVE ClientIInv'
  BY <1>4 DEF SetCredentials
<1>5. ASSUME NEW c \in Requests, Construct(c) PROVE ClientIInv'
  BY <1>5 DEF Construct
<1>6. ASSUME NEW c \in Requests, Store(c) PROVE ClientIInv'
  BY <1>6 DEF Store
<1>7. ASSUME NEW c \in Requests, Use(c) PROVE ClientIInv'
  BY <1>7 DEF Use
<1>8. ASSUME NEW c \in Requests, Crash(c) PROVE ClientIInv'
  BY <1>8 DEF Crash
<1>9. CASE UNCHANGED client_vars
  BY <1>9 DEF client_vars
<1>. QED
  BY <1>1, <1>2, <1>3, <1>4, <1>5, <1>6, <1>7, <1>8, <1>9 DEF ClientNext, Step, Terminated

\* The inductive invariant holds in every behaviour.
THEOREM ClientInvariant == ClientSpec => []ClientIInv
BY ClientInitInvariant, ClientNextInvariant, PTL DEF ClientSpec

-----------------------------------------------------------------------------
\* Type correctness of getOrCreateClient and the requests sent through it.
THEOREM ClientTypeCorrect == ClientSpec => []ClientTypeOK
<1>1. ClientIInv => ClientTypeOK
  BY DEF ClientIInv
<1>. QED
  BY ClientInvariant, <1>1, PTL

\* Every request goes out with the credentials of the options, also when several
\* requests construct the first http_client at once.
THEOREM EveryRequestIsAuthenticated == ClientSpec => []RequestsAuthenticated
<1>1. ClientIInv => RequestsAuthenticated
  BY DEF ClientIInv, ConfiguredBeforeUse, Good, RequestsAuthenticated
<1>. QED
  BY ClientInvariant, <1>1, PTL

\* A setting chosen through get_client_config before the first request, and left
\* alone since, is the setting of every request.
THEOREM EarlyChoicesHold == ClientSpec => []ChoicesHold
<1>1. ClientIInv => ChoicesHold
  BY DEF ClientIInv, ConfiguredBeforeUse, Good, ChoicesHold
<1>. QED
  BY ClientInvariant, <1>1, PTL

\* A client that no request is about to replace stays.
THEOREM ClientSettles == ClientSpec => SettledClientIsFinal
<1>1. [ClientNext]_client_vars =>
        [m_client # NoClient /\ (\A c \in Requests : ~Creating(c)) => m_client' = m_client]_client_vars
  BY DEF ClientNext, client_vars, Configure, Send, Step, Check, SetCredentials, Construct, Store,
         Use, Crash, Terminated, Creating
<1>. QED
  BY <1>1, PTL DEF ClientSpec, SettledClientIsFinal

-----------------------------------------------------------------------------
(* An application that awaits *)

\* Until the application overtakes a request, at most one is on its way, the
\* client that exists served all that were sent, and it is only made once.
Alone ==
    ~raced =>
        /\ \A c, d \in Requests : InFlight(c) /\ InFlight(d) => c = d
        /\ \A c \in Requests : at[c] = "sent" => sent[c] = m_client
        /\ \A c \in Requests : Creating(c) => m_client = NoClient

LEMMA ClientInitAlone == ClientInit => Alone
BY DEF ClientInit, Alone, InFlight, Creating

LEMMA ClientNextAlone == ClientIInv /\ Alone /\ [ClientNext]_client_vars => Alone'
<1>. SUFFICES ASSUME ClientIInv, Alone, [ClientNext]_client_vars, ~raced' PROVE Alone'
  BY DEF Alone
<1>. USE DEF Alone, InFlight, Creating, Goto, ClientIInv, ClientTypeOK
<1>1. ASSUME NEW s \in Settings, Configure(s) PROVE Alone'
  BY <1>1 DEF Configure, Overlap
<1>2. ASSUME NEW c \in Requests, NEW t \in {"caller", "pool"}, Send(c, t) PROVE Alone'
  BY <1>2 DEF Send, Overlap
<1>3. ASSUME NEW c \in Requests, Check(c) PROVE Alone'
  BY <1>3 DEF Check
<1>4. ASSUME NEW c \in Requests, SetCredentials(c) PROVE Alone'
  BY <1>4 DEF SetCredentials
<1>5. ASSUME NEW c \in Requests, Construct(c) PROVE Alone'
  BY <1>5 DEF Construct
<1>6. ASSUME NEW c \in Requests, Store(c) PROVE Alone'
  <2>1. ~raced /\ m_client = NoClient
    BY <1>6 DEF Store
  <2>2. \A d \in Requests : at[d] # "sent"
    BY <2>1 DEF ConfiguredBeforeUse, Good
  <2>. QED
    BY <1>6, <2>1, <2>2 DEF Store
<1>7. ASSUME NEW c \in Requests, Use(c) PROVE Alone'
  BY <1>7 DEF Use
<1>8. ASSUME NEW c \in Requests, Crash(c) PROVE Alone'
  BY <1>8 DEF Crash
<1>9. CASE UNCHANGED client_vars
  BY <1>9 DEF client_vars
<1>. QED
  BY <1>1, <1>2, <1>3, <1>4, <1>5, <1>6, <1>7, <1>8, <1>9 DEF ClientNext, Step, Terminated

\* As long as the application awaits, one http_client serves every request, and
\* no two of them touch the members at once, however many requests there are.
THEOREM AwaitedRequestsShareAClient == ClientSpec => []OneClientWhenAwaited
<1>1. ClientIInv /\ Alone => OneClientWhenAwaited
  BY DEF Alone, OneClientWhenAwaited, Undefined, Storing, InFlight
<1>2. ClientSpec => []Alone
  BY ClientInvariant, ClientInitAlone, ClientNextAlone, PTL DEF ClientSpec
<1>. QED
  BY ClientInvariant, <1>1, <1>2, PTL

-----------------------------------------------------------------------------
(* PagedRequests: paged queries over the client *)

USE CallsAssumption

\* The steps of the composition are steps of execute_paged_query, or leave
\* next_link_url and the calls alone.
LEMMA StepImplementsPaging == [PagedNext]_<<vars, client_vars>> => [Next]_vars
<1>. SUFFICES ASSUME [PagedNext]_<<vars, client_vars>> PROVE [Next]_vars
  OBVIOUS
<1>1. ASSUME NEW x \in Calls, CallPage(x) \/ AnswerPage(x) \/ Continue(x) PROVE Next
  BY <1>1 DEF CallPage, AnswerPage, Continue, Next
<1>2. ASSUME NEW c \in Requests, Other(c) PROVE UNCHANGED vars
  BY <1>2 DEF Other
<1>3. CASE Prepare \/ PagedDone
  BY <1>3 DEF Prepare, PagedDone
<1>. QED
  BY <1>1, <1>2, <1>3 DEF PagedNext

\* The steps of the composition are steps of getOrCreateClient and of the
\* application around it, or leave the client alone.
LEMMA StepImplementsClient == [PagedNext]_<<vars, client_vars>> => [ClientNext]_client_vars
<1>. SUFFICES ASSUME [PagedNext]_<<vars, client_vars>> PROVE [ClientNext]_client_vars
  OBVIOUS
<1>1. ASSUME ~crashed, NEW x \in Calls, CallPage(x) PROVE [ClientNext]_client_vars
  <2>1. x \in Requests
    OBVIOUS
  <2>. QED
    BY <1>1, <2>1 DEF CallPage, ClientNext
<1>2. ASSUME NEW x \in Calls, AnswerPage(x) \/ Continue(x) PROVE UNCHANGED client_vars
  BY <1>2 DEF AnswerPage, Continue
<1>3. ASSUME ~crashed, NEW c \in Requests, Other(c) PROVE ClientNext
  BY <1>3 DEF Other, ClientNext
<1>4. CASE ~crashed /\ Prepare
  BY <1>4 DEF Prepare, ClientNext
<1>5. CASE PagedDone
  BY <1>5 DEF PagedDone
<1>. QED
  BY <1>1, <1>2, <1>3, <1>4, <1>5 DEF PagedNext

\* Paged queries over the lazily made client are paged queries.
THEOREM ImplementsPagedQuery == PagedSpec => Spec
<1>1. PagedInit => Init
  BY DEF PagedInit
<1>. QED
  BY <1>1, StepImplementsPaging, PTL DEF PagedSpec, Spec

\* They use the client as HttpClient says it is used.
THEOREM ImplementsHttpClient == PagedSpec => ClientSpec
<1>1. PagedInit => ClientInit
  BY DEF PagedInit
<1>. QED
  BY <1>1, StepImplementsClient, PTL DEF PagedSpec, ClientSpec

\* Whatever calls overlap, and whatever else the application does with the
\* client, next_link_url never leads past a page that was not returned, and does
\* not end before the last but by an answer that was not JSON.
THEOREM NoPageSkippedOverClient == PagedSpec => []NoPageSkipped
BY ImplementsPagedQuery, NoPageIsSkipped, PTL

\* A caller that awaits each execute_paged_query gets every page in order and
\* once, or as many as come before an answer that is not JSON, whatever other
\* requests share the client.
THEOREM PagesInOrderOverClient == PagedSpec => []EachPageOnce
BY ImplementsPagedQuery, AwaitedPagesAreInOrder, PTL

-----------------------------------------------------------------------------
\* A call that has left its page behind has had its request sent.
AnsweredWasSent ==
    \A x \in Calls : path[x] # NoLink /\ pc[x] \notin {"idle", "sent"} => at[x] = "sent"

\* A call that was not made has asked for nothing.
IdleAskedNothing == \A x \in Calls : pc[x] = "idle" => path[x] = NoLink

PagedIInv == IInv /\ ClientIInv /\ AnsweredWasSent /\ IdleAskedNothing

\* A request that was sent stays so.
LEMMA SentStays ==
  ASSUME ClientIInv, [ClientNext]_client_vars, NEW c \in Requests, at[c] = "sent"
  PROVE  at'[c] = "sent"
<1>. USE DEF Goto, ClientIInv, ClientTypeOK
<1>1. ASSUME NEW s \in Settings, Configure(s) PROVE at'[c] = "sent"
  BY <1>1 DEF Configure
<1>2. ASSUME NEW d \in Requests, NEW t \in {"caller", "pool"}, Send(d, t) PROVE at'[c] = "sent"
  BY <1>2 DEF Send
<1>3. ASSUME NEW d \in Requests, Step(d) \/ Crash(d) PROVE at'[c] = "sent"
  BY <1>3 DEF Step, Check, SetCredentials, Construct, Store, Use, Crash
<1>4. CASE UNCHANGED client_vars
  BY <1>4 DEF client_vars
<1>. QED
  BY <1>1, <1>2, <1>3, <1>4 DEF ClientNext, Terminated

LEMMA PagedInitInvariant == PagedInit => PagedIInv
<1>. SUFFICES ASSUME PagedInit PROVE PagedIInv
  OBVIOUS
<1>1. IInv /\ ClientIInv
  BY InitInvariant, ClientInitInvariant DEF PagedInit
<1>2. AnsweredWasSent /\ IdleAskedNothing
  BY DEF PagedInit, Init, AnsweredWasSent, IdleAskedNothing, NoLink
<1>. QED
  BY <1>1, <1>2 DEF PagedIInv

LEMMA PagedNextInvariant == PagedIInv /\ [PagedNext]_<<vars, client_vars>> => PagedIInv'
<1>. SUFFICES ASSUME PagedIInv, [PagedNext]_<<vars, client_vars>> PROVE PagedIInv'
  OBVIOUS
<1>1. IInv' /\ ClientIInv'
  BY NextInvariant, ClientNextInvariant, StepImplementsPaging, StepImplementsClient DEF PagedIInv
<1>2. \A x \in Calls : at[x] = "sent" => at'[x] = "sent"
  BY SentStays, StepImplementsClient DEF PagedIInv
<1>3. /\ pc \in [Calls -> {"idle", "sent", "answered", "empty", "refused", "done", "failed"}]
     /\ path \in [Calls -> Links]
  BY DEF PagedIInv, IInv, TypeOK
<1>4. AnsweredWasSent' /\ IdleAskedNothing'
  <2>. USE DEF AnsweredWasSent, IdleAskedNothing, PagedIInv
  <2>1. ASSUME NEW x \in Calls, CallPage(x) PROVE AnsweredWasSent' /\ IdleAskedNothing'
    <3>1. Call(x) /\ x \in Requests
      BY <2>1 DEF CallPage
    <3>2. \/ pc' = [pc EXCEPT ![x] = "done"] /\ path' = path
          \/ pc' = [pc EXCEPT ![x] = "sent"]
      BY <3>1 DEF Call
    <3>3. \A y \in Calls \ {x} : path'[y] = path[y]
      BY <1>3, <3>1 DEF Call
    <3>. QED
      BY <1>2, <1>3, <3>1, <3>2, <3>3 DEF Call
  <2>2. ASSUME NEW x \in Calls, AnswerPage(x) PROVE AnsweredWasSent' /\ IdleAskedNothing'
    BY <1>2, <1>3, <2>2 DEF AnswerPage, Answer
  <2>3. ASSUME NEW x \in Calls, Continue(x) PROVE AnsweredWasSent' /\ IdleAskedNothing'
    BY <1>2, <1>3, <2>3 DEF Continue, Fail, Deliver, DeliverNothing
  <2>4. CASE UNCHANGED vars
    BY <1>2, <2>4 DEF vars
  <2>. QED
    BY <2>1, <2>2, <2>3, <2>4 DEF PagedNext, Other, Prepare, PagedDone
<1>. QED
  BY <1>1, <1>4 DEF PagedIInv

\* A page is decoded only after its request was sent through a client that had
\* the credentials of the options, however many requests made the client at once.
THEOREM EveryPageIsAuthenticated == PagedSpec => []PagesAreAuthenticated
<1>1. PagedIInv => PagesAreAuthenticated
  <2>. SUFFICES ASSUME PagedIInv,
                       NEW x \in Calls, path[x] # NoLink, pc[x] # "sent"
                PROVE  sent[x] # NoClient /\ (Credential => sent[x].config.credentials)
    BY DEF PagesAreAuthenticated
  <2>1. at[x] = "sent"
    BY DEF PagedIInv, AnsweredWasSent, IdleAskedNothing
  <2>. QED
    BY <2>1 DEF PagedIInv, ClientIInv, ConfiguredBeforeUse, Good
<1>. QED
  BY <1>1, PagedInitInvariant, PagedNextInvariant, PTL DEF PagedSpec
=============================================================================
