----------------------------- MODULE HttpClient ------------------------------
(***************************************************************************)
(* The http client behind one odata_client (include/odata/communication/   *)
(* http_implement.h): getOrCreateClient makes it when the first request is *)
(* sent, out of the client_config that the application may change until    *)
(* then through get_client_config, and of the credentials of its options.  *)
(* A call sends its first request on the thread of its caller or, when a   *)
(* model was found in the cache, in a continuation on a pool thread; then  *)
(* it overlaps what the caller does next.  No lock is taken.               *)
(***************************************************************************)
EXTENDS Naturals

CONSTANTS
    Requests,       \* the requests that are sent
    Settings,       \* what the application can choose in client_config
    Default,        \* what it has when it chooses nothing
    Credential      \* TRUE: the options of the client have a credential

ASSUME DefaultAssumption == Default \in Settings
ASSUME CredentialAssumption == Credential \in BOOLEAN

VARIABLES
    client_config,  \* its setting, and whether the credentials are in it
    m_client,       \* the http_client, NoClient until it is made
    at,             \* at[c]: where request c is in getOrCreateClient
    thread,         \* thread[c]: where it runs
    made,           \* made[c]: the client that request c has constructed
    sent,           \* sent[c]: the client it was sent through
    first,          \* history: the setting when the first request was made
    late,           \* history: the setting was changed after that
    raced,          \* history: the application has not waited for a request
    crashed         \* the process has ended

client_vars ==
    <<client_config, m_client, at, thread, made, sent, first, late, raced, crashed>>

Config == [setting : Settings, credentials : BOOLEAN]

\* An http_client is the copy of the configuration it was constructed with, and
\* the request that constructed it.
Client == [config : Config, by : Requests]
NoClient == [none |-> TRUE]

Labels == {"idle", "check", "credentials", "construct", "storing", "use", "sent", "failed"}

ClientTypeOK ==
    /\ client_config \in Config
    /\ m_client \in Client \cup {NoClient}
    /\ at \in [Requests -> Labels]
    /\ thread \in [Requests -> {"caller", "pool"}]
    /\ made \in [Requests -> Client \cup {NoClient}]
    /\ sent \in [Requests -> Client \cup {NoClient}]
    /\ first \in Settings
    /\ late \in BOOLEAN
    /\ raced \in BOOLEAN
    /\ crashed \in BOOLEAN

ClientInit ==
    /\ client_config = [setting |-> Default, credentials |-> FALSE]
    /\ m_client = NoClient
    /\ at = [c \in Requests |-> "idle"]
    /\ thread = [c \in Requests |-> "caller"]
    /\ made = [c \in Requests |-> NoClient]
    /\ sent = [c \in Requests |-> NoClient]
    /\ first = Default
    /\ late = FALSE
    /\ raced = FALSE
    /\ crashed = FALSE

-----------------------------------------------------------------------------
InFlight(c) == at[c] \notin {"idle", "sent", "failed"}
NothingCalled == \A c \in Requests : at[c] = "idle"

\* The application does something while a request is on its way to the network.
Overlap == raced' = (raced \/ \E c \in Requests : InFlight(c))

\* The application goes on when no request is being sent on its own thread.
CallerFree == \A c \in Requests : InFlight(c) => thread[c] = "pool"

\* The calls that write m_client, and what the next step of c reads or writes.
Storing == {c \in Requests : at[c] = "storing"}
Undefined(c) ==
    \/ at[c] \in {"check", "use", "storing"} /\ Storing \ {c} # {}
    \/ at[c] \in {"credentials", "construct"}
       /\ \E d \in Requests \ {c} : at[d] = "credentials" /\ Credential

Goto(c, l) == at' = [at EXCEPT ![c] = l]

\* The application changes client_config.
Configure(s) ==
    /\ CallerFree
    /\ client_config' = [client_config EXCEPT !.setting = s]
    /\ late' = (late \/ ~NothingCalled)
    /\ Overlap
    /\ UNCHANGED <<m_client, at, thread, made, sent, first, crashed>>

\* A request is built, and refused when it needs a payload and has none.
Send(c, t) ==
    /\ CallerFree
    /\ at[c] = "idle"
    /\ \E l \in {"check", "failed"} : Goto(c, l)
    /\ thread' = [thread EXCEPT ![c] = t]
    /\ first' = IF NothingCalled THEN client_config.setting ELSE first
    /\ Overlap
    /\ UNCHANGED <<client_config, m_client, made, sent, late, crashed>>

\* Mutant: a client is made for every request.
CheckDropped(c) ==
    /\ at[c] = "check"
    /\ Goto(c, "credentials")
    /\ UNCHANGED <<client_config, m_client, thread, made, sent, first, late, raced, crashed>>

\* Mutant: the credentials are set for the client after the one that is made.
CheckLate(c) ==
    /\ at[c] = "check"
    /\ Goto(c, IF m_client = NoClient THEN "construct" ELSE "use")
    /\ UNCHANGED <<client_config, m_client, thread, made, sent, first, late, raced, crashed>>

\* if (m_client == nullptr)
Check(c) ==
    /\ at[c] = "check"
    /\ Goto(c, IF m_client = NoClient THEN "credentials" ELSE "use")
    /\ UNCHANGED <<client_config, m_client, thread, made, sent, first, late, raced, crashed>>

\* Mutant: a configuration of its own takes the credentials.
SetCredentialsAfresh(c) ==
    /\ at[c] = "credentials"
    /\ client_config' = [setting |-> Default, credentials |-> Credential]
    /\ Goto(c, "construct")
    /\ UNCHANGED <<m_client, thread, made, sent, first, late, raced, crashed>>

\* client_config.set_credentials(...)
SetCredentials(c) ==
    /\ at[c] = "credentials"
    /\ client_config' = [client_config EXCEPT !.credentials = @ \/ Credential]
    /\ Goto(c, "construct")
    /\ UNCHANGED <<m_client, thread, made, sent, first, late, raced, crashed>>

\* std::make_shared<http_client>(uri, client_config)
Construct(c) ==
    /\ at[c] = "construct"
    /\ made' = [made EXCEPT ![c] = [config |-> client_config, by |-> c]]
    /\ Goto(c, "storing")
    /\ UNCHANGED <<client_config, m_client, thread, sent, first, late, raced, crashed>>

\* m_client = ...
Store(c) ==
    /\ at[c] = "storing"
    /\ m_client' = made[c]
    /\ Goto(c, "use")
    /\ UNCHANGED <<client_config, thread, made, sent, first, late, raced, crashed>>

\* getOrCreateClient returned a reference to m_client, which is read again.
Use(c) ==
    /\ at[c] = "use"
    /\ sent' = [sent EXCEPT ![c] = m_client]
    /\ Goto(c, "sent")
    /\ UNCHANGED <<client_config, m_client, thread, made, first, late, raced, crashed>>

\* Undefined behaviour may also end the process; where it does not, the step
\* happens as if the overlapping access were ordered.
Crash(c) ==
    /\ Undefined(c)
    /\ crashed' = TRUE
    /\ UNCHANGED <<client_config, m_client, at, thread, made, sent, first, late, raced>>

Step(c) == Check(c) \/ SetCredentials(c) \/ Construct(c) \/ Store(c) \/ Use(c)

Terminated == crashed /\ UNCHANGED client_vars

ClientNext ==
    \/ /\ ~crashed
       /\ \/ \E s \in Settings : Configure(s)
          \/ \E c \in Requests, t \in {"caller", "pool"} : Send(c, t)
          \/ \E c \in Requests : Step(c) \/ Crash(c)
    \/ Terminated

ClientSpec == ClientInit /\ [][ClientNext]_client_vars

-----------------------------------------------------------------------------
(* Properties *)

\* Every request is sent through a client that carries the credentials of the
\* options, also when several requests make the first client at once.
RequestsAuthenticated ==
    \A c \in Requests : at[c] = "sent" =>
        sent[c] # NoClient /\ (Credential => sent[c].config.credentials)

\* What the application has chosen before the first request, and not changed
\* since, holds for all requests: that is why the construction is delayed.
ChoicesHold ==
    ~late => \A c \in Requests : at[c] = "sent" => sent[c].config.setting = first

\* A client is not exchanged for another one except by a request that found
\* none: later choices do not change it, and no connection is given up.
Creating(c) == at[c] \in {"credentials", "construct", "storing"}
SettledClientIsFinal ==
    [][m_client # NoClient /\ (\A c \in Requests : ~Creating(c)) => m_client' = m_client]_client_vars

\* As long as the application awaits, one client serves all requests, and no two
\* of them touch the members at once.
OneClientWhenAwaited ==
    ~raced =>
        /\ \A c, d \in Requests : at[c] = "sent" /\ at[d] = "sent" => sent[c] = sent[d]
        /\ \A c \in Requests : ~Undefined(c)
==============================================================================
