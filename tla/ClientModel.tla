----------------------------- MODULE ClientModel -----------------------------
(***************************************************************************)
(* How the operations of odata_client obtain the service model             *)
(* (src/client/odata_client.cpp).  Every public operation begins with      *)
(*     if (!m_model) return get_model().then([this, ...] { retry });       *)
(* and get_model() looks in m_model, then in the static m_model_cache, and *)
(* else downloads $metadata, with no lock on either.  One TLA+ step is one *)
(* access to shared memory, so that calls on several threads interleave as *)
(* they do in the program.                                                 *)
(***************************************************************************)
EXTENDS Naturals, FiniteSets

CONSTANTS
    Clients,    \* the odata_client objects of the process
    Ops,        \* the calls made on them, each made at most once
    Services,   \* the service root URLs
    ServiceOf,  \* ServiceOf[c]: m_service_root_url of client c
    Kinds,      \* which operations are called, a subset of AllKinds
    NoModel,    \* the null shared_ptr, or no entry in the cache
    NoClient    \* the client of a call not made yet

AllKinds == {"get_model", "get_entities", "get_data", "operation", "send"}

ASSUME ServiceOfAssumption == ServiceOf \in [Clients -> Services]
ASSUME KindsAssumption == Kinds \subseteq AllKinds

\* An edm_model object, named after the call that parsed it: a call parses at
\* most one (property FetchesOnce).
Model == [svc : Services, by : Ops]

ASSUME NullAssumption == NoModel \notin Model /\ NoClient \notin Clients

VARIABLES
    m_model,        \* m_model[c]: the model of client c
    m_model_cache,  \* m_model_cache[s]: the entry of the static map
    alive,          \* clients not destroyed
    pc,             \* pc[o]: where call o is
    client,         \* client[o]: the object call o was made on
    kind,           \* kind[o]: which operation
    found,          \* found[o]: the right-hand side of its pending m_model = ...
    reply,          \* reply[o]: the HTTP answer its continuation is to look at
    used,           \* used[o]: the model the returned values point into
    crashed,        \* undefined behaviour brought the process down
    parsed,         \* history: models parsed so far
    fetches,        \* history: calls that have requested $metadata, how often
    warm,           \* history: calls made on a client that had a model
    overlapped      \* history: some caller has not waited for a call before it
                    \* made another, or destroyed the client

memory == <<m_model, m_model_cache, alive>>
callers == <<warm, overlapped>>
vars == <<m_model, m_model_cache, alive, pc, client, kind, found, reply, used,
          crashed, parsed, fetches, warm, overlapped>>

Labels == {"idle", "op_check", "model_check", "cache_find", "adopting",
           "metadata_sent", "metadata_reply", "endless", "publishing",
           "cache_store", "caching", "send", "sent", "reply", "done", "failed"}

\* "ok": 2xx with a JSON body (for $metadata, CSDL); "empty": 204, or 2xx with a
\* body of another type; "garbled": 2xx with a body that does not parse; "error":
\* another status; "lost": the connection failed or timed out, before the answer
\* or in the middle of its body.
Replies == {"none", "ok", "empty", "garbled", "error", "lost"}

TypeOK ==
    /\ m_model \in [Clients -> Model \cup {NoModel}]
    /\ m_model_cache \in [Services -> Model \cup {NoModel}]
    /\ alive \subseteq Clients
    /\ pc \in [Ops -> Labels]
    /\ client \in [Ops -> Clients \cup {NoClient}]
    /\ kind \in [Ops -> Kinds \cup {"none"}]
    /\ found \in [Ops -> Model \cup {NoModel}]
    /\ reply \in [Ops -> Replies]
    /\ used \in [Ops -> Model \cup {NoModel}]
    /\ crashed \in BOOLEAN
    /\ parsed \subseteq Model
    /\ fetches \in [Ops -> {0, 1, 2}]
    /\ warm \subseteq Ops
    /\ overlapped \in BOOLEAN

Init ==
    /\ m_model = [c \in Clients |-> NoModel]
    /\ m_model_cache = [s \in Services |-> NoModel]
    /\ alive = Clients
    /\ pc = [o \in Ops |-> "idle"]
    /\ client = [o \in Ops |-> NoClient]
    /\ kind = [o \in Ops |-> "none"]
    /\ found = [o \in Ops |-> NoModel]
    /\ reply = [o \in Ops |-> "none"]
    /\ used = [o \in Ops |-> NoModel]
    /\ crashed = FALSE
    /\ parsed = {}
    /\ fetches = [o \in Ops |-> 0]
    /\ warm = {}
    /\ overlapped = FALSE

-----------------------------------------------------------------------------
(* Helpers *)

\* Mutant: the task is completed before the cache is written.
CompleteEarly(o) == pc[o] \in {"done", "failed", "caching"}

\* The task returned to the caller has run to its end.
Complete(o) == pc[o] \in {"done", "failed"}
Pending(o) == pc[o] # "idle" /\ ~Complete(o)

\* The client's model, the service it talks to.
Mine(o) == m_model[client[o]]
Service(o) == ServiceOf[client[o]]

Goto(o, l) == pc' = [pc EXCEPT ![o] = l]

\* The calls in the middle of an assignment to m_model of client c, and those
\* in the middle of m_model_cache[url] = m_model, which may rehash the map.
ModelWriters(c) == {o \in Ops : pc[o] \in {"adopting", "publishing"} /\ client[o] = c}
CacheWriters == {o \in Ops : pc[o] = "caching"}

\* What the continuation of o does with a 2xx answer.
Decodes(o) == reply[o] = "ok" /\ kind[o] # "send"

\* o reads a $metadata body that is no CSDL: nothing looks at it before the
\* handlers of the reader do, or at what parse() returned after them.
Unreadable(o) ==
    \/ pc[o] = "metadata_reply" /\ reply[o] \in {"empty", "garbled"}
    \/ pc[o] = "endless"

\* What call o does next reads or writes memory another call is writing, or uses
\* an object that has been destroyed: every continuation captures a raw `this`.
UsesModel(o) ==
    \/ pc[o] \in {"op_check", "model_check", "adopting", "publishing",
                  "cache_store", "caching", "send"}
    \/ pc[o] = "reply" /\ Decodes(o)
UsesCache(o) == pc[o] \in {"cache_find", "caching"}
Undefined(o) ==
    \/ UsesModel(o) /\ ModelWriters(client[o]) \ {o} # {}
    \/ UsesCache(o) /\ CacheWriters \ {o} # {}
    \/ (UsesModel(o) \/ UsesCache(o)) /\ client[o] \notin alive

-----------------------------------------------------------------------------
(* The caller *)

\* A public operation is called.  send_data_to_server with parameters refuses a
\* send_type other than POST and GET before it looks at the model.
Call(o, c, k) ==
    /\ pc[o] = "idle"
    /\ c \in alive
    /\ \/ Goto(o, IF k = "get_model" THEN "model_check" ELSE "op_check")
       \/ k = "operation" /\ Goto(o, "failed")
    /\ client' = [client EXCEPT ![o] = c]
    /\ kind' = [kind EXCEPT ![o] = k]
    /\ warm' = IF m_model[c] # NoModel THEN warm \cup {o} ELSE warm
    /\ overlapped' = (overlapped \/ \E p \in Ops : Pending(p))
    /\ UNCHANGED <<memory, found, reply, used, crashed, parsed, fetches>>

\* The application destroys a client, which it may do while a call on it is
\* pending.
Destroy(c) ==
    /\ c \in alive
    /\ alive' = alive \ {c}
    /\ overlapped' = (overlapped \/ \E o \in Ops : Pending(o) /\ client[o] = c)
    /\ UNCHANGED <<m_model, m_model_cache, pc, client, kind, found, reply, used,
                   crashed, parsed, fetches, warm>>

-----------------------------------------------------------------------------
(* get_model() *)

\* Mutant: the operation does not look whether there is a model.
CheckModelDropped(o) ==
    /\ pc[o] = "op_check"
    /\ Goto(o, "send")
    /\ UNCHANGED <<memory, client, kind, found, reply, used, crashed, parsed, fetches, callers>>

\* if (!m_model), at the head of every operation but get_model.
CheckModel(o) ==
    /\ pc[o] = "op_check"
    /\ Goto(o, IF Mine(o) = NoModel THEN "model_check" ELSE "send")
    /\ UNCHANGED <<memory, client, kind, found, reply, used, crashed, parsed, fetches, callers>>

\* get_model's task has a value: the call returns it, or is made again.
GotModel(o) == IF kind[o] = "get_model" THEN "done" ELSE "op_check"

\* if (m_model) return task_from_result(m_model)
CheckOwnModel(o) ==
    /\ pc[o] = "model_check"
    /\ Goto(o, IF Mine(o) = NoModel THEN "cache_find" ELSE GotModel(o))
    /\ UNCHANGED <<memory, client, kind, found, reply, used, crashed, parsed, fetches, callers>>

\* Mutant: the lookup takes any entry of the map.
FindInCacheAnyUrl(o) ==
    /\ pc[o] = "cache_find"
    /\ \/ \E s \in Services :
             /\ m_model_cache[s] # NoModel
             /\ found' = [found EXCEPT ![o] = m_model_cache[s]]
             /\ Goto(o, "adopting")
             /\ UNCHANGED fetches
       \/ /\ m_model_cache[Service(o)] = NoModel
          /\ Goto(o, "metadata_sent")
          /\ fetches' = [fetches EXCEPT ![o] = IF @ < 2 THEN @ + 1 ELSE @]
          /\ UNCHANGED found
    /\ UNCHANGED <<memory, client, kind, reply, used, crashed, parsed, callers>>

\* m_model_cache.find(m_service_root_url); a lookup that overlaps an insertion
\* may also miss an entry that is there.
FindInCache(o) ==
    /\ pc[o] = "cache_find"
    /\ LET entry == m_model_cache[Service(o)]
       IN \/ /\ entry # NoModel
             /\ found' = [found EXCEPT ![o] = entry]
             /\ Goto(o, "adopting")
             /\ UNCHANGED fetches
          \/ /\ entry = NoModel \/ CacheWriters # {}
             /\ Goto(o, "metadata_sent")
             /\ fetches' = [fetches EXCEPT ![o] = IF @ < 2 THEN @ + 1 ELSE @]
             /\ UNCHANGED found
    /\ UNCHANGED <<memory, client, kind, reply, used, crashed, parsed, callers>>

\* m_model = find_iter->second
Adopt(o) ==
    /\ pc[o] = "adopting"
    /\ m_model' = [m_model EXCEPT ![client[o]] = found[o]]
    /\ Goto(o, GotModel(o))
    /\ found' = [found EXCEPT ![o] = NoModel]
    /\ UNCHANGED <<m_model_cache, alive, client, kind, reply, used, crashed,
                   parsed, fetches, callers>>

\* The service answers the request for $metadata, or the connection fails.
AnswerMetadata(o, r) ==
    /\ pc[o] = "metadata_sent"
    /\ reply' = [reply EXCEPT ![o] = r]
    /\ Goto(o, "metadata_reply")
    /\ UNCHANGED <<memory, client, kind, found, used, crashed, parsed, fetches, callers>>

\* Mutant: a failed download is swallowed and the call is made again.
MetadataFailsSilently(o) ==
    /\ pc[o] = "metadata_reply"
    /\ reply[o] \in {"error", "lost"}
    /\ Goto(o, GotModel(o))
    /\ reply' = [reply EXCEPT ![o] = "none"]
    /\ UNCHANGED <<memory, client, kind, found, used, crashed, parsed, fetches, callers>>

\* The continuation throws: the status is not 2xx, or the body did not arrive.
MetadataFails(o) ==
    /\ pc[o] = "metadata_reply"
    /\ reply[o] \in {"error", "lost"}
    /\ Goto(o, "failed")
    /\ reply' = [reply EXCEPT ![o] = "none"]
    /\ UNCHANGED <<memory, client, kind, found, used, crashed, parsed, fetches, callers>>

\* schema_from_response: the reader parses the body into a new edm_model, which
\* is empty or partial when the body is no CSDL.
ParseMetadata(o) ==
    /\ pc[o] = "metadata_reply"
    /\ reply[o] \in {"ok", "empty", "garbled"}
    /\ LET m == [svc |-> Service(o), by |-> o]
       IN /\ parsed' = parsed \cup {m}
          /\ found' = [found EXCEPT ![o] = m]
    /\ Goto(o, "publishing")
    /\ reply' = [reply EXCEPT ![o] = "none"]
    /\ UNCHANGED <<memory, client, kind, used, crashed, fetches, callers>>

\* xml_reader::parse takes the -1 of xmlTextReaderRead for a node it has read and
\* never leaves its loop.
ParseForever(o) ==
    /\ pc[o] = "metadata_reply"
    /\ reply[o] \in {"empty", "garbled"}
    /\ Goto(o, "endless")
    /\ reply' = [reply EXCEPT ![o] = "none"]
    /\ UNCHANGED <<memory, client, kind, found, used, crashed, parsed, fetches, callers>>

\* m_model = schema_from_response(response): it replaces whatever is there.
PublishModel(o) ==
    /\ pc[o] = "publishing"
    /\ m_model' = [m_model EXCEPT ![client[o]] = found[o]]
    /\ Goto(o, "cache_store")
    /\ found' = [found EXCEPT ![o] = NoModel]
    /\ UNCHANGED <<m_model_cache, alive, client, kind, reply, used, crashed,
                   parsed, fetches, callers>>

\* m_model_cache[m_service_root_url] = m_model: m_model is read again, so the
\* entry may be a model that another call published in between.
BeginCacheStore(o) ==
    /\ pc[o] = "cache_store"
    /\ Goto(o, "caching")
    /\ UNCHANGED <<memory, client, kind, found, reply, used, crashed, parsed, fetches, callers>>

\* Mutant: one entry serves every url.
EndCacheStoreOneEntry(o) ==
    /\ pc[o] = "caching"
    /\ m_model_cache' = [s \in Services |-> Mine(o)]
    /\ Goto(o, GotModel(o))
    /\ UNCHANGED <<m_model, alive, client, kind, found, reply, used, crashed,
                   parsed, fetches, callers>>

\* Mutant: the model is kept in the client only.
EndCacheStoreDropped(o) ==
    /\ pc[o] = "caching"
    /\ Goto(o, GotModel(o))
    /\ UNCHANGED <<memory, client, kind, found, reply, used, crashed, parsed, fetches, callers>>

EndCacheStore(o) ==
    /\ pc[o] = "caching"
    /\ m_model_cache' = [m_model_cache EXCEPT ![Service(o)] = Mine(o)]
    /\ Goto(o, GotModel(o))
    /\ UNCHANGED <<m_model, alive, client, kind, found, reply, used, crashed,
                   parsed, fetches, callers>>

-----------------------------------------------------------------------------
(* The operation proper *)

\* The request is built with m_model and sent; what is sent may not serialize,
\* or may be refused by http_client_impl::_build_request.
Send(o) ==
    /\ pc[o] = "send"
    /\ \/ Goto(o, "sent")
       \/ kind[o] \in {"operation", "send"} /\ Goto(o, "failed")
    /\ UNCHANGED <<memory, client, kind, found, reply, used, crashed, parsed, fetches, callers>>

Answer(o, r) ==
    /\ pc[o] = "sent"
    /\ reply' = [reply EXCEPT ![o] = r]
    /\ Goto(o, "reply")
    /\ UNCHANGED <<memory, client, kind, found, used, crashed, parsed, fetches, callers>>

\* entity_payload_from_response throws on a body that is not JSON,
\* parse_payload_from_response returns an empty payload for it, and the
\* operations that send a value do not look at the body.
Accepted(k) ==
    CASE k = "get_entities" -> {"ok"}
      [] k = "send"         -> {"ok", "empty", "garbled"}
      [] OTHER              -> {"ok", "empty"}

\* The body is decoded by a reader made with the m_model of this moment.
Finish(o) ==
    /\ pc[o] = "reply"
    /\ reply[o] \in Accepted(kind[o])
    /\ used' = [used EXCEPT ![o] = IF Decodes(o) THEN Mine(o) ELSE @]
    /\ Goto(o, "done")
    /\ reply' = [reply EXCEPT ![o] = "none"]
    /\ UNCHANGED <<memory, client, kind, found, crashed, parsed, fetches, callers>>

\* Mutant: a broken connection is not reported to the task.
FinishFailsForgets(o) ==
    /\ pc[o] = "reply"
    /\ reply[o] \notin Accepted(kind[o]) \cup {"lost"}
    /\ Goto(o, "failed")
    /\ reply' = [reply EXCEPT ![o] = "none"]
    /\ UNCHANGED <<memory, client, kind, found, used, crashed, parsed, fetches, callers>>

FinishFails(o) ==
    /\ pc[o] = "reply"
    /\ reply[o] \notin Accepted(kind[o])
    /\ Goto(o, "failed")
    /\ reply' = [reply EXCEPT ![o] = "none"]
    /\ UNCHANGED <<memory, client, kind, found, used, crashed, parsed, fetches, callers>>

-----------------------------------------------------------------------------
\* Undefined behaviour may also end the process; where it does not, the step
\* happens as if the overlapping access were ordered.  So may a handler that meets
\* an element out of its place, or the same node again and again.
Crash(o) ==
    /\ Undefined(o) \/ Unreadable(o)
    /\ crashed' = TRUE
    /\ UNCHANGED <<memory, pc, client, kind, found, reply, used, parsed, fetches, callers>>

\* What the library does for call o by itself.
Step(o) ==
    \/ CheckModel(o) \/ CheckOwnModel(o) \/ FindInCache(o) \/ Adopt(o)
    \/ MetadataFails(o) \/ ParseMetadata(o) \/ ParseForever(o) \/ PublishModel(o)
    \/ BeginCacheStore(o) \/ EndCacheStore(o)
    \/ Send(o) \/ Finish(o) \/ FinishFails(o)

\* What the network and the service do for it.
Network(o) ==
    \E r \in Replies \ {"none"} : AnswerMetadata(o, r) \/ Answer(o, r)

\* All tasks have completed, or never will, and no client is left.
Terminated ==
    /\ \/ crashed
       \/ \A o \in Ops : Complete(o) \/ pc[o] = "endless" \/ (pc[o] = "idle" /\ alive = {})
    /\ UNCHANGED vars

Next ==
    \/ /\ ~crashed
       /\ \/ \E o \in Ops, c \in Clients, k \in Kinds : Call(o, c, k)
          \/ \E c \in Clients : Destroy(c)
          \/ \E o \in Ops : Step(o) \/ Network(o) \/ Crash(o)
    \/ Terminated

\* The thread pool runs every continuation that is ready, and cpprest completes
\* every request, with a response, an error or its time-out.
Fairness == \A o \in Ops : WF_vars(~crashed /\ (Step(o) \/ Network(o)))

Spec == Init /\ [][Next]_vars
FairSpec == Spec /\ Fairness

-----------------------------------------------------------------------------
(* Safety *)

\* A client, the cache, a lookup and a decoded result hold no model but one
\* that was parsed from what the service they belong to answered: an entry
\* stored under m_service_root_url is right for every client with that url,
\* whatever the order of the unlocked reads and writes of get_model.
OwnService ==
    /\ \A c \in Clients : m_model[c] # NoModel =>
          m_model[c] \in parsed /\ m_model[c].svc = ServiceOf[c]
    /\ \A s \in Services : m_model_cache[s] # NoModel =>
          m_model_cache[s] \in parsed /\ m_model_cache[s].svc = s
    /\ \A o \in Ops : used[o] # NoModel =>
          used[o] \in parsed /\ used[o].svc = Service(o)

\* No operation builds its request, waits for its answer or decodes it while
\* its client has no model: the guards at the head of the operations and the
\* order of get_model's stores are enough under every interleaving.
RequestHasModel ==
    \A o \in Ops : pc[o] \in {"send", "sent", "reply", "cache_store", "caching"} =>
        Mine(o) # NoModel

\* A call asks for $metadata at most once: after get_model the retried
\* operation always finds m_model set, it never goes round again.  A call made
\* on a client that has a model never asks for it.
FetchesOnce ==
    /\ \A o \in Ops : fetches[o] <= 1
    /\ \A o \in warm : fetches[o] = 0

\* The calls between having seen m_model null and having replaced it.
Acquiring(o) == pc[o] \in {"cache_find", "adopting", "metadata_sent", "metadata_reply",
                           "publishing"}

\* Once a client has a model and no call that saw it without one is under way,
\* its model never changes again (and so never becomes null): the models its
\* values were decoded with stay the client's model.
SettledModelIsFinal ==
    [][\A c \in Clients :
         m_model[c] # NoModel /\ (\A o \in Ops : client[o] = c => ~Acquiring(o))
            => m_model'[c] = m_model[c]]_vars

\* As long as every call is awaited before the next, a service's metadata is
\* parsed once in the process, however many clients talk to it.
OneModelPerService ==
    ~overlapped => \A m, n \in parsed : m.svc = n.svc => m = n

\* As long as they are, the model that returned values point into (edm types hold
\* weak pointers into it) is owned by the cache or by a client that lives, even
\* after the client that fetched the values is gone.
Owned(m) ==
    \/ \E s \in Services : m_model_cache[s] = m
    \/ \E c \in alive : m_model[c] = m

ValuesKeepTheirModel ==
    ~overlapped => \A o \in Ops : used[o] # NoModel => Owned(used[o])

\* As long as they are, no two accesses to the unlocked members and map overlap.
AwaitedCallsAreDefined == ~overlapped => \A o \in Ops : ~Undefined(o)

-----------------------------------------------------------------------------
(* Liveness and refinement *)

\* Every call ends, with a value or an exception, unless the process crashes or a
\* service sent it metadata that is not XML: on libxml2 the reader may then never
\* leave its loop.  Nothing else keeps a call from its end, and the retries after
\* get_model, other calls and other clients do not.
CallsComplete ==
    \A o \in Ops : (pc[o] # "idle") ~> (Complete(o) \/ pc[o] = "endless" \/ crashed)

\* A model that was parsed for a call is there for the next client of the
\* service: it, or a later one, reaches the cache.
Shared(o) == client[o] # NoClient /\ m_model_cache[Service(o)] # NoModel
ParsedReachesCache == \A o \in Ops : (pc[o] = "publishing") ~> (Shared(o) \/ crashed)

\* get_model implements the abstract model store.
Abstract == INSTANCE ServiceModels WITH
    Models <- Model,
    Origin <- [m \in Model |-> m.svc],
    published <- parsed,
    held <- m_model,
    shared <- m_model_cache

ImplementsServiceModels == Abstract!Spec
==============================================================================
