---------------------------- MODULE ServiceModels ----------------------------
(***************************************************************************)
(* What odata_client::get_model promises, without its protocol: a client   *)
(* comes to hold a metadata model that its own service published, and the  *)
(* process-wide cache keeps, for each service, a model that some client of *)
(* that service held.  ClientModel is shown to implement this module.      *)
(***************************************************************************)
CONSTANTS
    Clients,    \* the odata_client objects of the process
    Services,   \* the service root URLs
    Models,     \* the edm_model objects a download can create
    Origin,     \* Origin[m]: the service whose $metadata became m
    ServiceOf,  \* ServiceOf[c]: m_service_root_url of client c
    NoModel     \* the null shared_ptr, or no entry in the cache

VARIABLES
    published,  \* models downloaded and parsed so far
    held,       \* held[c]: the model client c uses
    shared      \* shared[s]: the model the cache hands to clients of s

absvars == <<published, held, shared>>

Init ==
    /\ published = {}
    /\ held = [c \in Clients |-> NoModel]
    /\ shared = [s \in Services |-> NoModel]

Publish(m) ==
    /\ published' = published \cup {m}
    /\ UNCHANGED <<held, shared>>

\* A client never trades a model for none, only for one of its own service.
Hold(c, m) ==
    /\ m \in published
    /\ Origin[m] = ServiceOf[c]
    /\ held' = [held EXCEPT ![c] = m]
    /\ UNCHANGED <<published, shared>>

Share(c) ==
    /\ held[c] # NoModel
    /\ shared' = [shared EXCEPT ![ServiceOf[c]] = held[c]]
    /\ UNCHANGED <<published, held>>

Next ==
    \/ \E m \in Models : Publish(m)
    \/ \E c \in Clients, m \in Models : Hold(c, m)
    \/ \E c \in Clients : Share(c)

Spec == Init /\ [][Next]_absvars
==============================================================================
