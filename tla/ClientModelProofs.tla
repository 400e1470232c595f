-------------------------- MODULE ClientModelProofs --------------------------
(***************************************************************************)
(* Proofs about ClientModel, for any number of clients, services and       *)
(* overlapping calls.                                                      *)
(***************************************************************************)
EXTENDS ClientModel, TLAPS

\* A call that has not been made has nothing; one that has been made has its
\* client and its kind for good.
CallShape ==
    \A o \in Ops :
        /\ pc[o] # "idle" => client[o] \in Clients /\ kind[o] \in Kinds
        /\ pc[o] = "idle" => /\ found[o] = NoModel /\ used[o] = NoModel
                             /\ fetches[o] = 0 /\ o \notin warm

\* What is about to be assigned to m_model is a model of the client's service.
FoundIsOwn ==
    \A o \in Ops :
        /\ pc[o] \in {"adopting", "publishing"} => found[o] # NoModel
        /\ found[o] # NoModel => found[o] \in parsed /\ found[o].svc = Service(o)

\* A call that has asked for $metadata has not answered yet, has ended, or has
\* given its client a model.
FetchedOrModelled ==
    \A o \in Ops :
        fetches[o] # 0 =>
            \/ pc[o] \in {"metadata_sent", "metadata_reply", "endless", "publishing", "done", "failed"}
            \/ Mine(o) # NoModel /\ pc[o] # "cache_find"

\* A call made on a client with a model stays off the slow path.
WarmStaysWarm ==
    \A o \in warm : pc[o] # "idle" /\ Mine(o) # NoModel /\ ~Acquiring(o)

IInv ==
    /\ TypeOK
    /\ CallShape
    /\ FoundIsOwn
    /\ OwnService
    /\ RequestHasModel
    /\ FetchedOrModelled
    /\ FetchesOnce
    /\ WarmStaysWarm

USE ServiceOfAssumption, KindsAssumption, NullAssumption

-----------------------------------------------------------------------------
LEMMA InitInvariant == Init => IInv
<1>. SUFFICES ASSUME Init PROVE IInv
  OBVIOUS
<1>. USE DEF Init
<1>1. TypeOK
  BY DEF TypeOK, Labels, Replies
<1>2. CallShape /\ FoundIsOwn
  BY DEF CallShape, FoundIsOwn
<1>3. OwnService /\ RequestHasModel
  BY DEF OwnService, RequestHasModel
<1>4. FetchedOrModelled /\ FetchesOnce /\ WarmStaysWarm
  BY DEF FetchedOrModelled, FetchesOnce, WarmStaysWarm
<1>. QED
  BY <1>1, <1>2, <1>3, <1>4 DEF IInv

LEMMA NextInvariant == IInv /\ [Next]_vars => IInv'
<1>. SUFFICES ASSUME IInv, [Next]_vars PROVE IInv'
  OBVIOUS
<1>. USE DEF IInv, TypeOK, CallShape, FoundIsOwn, OwnService, RequestHasModel,
             FetchedOrModelled, FetchesOnce, WarmStaysWarm,
             Labels, Replies, Mine, Service, Acquiring, Goto, memory, callers, GotModel, AllKinds
<1>1. ASSUME NEW o \in Ops, NEW c \in Clients, NEW k \in Kinds, Call(o, c, k)
      PROVE  IInv'
  BY <1>1 DEF Call
<1>2. ASSUME NEW c \in Clients, Destroy(c) PROVE IInv'
  BY <1>2 DEF Destroy
<1>3. ASSUME NEW o \in Ops, CheckModel(o) PROVE IInv'
  BY <1>3 DEF CheckModel
<1>4. ASSUME NEW o \in Ops, CheckOwnModel(o) PROVE IInv'
  BY <1>4 DEF CheckOwnModel
<1>5. ASSUME NEW o \in Ops, FindInCache(o) PROVE IInv'
  BY <1>5 DEF FindInCache
<1>6. ASSUME NEW o \in Ops, Adopt(o) PROVE IInv'
  BY <1>6 DEF Adopt
<1>7. ASSUME NEW o \in Ops, NEW r \in Replies \ {"none"}, AnswerMetadata(o, r)
      PROVE  IInv'
  BY <1>7 DEF AnswerMetadata
<1>8. ASSUME NEW o \in Ops, MetadataFails(o) PROVE IInv'
  BY <1>8 DEF MetadataFails
<1>9. ASSUME NEW o \in Ops, ParseMetadata(o) PROVE IInv'
  BY <1>9 DEF ParseMetadata, Model
<1>10. ASSUME NEW o \in Ops, PublishModel(o) PROVE IInv'
  BY <1>10 DEF PublishModel
<1>11. ASSUME NEW o \in Ops, BeginCacheStore(o) PROVE IInv'
  BY <1>11 DEF BeginCacheStore
<1>12. ASSUME NEW o \in Ops, EndCacheStore(o) PROVE IInv'
  BY <1>12 DEF EndCacheStore
<1>13. ASSUME NEW o \in Ops, Send(o) PROVE IInv'
  BY <1>13 DEF Send
<1>14. ASSUME NEW o \in Ops, NEW r \in Replies \ {"none"}, Answer(o, r)
       PROVE  IInv'
  BY <1>14 DEF Answer
<1>15. ASSUME NEW o \in Ops, Finish(o) PROVE IInv'
  BY <1>15 DEF Finish
<1>16. ASSUME NEW o \in Ops, FinishFails(o) PROVE IInv'
  BY <1>16 DEF FinishFails
<1>17. ASSUME NEW o \in Ops, Crash(o) PROVE IInv'
  BY <1>17 DEF Crash
<1>18. CASE UNCHANGED vars
  BY <1>18 DEF vars
<1>19. ASSUME NEW o \in Ops, ParseForever(o) PROVE IInv'
  BY <1>19 DEF ParseForever
<1>. QED
  BY <1>1, <1>2, <1>3, <1>4, <1>5, <1>6, <1>7, <1>8, <1>9, <1>10, <1>11, <1>12,
     <1>13, <1>14, <1>15, <1>16, <1>17, <1>18, <1>19, Zenon
     DEF Next, Step, Network, Terminated

\* The inductive invariant holds in every reachable state.
THEOREM Invariant == Spec => []IInv
  BY InitInvariant, NextInvariant, PTL DEF Spec

\* Every variable of get_model's protocol stays in its type.
THEOREM TypeCorrect == Spec => []TypeOK
  BY Invariant, PTL DEF IInv

\* get_model never gives a client, the static cache or a decoded result a model
\* of another service, however the unlocked reads and writes of concurrent calls
\* on any number of clients interleave.
THEOREM ModelsAreOfTheirService == Spec => []OwnService
  BY Invariant, PTL DEF IInv

\* No call builds a request, waits for its answer or decodes it while its client
\* has no model.
THEOREM RequestsHaveModels == Spec => []RequestHasModel
  BY Invariant, PTL DEF IInv

\* The retry after get_model never leads a call to ask for $metadata again, and a
\* call on a client that has a model never asks for it.
THEOREM OneFetchPerCall == Spec => []FetchesOnce
  BY Invariant, PTL DEF IInv

-----------------------------------------------------------------------------
\* A step changes the model of a client only on behalf of a call that had seen
\* the client without one.
LEMMA OnlyAcquiringCallsAssign ==
  ASSUME IInv, [Next]_vars, NEW c \in Clients, m_model'[c] # m_model[c]
  PROVE  \E o \in Ops : client[o] = c /\ Acquiring(o)
<1>. USE DEF IInv, TypeOK
<1>1. PICK o \in Ops : Adopt(o) \/ PublishModel(o)
  BY Zenon DEF Next, Step, Network, Terminated, Call, Destroy, CheckModel,
     CheckOwnModel, FindInCache, AnswerMetadata, MetadataFails, ParseMetadata, ParseForever,
     BeginCacheStore, EndCacheStore, Send, Answer, Finish, FinishFails, Crash,
     memory, vars
<1>2. client[o] \in Clients
  BY <1>1 DEF Adopt, PublishModel, CallShape
<1>3. client[o] = c
  BY <1>1, <1>2 DEF Adopt, PublishModel
<1>. QED
  BY <1>1, <1>3 DEF Adopt, PublishModel, Acquiring

\* Once a client has a model and no call that saw it without one is under way,
\* its model is final.
THEOREM ModelSettles == Spec => SettledModelIsFinal
<1>1. IInv /\ [Next]_vars =>
        [\A c \in Clients :
           m_model[c] # NoModel /\ (\A o \in Ops : client[o] = c => ~Acquiring(o))
              => m_model'[c] = m_model[c]]_vars
  BY OnlyAcquiringCallsAssign
<1>. QED
  BY <1>1, Invariant, PTL DEF Spec, SettledModelIsFinal

-----------------------------------------------------------------------------
(* Callers that wait for each call. *)

\* Call o has asked for the metadata of its service and not yet shared the model.
Asking(o) == pc[o] \in {"metadata_sent", "metadata_reply", "publishing", "cache_store", "caching"}

\* Call o is about to publish m, or has published it and is about to share it.
Storing(o, m) ==
    /\ \/ pc[o] = "publishing" /\ found[o] = m
       \/ pc[o] \in {"cache_store", "caching"} /\ Mine(o) = m
    /\ m.svc = Service(o)

\* One call at a time is in progress, on a client that lives; every model is in the
\* cache or about to be put there, where there is no other; and what values point
\* into is in the cache.
Awaited ==
    ~overlapped =>
        /\ \A o, p \in Ops : Pending(o) /\ Pending(p) => o = p
        /\ \A o \in Ops : Pending(o) => client[o] \in alive
        /\ \A o \in Ops : Asking(o) => m_model_cache[Service(o)] = NoModel
        /\ \A m \in parsed : m_model_cache[m.svc] = m \/ \E o \in Ops : Storing(o, m)
        /\ \A o \in Ops : used[o] # NoModel => m_model_cache[used[o].svc] = used[o]

LEMMA AwaitedInit == Init => Awaited
BY DEF Init, Awaited, Pending, Complete, Asking

LEMMA AwaitedNext == IInv /\ Awaited /\ [Next]_vars => Awaited'
<1>. SUFFICES ASSUME IInv, Awaited, [Next]_vars, ~overlapped' PROVE Awaited'
  BY DEF Awaited
<1>. USE DEF IInv, TypeOK, CallShape, Awaited, Asking, Storing, Pending, Complete, Labels,
             Mine, Service, Goto, memory, callers, GotModel
<1>1. ASSUME NEW o \in Ops, NEW c \in Clients, NEW k \in Kinds, Call(o, c, k) PROVE Awaited'
  <2>1. \A p \in Ops : ~Pending(p)
    BY <1>1 DEF Call
  <2>2. \A p \in Ops \ {o} : pc'[p] = pc[p] /\ client'[p] = client[p]
    BY <1>1 DEF Call
  <2>3. pc'[o] \in {"model_check", "op_check", "failed"} /\ client'[o] = c /\ c \in alive
    BY <1>1 DEF Call
  <2>4. UNCHANGED <<memory, found, used, parsed>>
    BY <1>1 DEF Call
  <2>5. ~overlapped
    BY <1>1 DEF Call
  <2>6. \A p \in Ops, m \in parsed : ~Storing(p, m)
    BY <2>1
  <2>. QED
    BY <2>1, <2>2, <2>3, <2>4, <2>5, <2>6
<1>2. ASSUME NEW c \in Clients, Destroy(c) PROVE Awaited'
  BY <1>2 DEF Destroy
<1>3. ASSUME NEW o \in Ops, CheckModel(o) PROVE Awaited'
  BY <1>3 DEF CheckModel
<1>4. ASSUME NEW o \in Ops, CheckOwnModel(o) PROVE Awaited'
  BY <1>4 DEF CheckOwnModel
<1>5. ASSUME NEW o \in Ops, FindInCache(o) PROVE Awaited'
  <2>1. CacheWriters = {}
    BY <1>5 DEF CacheWriters, FindInCache
  <2>. QED
    BY <1>5, <2>1 DEF FindInCache
<1>6. ASSUME NEW o \in Ops, Adopt(o) PROVE Awaited'
  BY <1>6 DEF Adopt
<1>7. ASSUME NEW o \in Ops, NEW r \in Replies \ {"none"}, AnswerMetadata(o, r)
      PROVE  Awaited'
  BY <1>7 DEF AnswerMetadata
<1>8. ASSUME NEW o \in Ops, MetadataFails(o) PROVE Awaited'
  BY <1>8 DEF MetadataFails
<1>9. ASSUME NEW o \in Ops, ParseMetadata(o) PROVE Awaited'
  BY <1>9 DEF ParseMetadata, Model
<1>10. ASSUME NEW o \in Ops, PublishModel(o) PROVE Awaited'
  BY <1>10 DEF PublishModel
<1>11. ASSUME NEW o \in Ops, BeginCacheStore(o) PROVE Awaited'
  BY <1>11 DEF BeginCacheStore
<1>12. ASSUME NEW o \in Ops, EndCacheStore(o) PROVE Awaited'
  BY <1>12 DEF EndCacheStore, RequestHasModel, OwnService
<1>13. ASSUME NEW o \in Ops, Send(o) PROVE Awaited'
  BY <1>13 DEF Send
<1>14. ASSUME NEW o \in Ops, NEW r \in Replies \ {"none"}, Answer(o, r) PROVE Awaited'
  BY <1>14 DEF Answer
<1>15. ASSUME NEW o \in Ops, Finish(o) PROVE Awaited'
  BY <1>15 DEF Finish, OwnService
<1>16. ASSUME NEW o \in Ops, FinishFails(o) PROVE Awaited'
  BY <1>16 DEF FinishFails
<1>17. ASSUME NEW o \in Ops, Crash(o) PROVE Awaited'
  BY <1>17 DEF Crash
<1>18. CASE UNCHANGED vars
  BY <1>18 DEF vars
<1>19. ASSUME NEW o \in Ops, ParseForever(o) PROVE Awaited'
  BY <1>19 DEF ParseForever
<1>. QED
  BY <1>1, <1>2, <1>3, <1>4, <1>5, <1>6, <1>7, <1>8, <1>9, <1>10, <1>11, <1>12,
     <1>13, <1>14, <1>15, <1>16, <1>17, <1>18, <1>19, Zenon
     DEF Next, Step, Network, Terminated

LEMMA AwaitedInvariant == Spec => []Awaited
  BY AwaitedInit, AwaitedNext, Invariant, PTL DEF Spec

\* A caller that waits for each call has a service's metadata parsed once, however
\* many clients of the service there are.
THEOREM OneModelForAwaitedCalls == Spec => []OneModelPerService
<1>1. IInv /\ Awaited => OneModelPerService
  <2>. SUFFICES ASSUME IInv, Awaited, ~overlapped,
                       NEW m \in parsed, NEW n \in parsed, m.svc = n.svc
                PROVE  m = n
    BY DEF OneModelPerService
  <2>1. m # NoModel /\ n # NoModel
    BY DEF IInv, TypeOK
  <2>2. \A o, p \in Ops : Storing(o, m) /\ Storing(p, n) => m = n
    BY DEF Awaited, Storing, Pending, Complete, Mine
  <2>3. \A o \in Ops : Storing(o, m) \/ Storing(o, n) => m_model_cache[m.svc] = NoModel
    BY DEF Awaited, Storing, Asking
  <2>. QED
    BY <2>1, <2>2, <2>3 DEF Awaited
<1>. QED
  BY <1>1, AwaitedInvariant, Invariant, PTL

\* What they returned points into a model that the cache keeps, also when the
\* client that fetched it is gone.
THEOREM AwaitedValuesKeepTheirModel == Spec => []ValuesKeepTheirModel
<1>1. IInv /\ Awaited => ValuesKeepTheirModel
  <2>. SUFFICES ASSUME IInv, Awaited, ~overlapped, NEW o \in Ops, used[o] # NoModel
                PROVE  Owned(used[o])
    BY DEF ValuesKeepTheirModel
  <2>1. used[o].svc \in Services /\ m_model_cache[used[o].svc] = used[o]
    BY DEF IInv, TypeOK, Model, Awaited
  <2>. QED
    BY <2>1 DEF Owned
<1>. QED
  BY <1>1, AwaitedInvariant, Invariant, PTL

\* No two of their accesses to the unlocked members and map overlap.
THEOREM AwaitedCallsDoNotRace == Spec => []AwaitedCallsAreDefined
<1>1. IInv /\ Awaited => AwaitedCallsAreDefined
  BY DEF AwaitedCallsAreDefined, Awaited, Undefined, UsesModel, UsesCache, ModelWriters,
         CacheWriters, Pending, Complete
<1>. QED
  BY <1>1, AwaitedInvariant, Invariant, PTL

-----------------------------------------------------------------------------
(* Refinement *)

LEMMA InitRefines == Init => Abstract!Init
  BY DEF Init, Abstract!Init

\* Parsing publishes, an assignment to m_model holds, the store into the map
\* shares; every other step is invisible.
LEMMA NextRefines == IInv /\ [Next]_vars => [Abstract!Next]_(Abstract!absvars)
<1>. SUFFICES ASSUME IInv, [Next]_vars
              PROVE  [Abstract!Next]_(Abstract!absvars)
  OBVIOUS
<1>. USE DEF IInv, TypeOK, CallShape, Service, Mine
<1>1. ASSUME NEW o \in Ops, ParseMetadata(o) PROVE Abstract!Next
  <2>. DEFINE m == [svc |-> Service(o), by |-> o]
  <2>1. m \in Model
    BY <1>1 DEF ParseMetadata, Model
  <2>2. Abstract!Publish(m)
    BY <1>1 DEF ParseMetadata, Abstract!Publish, memory
  <2>. QED
    BY <2>1, <2>2 DEF Abstract!Next
<1>2. ASSUME NEW o \in Ops, Adopt(o) \/ PublishModel(o) PROVE Abstract!Next
  <2>1. client[o] \in Clients /\ found[o] \in Model
    BY <1>2 DEF Adopt, PublishModel, FoundIsOwn
  <2>2. Abstract!Hold(client[o], found[o])
    BY <1>2, <2>1 DEF Adopt, PublishModel, FoundIsOwn, Abstract!Hold
  <2>. QED
    BY <2>1, <2>2 DEF Abstract!Next
<1>3. ASSUME NEW o \in Ops, EndCacheStore(o) PROVE Abstract!Next
  <2>1. client[o] \in Clients
    BY <1>3 DEF EndCacheStore
  <2>2. Abstract!Share(client[o])
    BY <1>3 DEF EndCacheStore, RequestHasModel, Abstract!Share
  <2>. QED
    BY <2>1, <2>2 DEF Abstract!Next
<1>4. CASE UNCHANGED <<parsed, m_model, m_model_cache>>
  BY <1>4 DEF Abstract!absvars
<1>. QED
  BY <1>1, <1>2, <1>3, <1>4, Zenon
     DEF Next, Step, Network, Terminated, Call, Destroy, CheckModel, CheckOwnModel,
         FindInCache, AnswerMetadata, MetadataFails, ParseForever, BeginCacheStore, Send, Answer,
         Finish, FinishFails, Crash, memory, vars

\* get_model, with its unlocked members and map, implements the model store of
\* ServiceModels.
THEOREM Refinement == Spec => ImplementsServiceModels
  BY InitRefines, NextRefines, Invariant, PTL DEF Spec, ImplementsServiceModels, Abstract!Spec
==============================================================================
