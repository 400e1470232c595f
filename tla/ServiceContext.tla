---------------------------- MODULE ServiceContext ---------------------------
(***************************************************************************)
(* The data modification calls of a generated service context              *)
(* (include/odata/codegen/odata_service_context.h) and the client calls    *)
(* under them.  An object remembers where the service keeps its entity in  *)
(* its edit link; every call computes its URL from the link of an object   *)
(* or of a parent object, and the continuations of add_object and          *)
(* update_related_object write the link when the answer arrives.           *)
(*                                                                         *)
(* An address is the path of a resource below the service root: names of   *)
(* entity sets and navigation properties, and keys, which are numbers.     *)
(***************************************************************************)
EXTENDS Naturals, FiniteSets, SequencesExt

CONSTANTS
    Objects,    \* the generated objects the caller holds
    EntitySets, \* names of entity sets of the service
    Navs,       \* names of collection valued navigation properties
    Singles,    \* names of single valued navigation properties
    MaxKey,     \* bound on the keys the service gives out
    MaxDepth    \* bound on the length of an address

ASSUME NamesAssumption ==
    /\ (EntitySets \cup Navs \cup Singles) \cap Nat = {}
    /\ MaxKey \in Nat /\ MaxDepth \in Nat

VARIABLES
    link,       \* link[o]: m_edit_link of object o
    task,       \* task[o]: the call that works on o
    model,      \* whether the client has its model
    store,      \* the addresses at which the service holds an entity
    key,        \* the last key the service has given out
    own,        \* history: the addresses of the entities o stands for
    at,         \* history: at[o]: where the service has applied the call, or <<>>
    last        \* history: how the last call on o ended, and if well, what it was

vars == <<link, task, model, store, key, own, at, last>>

Names == EntitySets \cup Navs \cup Singles
Address == Seq(Names \cup Nat)

\* An edit link is absolute when it begins with the service root; the empty
\* string is the link of an object that has none.
Link == [absolute : BOOLEAN, path : Address]
NoLink == [absolute |-> FALSE, path |-> <<>>]
Absolute(a) == [absolute |-> TRUE, path |-> a]

\* Of a call: what it sends where, the link that update_related_object will
\* write, the Location of the answer once the annotation is set.
Verbs == {"add", "update", "delete", "relate", "reference"}
Phases == {"idle", "fetching", "sent", "answered", "refused", "located"}
Task == [verb : Verbs, target : Address, link : Link, location : Link, phase : Phases]
Endings == {"none", "ok", "error"}
NoCall == [verb |-> "add", target |-> <<>>, link |-> NoLink, location |-> NoLink,
           phase |-> "idle"]
Ended(how) == [how |-> how, verb |-> "add", at |-> <<>>, location |-> NoLink]

TypeOK ==
    /\ link \in [Objects -> Link]
    /\ task \in [Objects -> Task]
    /\ model \in BOOLEAN
    /\ store \subseteq Address
    /\ key \in Nat
    /\ own \in [Objects -> SUBSET Address]
    /\ at \in [Objects -> Address]
    /\ last \in [Objects -> [how : Endings, verb : Verbs, at : Address, location : Link]]

\* Some objects have been read from the service, where key 0 exists.
Init ==
    /\ link \in [Objects -> {NoLink} \cup {Absolute(<<s, 0>>) : s \in EntitySets}]
    /\ task = [o \in Objects |-> NoCall]
    /\ model = FALSE
    /\ store = {<<s, 0>> : s \in EntitySets}
    /\ key = 0
    /\ own = [o \in Objects |-> IF link[o] = NoLink THEN {} ELSE {link[o].path}]
    /\ at = [o \in Objects |-> <<>>]
    /\ last = [o \in Objects |-> Ended("none")]

\* The caller waits for the call on an object before it uses the object again:
\* m_edit_link is a plain string that the continuations assign.
Idle(o) == task[o].phase = "idle"

\* full_path + "/" + path: without a link of the parent it is a path of the root.
Below(l, name) == [l EXCEPT !.path = Append(@, name)]

\* odata_client::get_relative_path: substr throws when there is nothing after
\* the root; a link that is relative already is kept.
HasRelativePath(l) == l.path # <<>>
GetRelativePath(l) == l.path

-----------------------------------------------------------------------------
\* The call returns a task, or it throws before anything is sent.
Begin(o, verb, to, whenDone) ==
    /\ Len(to) < MaxDepth
    /\ task' = [task EXCEPT ![o] =
                    [verb |-> verb, target |-> to, link |-> whenDone, location |-> NoLink,
                     phase |-> IF model THEN "sent" ELSE "fetching"]]
    /\ last' = [last EXCEPT ![o] = Ended("none")]
    /\ UNCHANGED <<link, model, store, key, own, at>>

Throws(o) ==
    /\ last' = [last EXCEPT ![o] = Ended("error")]
    /\ UNCHANGED <<link, task, model, store, key, own, at>>

\* add_object: get_model().get() has ended or thrown before anything is sent.
AddObject(o, s) ==
    /\ Idle(o)
    /\ Begin(o, "add", <<s>>, NoLink)

AddRelatedObject(p, n, o) ==
    /\ Idle(o) /\ Idle(p)
    /\ Begin(o, "add", GetRelativePath(Below(link[p], n)), NoLink)

UpdateObject(o) ==
    /\ Idle(o)
    /\ IF HasRelativePath(link[o])
       THEN Begin(o, "update", GetRelativePath(link[o]), NoLink)
       ELSE Throws(o)

\* Mutant: the path is cut after the first entity it names.
DeleteObjectCut(o) ==
    /\ Idle(o)
    /\ IF HasRelativePath(link[o])
       THEN Begin(o, "delete", SubSeq(GetRelativePath(link[o]), 1, 2), NoLink)
       ELSE Throws(o)

DeleteObject(o) ==
    /\ Idle(o)
    /\ IF HasRelativePath(link[o])
       THEN Begin(o, "delete", GetRelativePath(link[o]), NoLink)
       ELSE Throws(o)

UpdateRelatedObject(p, n, o) ==
    /\ Idle(o) /\ Idle(p)
    /\ Begin(o, "relate", GetRelativePath(Below(link[p], n)), Below(link[p], n))

\* add_reference and update_reference: the edit link of the object is the id
\* that the payload names, whatever it is.
Reference(p, n, o) ==
    /\ Idle(o) /\ Idle(p)
    /\ Begin(o, "reference", GetRelativePath(Below(link[p], n)), link[o])

\* The client sends the request once it has a model; without one the task fails.
GotModel(o) ==
    /\ task[o].phase = "fetching"
    /\ model' = TRUE
    /\ task' = [task EXCEPT ![o].phase = "sent"]
    /\ UNCHANGED <<link, store, key, own, at, last>>

NoModel(o) ==
    /\ task[o].phase = "fetching"
    /\ task' = [task EXCEPT ![o].phase = "refused"]
    /\ UNCHANGED <<link, model, store, key, own, at, last>>

-----------------------------------------------------------------------------
(* The service. *)

\* A collection exists when it is an entity set or a navigation of an entity.
HasCollection(a) ==
    \/ Len(a) = 1 /\ a[1] \in EntitySets
    \/ Len(a) > 1 /\ Last(a) \in Navs /\ Front(a) \in store

HasSingle(a) == Len(a) > 1 /\ Last(a) \in Singles /\ Front(a) \in store

\* The addresses of an entity and of those it contains.
Within(a) == {b \in store : IsPrefix(a, b)}

\* The service has applied the request of o at address a; when the entity there
\* is what o now stands for, it becomes its own.
Applied(o, a) == at' = [at EXCEPT ![o] = a] /\ UNCHANGED last
Owns(o, a) == own' = [own EXCEPT ![o] = @ \cup {a}]

Insert(o) ==
    LET a == Append(task[o].target, key + 1) IN
    /\ task[o].verb = "add"
    /\ HasCollection(task[o].target)
    /\ key < MaxKey
    /\ key' = key + 1
    /\ store' = store \cup {a}
    /\ Applied(o, a) /\ Owns(o, a)

Upsert(o) ==
    /\ task[o].verb = "relate"
    /\ HasSingle(task[o].target)
    /\ store' = store \cup {task[o].target}
    /\ Applied(o, task[o].target) /\ Owns(o, task[o].target)
    /\ UNCHANGED key

Modify(o) ==
    /\ task[o].verb \in {"update", "delete"}
    /\ task[o].target \in store
    /\ store' = IF task[o].verb = "update" THEN store ELSE store \ Within(task[o].target)
    /\ Applied(o, task[o].target)
    /\ UNCHANGED <<key, own>>

Refer(o) ==
    /\ task[o].verb = "reference"
    /\ Front(task[o].target) \in store
    /\ task[o].link.path \in store
    /\ Applied(o, task[o].target)
    /\ UNCHANGED <<store, key, own>>

\* The request is applied; the answer arrives, with or without a Location when
\* an entity was made, or it is lost.
Serve(o) ==
    /\ task[o].phase = "sent"
    /\ Insert(o) \/ Upsert(o) \/ Modify(o) \/ Refer(o)
    /\ \E phase \in {"answered", "refused"} :
       \E l \in {NoLink} \cup (IF task[o].verb = "add"
                               THEN {Absolute(Append(task[o].target, key'))} ELSE {}) :
            task' = [task EXCEPT ![o].phase = phase, ![o].location = l]
    /\ UNCHANGED <<link, model>>

\* Another status, a request that never arrives, a timeout.
Refuse(o) ==
    /\ task[o].phase = "sent"
    /\ task' = [task EXCEPT ![o].phase = "refused"]
    /\ UNCHANGED <<link, model, store, key, own, at, last>>

\* Another client deletes an entity.
DeletedByOther(a) ==
    /\ store' = store \ Within(a)
    /\ UNCHANGED <<link, task, model, key, own, at, last>>

-----------------------------------------------------------------------------
(* The continuations. *)

End(o, how) ==
    /\ task' = [task EXCEPT ![o] = NoCall]
    /\ last' = [last EXCEPT ![o] =
                    IF how = "error" THEN Ended(how)
                    ELSE [how |-> how, verb |-> task[o].verb, at |-> at[o],
                          location |-> task[o].location]]
    /\ at' = [at EXCEPT ![o] = <<>>]
    /\ UNCHANGED <<model, store, key, own>>

\* Mutant: the continuation of update_related_object runs after a failure too.
FailLinks(o) ==
    /\ task[o].phase = "refused"
    /\ End(o, "error")
    /\ link' = IF task[o].verb = "relate" THEN [link EXCEPT ![o] = task[o].link] ELSE link

\* send_data_to_server throws; the continuations above it do not run.
Fail(o) ==
    /\ task[o].phase = "refused"
    /\ End(o, "error")
    /\ UNCHANGED link

\* send_data_to_server keeps the Location with the value that was sent.
Accept(o) ==
    /\ task[o].phase = "answered"
    /\ task' = [task EXCEPT ![o].phase = "located"]
    /\ UNCHANGED <<link, model, store, key, own, at, last>>

\* Mutant: the continuation reads the Location only if the object has no link.
ReturnOnlyFirst(o) ==
    /\ task[o].phase = "located"
    /\ link' = IF task[o].verb = "add" /\ task[o].location # NoLink /\ link[o] = NoLink
               THEN [link EXCEPT ![o] = task[o].location] ELSE link
    /\ End(o, "ok")

\* add_object copies the Location, if there is one, to the object;
\* update_related_object writes the path it has sent to.
Return(o) ==
    /\ task[o].phase = "located"
    /\ link' = CASE task[o].verb = "add" /\ task[o].location # NoLink ->
                        [link EXCEPT ![o] = task[o].location]
                 [] task[o].verb = "relate" -> [link EXCEPT ![o] = task[o].link]
                 [] OTHER -> link
    /\ End(o, "ok")

Next ==
    \/ \E o \in Objects :
        \/ \E s \in EntitySets : AddObject(o, s)
        \/ UpdateObject(o) \/ DeleteObject(o)
        \/ \E p \in Objects \ {o} :
            \/ \E n \in Navs : AddRelatedObject(p, n, o)
            \/ \E n \in Singles : UpdateRelatedObject(p, n, o)
            \/ \E n \in Navs \cup Singles : Reference(p, n, o)
        \/ GotModel(o) \/ NoModel(o) \/ Serve(o) \/ Refuse(o)
        \/ Fail(o) \/ Accept(o) \/ Return(o)
    \/ \E a \in store : DeletedByOther(a)

Spec == Init /\ [][Next]_vars

-----------------------------------------------------------------------------
\* An edit link is empty or names an entity that the service has made, or
\* given out, for this very object: neither an answer that is late or an error,
\* nor one to another object, leaves a link that the service never gave.
LinksAreOwn == \A o \in Objects : link[o] = NoLink \/ link[o].path \in own[o]

\* update_object and delete_object change only entities of their own object,
\* whatever was added, related and deleted, by whom, since it got its link.
WritesHitOwn ==
    \A o \in Objects :
        task[o].verb \in {"update", "delete"} /\ at[o] # <<>> => at[o] \in own[o]

\* An object that was added, with a Location in the answer, is the entity the
\* add made, also when the object had a link before.
AddedIsEditable ==
    \A o \in Objects :
        last[o].how = "ok" /\ last[o].verb = "add" /\ last[o].location # NoLink
            => link[o] = Absolute(last[o].at)

\* A status that is returned, not thrown, is one of a request that the service
\* has carried out.
OkMeansApplied == \A o \in Objects : last[o].how = "ok" => last[o].at # <<>>
==============================================================================
