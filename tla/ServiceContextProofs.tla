------------------------- MODULE ServiceContextProofs ------------------------
(***************************************************************************)
(* What the two halves of a generated service context keep to: that edit   *)
(* links and the writes that follow them stay with their object, for any   *)
(* number of objects, names and entities; and that the pointers of its     *)
(* queries make a tree whose text says what was asked, for any number of   *)
(* builders and paths.                                                     *)
(***************************************************************************)
EXTENDS ServiceContext, QueryReading, FiniteSetTheorems, SequenceTheorems, WellFoundedInduction, TLAPS

\* What a call sends: writes go to an entity of the object, and only what the
\* service has done is accepted.
CallInv(o) ==
    /\ task[o].phase # "idle" => task[o].target # <<>>
    /\ task[o].phase \in {"idle", "fetching", "sent"} => at[o] = <<>>
    /\ task[o].phase # "idle" /\ task[o].verb \in {"update", "delete"}
            => task[o].target \in own[o]
    /\ task[o].phase # "idle" /\ task[o].verb = "relate"
            => task[o].link.path = task[o].target

\* What the continuations of an answer find.
AnswerInv(o) ==
    task[o].phase \in {"answered", "located"} =>
        /\ at[o] # <<>>
        /\ task[o].verb \in {"add", "relate"} => at[o] \in own[o]
        /\ task[o].verb = "add" /\ task[o].location # NoLink
                => task[o].location = Absolute(at[o])
        /\ task[o].verb = "relate" => at[o] = task[o].target

\* The links, and what the last call has left.
LinkInv(o) ==
    /\ link[o] = NoLink \/ link[o].path \in own[o]
    /\ task[o].verb \in {"update", "delete"} /\ at[o] # <<>> => at[o] \in own[o]
    /\ last[o].how = "ok" => last[o].at # <<>>
    /\ last[o].how = "ok" /\ last[o].verb = "add" /\ last[o].location # NoLink
            => link[o] = Absolute(last[o].at)
    /\ last[o].how = "none" \/ task[o].phase = "idle"

IInv == TypeOK /\ \A o \in Objects : CallInv(o) /\ AnswerInv(o) /\ LinkInv(o)

\* Names and keys make addresses, and addresses make links.
LEMMA Types ==
    ASSUME NEW l \in Link, NEW a \in Address, NEW n \in Names \cup Nat
    PROVE  /\ Below(l, n) \in Link
           /\ Below(l, n).path # <<>>
           /\ GetRelativePath(l) \in Address
           /\ Append(a, n) \in Address /\ Append(a, n) # <<>>
           /\ Absolute(a) \in Link
           /\ NoLink \in Link /\ <<>> \in Address
<1>1. \A b \in Address : Append(b, n) \in Address /\ Append(b, n) # <<>>
    BY DEF Address
<1>2. l.path \in Address /\ l.absolute \in BOOLEAN
    BY DEF Link
<1>3. Below(l, n) = [absolute |-> l.absolute, path |-> Append(l.path, n)]
    BY DEF Below, Link
<1>4. <<>> \in Address
    BY DEF Address
<1> QED BY <1>1, <1>2, <1>3, <1>4 DEF Link, GetRelativePath, Absolute, NoLink

\* A call moves on to another phase, with the Location it has received.
LEMMA TaskMoves ==
    ASSUME NEW t \in [Objects -> Task], NEW o \in Objects, NEW p \in Phases, NEW l \in Link
    PROVE  /\ [t EXCEPT ![o].phase = p] \in [Objects -> Task]
           /\ [t EXCEPT ![o].phase = p, ![o].location = l] \in [Objects -> Task]
           /\ [t EXCEPT ![o].phase = p][o] = [t[o] EXCEPT !.phase = p]
           /\ [t EXCEPT ![o].phase = p, ![o].location = l][o]
                    = [t[o] EXCEPT !.phase = p, !.location = l]
<1>1. t[o] \in Task
    OBVIOUS
<1>2. [t[o] EXCEPT !.phase = p] \in Task
    BY <1>1 DEF Task
<1>3. [t[o] EXCEPT !.phase = p, !.location = l] \in Task
    BY <1>1 DEF Task
<1>4. /\ [t EXCEPT ![o].phase = p] = [t EXCEPT ![o] = [t[o] EXCEPT !.phase = p]]
      /\ [t EXCEPT ![o].phase = p, ![o].location = l]
            = [t EXCEPT ![o] = [t[o] EXCEPT !.phase = p, !.location = l]]
    OBVIOUS
<1> QED BY <1>2, <1>3, <1>4

USE DEF Idle

LEMMA InitIInv == Init => IInv
<1> SUFFICES ASSUME Init PROVE IInv
    OBVIOUS
<1>1. \A s \in EntitySets : <<s, 0>> \in Address /\ <<s, 0>> # <<>>
    <2>1. \A s \in EntitySets : s \in Names \cup Nat /\ 0 \in Names \cup Nat
        BY DEF Names
    <2>2. \A s \in EntitySets : <<s, 0>> \in Seq(Names \cup Nat)
        BY <2>1
    <2>3. \A s \in EntitySets : Len(<<s, 0>>) = 2 /\ Len(<<>>) = 0
        OBVIOUS
    <2> QED BY <2>2, <2>3 DEF Address
<1>2. link \in [Objects -> Link] /\ NoLink \in Link /\ <<>> \in Address
    <2>1. <<>> \in Address
        BY DEF Address
    <2>2. NoLink \in Link
        BY <2>1 DEF NoLink, Link
    <2>3. \A s \in EntitySets : Absolute(<<s, 0>>) \in Link
        BY <1>1 DEF Absolute, Link
    <2> QED BY <2>1, <2>2, <2>3 DEF Init
<1>3. own \in [Objects -> SUBSET Address]
    <2>1. \A o \in Objects : link[o].path \in Address
        BY <1>2 DEF Link
    <2> QED BY <2>1 DEF Init
<1>4. TypeOK
    BY <1>1, <1>2, <1>3
    DEF Init, TypeOK, NoCall, Ended, Task, Verbs, Phases, Endings
<1>5. \A o \in Objects : CallInv(o) /\ AnswerInv(o) /\ LinkInv(o)
    BY DEF Init, CallInv, AnswerInv, LinkInv, NoCall, Ended, Absolute, NoLink
<1> QED BY <1>4, <1>5 DEF IInv

\* The calls: an object whose link is not empty sends to an entity of its own.
LEMMA BeginIInv ==
    ASSUME IInv, NEW o \in Objects, Idle(o), NEW verb \in Verbs,
           NEW to \in Address, to # <<>>, NEW l \in Link,
           verb \in {"update", "delete"} => to \in own[o],
           verb = "relate" => l.path = to,
           Begin(o, verb, to, l)
    PROVE  IInv'
<1>1. TypeOK'
    BY Types DEF IInv, TypeOK, Begin, Task, Phases, Ended, Endings, Verbs, NoLink, Link, Address
<1>2. ASSUME NEW x \in Objects PROVE CallInv(x)' /\ AnswerInv(x)' /\ LinkInv(x)'
    BY DEF IInv, TypeOK, Begin, CallInv, AnswerInv, LinkInv, Ended, Task, Phases
<1> QED BY <1>1, <1>2 DEF IInv

LEMMA ThrowsIInv == ASSUME IInv, NEW o \in Objects, Idle(o), Throws(o) PROVE IInv'
<1>1. TypeOK'
    BY DEF IInv, TypeOK, Throws, Ended, Endings, Verbs, NoLink, Link, Address
<1>2. ASSUME NEW x \in Objects PROVE CallInv(x)' /\ AnswerInv(x)' /\ LinkInv(x)'
    BY DEF IInv, TypeOK, Throws, CallInv, AnswerInv, LinkInv, Ended
<1> QED BY <1>1, <1>2 DEF IInv

LEMMA NextIInv == IInv /\ [Next]_vars => IInv'
<1> SUFFICES ASSUME IInv, [Next]_vars PROVE IInv'
    OBVIOUS
<1> USE DEF IInv
<1>t. ASSUME NEW x \in Objects
      PROVE  /\ link[x] \in Link /\ link[x].path \in Address
             /\ task[x].target \in Address /\ task[x].link \in Link
             /\ task[x].location \in Link /\ task[x].verb \in Verbs
             /\ own[x] \subseteq Address /\ at[x] \in Address
    BY DEF TypeOK, Task, Link
<1>n. NoLink \in Link /\ <<>> \in Address
    BY DEF NoLink, Link, Address
<1>1. ASSUME NEW o \in Objects, NEW s \in EntitySets, AddObject(o, s) PROVE IInv'
    <2>1. <<s>> \in Address /\ <<s>> # <<>>
        <3>1. s \in Names \cup Nat
            BY DEF Names
        <3> QED BY <3>1 DEF Address
    <2> QED BY <1>1, <1>n, <2>1, BeginIInv DEF AddObject, Verbs
<1>2. ASSUME NEW o \in Objects, UpdateObject(o) PROVE IInv'
    <2>1. CASE HasRelativePath(link[o])
        <3>1. link[o].path # <<>> /\ link[o].path \in own[o]
            BY <2>1 DEF HasRelativePath, LinkInv, NoLink
        <3> QED BY <1>2, <1>t, <1>n, <2>1, <3>1, BeginIInv
                DEF UpdateObject, Verbs, GetRelativePath
    <2> QED BY <1>2, <2>1, ThrowsIInv DEF UpdateObject
<1>3. ASSUME NEW o \in Objects, DeleteObject(o) PROVE IInv'
    <2>1. CASE HasRelativePath(link[o])
        <3>1. link[o].path # <<>> /\ link[o].path \in own[o]
            BY <2>1 DEF HasRelativePath, LinkInv, NoLink
        <3> QED BY <1>3, <1>t, <1>n, <2>1, <3>1, BeginIInv
                DEF DeleteObject, Verbs, GetRelativePath
    <2> QED BY <1>3, <2>1, ThrowsIInv DEF DeleteObject
<1>4. ASSUME NEW o \in Objects, NEW p \in Objects, NEW n \in Names, Idle(o),
             \/ AddRelatedObject(p, n, o)
             \/ UpdateRelatedObject(p, n, o)
             \/ Reference(p, n, o)
      PROVE  IInv'
    <2> DEFINE b == Below(link[p], n)
    <2>1. b \in Link /\ b.path \in Address /\ b.path # <<>>
        BY <1>t, Types DEF Link
    <2>2. GetRelativePath(b) = b.path
        BY DEF GetRelativePath
    <2> QED BY <1>4, <1>t, <1>n, <2>1, <2>2, BeginIInv
            DEF AddRelatedObject, UpdateRelatedObject, Reference, Verbs
<1>5. ASSUME NEW o \in Objects,
             GotModel(o) \/ NoModel(o) \/ Refuse(o) \/ Accept(o)
      PROVE  IInv'
    <2>1. PICK p \in Phases :
            /\ task' = [task EXCEPT ![o].phase = p]
            /\ task[o].phase # "idle" /\ p # "idle"
            /\ p \in {"fetching", "sent"} => task[o].phase \in {"fetching", "sent"}
            /\ p \in {"answered", "located"} => task[o].phase \in {"answered", "located"}
        <3>1. CASE GotModel(o)
            BY <3>1 DEF GotModel, Phases
        <3>2. CASE NoModel(o)
            BY <3>2 DEF NoModel, Phases
        <3>3. CASE Refuse(o)
            BY <3>3 DEF Refuse, Phases
        <3>4. CASE Accept(o)
            BY <3>4 DEF Accept, Phases
        <3> QED BY <1>5, <3>1, <3>2, <3>3, <3>4
    <2>2. model' \in BOOLEAN /\ UNCHANGED <<link, store, key, own, at, last>>
        BY <1>5 DEF TypeOK, GotModel, NoModel, Refuse, Accept
    <2>3. task' \in [Objects -> Task] /\ task'[o] = [task[o] EXCEPT !.phase = p]
        <3>1. task \in [Objects -> Task]
            BY DEF TypeOK
        <3>2. [task EXCEPT ![o].phase = p] \in [Objects -> Task]
            BY <1>n, <3>1, TaskMoves
        <3>3. [task EXCEPT ![o].phase = p][o] = [task[o] EXCEPT !.phase = p]
            BY <1>n, <3>1, TaskMoves
        <3> QED BY <2>1, <3>2, <3>3
    <2>4. \A x \in Objects \ {o} : task'[x] = task[x]
        BY <2>1 DEF TypeOK
    <2>5. TypeOK'
        BY <2>2, <2>3 DEF TypeOK
    <2>6. ASSUME NEW x \in Objects PROVE CallInv(x)' /\ AnswerInv(x)' /\ LinkInv(x)'
        <3>1. /\ task'[o].phase = p /\ task'[o].verb = task[o].verb
              /\ task'[o].target = task[o].target /\ task'[o].link = task[o].link
              /\ task'[o].location = task[o].location
            BY <2>3 DEF TypeOK, Task
        <3>2. CASE x = o
            BY <2>1, <2>2, <3>1, <3>2 DEF CallInv, AnswerInv, LinkInv
        <3>3. CASE x # o
            BY <2>2, <2>4, <3>3 DEF CallInv, AnswerInv, LinkInv
        <3> QED BY <3>2, <3>3
    <2> QED BY <2>5, <2>6
<1>6. ASSUME NEW o \in Objects, Fail(o) \/ Return(o) PROVE IInv'
    <2>1. NoCall \in Task
        BY <1>n DEF NoCall, Task, Verbs, Phases
    <2>2. /\ task' = [task EXCEPT ![o] = NoCall] /\ at' = [at EXCEPT ![o] = <<>>]
          /\ UNCHANGED <<model, store, key, own>>
        BY <1>6 DEF Fail, Return, End
    <2>3. CASE Fail(o)
        <3>1. last' = [last EXCEPT ![o] = Ended("error")] /\ link' = link
            BY <2>3 DEF Fail, End
        <3>2. Ended("error") \in [how : Endings, verb : Verbs, at : Address, location : Link]
            BY <1>n DEF Ended, Endings, Verbs
        <3>3. TypeOK'
            BY <1>n, <2>1, <2>2, <3>1, <3>2 DEF TypeOK
        <3>4. ASSUME NEW x \in Objects PROVE CallInv(x)' /\ AnswerInv(x)' /\ LinkInv(x)'
            BY <2>2, <3>1 DEF TypeOK, Ended, NoCall, CallInv, AnswerInv, LinkInv
        <3> QED BY <3>3, <3>4
    <2>4. CASE Return(o)
        <3> DEFINE e == [how |-> "ok", verb |-> task[o].verb, at |-> at[o],
                         location |-> task[o].location]
        <3>1. last' = [last EXCEPT ![o] = e]
            BY <2>4 DEF Return, End
        <3>2. e \in [how : Endings, verb : Verbs, at : Address, location : Link]
            BY <1>t DEF Endings
        <3>3. PICK l \in Link :
                /\ link' = [link EXCEPT ![o] = l]
                /\ l = NoLink \/ l.path \in own[o]
                /\ e.verb = "add" /\ e.location # NoLink => l = Absolute(e.at)
            <4>1. CASE task[o].verb = "add" /\ task[o].location # NoLink
                <5>1. link' = [link EXCEPT ![o] = task[o].location]
                    BY <2>4, <4>1 DEF Return
                <5> QED BY <1>t, <2>4, <4>1, <5>1 DEF Return, AnswerInv, Absolute
            <4>2. CASE task[o].verb = "relate"
                <5>1. link' = [link EXCEPT ![o] = task[o].link]
                    BY <2>4, <4>2 DEF Return
                <5> QED BY <1>t, <2>4, <4>2, <5>1 DEF Return, AnswerInv, CallInv
            <4>3. CASE /\ ~(task[o].verb = "add" /\ task[o].location # NoLink)
                       /\ task[o].verb # "relate"
                <5>1. link' = [link EXCEPT ![o] = link[o]]
                    BY <2>4, <4>3 DEF Return, TypeOK
                <5> QED BY <1>t, <4>3, <5>1 DEF LinkInv
            <4> QED BY <4>1, <4>2, <4>3
        <3>4. TypeOK'
            BY <1>n, <2>1, <2>2, <3>1, <3>2, <3>3 DEF TypeOK
        <3>5. e.at # <<>>
            BY <2>4 DEF Return, AnswerInv
        <3>6. ASSUME NEW x \in Objects PROVE CallInv(x)' /\ AnswerInv(x)' /\ LinkInv(x)'
            <4>1. CASE x = o
                BY <2>2, <3>1, <3>3, <3>5, <4>1
                DEF TypeOK, NoCall, CallInv, AnswerInv, LinkInv
            <4>2. CASE x # o
                BY <2>2, <3>1, <3>3, <4>2 DEF TypeOK, CallInv, AnswerInv, LinkInv
            <4> QED BY <4>1, <4>2
        <3> QED BY <3>4, <3>6
    <2> QED BY <1>6, <2>3, <2>4
<1>7. ASSUME NEW o \in Objects, Serve(o) PROVE IInv'
    <2>1. PICK a \in Address :
            /\ a # <<>>
            /\ at' = [at EXCEPT ![o] = a]
            /\ store' \subseteq Address /\ key' \in Nat
            /\ \A x \in Objects : own[x] \subseteq own'[x]
            /\ own' \in [Objects -> SUBSET Address]
            /\ last' = last
            /\ task[o].verb \in {"add", "relate"} => a \in own'[o]
            /\ task[o].verb = "add" => a = Append(task[o].target, key')
            /\ task[o].verb # "add" => a = task[o].target
        <3>1. CASE Insert(o)
            <4>1. PICK b \in Address : b = Append(task[o].target, key + 1) /\ b # <<>>
                <5>1. key + 1 \in Names \cup Nat /\ key + 1 \in Nat
                    BY DEF TypeOK
                <5>2. Append(task[o].target, key + 1) \in Address
                    BY <1>t, <5>1, Types
                <5>3. Append(task[o].target, key + 1) # <<>>
                    BY <1>t, <5>1, Types
                <5> QED BY <5>2, <5>3
            <4>2. /\ key' = key + 1 /\ store' = store \cup {b}
                  /\ at' = [at EXCEPT ![o] = b] /\ last' = last
                  /\ own' = [own EXCEPT ![o] = @ \cup {b}]
                  /\ task[o].verb = "add"
                BY <3>1, <4>1 DEF Insert, Applied, Owns
            <4>3. /\ own' \in [Objects -> SUBSET Address]
                  /\ \A x \in Objects : own[x] \subseteq own'[x]
                  /\ b \in own'[o]
                BY <4>2 DEF TypeOK
            <4>4. b = Append(task[o].target, key')
                BY <4>1, <4>2
            <4>5. store' \subseteq Address /\ key' \in Nat
                BY <4>2 DEF TypeOK
            <4> QED BY <4>1, <4>2, <4>3, <4>4, <4>5
        <3>2. CASE Upsert(o)
            BY <3>2, <1>7, <1>t DEF Upsert, Serve, Applied, Owns, TypeOK, CallInv
        <3>3. CASE Modify(o)
            BY <3>3, <1>7, <1>t DEF Modify, Serve, Applied, TypeOK, CallInv
        <3>4. CASE Refer(o)
            BY <3>4, <1>7, <1>t DEF Refer, Serve, Applied, TypeOK, CallInv
        <3> QED BY <1>7, <3>1, <3>2, <3>3, <3>4 DEF Serve
    <2>2. PICK phase \in {"answered", "refused"}, l \in Link :
            /\ task' = [task EXCEPT ![o].phase = phase, ![o].location = l]
            /\ task[o].verb = "add" /\ l # NoLink => l = Absolute(a)
        <3>1. Absolute(a) \in Link
            BY DEF Absolute, Link
        <3> QED BY <1>7, <1>n, <2>1, <3>1 DEF Serve
    <2>3. TypeOK'
        <3>1. phase \in Phases
            BY DEF Phases
        <3> QED BY <1>7, <2>1, <2>2, <3>1, TaskMoves DEF TypeOK, Serve
    <2>4. ASSUME NEW x \in Objects PROVE CallInv(x)' /\ AnswerInv(x)' /\ LinkInv(x)'
        <3>1. CASE x = o
            BY <1>7, <2>1, <2>2, <3>1
            DEF TypeOK, Serve, Task, Verbs, CallInv, AnswerInv, LinkInv
        <3>2. CASE x # o
            BY <1>7, <2>1, <2>2, <3>2
            DEF TypeOK, Serve, Task, CallInv, AnswerInv, LinkInv
        <3> QED BY <3>1, <3>2
    <2> QED BY <2>3, <2>4
<1>8. ASSUME NEW a \in store, DeletedByOther(a) PROVE IInv'
    BY <1>8 DEF DeletedByOther, Within, TypeOK, CallInv, AnswerInv, LinkInv
<1>9. CASE UNCHANGED vars
    BY <1>9 DEF vars, TypeOK, CallInv, AnswerInv, LinkInv
<1> QED
    BY <1>1, <1>2, <1>3, <1>4, <1>5, <1>6, <1>7, <1>8, <1>9
    DEF Next, Names, AddRelatedObject, UpdateRelatedObject, Reference

\* Links, calls and what the service holds agree throughout: IInv.
THEOREM Invariant == Spec => []IInv
    BY InitIInv, NextIInv, PTL DEF Spec

\* In every behaviour all parts of the state are of their types.
THEOREM TypeCorrect == Spec => []TypeOK
    BY Invariant, PTL DEF IInv

\* An edit link is empty or one the service gave for this object.
THEOREM EditLinksAreOwn == Spec => []LinksAreOwn
<1>1. IInv => LinksAreOwn
    BY DEF IInv, LinkInv, LinksAreOwn
<1> QED BY <1>1, Invariant, PTL

\* Updates and deletes change only entities of their object.
THEOREM UpdatesHitTheirEntity == Spec => []WritesHitOwn
<1>1. IInv => WritesHitOwn
    BY DEF IInv, LinkInv, WritesHitOwn
<1> QED BY <1>1, Invariant, PTL

\* An object that was added can be edited where the service has put it.
THEOREM AddedObjectsAreEditable == Spec => []AddedIsEditable
<1>1. IInv => AddedIsEditable
    BY DEF IInv, LinkInv, AddedIsEditable
<1> QED BY <1>1, Invariant, PTL

\* A returned status stands for a request that the service has carried out.
THEOREM ReturnedCallsWereApplied == Spec => []OkMeansApplied
<1>1. IInv => OkMeansApplied
    BY DEF IInv, LinkInv, OkMeansApplied
<1> QED BY <1>1, Invariant, PTL

-----------------------------------------------------------------------------
(* Queries *)

\* The members of the paths have their types.
Members == [options : Seq(DOMAIN Options), keys : Nat, expands : Seq(Branches)]
QueryTypes ==
    /\ path \in [Paths -> Nodes \cup {None}]
    /\ asked \in [Paths -> Members]

\* No path was expanded twice: the first half of WellUsed, which is all that
\* the pointers depend on.
ExpandedAs(p, i, q) == i \in DOMAIN asked[p].expands /\ asked[p].expands[i] = q
Once == \A p, r \in Paths, q \in Branches : \A i, j \in Nat :
            ExpandedAs(p, i, q) /\ ExpandedAs(r, j, q) => p = r /\ i = j

\* Each of the paths expanded from p is where the pointer of the one before it
\* points to, and the first where the pointer of p does: the pointers are what
\* was asked for.
Expanded(p, i) == IF i \in DOMAIN asked[p].expands THEN asked[p].expands[i] ELSE None
Linked(p) ==
    /\ path[p].child = Expanded(p, 1)
    /\ \A i \in DOMAIN asked[p].expands :
          /\ path[asked[p].expands[i]] # None
          /\ path[asked[p].expands[i]].sibling = Expanded(p, i + 1)

\* What was expanded from p is deleted, and nobody expanded q.
Gone(p) == \A i \in DOMAIN asked[p].expands : path[asked[p].expands[i]] = None
Lone(q) == \A p \in Paths : \A i \in DOMAIN asked[p].expands : asked[p].expands[i] # q

TreeInv ==
    /\ outcome = "ok"
    /\ \A p \in Paths : IF path[p] = None THEN Gone(p) ELSE Linked(p)
    /\ \A q \in Paths : path[q] # None /\ Lone(q) => path[q].sibling = None

QueryIInv == QueryTypes /\ (Once => TreeInv)

\* What TreeIsSafe assumes of the calls is more than that.
LEMMA OnceUsed ==
    ASSUME QueryTypes, WellUsed
    PROVE  Once
<1> SUFFICES ASSUME NEW p \in Paths, NEW r \in Paths, NEW q \in Branches,
                    NEW i \in Nat, NEW j \in Nat, ExpandedAs(p, i, q), ExpandedAs(r, j, q)
             PROVE  p = r /\ i = j
  BY DEF Once
<1> DEFINE e == <<p, i>>
           f == <<r, j>>
<1>1. e \in Expands /\ f \in Expands
  BY DEF Expands, ExpandedAs
<1>2. asked[e[1]].expands[e[2]] = asked[f[1]].expands[f[2]]
  BY DEF ExpandedAs
<1>3. e = f
  BY <1>1, <1>2 DEF WellUsed
<1> QED
  BY <1>3

\* A set of numbers has a least one.
LEMMA Least ==
    ASSUME NEW S \in SUBSET Nat, S # {}
    PROVE  \E n \in S : \A k \in S : n <= k
<1>1. PICK x \in S : \A y \in S : ~(<<y, x>> \in OpToRel(<, Nat))
  BY NatLessThanWellFounded, WFMin
<1>2. \A y \in S : ~(y < x)
  BY <1>1 DEF OpToRel
<1> QED
  BY <1>2

-----------------------------------------------------------------------------
(* Where pointers lead *)

\* Reach(S) has S, is closed under the pointers of its paths, and is the
\* least such set.
LEMMA ReachHas ==
    ASSUME NEW S, S \subseteq Paths
    PROVE  S \subseteq Reach(S) /\ Reach(S) \subseteq Paths
BY DEF Reach

LEMMA ReachIsClosed ==
    ASSUME NEW S, NEW p \in Reach(S), NEW q \in Owned(p), q \in Paths
    PROVE  q \in Reach(S)
BY DEF Reach

LEMMA ReachIsLeast ==
    ASSUME NEW S, NEW T \in SUBSET Paths, S \subseteq T, \A p \in T : Owned(p) \subseteq T
    PROVE  Reach(S) \subseteq T
BY DEF Reach

\* What is reached is there from the start, or owned by what is reached.
LEMMA Entered ==
    ASSUME NEW S, S \subseteq Paths, NEW q \in Reach(S), \A p \in Paths : Owned(p) \subseteq Paths
    PROVE  q \in S \/ \E p \in Reach(S) : q \in Owned(p)
<1> DEFINE T == S \cup {x \in Reach(S) : \E p \in Reach(S) : x \in Owned(p)}
<1>1. T \in SUBSET Paths /\ T \subseteq Reach(S)
  BY ReachHas
<1>2. ASSUME NEW p \in T PROVE Owned(p) \subseteq T
  <2>1. p \in Reach(S) /\ p \in Paths
    BY <1>1
  <2> SUFFICES ASSUME NEW x \in Owned(p) PROVE x \in Reach(S)
    BY <2>1
  <2> QED
    BY <2>1, ReachIsClosed
<1>3. Reach(S) \subseteq T
  BY <1>1, <1>2, ReachIsLeast
<1> QED
  BY <1>3

\* Pointers lead to paths that were made to be expanded.
LEMMA OwnedAreBranches ==
    ASSUME QueryTypes, NEW p \in Paths
    PROVE  Owned(p) \subseteq Branches /\ Owned(p) \subseteq Paths
<1>1. path[p] # None => path[p] \in Nodes
  BY DEF QueryTypes
<1>2. path[p] # None => path[p].child \in Branches \cup {None} /\ path[p].sibling \in Branches \cup {None}
  BY <1>1 DEF Nodes
<1> QED
  BY <1>2 DEF Owned, Paths

\* So does any number of them.
LEMMA BeneathAreBranches ==
    ASSUME QueryTypes, NEW p \in Paths
    PROVE  Beneath(p) \subseteq Branches /\ Beneath(p) \subseteq Paths
<1>1. Branches \in SUBSET Paths /\ Branches \subseteq Paths
  BY DEF Paths
<1>2. \A x \in Branches : Owned(x) \subseteq Branches
  BY <1>1, OwnedAreBranches
<1>3. Owned(p) \subseteq Branches
  BY OwnedAreBranches
<1>4. Reach(Owned(p)) \subseteq Branches
  BY <1>1, <1>2, <1>3, ReachIsLeast
<1> QED
  BY <1>1, <1>4 DEF Beneath

\* A pointer of p to q is there because q was expanded: as the latest from p,
\* or just before p from the path p was expanded from.
Follows(p, q) == \E r \in Paths : \E i \in Nat \ {0} : ExpandedAs(r, i, p) /\ ExpandedAs(r, i + 1, q)
LEMMA PointersAreAsked ==
    ASSUME QueryTypes, TreeInv, NEW p \in Paths, path[p] # None, NEW q \in Branches
    PROVE  /\ path[p].child = q => ExpandedAs(p, 1, q)
           /\ path[p].sibling = q => p \in Branches /\ Follows(p, q)
<1>0. q # None /\ q \in Paths
  BY NoneAssumption DEF Paths
<1>1. Linked(p)
  BY DEF TreeInv
<1>2. ASSUME path[p].child = q PROVE ExpandedAs(p, 1, q)
  BY <1>0, <1>1, <1>2 DEF Linked, Expanded, ExpandedAs
<1>3. ASSUME path[p].sibling = q PROVE p \in Branches /\ Follows(p, q)
  <2>1. ~ Lone(p)
    BY <1>0, <1>3 DEF TreeInv
  <2>2. PICK r \in Paths : \E i \in DOMAIN asked[r].expands : asked[r].expands[i] = p
    BY <2>1 DEF Lone
  <2>3. PICK i \in DOMAIN asked[r].expands : asked[r].expands[i] = p
    BY <2>2
  <2>4. asked[r].expands \in Seq(Branches)
    BY DEF QueryTypes, Members
  <2>5. i \in Nat \ {0} /\ p \in Branches
    BY <2>3, <2>4
  <2>6. ~ Gone(r)
    BY <2>3 DEF Gone
  <2>7. Linked(r)
    BY <2>6 DEF TreeInv
  <2>8. Expanded(r, i + 1) = q
    BY <1>3, <2>3, <2>7 DEF Linked
  <2>9. ExpandedAs(r, i, p) /\ ExpandedAs(r, i + 1, q)
    BY <1>0, <2>3, <2>8 DEF Expanded, ExpandedAs
  <2> QED
    BY <2>5, <2>9 DEF Follows
<1> QED
  BY <1>2, <1>3

\* What a pointer leads to was not deleted.
LEMMA OwnedAreAlive ==
    ASSUME QueryTypes, TreeInv, NEW p \in Paths, NEW q \in Owned(p)
    PROVE  path[q] # None
<1>1. q \in Branches /\ path[p] # None /\ (path[p].child = q \/ path[p].sibling = q)
  BY OwnedAreBranches DEF Owned
<1>2. PICK r \in Paths : \E i \in Nat : ExpandedAs(r, i, q) /\ path[r] # None
  <2>1. CASE path[p].child = q
    BY <1>1, <2>1, PointersAreAsked
  <2>2. CASE path[p].sibling = q
    <3>1. p \in Branches /\ Follows(p, q)
      BY <1>1, <2>2, PointersAreAsked
    <3>2. PICK r \in Paths : \E i \in Nat \ {0} : ExpandedAs(r, i, p) /\ ExpandedAs(r, i + 1, q)
      BY <3>1 DEF Follows
    <3>3. PICK i \in Nat \ {0} : ExpandedAs(r, i, p) /\ ExpandedAs(r, i + 1, q)
      BY <3>2
    <3>4. ~ Gone(r)
      BY <1>1, <3>3 DEF Gone, ExpandedAs
    <3>5. path[r] # None /\ i + 1 \in Nat
      BY <3>4 DEF TreeInv
    <3> QED
      BY <3>3, <3>5
  <2> QED
    BY <1>1, <2>1, <2>2
<1>3. Linked(r)
  BY <1>2 DEF TreeInv
<1> QED
  BY <1>2, <1>3 DEF Linked, ExpandedAs

\* Nor was anything beneath a path.
LEMMA BeneathAreAlive ==
    ASSUME QueryTypes, TreeInv, NEW p \in Paths
    PROVE  \A q \in Beneath(p) : path[q] # None
<1> DEFINE Alive == {q \in Paths : path[q] # None}
<1>1. \A x \in Paths : Owned(x) \subseteq Alive
  BY OwnedAreAlive, OwnedAreBranches
<1>2. Alive \in SUBSET Paths
  OBVIOUS
<1>3. Reach(Owned(p)) \subseteq Alive
  <2> HIDE DEF Alive
  <2> QED
    BY <1>1, <1>2, ReachIsLeast
<1> QED
  BY <1>3 DEF Beneath

\* A path has one pointer to it at most.
Points(p, member, q) ==
    /\ path[p] # None
    /\ \/ member = "child" /\ path[p].child = q
       \/ member = "sibling" /\ path[p].sibling = q
LEMMA OnePointer ==
    ASSUME QueryTypes, TreeInv, Once, NEW q \in Branches,
           NEW p \in Paths, NEW m, Points(p, m, q),
           NEW r \in Paths, NEW n, Points(r, n, q)
    PROVE  p = r /\ m = n
<1>1. ASSUME m = "child", n = "child" PROVE p = r
  <2>1. ExpandedAs(p, 1, q) /\ ExpandedAs(r, 1, q)
    BY <1>1, PointersAreAsked DEF Points
  <2> QED
    BY <2>1 DEF Once
<1>2. ASSUME NEW x \in Paths, NEW y \in Paths, Points(x, "child", q), Points(y, "sibling", q) PROVE FALSE
  <2>1. ExpandedAs(x, 1, q) /\ Follows(y, q)
    BY <1>2, PointersAreAsked DEF Points
  <2>2. PICK z \in Paths : \E i \in Nat \ {0} : ExpandedAs(z, i, y) /\ ExpandedAs(z, i + 1, q)
    BY <2>1 DEF Follows
  <2>3. PICK i \in Nat \ {0} : ExpandedAs(z, i + 1, q)
    BY <2>2
  <2>4. i + 1 \in Nat /\ i + 1 # 1
    OBVIOUS
  <2> QED
    BY <2>1, <2>3, <2>4 DEF Once
<1>3. ASSUME m = "sibling", n = "sibling" PROVE p = r
  <2>1. Follows(p, q) /\ Follows(r, q) /\ p \in Branches /\ r \in Branches
    BY <1>3, PointersAreAsked DEF Points
  <2>2. PICK y \in Paths : \E i \in Nat \ {0} : ExpandedAs(y, i, p) /\ ExpandedAs(y, i + 1, q)
    BY <2>1 DEF Follows
  <2>3. PICK i \in Nat \ {0} : ExpandedAs(y, i, p) /\ ExpandedAs(y, i + 1, q)
    BY <2>2
  <2>4. PICK z \in Paths : \E j \in Nat \ {0} : ExpandedAs(z, j, r) /\ ExpandedAs(z, j + 1, q)
    BY <2>1 DEF Follows
  <2>5. PICK j \in Nat \ {0} : ExpandedAs(z, j, r) /\ ExpandedAs(z, j + 1, q)
    BY <2>4
  <2>6. y = z /\ i + 1 = j + 1
    BY <2>3, <2>5 DEF Once
  <2>7. i = j
    BY <2>6
  <2> QED
    BY <2>3, <2>5, <2>6, <2>7 DEF ExpandedAs
<1>4. m \in {"child", "sibling"} /\ n \in {"child", "sibling"}
  BY DEF Points
<1> QED
  BY <1>1, <1>2, <1>3, <1>4

\* A path has one owner at most.
LEMMA OneOwner ==
    ASSUME QueryTypes, TreeInv, Once, NEW p \in Paths, NEW r \in Paths,
           NEW q, q \in Owned(p), q \in Owned(r)
    PROVE  p = r
<1>1. q \in Branches
  BY OwnedAreBranches
<1>2. \E m \in {"child", "sibling"} : Points(p, m, q)
  BY DEF Owned, Points
<1>3. \E m \in {"child", "sibling"} : Points(r, m, q)
  BY DEF Owned, Points
<1> QED
  BY <1>1, <1>2, <1>3, OnePointer

\* So no destructor is called twice, whatever is deleted.
LEMMA FreedOnce ==
    ASSUME QueryTypes, TreeInv, Once, NEW q \in Branches, NEW S \in SUBSET Paths
    PROVE  ~ (Cardinality(PointersTo(q, S)) > 1)
<1>1. \A e \in PointersTo(q, S) : e = <<e[1], e[2]>> /\ e[1] \in Paths /\ Points(e[1], e[2], q)
  BY DEF PointersTo, Points
<1>2. \A e, f \in PointersTo(q, S) : e = f
  <2> SUFFICES ASSUME NEW e \in PointersTo(q, S), NEW f \in PointersTo(q, S) PROVE e = f
    OBVIOUS
  <2>1. e[1] = f[1] /\ e[2] = f[2]
    BY <1>1, OnePointer
  <2> QED
    BY <1>1, <2>1
<1>3. CASE PointersTo(q, S) = {}
  BY <1>3, FS_EmptySet
<1>4. CASE PointersTo(q, S) # {}
  <2>1. PICK e : e \in PointersTo(q, S)
    BY <1>4
  <2>2. PointersTo(q, S) = {e}
    BY <1>2, <2>1
  <2>3. Cardinality({e}) = 1
    BY FS_Singleton
  <2> QED
    BY <2>2, <2>3
<1> QED
  BY <1>3, <1>4

\* What is beneath a path that is beneath p is beneath p.
LEMMA BeneathIsClosed ==
    ASSUME QueryTypes, NEW p \in Paths, NEW q \in Beneath(p)
    PROVE  Owned(q) \subseteq Beneath(p) /\ Beneath(q) \subseteq Beneath(p)
<1>1. q \in Paths /\ Beneath(p) \subseteq Paths /\ Beneath(p) \in SUBSET Paths
  BY BeneathAreBranches
<1>2. \A x \in Beneath(p) : Owned(x) \subseteq Beneath(p)
  <2> SUFFICES ASSUME NEW x \in Beneath(p), NEW y \in Owned(x) PROVE y \in Beneath(p)
    OBVIOUS
  <2>1. y \in Paths
    BY <1>1, OwnedAreBranches
  <2> QED
    BY <2>1, ReachIsClosed DEF Beneath
<1>3. Reach(Owned(q)) \subseteq Beneath(p)
  <2>1. Owned(q) \subseteq Beneath(p)
    BY <1>2
  <2> QED
    BY <1>1, <1>2, <2>1, ReachIsLeast
<1> QED
  BY <1>2, <1>3 DEF Beneath

\* What is in a circle is owned from within it: there is no way in.
LEMMA CirclesAreClosed ==
    ASSUME QueryTypes, TreeInv, Once, NEW p \in Paths, NEW q \in Owned(p), q \in Beneath(q)
    PROVE  p \in Beneath(p)
<1>1. q \in Paths /\ Owned(q) \subseteq Paths /\ Owned(p) \subseteq Paths
  BY OwnedAreBranches
<1>2. \A x \in Paths : Owned(x) \subseteq Paths
  BY OwnedAreBranches
<1>3. q \in Owned(q) \/ \E z \in Reach(Owned(q)) : q \in Owned(z)
  BY <1>1, <1>2, Entered DEF Beneath
<1>4. q = p \/ p \in Beneath(q)
  <2>1. \A z \in Reach(Owned(q)) : z \in Paths
    BY <1>1, ReachHas
  <2> QED
    BY <1>1, <1>3, <2>1, OneOwner DEF Beneath
<1>5. q \in Beneath(p)
  BY <1>1, ReachHas DEF Beneath
<1> QED
  BY <1>1, <1>4, <1>5, BeneathIsClosed

\* A root is in no circle, as nothing owns it, so there is none beneath it.
LEMMA NoCircleBeneathRoots ==
    ASSUME QueryTypes, TreeInv, Once, NEW r \in Roots
    PROVE  \A p \in Beneath(r) : p \notin Beneath(p)
<1> DEFINE T == {p \in Beneath(r) : p \notin Beneath(p)}
<1>0. r \in Paths
  BY DEF Paths
<1>1. r \notin Beneath(r)
  BY <1>0, BeneathAreBranches, PathsAssumption
<1>2. Beneath(r) \subseteq Paths /\ Owned(r) \subseteq Beneath(r) /\ T \in SUBSET Paths
  <2>1. Owned(r) \subseteq Paths
    BY <1>0, OwnedAreBranches
  <2> QED
    BY <1>0, <2>1, ReachHas, BeneathAreBranches DEF Beneath
<1>3. Owned(r) \subseteq T
  BY <1>0, <1>1, <1>2, CirclesAreClosed
<1>4. ASSUME NEW p \in T PROVE Owned(p) \subseteq T
  <2>1. p \in Paths /\ p \in Beneath(r) /\ p \notin Beneath(p)
    BY <1>2
  <2>2. Owned(p) \subseteq Beneath(r)
    BY <1>0, <2>1, BeneathIsClosed
  <2> QED
    BY <2>1, <2>2, CirclesAreClosed
<1>5. Reach(Owned(r)) \subseteq T
  <2> HIDE DEF T
  <2> QED
    BY <1>2, <1>3, <1>4, ReachIsLeast
<1> QED
  BY <1>5 DEF Beneath

\* Neither evaluating nor deleting a builder goes wrong.
LEMMA RootsAreSafe ==
    ASSUME QueryTypes, TreeInv, Once, NEW r \in Roots
    PROVE  /\ ~ \E p \in Beneath(r) : path[p] = None
           /\ ~ \E p \in Beneath(r) : p \in Beneath(p)
           /\ ~ \E q \in Beneath(r) : path[q] = None \/ Cardinality(PointersTo(q, Freed(r))) > 1
<1>0. r \in Paths
  BY DEF Paths
<1>1. Beneath(r) \subseteq Branches /\ Freed(r) \in SUBSET Paths
  BY <1>0, BeneathAreBranches DEF Freed
<1> QED
  BY <1>0, <1>1, BeneathAreAlive, NoCircleBeneathRoots, FreedOnce

-----------------------------------------------------------------------------
(* Calls *)

\* The types of a path that is not deleted.
LEMMA NodeFacts ==
    ASSUME QueryTypes, NEW p \in Paths, path[p] # None
    PROVE  /\ path[p] \in Nodes /\ asked[p] \in Members
           /\ path[p] = [resource |-> path[p].resource, options |-> path[p].options,
                         child |-> path[p].child, sibling |-> path[p].sibling]
BY DEF QueryTypes, Nodes

\* A path is deleted or not, points and was expanded as before.
SameTree ==
    /\ outcome' = outcome
    /\ \A p \in Paths : /\ path'[p] = None <=> path[p] = None
                        /\ path[p] # None => path'[p].child = path[p].child /\ path'[p].sibling = path[p].sibling
                        /\ asked'[p].expands = asked[p].expands
\* Such a call keeps the tree.
LEMMA SameTreeKeepsInv ==
    ASSUME QueryTypes, SameTree, Once => TreeInv
    PROVE  Once' => TreeInv'
<1> SUFFICES ASSUME Once' PROVE TreeInv'
  OBVIOUS
<1>1. Once
  BY DEF Once, SameTree, ExpandedAs
<1>2. TreeInv
  BY <1>1
<1>3. \A p \in Paths : \A i \in DOMAIN asked[p].expands : asked[p].expands[i] \in Paths
  <2> SUFFICES ASSUME NEW p \in Paths, NEW i \in DOMAIN asked[p].expands PROVE asked[p].expands[i] \in Branches
    BY DEF Paths
  <2>1. asked[p].expands \in Seq(Branches)
    BY DEF QueryTypes, Members
  <2> QED
    BY <2>1
<1>4. outcome' = "ok"
  BY <1>2 DEF SameTree, TreeInv
<1>5. ASSUME NEW p \in Paths PROVE IF path'[p] = None THEN Gone(p)' ELSE Linked(p)'
  <2>1. asked'[p].expands = asked[p].expands
    BY DEF SameTree
  <2>2. CASE path[p] = None
    <3>1. Gone(p)
      BY <1>2, <2>2 DEF TreeInv
    <3>2. Gone(p)'
      BY <1>3, <2>1, <3>1 DEF Gone, SameTree
    <3> QED
      BY <2>2, <3>2 DEF SameTree
  <2>3. CASE path[p] # None
    <3>1. Linked(p)
      BY <1>2, <2>3 DEF TreeInv
    <3>2. path'[p].child = Expanded(p, 1)'
      BY <2>1, <2>3, <3>1 DEF Linked, Expanded, SameTree
    <3>3. ASSUME NEW i \in DOMAIN asked'[p].expands
          PROVE  /\ path'[asked'[p].expands[i]] # None
                 /\ path'[asked'[p].expands[i]].sibling = Expanded(p, i + 1)'
      <4> DEFINE q == asked[p].expands[i]
      <4>1. q \in Paths /\ path[q] # None /\ path[q].sibling = Expanded(p, i + 1)
        BY <1>3, <2>1, <3>1 DEF Linked
      <4>2. asked'[p].expands[i] = q
        BY <2>1
      <4>3. path'[q] # None /\ path'[q].sibling = path[q].sibling
        BY <4>1 DEF SameTree
      <4>4. Expanded(p, i + 1)' = Expanded(p, i + 1)
        BY <2>1 DEF Expanded
      <4> QED
        BY <4>1, <4>2, <4>3, <4>4
    <3>4. Linked(p)'
      BY <3>2, <3>3 DEF Linked
    <3> QED
      BY <2>3, <3>4 DEF SameTree
  <2> QED
    BY <2>2, <2>3
<1>6. ASSUME NEW q \in Paths, path'[q] # None, Lone(q)' PROVE path'[q].sibling = None
  <2>1. Lone(q)
    BY <1>6 DEF Lone, SameTree
  <2>2. path[q] # None
    BY <1>6 DEF SameTree
  <2> QED
    BY <1>2, <2>1, <2>2 DEF TreeInv, SameTree
<1> QED
  BY <1>4, <1>5, <1>6 DEF TreeInv

\* The type of a sequence with one more element.
LEMMA AppendIsTyped ==
    ASSUME NEW T, NEW s \in Seq(T), NEW x \in T
    PROVE  Append(s, x) \in Seq(T)
OBVIOUS

\* Options and keys are no pointers.
LEMMA OptionKeepsInv ==
    ASSUME QueryIInv, NEW p \in Paths, NEW o \in DOMAIN Options, Option(p, o)
    PROVE  QueryIInv'
<1>1. QueryTypes /\ path[p] # None /\ (Once => TreeInv)
  BY DEF QueryIInv, Option, Runs
<1>2. path[p] \in Nodes /\ asked[p] \in Members
  BY <1>1, NodeFacts
<1>3. [path[p] EXCEPT !.options = Append(@, o)] \in Nodes
  <2>1. Append(path[p].options, o) \in Seq(DOMAIN Options)
    BY <1>2, AppendIsTyped DEF Nodes
  <2> QED
    BY <1>2, <2>1 DEF Nodes
<1>4. [asked[p] EXCEPT !.options = Append(@, o)] \in Members
  <2>1. Append(asked[p].options, o) \in Seq(DOMAIN Options)
    BY <1>2, AppendIsTyped DEF Members
  <2> QED
    BY <1>2, <2>1 DEF Members
<1>5. /\ path' = [path EXCEPT ![p] = [path[p] EXCEPT !.options = Append(@, o)]]
      /\ asked' = [asked EXCEPT ![p] = [asked[p] EXCEPT !.options = Append(@, o)]]
  BY DEF Option
<1>6. QueryTypes'
  BY <1>1, <1>3, <1>4, <1>5 DEF QueryTypes
<1>7. SameTree
  <2> SUFFICES ASSUME NEW x \in Paths
               PROVE  /\ path'[x] = None <=> path[x] = None
                      /\ path[x] # None => path'[x].child = path[x].child /\ path'[x].sibling = path[x].sibling
                      /\ asked'[x].expands = asked[x].expands
    BY DEF SameTree, Option
  <2>1. CASE x # p
    BY <1>1, <1>5, <2>1 DEF QueryTypes
  <2>2. CASE x = p
    <3>1. path'[x] = [path[p] EXCEPT !.options = Append(@, o)] /\ asked'[x] = [asked[p] EXCEPT !.options = Append(@, o)]
      BY <1>1, <1>5, <2>2 DEF QueryTypes
    <3>2. path'[x] # None
      BY <1>3, <3>1, NoneAssumption
    <3> QED
      BY <1>1, <1>2, <2>2, <3>1, <3>2 DEF Nodes, Members
  <2> QED
    BY <2>1, <2>2
<1> QED
  BY <1>1, <1>6, <1>7, SameTreeKeepsInv DEF QueryIInv

LEMMA KeyKeepsInv ==
    ASSUME QueryIInv, NEW p \in Paths, Key(p)
    PROVE  QueryIInv'
<1>1. QueryTypes /\ path[p] # None /\ (Once => TreeInv)
  BY DEF QueryIInv, Key, Runs
<1>2. path[p] \in Nodes /\ asked[p] \in Members
  BY <1>1, NodeFacts
<1>3. [path[p] EXCEPT !.resource = Append(@, "key")] \in Nodes
  <2>1. Append(path[p].resource, "key") \in Seq(Paths \cup {"key"})
    BY <1>2, AppendIsTyped DEF Nodes
  <2> QED
    BY <1>2, <2>1 DEF Nodes
<1>4. [asked[p] EXCEPT !.keys = @ + 1] \in Members
  BY <1>2 DEF Members
<1>5. /\ path' = [path EXCEPT ![p] = [path[p] EXCEPT !.resource = Append(@, "key")]]
      /\ asked' = [asked EXCEPT ![p] = [asked[p] EXCEPT !.keys = @ + 1]]
  BY DEF Key
<1>6. QueryTypes'
  BY <1>1, <1>3, <1>4, <1>5 DEF QueryTypes
<1>7. SameTree
  <2> SUFFICES ASSUME NEW x \in Paths
               PROVE  /\ path'[x] = None <=> path[x] = None
                      /\ path[x] # None => path'[x].child = path[x].child /\ path'[x].sibling = path[x].sibling
                      /\ asked'[x].expands = asked[x].expands
    BY DEF SameTree, Key
  <2>1. CASE x # p
    BY <1>1, <1>5, <2>1 DEF QueryTypes
  <2>2. CASE x = p
    <3>1. path'[x] = [path[p] EXCEPT !.resource = Append(@, "key")] /\ asked'[x] = [asked[p] EXCEPT !.keys = @ + 1]
      BY <1>1, <1>5, <2>2 DEF QueryTypes
    <3>2. path'[x] # None
      BY <1>3, <3>1, NoneAssumption
    <3> QED
      BY <1>1, <1>2, <2>2, <3>1, <3>2 DEF Nodes, Members
  <2> QED
    BY <2>1, <2>2
<1> QED
  BY <1>1, <1>6, <1>7, SameTreeKeepsInv DEF QueryIInv

\* Sorting options keeps their type.
LEMMA OrderedIsTyped ==
    ASSUME NEW options \in Seq(DOMAIN Options), NEW s \in Ordered(options)
    PROVE  s \in Seq(DOMAIN Options)
<1>1. PICK f \in [DOMAIN options -> DOMAIN options] : s = [i \in DOMAIN options |-> options[f[i]]]
  BY DEF Ordered
<1>2. DOMAIN options = 1 .. Len(options) /\ Len(options) \in Nat
  OBVIOUS
<1>3. \A i \in 1 .. Len(options) : options[f[i]] \in DOMAIN Options
  BY <1>2
<1>4. s \in [1 .. Len(options) -> DOMAIN Options]
  BY <1>1, <1>2, <1>3
<1> QED
  BY <1>2, <1>4

\* Evaluating a builder sorts options, and ends.
LEMMA EvaluateKeepsInv ==
    ASSUME QueryIInv, NEW r \in Roots, Evaluate(r)
    PROVE  QueryIInv'
<1>1. QueryTypes /\ path[r] # None /\ (Once => TreeInv) /\ asked' = asked
  BY DEF QueryIInv, Evaluate, Runs
<1>2. CASE UNCHANGED path
  <2>1. QueryTypes'
    BY <1>1, <1>2 DEF QueryTypes
  <2>2. ASSUME Once' PROVE TreeInv'
    <3>1. Once
      BY <1>1, <2>2 DEF Once, ExpandedAs
    <3>2. TreeInv
      BY <1>1, <3>1
    <3>3. UNCHANGED outcome
      BY <1>1, <3>1, <3>2, RootsAreSafe DEF Evaluate
    <3> QED
      BY <1>1, <1>2, <3>2, <3>3 DEF TreeInv, Gone, Linked, Lone, Expanded
  <2> QED
    BY <2>1, <2>2 DEF QueryIInv
<1>3. CASE ~ UNCHANGED path
  <2> DEFINE visited == {r} \cup Beneath(r)
  <2>1. /\ UNCHANGED outcome
        /\ \A p \in Beneath(r) : path[p] # None
        /\ \E orders \in [visited -> UNION {Ordered(path[p].options) : p \in visited}] :
              /\ \A p \in visited : orders[p] \in Ordered(path[p].options)
              /\ path' = [p \in Paths |-> IF p \in visited THEN [path[p] EXCEPT !.options = orders[p]] ELSE path[p]]
    BY <1>3 DEF Evaluate
  <2>2. PICK orders : /\ \A p \in visited : orders[p] \in Ordered(path[p].options)
                      /\ path' = [p \in Paths |-> IF p \in visited THEN [path[p] EXCEPT !.options = orders[p]] ELSE path[p]]
    BY <2>1
  <2>3. ASSUME NEW p \in visited, p \in Paths
        PROVE  [path[p] EXCEPT !.options = orders[p]] \in Nodes /\ path[p] \in Nodes /\ path[p] # None
    <3>1. path[p] # None
      BY <1>1, <2>1
    <3>2. path[p] \in Nodes
      BY <1>1, <2>3, <3>1, NodeFacts
    <3>3. orders[p] \in Seq(DOMAIN Options)
      BY <2>2, <3>2, OrderedIsTyped DEF Nodes
    <3> QED
      BY <3>1, <3>2, <3>3 DEF Nodes
  <2> HIDE DEF visited
  <2>4. path' \in [Paths -> Nodes \cup {None}]
    BY <1>1, <2>2, <2>3 DEF QueryTypes
  <2>5. SameTree
    <3> SUFFICES ASSUME NEW x \in Paths
                 PROVE  /\ path'[x] = None <=> path[x] = None
                        /\ path[x] # None => path'[x].child = path[x].child /\ path'[x].sibling = path[x].sibling
                        /\ asked'[x].expands = asked[x].expands
      BY <2>1 DEF SameTree
    <3>1. CASE x \notin visited
      BY <1>1, <2>2, <3>1
    <3>2. CASE x \in visited
      <4>1. path'[x] = [path[x] EXCEPT !.options = orders[x]]
        BY <2>2, <3>2
      <4>2. path[x] \in Nodes /\ path[x] # None /\ path'[x] # None
        BY <2>3, <3>2, <4>1, NoneAssumption
      <4> QED
        BY <1>1, <4>1, <4>2 DEF Nodes
    <3> QED
      BY <3>1, <3>2
  <2> QED
    BY <1>1, <2>4, <2>5, SameTreeKeepsInv DEF QueryIInv, QueryTypes
<1> QED
  BY <1>2, <1>3

\* The path that is expanded is put before those that were; where it had been
\* expanded before, Once does not hold afterwards.
LEMMA ExpandKeepsInv ==
    ASSUME QueryIInv, NEW p \in Paths, NEW q \in Branches, Expand(p, q)
    PROVE  QueryIInv'
<1>0. q \in Paths
  BY DEF Paths
<1>1. /\ QueryTypes /\ path[p] # None /\ path[q] # None /\ (Once => TreeInv)
      /\ path' = [path EXCEPT ![q].sibling = path[p].child, ![p].child = q]
      /\ asked' = [asked EXCEPT ![p].expands = <<q>> \o @]
      /\ outcome' = outcome
  BY DEF QueryIInv, Expand, MayExpand, Runs
<1>2. path[p] \in Nodes /\ path[q] \in Nodes /\ asked[p] \in Members
  BY <1>0, <1>1, NodeFacts
\* What the path and the list are afterwards.
<1>3. \A x \in Paths : path[x] # None => path'[x] \in Nodes
  <2> SUFFICES ASSUME NEW x \in Paths, path[x] # None PROVE path'[x] \in Nodes
    OBVIOUS
  <2>1. path[x] \in Nodes
    BY <1>1, NodeFacts
  <2> QED
    BY <1>0, <1>1, <1>2, <2>1 DEF QueryTypes, Nodes
<1>4. \A x \in Paths : x # p /\ x # q => path'[x] = path[x]
  BY <1>0, <1>1 DEF QueryTypes
<1>5. path'[p].child = q /\ path'[q].sibling = path[p].child
  BY <1>0, <1>1, <1>2 DEF QueryTypes, Nodes
<1>6. \A x \in Paths : x # p /\ path[x] # None => path'[x].child = path[x].child
  <2> SUFFICES ASSUME NEW x \in Paths, x # p, path[x] # None PROVE path'[x].child = path[x].child
    OBVIOUS
  <2> QED
    BY <1>0, <1>1, <1>2 DEF QueryTypes, Nodes
<1>7. \A x \in Paths : x # q /\ path[x] # None => path'[x].sibling = path[x].sibling
  <2> SUFFICES ASSUME NEW x \in Paths, x # q, path[x] # None PROVE path'[x].sibling = path[x].sibling
    OBVIOUS
  <2> QED
    BY <1>0, <1>1, <1>2 DEF QueryTypes, Nodes
<1>8. \A x \in Paths : path'[x] = None <=> path[x] = None
  BY <1>1, <1>2, <1>3, <1>4, NoneAssumption
<1> DEFINE old == asked[p].expands
           new == asked'[p].expands
<1>9. /\ old \in Seq(Branches) /\ new = <<q>> \o old
      /\ \A x \in Paths : x # p => asked'[x] = asked[x]
      /\ asked'[p] \in Members
  <2>1. old \in Seq(Branches)
    BY <1>2 DEF Members
  <2>2. <<q>> \o old \in Seq(Branches)
    BY <2>1
  <2>3. asked'[p] = [asked[p] EXCEPT !.expands = <<q>> \o old]
    BY <1>1 DEF QueryTypes
  <2>4. asked'[p].expands = <<q>> \o old
    BY <1>2, <2>3 DEF Members
  <2>5. asked'[p] \in Members
    BY <1>2, <2>2, <2>3 DEF Members
  <2> QED
    BY <1>1, <2>1, <2>4, <2>5 DEF QueryTypes
<1>10. /\ DOMAIN new = 1 .. Len(old) + 1 /\ DOMAIN old = 1 .. Len(old) /\ Len(old) \in Nat
       /\ new[1] = q
       /\ \A i \in 1 .. Len(old) : new[i + 1] = old[i]
       /\ \A i \in 2 .. Len(old) + 1 : new[i] = old[i - 1] /\ i - 1 \in DOMAIN old
  <2> HIDE DEF old, new
  <2> QED
    BY <1>9
<1> HIDE DEF old, new
<1>11. QueryTypes'
  <2>1. path' \in [Paths -> Nodes \cup {None}]
    <3>1. DOMAIN path' = Paths /\ path' = [x \in Paths |-> path'[x]]
      BY <1>1 DEF QueryTypes
    <3>2. \A x \in Paths : path'[x] \in Nodes \cup {None}
      BY <1>3, <1>8
    <3> QED
      BY <3>1, <3>2
  <2>2. asked' \in [Paths -> Members]
    <3>1. asked' = [x \in Paths |-> asked'[x]]
      BY <1>1 DEF QueryTypes
    <3>2. \A x \in Paths : asked'[x] \in Members
      BY <1>1, <1>9 DEF QueryTypes
    <3> QED
      BY <3>1, <3>2
  <2> QED
    BY <2>1, <2>2 DEF QueryTypes
<1>12. ASSUME Once' PROVE TreeInv'
  \* What was expanded before is, one place later from p.
  <2>1. \A x \in Paths, y \in Branches : \A i \in Nat \ {0} :
           ExpandedAs(x, i, y) => ExpandedAs(x, IF x = p THEN i + 1 ELSE i, y)'
    <3> SUFFICES ASSUME NEW x \in Paths, NEW y \in Branches, NEW i \in Nat \ {0}, ExpandedAs(x, i, y)
                 PROVE  ExpandedAs(x, IF x = p THEN i + 1 ELSE i, y)'
      OBVIOUS
    <3>1. CASE x = p
      <4>1. i \in 1 .. Len(old) /\ old[i] = y
        BY <1>10, <3>1 DEF ExpandedAs, old
      <4>2. i + 1 \in DOMAIN new /\ new[i + 1] = y
        BY <1>10, <4>1
      <4> QED
        BY <3>1, <4>2 DEF ExpandedAs, new
    <3>2. CASE x # p
      BY <1>9, <3>2 DEF ExpandedAs
    <3> QED
      BY <3>1, <3>2
  <2>2. \A x \in Paths : \A i \in DOMAIN asked[x].expands :
           i \in Nat \ {0} /\ asked[x].expands[i] \in Branches /\ ExpandedAs(x, i, asked[x].expands[i])
    <3> SUFFICES ASSUME NEW x \in Paths, NEW i \in DOMAIN asked[x].expands
                 PROVE  i \in Nat \ {0} /\ asked[x].expands[i] \in Branches
      BY DEF ExpandedAs
    <3>1. asked[x].expands \in Seq(Branches)
      BY <1>1 DEF QueryTypes, Members
    <3> QED
      BY <3>1
  <2>3. Once
    <3> SUFFICES ASSUME NEW x \in Paths, NEW z \in Paths, NEW y \in Branches, NEW i \in Nat, NEW j \in Nat,
                        ExpandedAs(x, i, y), ExpandedAs(z, j, y)
                 PROVE  x = z /\ i = j
      BY DEF Once
    <3>1. i # 0 /\ j # 0
      BY <2>2 DEF ExpandedAs
    <3> DEFINE k == IF x = p THEN i + 1 ELSE i
               l == IF z = p THEN j + 1 ELSE j
    <3>2. k \in Nat /\ l \in Nat /\ ExpandedAs(x, k, y)' /\ ExpandedAs(z, l, y)'
      BY <2>1, <3>1
    <3> HIDE DEF k, l
    <3>3. x = z /\ k = l
      BY <1>12, <3>2 DEF Once
    <3> QED
      BY <3>3 DEF k, l
  <2>4. TreeInv
    BY <1>1, <2>3
  \* So q was expanded for the first time.
  <2>5. ExpandedAs(p, 1, q)'
    BY <1>10 DEF ExpandedAs, new
  <2>6. \A x \in Paths : \A i \in DOMAIN asked[x].expands : asked[x].expands[i] # q
    <3> SUFFICES ASSUME NEW x \in Paths, NEW i \in DOMAIN asked[x].expands, asked[x].expands[i] = q
                 PROVE  FALSE
      OBVIOUS
    <3>1. i \in Nat \ {0} /\ ExpandedAs(x, i, q)
      BY <2>2
    <3> DEFINE k == IF x = p THEN i + 1 ELSE i
    <3>2. k \in Nat /\ ExpandedAs(x, k, q)' /\ (x = p => k # 1)
      BY <2>1, <3>1
    <3> HIDE DEF k
    <3>3. x = p /\ k = 1
      BY <1>12, <2>5, <3>2 DEF Once
    <3> QED
      BY <3>2, <3>3
  <2>7. ASSUME NEW x \in Paths, path[x] # None, NEW i \in DOMAIN asked[x].expands
        PROVE  /\ path'[asked[x].expands[i]] # None
               /\ path'[asked[x].expands[i]].sibling = Expanded(x, i + 1)
    <3> DEFINE y == asked[x].expands[i]
    <3>1. Linked(x)
      BY <2>4, <2>7 DEF TreeInv
    <3>2. path[y] # None /\ path[y].sibling = Expanded(x, i + 1)
      BY <3>1 DEF Linked
    <3>3. y \in Paths /\ y # q
      BY <2>2, <2>6 DEF Paths
    <3> QED
      BY <1>7, <1>8, <3>2, <3>3
  <2>8. ASSUME NEW x \in Paths PROVE IF path'[x] = None THEN Gone(x)' ELSE Linked(x)'
    <3>1. CASE path[x] = None
      <4>1. Gone(x) /\ x # p
        BY <1>1, <2>4, <3>1 DEF TreeInv
      <4>2. \A i \in DOMAIN asked[x].expands : path'[asked[x].expands[i]] = None
        BY <1>8, <2>2, <4>1 DEF Gone, Paths
      <4>3. Gone(x)'
        BY <1>9, <4>1, <4>2 DEF Gone
      <4> QED
        BY <1>8, <3>1, <4>3
    <3>2. CASE path[x] # None /\ x # p
      <4>1. asked'[x] = asked[x]
        BY <1>9, <3>2
      <4>2. Linked(x)
        BY <2>4, <3>2 DEF TreeInv
      <4>3. \A i : Expanded(x, i)' = Expanded(x, i)
        BY <4>1 DEF Expanded
      <4>4. path'[x].child = Expanded(x, 1)'
        BY <1>6, <3>2, <4>2, <4>3 DEF Linked
      <4>5. Linked(x)'
        BY <2>7, <3>2, <4>1, <4>3, <4>4 DEF Linked
      <4> QED
        BY <1>8, <3>2, <4>5
    <3>3. CASE x = p
      <4>1. Linked(p)
        BY <1>1, <2>4 DEF TreeInv
      <4>2. Expanded(p, 1)' = q
        BY <1>10 DEF Expanded, new
      <4>3. \A i \in Nat \ {0} : Expanded(p, i + 1)' = Expanded(p, i)
        <5> SUFFICES ASSUME NEW i \in Nat \ {0} PROVE Expanded(p, i + 1)' = Expanded(p, i)
          OBVIOUS
        <5>1. (i + 1 \in DOMAIN new <=> i \in DOMAIN old) /\ (i \in DOMAIN old => new[i + 1] = old[i])
          BY <1>10
        <5> QED
          BY <5>1 DEF Expanded, new, old
      <4>4. path'[p].child = Expanded(p, 1)'
        BY <1>5, <4>2
      <4>5. ASSUME NEW i \in DOMAIN asked'[p].expands
            PROVE  path'[asked'[p].expands[i]] # None /\ path'[asked'[p].expands[i]].sibling = Expanded(p, i + 1)'
        <5>1. i \in 1 .. Len(old) + 1 /\ Len(old) \in Nat
          BY <1>10, <4>5 DEF new
        <5>2. CASE i = 1
          <6>1. asked'[p].expands[i] = q
            BY <1>10, <5>2 DEF new
          <6>2. Expanded(p, i + 1)' = path[p].child
            BY <4>1, <4>3, <5>2 DEF Linked
          <6> QED
            BY <1>0, <1>1, <1>5, <1>8, <6>1, <6>2
        <5>3. CASE i # 1
          <6>1. i \in 2 .. Len(old) + 1 /\ i - 1 \in Nat \ {0} /\ (i - 1) + 1 = i
            BY <5>1, <5>3
          <6>2. i - 1 \in DOMAIN asked[p].expands /\ asked'[p].expands[i] = asked[p].expands[i - 1]
            BY <1>10, <6>1 DEF old, new
          <6>3. path'[asked[p].expands[i - 1]] # None /\ path'[asked[p].expands[i - 1]].sibling = Expanded(p, i)
            BY <1>1, <2>7, <6>1, <6>2
          <6>4. Expanded(p, i + 1)' = Expanded(p, i)
            BY <4>3, <5>1
          <6> QED
            BY <6>2, <6>3, <6>4
        <5> QED
          BY <5>2, <5>3
      <4>6. Linked(p)'
        BY <4>4, <4>5 DEF Linked
      <4> QED
        BY <1>1, <1>8, <3>3, <4>6
    <3> QED
      BY <3>1, <3>2, <3>3
  <2>9. ASSUME NEW x \in Paths, path'[x] # None, Lone(x)' PROVE path'[x].sibling = None
    <3>1. x # q
      BY <2>5, <2>9 DEF Lone, ExpandedAs
    <3>2. Lone(x)
      <4> SUFFICES ASSUME NEW y \in Paths, NEW i \in DOMAIN asked[y].expands, asked[y].expands[i] = x
                   PROVE  FALSE
        BY DEF Lone
      <4>1. i \in Nat \ {0} /\ x \in Branches /\ ExpandedAs(y, i, x)
        BY <2>2
      <4> QED
        BY <2>1, <2>9, <4>1 DEF Lone, ExpandedAs
    <3> QED
      BY <1>7, <1>8, <2>4, <2>9, <3>1, <3>2 DEF TreeInv
  <2> QED
    BY <1>1, <2>4, <2>8, <2>9 DEF TreeInv
<1> QED
  BY <1>11, <1>12 DEF QueryIInv

\* A builder deletes the paths expanded from p exactly where it deletes p: each
\* of them is owned by the one before it, and the first by p.
LEMMA FreedTogether ==
    ASSUME QueryTypes, TreeInv, Once, NEW r \in Roots, path[r] # None,
           NEW p \in Paths, path[p] # None, NEW i \in DOMAIN asked[p].expands
    PROVE  p \in Freed(r) <=> asked[p].expands[i] \in Freed(r)
<1> DEFINE n == Len(asked[p].expands)
           q(k) == asked[p].expands[k]
<1>1. /\ r \in Paths /\ n \in Nat /\ DOMAIN asked[p].expands = 1 .. n
      /\ \A k \in 1 .. n : q(k) \in Branches /\ q(k) \in Paths /\ q(k) # None /\ q(k) # r /\ ExpandedAs(p, k, q(k))
  <2>1. asked[p].expands \in Seq(Branches)
    BY DEF QueryTypes, Members
  <2> QED
    BY <2>1, PathsAssumption, NoneAssumption DEF Paths, ExpandedAs
<1>2. Linked(p)
  BY DEF TreeInv
\* Each of them is owned by p or the one before.
<1>3. \A k \in 1 .. n : q(k) \in Owned(IF k = 1 THEN p ELSE q(k - 1))
  <2> SUFFICES ASSUME NEW k \in 1 .. n PROVE q(k) \in Owned(IF k = 1 THEN p ELSE q(k - 1))
    OBVIOUS
  <2>1. CASE k = 1
    BY <1>1, <1>2, <2>1 DEF Linked, Expanded, Owned
  <2>2. CASE k # 1
    <3>1. k - 1 \in 1 .. n /\ (k - 1) + 1 = k
      BY <1>1, <2>2
    <3>2. path[q(k - 1)] # None /\ path[q(k - 1)].sibling = Expanded(p, (k - 1) + 1)
      BY <1>1, <1>2, <3>1 DEF Linked
    <3>3. path[q(k - 1)].sibling = q(k)
      BY <1>1, <3>1, <3>2 DEF Expanded
    <3> QED
      BY <1>1, <2>2, <3>2, <3>3 DEF Owned
  <2> QED
    BY <2>1, <2>2
<1>4. \A x \in Paths : x \in Freed(r) => Owned(x) \subseteq Freed(r)
  <2> SUFFICES ASSUME NEW x \in Paths, x \in Freed(r) PROVE Owned(x) \subseteq Freed(r)
    OBVIOUS
  <2>1. CASE x = r
    <3>1. Owned(r) \subseteq Paths
      BY <1>1, OwnedAreBranches
    <3> QED
      BY <2>1, <3>1, ReachHas DEF Freed, Beneath
  <2>2. CASE x \in Beneath(r)
    BY <1>1, <2>2, BeneathIsClosed DEF Freed
  <2> QED
    BY <2>1, <2>2 DEF Freed
\* Who owns one of what is freed is freed.
<1>5. \A x \in Paths, y \in Branches : y \in Owned(x) /\ y \in Freed(r) => x \in Freed(r)
  <2> SUFFICES ASSUME NEW x \in Paths, NEW y \in Branches, y \in Owned(x), y \in Freed(r) PROVE x \in Freed(r)
    OBVIOUS
  <2>1. y \in Beneath(r)
    BY PathsAssumption DEF Freed
  <2>2. Owned(r) \subseteq Paths /\ \A z \in Paths : Owned(z) \subseteq Paths
    BY <1>1, OwnedAreBranches
  <2>3. y \in Owned(r) \/ \E z \in Beneath(r) : y \in Owned(z)
    BY <2>1, <2>2, Entered DEF Beneath
  <2>4. Beneath(r) \subseteq Paths
    BY <1>1, BeneathAreBranches
  <2> QED
    BY <1>1, <2>3, <2>4, OneOwner DEF Freed
<1>6. \A k \in 1 .. n : (IF k = 1 THEN p ELSE q(k - 1)) \in Paths
  <2> SUFFICES ASSUME NEW k \in 1 .. n, k # 1 PROVE k - 1 \in 1 .. n
    BY <1>1
  <2> QED
    BY <1>1
<1>7. \A k \in 1 .. n : q(k) \in Freed(r) <=> (IF k = 1 THEN p ELSE q(k - 1)) \in Freed(r)
  BY <1>1, <1>3, <1>4, <1>5, <1>6
<1> DEFINE Bad == {k \in Nat : k \in 1 .. n /\ ~ (p \in Freed(r) <=> q(k) \in Freed(r))}
<1>8. Bad = {}
  <2> SUFFICES ASSUME Bad # {} PROVE FALSE
    OBVIOUS
  <2>1. PICK k \in Bad : \A j \in Bad : k <= j
    <3>1. Bad \in SUBSET Nat
      OBVIOUS
    <3> HIDE DEF Bad
    <3> QED
      BY <3>1, Least
  <2>2. CASE k = 1
    BY <1>7, <2>1, <2>2
  <2>3. CASE k # 1
    <3>1. k - 1 \in 1 .. n /\ k - 1 \in Nat /\ k - 1 \notin Bad
      BY <1>1, <2>1, <2>3
    <3> QED
      BY <1>7, <2>1, <2>3, <3>1
  <2> QED
    BY <2>2, <2>3
<1> QED
  BY <1>1, <1>8

\* Deleting a builder deletes whole lists, and all that was expanded from them.
LEMMA DeleteKeepsInv ==
    ASSUME QueryIInv, NEW r \in Roots, Delete(r)
    PROVE  QueryIInv'
<1>1. QueryTypes /\ path[r] # None /\ (Once => TreeInv) /\ asked' = asked
  BY DEF QueryIInv, Delete, Runs
<1>2. \/ UNCHANGED path
      \/ path' = [p \in Paths |-> IF p \in Freed(r) THEN None ELSE path[p]] /\ UNCHANGED outcome
  BY DEF Delete
<1>3. QueryTypes'
  BY <1>1, <1>2 DEF QueryTypes
<1>4. ASSUME Once' PROVE TreeInv'
  <2>1. Once
    BY <1>1, <1>4 DEF Once, ExpandedAs
  <2>2. TreeInv
    BY <1>1, <2>1
  <2>3. path' = [p \in Paths |-> IF p \in Freed(r) THEN None ELSE path[p]] /\ UNCHANGED outcome
    BY <1>1, <2>1, <2>2, RootsAreSafe DEF Delete
  <2>4. \A p \in Paths : \A i \in DOMAIN asked[p].expands : asked[p].expands[i] \in Paths
    <3> SUFFICES ASSUME NEW p \in Paths, NEW i \in DOMAIN asked[p].expands PROVE asked[p].expands[i] \in Branches
      BY DEF Paths
    <3>1. asked[p].expands \in Seq(Branches)
      BY <1>1 DEF QueryTypes, Members
    <3> QED
      BY <3>1
  <2>5. ASSUME NEW p \in Paths PROVE IF path'[p] = None THEN Gone(p)' ELSE Linked(p)'
    <3>1. CASE path[p] = None
      <4>1. Gone(p)
        BY <2>2, <3>1 DEF TreeInv
      <4> QED
        BY <1>1, <2>3, <2>4, <3>1, <4>1 DEF Gone
    <3>2. CASE path[p] # None /\ p \in Freed(r)
      <4>1. \A i \in DOMAIN asked[p].expands : asked[p].expands[i] \in Freed(r)
        BY <1>1, <2>1, <2>2, <3>2, FreedTogether
      <4> QED
        BY <1>1, <2>3, <2>4, <3>2, <4>1 DEF Gone
    <3>3. CASE path[p] # None /\ p \notin Freed(r)
      <4>1. \A i \in DOMAIN asked[p].expands : asked[p].expands[i] \notin Freed(r)
        BY <1>1, <2>1, <2>2, <3>3, FreedTogether
      <4>2. Linked(p)
        BY <2>2, <3>3 DEF TreeInv
      <4> QED
        BY <1>1, <2>3, <2>4, <3>3, <4>1, <4>2 DEF Linked, Expanded
    <3> QED
      BY <3>1, <3>2, <3>3
  <2>6. ASSUME NEW q \in Paths, path'[q] # None, Lone(q)' PROVE path'[q].sibling = None
    BY <1>1, <2>2, <2>3, <2>6 DEF TreeInv, Lone
  <2> QED
    BY <2>2, <2>3, <2>5, <2>6 DEF TreeInv
<1> QED
  BY <1>3, <1>4 DEF QueryIInv

\* At the start nothing was expanded.
LEMMA QueriesStart ==
    ASSUME QueryInit
    PROVE  QueryIInv
<1>1. ASSUME NEW p \in Paths
      PROVE  /\ path[p] \in Nodes /\ path[p] # None /\ path[p].child = None /\ path[p].sibling = None
             /\ asked[p] \in Members /\ asked[p].expands = <<>>
  <2> DEFINE node == [resource |-> <<p>>, options |-> <<>>, child |-> None, sibling |-> None]
             member == [options |-> <<>>, keys |-> 0, expands |-> <<>>]
  <2>1. path[p] = node /\ asked[p] = member
    BY DEF QueryInit
  <2>2. <<p>> \in Seq(Paths \cup {"key"}) /\ <<>> \in Seq(DOMAIN Options) /\ <<>> \in Seq(Branches)
    OBVIOUS
  <2>3. node \in Nodes /\ member \in Members
    BY <2>2 DEF Nodes, Members
  <2>4. node.child = None /\ node.sibling = None /\ member.expands = <<>>
    OBVIOUS
  <2> HIDE DEF node, member
  <2> QED
    BY <2>1, <2>3, <2>4, NoneAssumption
<1>2. QueryTypes
  <2>1. path = [p \in Paths |-> path[p]] /\ asked = [p \in Paths |-> asked[p]]
    BY DEF QueryInit
  <2> QED
    BY <1>1, <2>1 DEF QueryTypes
<1>3. TreeInv
  <2>1. \A p \in Paths : DOMAIN asked[p].expands = {}
    <3>1. DOMAIN <<>> = {}
      OBVIOUS
    <3> QED
      BY <1>1, <3>1
  <2>2. outcome = "ok"
    BY DEF QueryInit
  <2>3. \A p \in Paths : Linked(p)
    BY <1>1, <2>1 DEF Linked, Expanded
  <2> QED
    BY <1>1, <2>2, <2>3 DEF TreeInv
<1> QED
  BY <1>2, <1>3 DEF QueryIInv

\* While no path was expanded twice, the pointers of every path that is not
\* deleted are the lists of what was expanded from it (expand), no program has
\* crashed or hung, and what was expanded from a path is deleted with it
\* (~odata_query_path).
THEOREM QueriesAreSound == QuerySpec => []QueryIInv
<1>1. QueryInit => QueryIInv
  BY QueriesStart
<1>2. QueryIInv /\ [QueryNext]_query_vars => QueryIInv'
  <2> SUFFICES ASSUME QueryIInv, [QueryNext]_query_vars PROVE QueryIInv'
    OBVIOUS
  <2>1. CASE UNCHANGED query_vars
    BY <2>1 DEF query_vars, QueryIInv, QueryTypes, Once, ExpandedAs, TreeInv, Gone, Linked, Expanded, Lone
  <2>2. CASE QueryNext
    BY <2>2, OptionKeepsInv, KeyKeepsInv, ExpandKeepsInv, EvaluateKeepsInv, DeleteKeepsInv DEF QueryNext
  <2> QED
    BY <2>1, <2>2
<1> QED
  BY <1>1, <1>2, PTL DEF QuerySpec

\* Where no path is expanded twice, evaluating a query ends, and deleting
\* builders deletes nothing twice, follows no pointer to what is deleted, and
\* deletes all that was expanded from what it deletes.
THEOREM TreesAreSafe == QuerySpec => []TreeIsSafe
<1>1. QueryIInv => TreeIsSafe
  <2> SUFFICES ASSUME QueryIInv, WellUsed
               PROVE  /\ outcome = "ok"
                      /\ \A e \in Expands : path[e[1]] = None => path[asked[e[1]].expands[e[2]]] = None
    BY DEF TreeIsSafe
  <2>1. TreeInv
    BY OnceUsed DEF QueryIInv
  <2>2. \A e \in Expands : e[1] \in Paths /\ e[2] \in DOMAIN asked[e[1]].expands
    BY DEF Expands
  <2> QED
    BY <2>1, <2>2 DEF TreeInv, Gone
<1> QED
  BY <1>1, QueriesAreSound, PTL

-----------------------------------------------------------------------------
(* Reading token after token *)

\* What the tokens 1, 2 .. n of s make of q.
RunOf(g, q, s, n) == g = [i \in 0 .. n |-> IF i = 0 THEN q ELSE Then(g[i - 1], s[i])]

\* What g says of its first and of its further members.
LEMMA RunSteps ==
    ASSUME NEW g, NEW q, NEW s, NEW n \in Nat, RunOf(g, q, s, n)
    PROVE  g[0] = q /\ \A i \in 1 .. n : g[i] = Then(g[i - 1], s[i])
<1>1. ASSUME NEW i \in 0 .. n PROVE g[i] = IF i = 0 THEN q ELSE Then(g[i - 1], s[i])
  BY DEF RunOf
<1>2. 0 \in 0 .. n /\ \A i \in 1 .. n : i \in 0 .. n /\ i # 0
  OBVIOUS
<1> QED
  BY <1>1, <1>2

\* There is such a function.
LEMMA RunsExist ==
    ASSUME NEW q, NEW s, NEW n \in Nat
    PROVE  \E g : RunOf(g, q, s, n)
<1> DEFINE Bad == {k \in Nat : ~ \E g : RunOf(g, q, s, k)}
<1> SUFFICES ASSUME Bad # {} PROVE FALSE
  OBVIOUS
<1>1. PICK k \in Bad : \A j \in Bad : k <= j
  BY Least
<1>2. k # 0
  <2> DEFINE z == [i \in 0 .. 0 |-> q]
  <2>1. z = [i \in 0 .. 0 |-> IF i = 0 THEN q ELSE Then(z[i - 1], s[i])]
    OBVIOUS
  <2>2. RunOf(z, q, s, 0)
    <3> HIDE DEF z
    <3> QED
      BY <2>1 DEF RunOf
  <2> QED
    BY <2>2
<1>3. k - 1 \in Nat /\ k - 1 \notin Bad
  BY <1>1, <1>2
<1>4. PICK g : RunOf(g, q, s, k - 1)
  BY <1>3
<1> DEFINE h == [i \in 0 .. k |-> IF i = k THEN Then(g[k - 1], s[k]) ELSE g[i]]
<1>5. ASSUME NEW i \in 0 .. k PROVE h[i] = IF i = 0 THEN q ELSE Then(h[i - 1], s[i])
  <2>1. CASE i = k
    <3>1. k - 1 \in 0 .. k /\ k - 1 # k /\ i # 0
      BY <1>2, <2>1
    <3>2. h[k - 1] = g[k - 1] /\ h[i] = Then(g[k - 1], s[k])
      BY <2>1, <3>1
    <3> HIDE DEF h
    <3> QED
      BY <2>1, <3>1, <3>2
  <2>2. CASE i # k
    <3>1. i \in 0 .. k - 1 /\ (i # 0 => i - 1 \in 0 .. k /\ i - 1 # k /\ i \in 1 .. k - 1)
      BY <2>2
    <3>2. g[0] = q /\ (i # 0 => g[i] = Then(g[i - 1], s[i]))
      BY <1>3, <1>4, <3>1, RunSteps
    <3>3. h[i] = g[i] /\ (i # 0 => h[i - 1] = g[i - 1])
      BY <2>2, <3>1
    <3> HIDE DEF h
    <3> QED
      BY <3>2, <3>3
  <2> QED
    BY <2>1, <2>2
<1>6. h = [i \in 0 .. k |-> IF i = 0 THEN q ELSE Then(h[i - 1], s[i])]
  <2> HIDE DEF h
  <2>1. h = [i \in 0 .. k |-> h[i]]
    BY DEF h
  <2> QED
    BY <2>1, <1>5
<1>7. RunOf(h, q, s, k)
  <2> HIDE DEF h
  <2> QED
    BY <1>6 DEF RunOf
<1> QED
  BY <1>7

\* Sequences that begin alike are read alike as far as they do.
LEMMA RunsAgree ==
    ASSUME NEW q, NEW s, NEW t, NEW m \in Nat, NEW n \in Nat, m <= n, \A i \in 1 .. m : s[i] = t[i],
           NEW g, RunOf(g, q, s, m), NEW h, RunOf(h, q, t, n)
    PROVE  g[m] = h[m]
<1> DEFINE Bad == {i \in 0 .. m : g[i] # h[i]}
<1> SUFFICES ASSUME Bad # {} PROVE FALSE
  OBVIOUS
<1>0. Bad \in SUBSET Nat
  OBVIOUS
<1>1. PICK k \in Bad : \A j \in Bad : k <= j
  <2> HIDE DEF Bad
  <2> QED
    BY <1>0, Least
<1>2. /\ g[0] = q /\ h[0] = q
      /\ \A i \in 1 .. m : g[i] = Then(g[i - 1], s[i])
      /\ \A i \in 1 .. n : h[i] = Then(h[i - 1], t[i])
  BY RunSteps
<1>3. k # 0 /\ k \in 1 .. m /\ k \in 1 .. n /\ k - 1 \in 0 .. m /\ k - 1 \notin Bad
  <2>1. k # 0
    BY <1>2
  <2> QED
    BY <1>1, <2>1
<1>4. g[k - 1] = h[k - 1] /\ s[k] = t[k]
  BY <1>3
<1>5. g[k] = h[k]
  BY <1>2, <1>3, <1>4
<1> QED
  BY <1>5

\* Run is the last of them.
LEMMA RunIsLast ==
    ASSUME NEW q, NEW s, Len(s) \in Nat, NEW g, RunOf(g, q, s, Len(s))
    PROVE  Run(q, s) = g[Len(s)]
<1> DEFINE f == CHOOSE x : x = [i \in 0 .. Len(s) |-> IF i = 0 THEN q ELSE Then(x[i - 1], s[i])]
<1>1. Run(q, s) = f[Len(s)]
  BY DEF Run
<1>2. f = CHOOSE x : RunOf(x, q, s, Len(s))
  BY DEF RunOf
<1> HIDE DEF f
<1>3. RunOf(f, q, s, Len(s))
  BY <1>2
<1> QED
  BY <1>1, <1>3, RunsAgree

\* What is read of s and then of t.
LEMMA RunConcat ==
    ASSUME NEW T, NEW s \in Seq(T), NEW t \in Seq(T), NEW q
    PROVE  Run(q, s \o t) = Run(Run(q, s), t)
<1> DEFINE m == Len(s)
           n == Len(t)
           u == s \o t
<1>1. m \in Nat /\ n \in Nat /\ u \in Seq(T) /\ Len(u) = m + n
  OBVIOUS
<1>2. (\A i \in 1 .. m : u[i] = s[i]) /\ \A i \in 1 .. n : u[m + i] = t[i]
  OBVIOUS
<1> HIDE DEF m, n, u
<1>3. PICK g : RunOf(g, q, s, m)
  BY <1>1, RunsExist
<1> DEFINE l == m + n
<1>0. l \in Nat /\ m <= l
  BY <1>1
<1> HIDE DEF l
<1>4. PICK h : RunOf(h, q, u, l)
  BY <1>0, RunsExist
<1>5. Run(q, s) = h[m]
  <2>1. Run(q, s) = g[m]
    BY <1>1, <1>3, RunIsLast DEF m
  <2>2. \A i \in 1 .. m : s[i] = u[i]
    BY <1>2
  <2> QED
    BY <1>0, <1>1, <1>3, <1>4, <2>1, <2>2, RunsAgree
<1> DEFINE f == [i \in 0 .. n |-> h[m + i]]
<1>6. ASSUME NEW i \in 0 .. n PROVE f[i] = IF i = 0 THEN h[m] ELSE Then(f[i - 1], t[i])
  <2>1. CASE i = 0
    BY <1>1, <2>1
  <2>2. CASE i # 0
    <3>1. PICK j \in 1 .. l : j = m + i /\ j - 1 = m + (i - 1)
      BY <1>1, <2>2 DEF l
    <3>2. h[j] = Then(h[j - 1], u[j])
      BY <1>0, <1>4, RunSteps
    <3>3. i \in 1 .. n /\ i - 1 \in 0 .. n
      BY <1>1, <2>2
    <3>4. f[i - 1] = h[j - 1] /\ u[j] = t[i] /\ f[i] = h[j]
      BY <1>2, <3>1, <3>3
    <3> HIDE DEF f
    <3> QED
      BY <2>2, <3>2, <3>4
  <2> QED
    BY <2>1, <2>2
<1>7. RunOf(f, h[m], t, n)
  <2> HIDE DEF f
  <2>1. f = [i \in 0 .. n |-> f[i]]
    BY DEF f
  <2>2. f = [i \in 0 .. n |-> IF i = 0 THEN h[m] ELSE Then(f[i - 1], t[i])]
    BY <1>6, <2>1
  <2> QED
    BY <2>2 DEF RunOf
<1>8. Run(h[m], t) = f[n]
  <2> HIDE DEF f
  <2> QED
    BY <1>1, <1>7, RunIsLast DEF n
<1>9. f[n] = h[l]
  BY <1>1 DEF l
<1>10. Run(q, u) = h[l]
  <2>1. Len(u) = l
    BY <1>1 DEF l
  <2> QED
    BY <1>0, <1>4, <2>1, RunIsLast
<1> QED
  BY <1>5, <1>8, <1>9, <1>10 DEF u

\* One token, or none.
LEMMA RunOne ==
    ASSUME NEW q, NEW x
    PROVE  Run(q, <<>>) = q /\ Run(q, <<x>>) = Then(q, x)
<1>1. Len(<<>>) = 0 /\ Len(<<x>>) = 1 /\ <<x>>[1] = x /\ 0 \in Nat /\ 1 \in Nat /\ 1 \in 1 .. 1 /\ 1 - 1 = 0
  OBVIOUS
<1>2. PICK g : RunOf(g, q, <<>>, 0)
  BY <1>1, RunsExist
<1>3. PICK h : RunOf(h, q, <<x>>, 1)
  BY <1>1, RunsExist
<1>4. g[0] = q
  BY <1>1, <1>2, RunSteps
<1>5. h[0] = q /\ h[1] = Then(h[0], x)
  <2>1. h[0] = q /\ \A i \in 1 .. 1 : h[i] = Then(h[i - 1], <<x>>[i])
    BY <1>1, <1>3, RunSteps
  <2> QED
    BY <1>1, <2>1
<1>6. Run(q, <<>>) = g[0] /\ Run(q, <<x>>) = h[1]
  BY <1>1, <1>2, <1>3, RunIsLast
<1> QED
  BY <1>4, <1>5, <1>6

-----------------------------------------------------------------------------
(* Parts with separators *)

JoinedOf(g, s, x, n) ==
    g = [i \in 0 .. n |-> CASE i = 0 -> <<>>
                            [] i = 1 -> s[1]
                            [] OTHER -> g[i - 1] \o <<x>> \o s[i]]

\* The part i, put behind those before it.
Behind(before, x, s, i) == IF i = 0 THEN <<>> ELSE IF i = 1 THEN s[1] ELSE before \o <<x>> \o s[i]

\* Each part of what is joined follows from the one before it.
LEMMA JoinedUnfolds ==
    ASSUME NEW g, NEW s, NEW x, NEW n
    PROVE  JoinedOf(g, s, x, n) <=> g = [i \in 0 .. n |-> Behind(g[i - 1], x, s, i)]
<1>1. \A i : (CASE i = 0 -> <<>> [] i = 1 -> s[1] [] OTHER -> g[i - 1] \o <<x>> \o s[i]) = Behind(g[i - 1], x, s, i)
  BY DEF Behind
<1> QED
  BY <1>1 DEF JoinedOf

LEMMA JoinedSteps ==
    ASSUME NEW g, NEW s, NEW x, NEW n, JoinedOf(g, s, x, n), NEW i \in 0 .. n
    PROVE  g[i] = Behind(g[i - 1], x, s, i)
<1>1. g = [j \in 0 .. n |-> Behind(g[j - 1], x, s, j)]
  BY JoinedUnfolds
<1> QED
  BY <1>1

\* Any parts can be joined.
LEMMA JoinedExist ==
    ASSUME NEW s, NEW x, NEW n \in Nat
    PROVE  \E g : JoinedOf(g, s, x, n)
<1> DEFINE Bad == {k \in Nat : ~ \E g : JoinedOf(g, s, x, k)}
<1> SUFFICES ASSUME Bad # {} PROVE FALSE
  OBVIOUS
<1>1. PICK k \in Bad : \A j \in Bad : k <= j
  BY Least
<1>2. k # 0
  <2> DEFINE z == [i \in 0 .. 0 |-> <<>>]
  <2>1. z = [i \in 0 .. 0 |-> Behind(z[i - 1], x, s, i)]
    BY DEF Behind
  <2>2. JoinedOf(z, s, x, 0)
    <3> HIDE DEF z
    <3> QED
      BY <2>1, JoinedUnfolds
  <2> QED
    BY <2>2
<1>3. k - 1 \in Nat /\ k - 1 \notin Bad
  BY <1>1, <1>2
<1>4. PICK g : JoinedOf(g, s, x, k - 1)
  BY <1>3
<1> DEFINE h == [i \in 0 .. k |-> IF i = k THEN Behind(g[k - 1], x, s, k) ELSE g[i]]
<1>5. ASSUME NEW i \in 0 .. k PROVE h[i] = Behind(h[i - 1], x, s, i)
  <2>1. CASE i = k
    <3>1. k - 1 \in 0 .. k /\ k - 1 # k
      BY <1>2, <2>1
    <3>2. h[k - 1] = g[k - 1] /\ h[i] = Behind(g[k - 1], x, s, k)
      BY <2>1, <3>1
    <3> HIDE DEF h
    <3> QED
      BY <2>1, <3>2
  <2>2. CASE i # k
    <3>1. i \in 0 .. k - 1 /\ (i # 0 => i - 1 \in 0 .. k /\ i - 1 # k)
      BY <2>2
    <3>2. g[i] = Behind(g[i - 1], x, s, i)
      BY <1>3, <1>4, <3>1, JoinedSteps
    <3>3. h[i] = g[i] /\ (i # 0 => h[i - 1] = g[i - 1])
      BY <2>2, <3>1
    <3> HIDE DEF h
    <3> QED
      BY <3>2, <3>3 DEF Behind
  <2> QED
    BY <2>1, <2>2
<1>6. h = [i \in 0 .. k |-> Behind(h[i - 1], x, s, i)]
  <2> HIDE DEF h
  <2>1. h = [i \in 0 .. k |-> h[i]]
    BY DEF h
  <2> QED
    BY <2>1, <1>5
<1>7. JoinedOf(h, s, x, k)
  <2> HIDE DEF h
  <2> QED
    BY <1>6, JoinedUnfolds
<1> QED
  BY <1>7

\* Joined is the last of a row in which each part is put behind those before it.
LEMMA JoinedIsLast ==
    ASSUME NEW s, NEW x, Len(s) \in Nat
    PROVE  \E g : JoinedOf(g, s, x, Len(s)) /\ Joined(s, x) = g[Len(s)]
<1> DEFINE f == CHOOSE g : g = [i \in 0 .. Len(s) |-> CASE i = 0 -> <<>>
                                                     [] i = 1 -> s[1]
                                                     [] OTHER -> g[i - 1] \o <<x>> \o s[i]]
<1>1. Joined(s, x) = f[Len(s)]
  BY DEF Joined
<1>2. f = CHOOSE g : JoinedOf(g, s, x, Len(s))
  BY DEF JoinedOf
<1> HIDE DEF f
<1>3. JoinedOf(f, s, x, Len(s))
  BY <1>2, JoinedExist
<1> QED
  BY <1>1, <1>3

-----------------------------------------------------------------------------
(* The grammar *)

\* What was read of a query, or of an item of an $expand.
IsAt(q, is, R, O, X, a, W) ==
    q = [is |-> is, resource |-> R, options |-> O, expands |-> X, at |-> a, within |-> W]

Tokens == Segments \cup DOMAIN Options \cup Signs

\* Each token is one thing only.
LEMMA TokensDiffer ==
    /\ \A x \in Segments : x \notin DOMAIN Options /\ x \notin Signs
    /\ \A x \in DOMAIN Options : x \notin Segments /\ x \notin Paths /\ x \notin Signs
    /\ \A x \in Signs : x \notin Segments /\ x \notin Paths /\ x \notin DOMAIN Options
    /\ Paths \subseteq Segments
BY TokensAssumption DEF Segments

\* What is no sign is none of them.
LEMMA SignsDiffer ==
    ASSUME NEW x, x \notin Signs
    PROVE  x # "?" /\ x # "(" /\ x # "$expand" /\ x # "," /\ x # "&" /\ x # ";" /\ x # ")"
BY DEF Signs

\* Its members, and what an assignment to them makes of it.
LEMMA OpenMembers ==
    ASSUME NEW q, NEW is, NEW R, NEW O, NEW X, NEW a, NEW W, IsAt(q, is, R, O, X, a, W)
    PROVE  q.is = is /\ q.resource = R /\ q.options = O /\ q.expands = X /\ q.at = a /\ q.within = W
BY DEF IsAt

Move(q, z) == [q EXCEPT !.at = z]
LEMMA Moved ==
    ASSUME NEW q, NEW is, NEW R, NEW O, NEW X, NEW a, NEW W, IsAt(q, is, R, O, X, a, W), NEW z
    PROVE  IsAt(Move(q, z), is, R, O, X, z, W)
<1> DEFINE e == [q EXCEPT !.at = z]
<1>1. q.is = is /\ q.resource = R /\ q.options = O /\ q.expands = X /\ q.at = a /\ q.within = W
  BY OpenMembers
<1>2. DOMAIN q = {"is", "resource", "options", "expands", "at", "within"}
  BY DEF IsAt
<1>3. q = [m \in {"is", "resource", "options", "expands", "at", "within"} |-> q[m]]
  BY DEF IsAt
<1>4. e = [m \in {"is", "resource", "options", "expands", "at", "within"} |-> e[m]]
  BY <1>3
<1>5. e.is = is /\ e.resource = R /\ e.options = O /\ e.expands = X /\ e.at = z /\ e.within = W
  BY <1>1, <1>2, <1>3
<1> HIDE DEF e
<1>6. e = [is |-> e.is, resource |-> e.resource, options |-> e.options,
           expands |-> e.expands, at |-> e.at, within |-> e.within]
  BY <1>4
<1>7. IsAt(e, is, R, O, X, z, W)
  BY <1>5, <1>6 DEF IsAt
<1> QED
  BY <1>7 DEF e, Move

Grow(q, y) == [q EXCEPT !.resource = y]
LEMMA Grown ==
    ASSUME NEW q, NEW is, NEW R, NEW O, NEW X, NEW a, NEW W, IsAt(q, is, R, O, X, a, W), NEW y
    PROVE  IsAt(Grow(q, y), is, y, O, X, a, W)
<1> DEFINE e == [q EXCEPT !.resource = y]
<1>1. q.is = is /\ q.resource = R /\ q.options = O /\ q.expands = X /\ q.at = a /\ q.within = W
  BY OpenMembers
<1>2. DOMAIN q = {"is", "resource", "options", "expands", "at", "within"}
  BY DEF IsAt
<1>3. q = [m \in {"is", "resource", "options", "expands", "at", "within"} |-> q[m]]
  BY DEF IsAt
<1>4. e = [m \in {"is", "resource", "options", "expands", "at", "within"} |-> e[m]]
  BY <1>3
<1>5. e.is = is /\ e.resource = y /\ e.options = O /\ e.expands = X /\ e.at = a /\ e.within = W
  BY <1>1, <1>2, <1>3
<1> HIDE DEF e
<1>6. e = [is |-> e.is, resource |-> e.resource, options |-> e.options,
           expands |-> e.expands, at |-> e.at, within |-> e.within]
  BY <1>4
<1>7. IsAt(e, is, y, O, X, a, W)
  BY <1>5, <1>6 DEF IsAt
<1> QED
  BY <1>7 DEF e, Grow

WithOptions(q, y, z) == [q EXCEPT !.options = y, !.at = z]
LEMMA HasOptions ==
    ASSUME NEW q, NEW is, NEW R, NEW O, NEW X, NEW a, NEW W, IsAt(q, is, R, O, X, a, W), NEW y, NEW z
    PROVE  IsAt(WithOptions(q, y, z), is, R, y, X, z, W)
<1> DEFINE e == [q EXCEPT !.options = y, !.at = z]
<1>1. q.is = is /\ q.resource = R /\ q.options = O /\ q.expands = X /\ q.at = a /\ q.within = W
  BY OpenMembers
<1>2. DOMAIN q = {"is", "resource", "options", "expands", "at", "within"}
  BY DEF IsAt
<1>3. q = [m \in {"is", "resource", "options", "expands", "at", "within"} |-> q[m]]
  BY DEF IsAt
<1>4. e = [m \in {"is", "resource", "options", "expands", "at", "within"} |-> e[m]]
  BY <1>3
<1>5. e.is = is /\ e.resource = R /\ e.options = y /\ e.expands = X /\ e.at = z /\ e.within = W
  BY <1>1, <1>2, <1>3
<1> HIDE DEF e
<1>6. e = [is |-> e.is, resource |-> e.resource, options |-> e.options,
           expands |-> e.expands, at |-> e.at, within |-> e.within]
  BY <1>4
<1>7. IsAt(e, is, R, y, X, z, W)
  BY <1>5, <1>6 DEF IsAt
<1> QED
  BY <1>7 DEF e, WithOptions

WithItems(q, y, z) == [q EXCEPT !.expands = y, !.at = z]
LEMMA HasItems ==
    ASSUME NEW q, NEW is, NEW R, NEW O, NEW X, NEW a, NEW W, IsAt(q, is, R, O, X, a, W), NEW y, NEW z
    PROVE  IsAt(WithItems(q, y, z), is, R, O, y, z, W)
<1> DEFINE e == [q EXCEPT !.expands = y, !.at = z]
<1>1. q.is = is /\ q.resource = R /\ q.options = O /\ q.expands = X /\ q.at = a /\ q.within = W
  BY OpenMembers
<1>2. DOMAIN q = {"is", "resource", "options", "expands", "at", "within"}
  BY DEF IsAt
<1>3. q = [m \in {"is", "resource", "options", "expands", "at", "within"} |-> q[m]]
  BY DEF IsAt
<1>4. e = [m \in {"is", "resource", "options", "expands", "at", "within"} |-> e[m]]
  BY <1>3
<1>5. e.is = is /\ e.resource = R /\ e.options = O /\ e.expands = y /\ e.at = z /\ e.within = W
  BY <1>1, <1>2, <1>3
<1> HIDE DEF e
<1>6. e = [is |-> e.is, resource |-> e.resource, options |-> e.options,
           expands |-> e.expands, at |-> e.at, within |-> e.within]
  BY <1>4
<1>7. IsAt(e, is, R, O, y, z, W)
  BY <1>5, <1>6 DEF IsAt
<1> QED
  BY <1>7 DEF e, WithItems

\* What has clauses, or is the query, is left as it is.
LEMMA LeftStays ==
    ASSUME NEW q, NEW is, NEW R, NEW O, NEW X, NEW a, NEW W, IsAt(q, is, R, O, X, a, W), a # "resource" \/ is # "item"
    PROVE  Left(q) = q
<1>1. q.at = a /\ q.is = is
  BY OpenMembers
<1> QED
  BY <1>1 DEF Left

\* A segment of the resource.
LEMMA SegmentIsRead ==
    ASSUME NEW q, NEW is, NEW R, NEW O, NEW X, NEW W, IsAt(q, is, R, O, X, "resource", W), NEW x \in Segments
    PROVE  IsAt(Then(q, x), is, Append(R, x), O, X, "resource", W)
<1>1. q.at = "resource" /\ q.resource = R
  BY OpenMembers
<1>2. x \notin DOMAIN Options /\ x \notin Signs
  BY TokensDiffer
<1>3. x # "?" /\ x # "(" /\ x # "$expand" /\ x # "," /\ x # "&" /\ x # ";" /\ x # ")"
  BY <1>2, SignsDiffer
<1> DEFINE y == Append(R, x)
<1>4. Then(q, x) = Grow(q, y)
  BY <1>1, <1>2, <1>3 DEF Then, Grow
<1> HIDE DEF y
<1>5. IsAt(Grow(q, y), is, y, O, X, "resource", W)
  BY Grown
<1> QED
  BY <1>4, <1>5 DEF y

\* An item begins.
LEMMA ItemBegins ==
    ASSUME NEW q, NEW is, NEW R, NEW O, NEW X, NEW W, IsAt(q, is, R, O, X, "items", W), NEW x \in Paths
    PROVE  IsAt(Then(q, x), "item", <<x>>, <<>>, <<>>, "resource", q)
<1>1. q.at = "items"
  BY OpenMembers
<1>2. x \notin DOMAIN Options /\ x \notin Signs
  BY TokensDiffer
<1>3. x # "?" /\ x # "(" /\ x # "$expand" /\ x # "," /\ x # "&" /\ x # ";" /\ x # ")"
  BY <1>2, SignsDiffer
<1>4. Then(q, x) = Begun("item", <<x>>, q)
  BY <1>1, <1>2, <1>3 DEF Then
<1> QED
  BY <1>4 DEF Begun, IsAt

\* The clauses begin.
Opens(is, token) == (is = "query" /\ token = "?") \/ (is = "item" /\ token = "(")
\* The sign before the clauses begins them.
LEMMA ClausesBegin ==
    ASSUME NEW q, NEW is, NEW R, NEW O, NEW X, NEW W, IsAt(q, is, R, O, X, "resource", W), NEW token, Opens(is, token)
    PROVE  IsAt(Then(q, token), is, R, O, X, "clause", W)
<1>1. q.at = "resource" /\ q.is = is
  BY OpenMembers
<1>2. token \in Signs
  BY DEF Opens, Signs
<1>3. token \notin Segments /\ token \notin Paths /\ token \notin DOMAIN Options
  BY <1>2, TokensDiffer
<1>4. Then(q, token) = Move(q, "clause")
  BY <1>1, <1>3 DEF Then, Move, Opens
<1>5. IsAt(Move(q, "clause"), is, R, O, X, "clause", W)
  BY Moved
<1> QED
  BY <1>4, <1>5

\* A clause is an option, or the $expand.
LEMMA OptionIsRead ==
    ASSUME NEW q, NEW is, NEW R, NEW O, NEW X, NEW W, IsAt(q, is, R, O, X, "clause", W), NEW x \in DOMAIN Options
    PROVE  IsAt(Then(q, x), is, R, Append(O, x), X, "option", W)
<1>1. q.at = "clause" /\ q.options = O
  BY OpenMembers
<1>2. x \notin Segments /\ x \notin Paths /\ x \notin Signs
  BY TokensDiffer
<1>3. x # "?" /\ x # "(" /\ x # "$expand" /\ x # "," /\ x # "&" /\ x # ";" /\ x # ")"
  BY <1>2, SignsDiffer
<1> DEFINE y == Append(O, x)
<1>4. Then(q, x) = WithOptions(q, y, "option")
  BY <1>1, <1>2, <1>3 DEF Then, WithOptions
<1> HIDE DEF y
<1>5. IsAt(WithOptions(q, y, "option"), is, R, y, X, "option", W)
  BY HasOptions
<1> QED
  BY <1>4, <1>5 DEF y

\* $expand begins the items.
LEMMA ExpandBegins ==
    ASSUME NEW q, NEW is, NEW R, NEW O, NEW X, NEW W, IsAt(q, is, R, O, X, "clause", W)
    PROVE  IsAt(Then(q, "$expand"), is, R, O, X, "items", W)
<1>1. q.at = "clause"
  BY OpenMembers
<1>2. "$expand" \notin Segments /\ "$expand" \notin Paths /\ "$expand" \notin DOMAIN Options
  BY TokensDiffer DEF Signs
<1>3. Then(q, "$expand") = Move(q, "items")
  BY <1>1, <1>2 DEF Then, Move
<1>4. IsAt(Move(q, "items"), is, R, O, X, "items", W)
  BY Moved
<1> QED
  BY <1>3, <1>4

\* Separators.
LEMMA CommaIsRead ==
    ASSUME NEW q, NEW is, NEW R, NEW O, NEW X, NEW W, IsAt(Left(q), is, R, O, X, "item", W)
    PROVE  IsAt(Then(q, ","), is, R, O, X, "items", W)
<1> DEFINE l == Left(q)
<1>1. l.at = "item"
  BY OpenMembers
<1>2. "," \notin Segments /\ "," \notin Paths /\ "," \notin DOMAIN Options
  BY TokensDiffer DEF Signs
<1>3. Then(q, ",") = Move(l, "items")
  <2> HIDE DEF l
  <2> QED
    BY <1>1, <1>2 DEF Then, Move, l
<1>4. IsAt(Move(l, "items"), is, R, O, X, "items", W)
  BY Moved
<1> QED
  BY <1>3, <1>4

Separates(is, separator) == (is = "query" /\ separator = "&") \/ (is = "item" /\ separator = ";")
HasClause(state) == state \in {"option", "item"}
\* The sign between clauses ends one.
LEMMA ClauseEnds ==
    ASSUME NEW q, NEW is, NEW R, NEW O, NEW X, NEW a, NEW W, IsAt(Left(q), is, R, O, X, a, W), HasClause(a),
           NEW separator, Separates(is, separator)
    PROVE  IsAt(Then(q, separator), is, R, O, X, "clause", W)
<1> DEFINE l == Left(q)
<1>1. l.at \in {"option", "item"} /\ l.is = is
  BY OpenMembers DEF HasClause
<1>2. separator \in Signs
  BY DEF Separates, Signs
<1>3. separator \notin Segments /\ separator \notin Paths /\ separator \notin DOMAIN Options
  BY <1>2, TokensDiffer
<1>4. Then(q, separator) = Move(l, "clause")
  <2> HIDE DEF l
  <2> QED
    BY <1>1, <1>3 DEF Then, Move, Separates, l
<1>5. IsAt(Move(l, "clause"), is, R, O, X, "clause", W)
  BY Moved
<1> QED
  BY <1>4, <1>5

\* An item that has ended is the last of what it is within.
Tree(resource, options, expands) == [resource |-> resource, options |-> options, expands |-> expands]
\* An item that ends is one of those it is within.
LEMMA ItemEnds ==
    ASSUME NEW w, NEW is, NEW R, NEW O, NEW X, NEW W, IsAt(w, is, R, O, X, "items", W),
           NEW q, NEW S, NEW P, NEW Y, NEW a, IsAt(q, "item", S, P, Y, a, w)
    PROVE  IsAt(EndedItem(q), is, R, O, Append(X, Tree(S, P, Y)), "item", W)
<1>1. q.within = w /\ q.resource = S /\ q.options = P /\ q.expands = Y
  BY OpenMembers
<1>2. w.expands = X
  BY OpenMembers
<1>3. What(q) = Tree(S, P, Y)
  BY <1>1 DEF What, Tree
<1> DEFINE y == Append(X, Tree(S, P, Y))
<1>4. EndedItem(q) = WithItems(w, y, "item")
  BY <1>1, <1>2, <1>3 DEF EndedItem, WithItems
<1> HIDE DEF y
<1>5. IsAt(WithItems(w, y, "item"), is, R, O, y, "item", W)
  BY HasItems
<1> QED
  BY <1>4, <1>5 DEF y

\* An item with clauses ends with them.
LEMMA ItemCloses ==
    ASSUME NEW q, NEW R, NEW O, NEW X, NEW a, NEW W, IsAt(Left(q), "item", R, O, X, a, W), HasClause(a)
    PROVE  Then(q, ")") = EndedItem(Left(q))
<1> DEFINE l == Left(q)
<1>1. l.at \in {"option", "item"} /\ l.is = "item"
  BY OpenMembers DEF HasClause
<1>2. ")" \notin Segments /\ ")" \notin Paths /\ ")" \notin DOMAIN Options
  BY TokensDiffer DEF Signs
<1> HIDE DEF l
<1> QED
  BY <1>1, <1>2 DEF Then, l

\* The first k elements of a sequence, and one more.
LEMMA OneMore ==
    ASSUME NEW T, NEW t \in Seq(T)
    PROVE  /\ SubSeq(t, 1, 0) = <<>> /\ SubSeq(t, 1, Len(t)) = t
           /\ \A k \in 1 .. Len(t) : Append(SubSeq(t, 1, k - 1), t[k]) = SubSeq(t, 1, k)
<1>1. ASSUME NEW k \in 0 .. Len(t)
      PROVE  SubSeq(t, 1, k) \in Seq(T) /\ Len(SubSeq(t, 1, k)) = k /\ \A i \in 1 .. k : SubSeq(t, 1, k)[i] = t[i]
  OBVIOUS
<1>2. SubSeq(t, 1, 0) = <<>>
  BY <1>1
<1>3. SubSeq(t, 1, Len(t)) = t
  <2>1. Len(t) \in 0 .. Len(t)
    OBVIOUS
  <2> DEFINE s == SubSeq(t, 1, Len(t))
  <2>2. s \in Seq(T) /\ Len(s) = Len(t) /\ \A i \in 1 .. Len(t) : s[i] = t[i]
    BY <1>1, <2>1
  <2> HIDE DEF s
  <2>3. s = t
    BY <2>2, SeqEqual
  <2> QED
    BY <2>3 DEF s
<1>4. ASSUME NEW k \in 1 .. Len(t) PROVE Append(SubSeq(t, 1, k - 1), t[k]) = SubSeq(t, 1, k)
  <2> DEFINE s == SubSeq(t, 1, k)
             p == SubSeq(t, 1, k - 1)
  <2>1. s \in Seq(T) /\ Len(s) = k /\ \A i \in 1 .. k : s[i] = t[i]
    BY <1>1
  <2>2. p \in Seq(T) /\ Len(p) = k - 1 /\ \A i \in 1 .. k - 1 : p[i] = t[i]
    BY <1>1
  <2>3. t[k] \in T
    OBVIOUS
  <2> HIDE DEF s, p
  <2> DEFINE a == Append(p, t[k])
  <2>4. a \in Seq(T) /\ Len(a) = k /\ \A i \in 1 .. k : a[i] = t[i]
    BY <2>2, <2>3
  <2> HIDE DEF a
  <2>5. a = s
    BY <2>1, <2>4, SeqEqual
  <2> QED
    BY <2>5 DEF a, s, p
<1> QED
  BY <1>2, <1>3, <1>4

\* A resource is read segment by segment.
LEMMA ResourceIsRead ==
    ASSUME NEW q, NEW is, NEW R \in Seq(Segments), NEW O, NEW X, NEW W, IsAt(q, is, R, O, X, "resource", W),
           NEW t \in Seq(Segments)
    PROVE  IsAt(Run(q, t), is, R \o t, O, X, "resource", W)
<1> DEFINE n == Len(t)
           upto(k) == R \o SubSeq(t, 1, k)
<1>0. n \in Nat
  OBVIOUS
<1> HIDE DEF n
<1>1. PICK g : RunOf(g, q, t, n)
  BY <1>0, RunsExist
<1>2. g[0] = q /\ \A i \in 1 .. n : g[i] = Then(g[i - 1], t[i])
  BY <1>0, <1>1, RunSteps
<1>3. upto(0) = R /\ upto(n) = R \o t
  BY OneMore DEF n
<1>4. ASSUME NEW k \in 1 .. n PROVE upto(k) = Append(upto(k - 1), t[k])
  <2> DEFINE p == SubSeq(t, 1, k - 1)
  <2>1. SubSeq(t, 1, k) = Append(p, t[k])
    BY OneMore DEF n
  <2>2. p \in Seq(Segments) /\ t[k] \in Segments
    BY DEF n
  <2> HIDE DEF p
  <2>3. R \o Append(p, t[k]) = Append(R \o p, t[k])
    BY <2>2
  <2> QED
    BY <2>1, <2>3 DEF p
<1> HIDE DEF upto
<1> DEFINE Read(i) == IsAt(g[i], is, upto(i), O, X, "resource", W)
           Bad == {i \in 0 .. n : ~ Read(i)}
<1>5. Bad = {}
  <2> SUFFICES ASSUME Bad # {} PROVE FALSE
    OBVIOUS
  <2>1. Bad \in SUBSET Nat
    OBVIOUS
  <2>2. PICK k \in Bad : \A j \in Bad : k <= j
    <3> HIDE DEF Bad
    <3> QED
      BY <2>1, Least
  <2>3. k # 0
    BY <1>2, <1>3
  <2>4. k \in 1 .. n /\ k - 1 \in 0 .. n /\ k - 1 \notin Bad
    BY <1>0, <2>2, <2>3
  <2>5. IsAt(g[k - 1], is, upto(k - 1), O, X, "resource", W)
    BY <2>4
  <2>6. t[k] \in Segments
    BY <2>4 DEF n
  <2>7. IsAt(Then(g[k - 1], t[k]), is, Append(upto(k - 1), t[k]), O, X, "resource", W)
    BY <2>5, <2>6, SegmentIsRead
  <2>8. Read(k)
    BY <1>2, <1>4, <2>4, <2>7
  <2> QED
    BY <2>8
<1>6. Read(n)
  <2>1. n \in 0 .. n /\ n \notin Bad
    BY <1>0, <1>5
  <2> QED
    BY <2>1
<1>7. Run(q, t) = g[n]
  BY <1>0, <1>1, RunIsLast DEF n
<1> QED
  BY <1>3, <1>6, <1>7

\* What is read of a sequence, a token and a sequence.
After(b, x, t) == b \o <<x>> \o t
\* Reading two parts with a token between them.
LEMMA RunBehind ==
    ASSUME NEW b \in Seq(Tokens), NEW x \in Tokens, NEW t \in Seq(Tokens), NEW q
    PROVE  After(b, x, t) \in Seq(Tokens) /\ Run(q, After(b, x, t)) = Run(Then(Run(q, b), x), t)
<1> DEFINE y == <<x>>
           u == b \o y
<1>1. y \in Seq(Tokens) /\ u \in Seq(Tokens)
  OBVIOUS
<1>2. Run(Run(q, b), y) = Then(Run(q, b), x)
  BY RunOne
<1> HIDE DEF y
<1>3. Run(q, u) = Run(Run(q, b), y)
  BY <1>1, RunConcat
<1> HIDE DEF u
<1>4. Run(q, u \o t) = Run(Run(q, u), t) /\ u \o t \in Seq(Tokens)
  BY <1>1, RunConcat
<1> QED
  BY <1>2, <1>3, <1>4 DEF u, y, After

\* A text that is read, as an item of an $expand, as this tree.
SaidAt(q, text, tree) ==
    \A is, R, O, X, W :
        IsAt(q, is, R, O, X, "items", W) => IsAt(Left(Run(q, text)), is, R, O, Append(X, tree), "item", W)
Says(text, tree) == text \in Seq(Tokens) /\ \A q : SaidAt(q, text, tree)

SayAll(texts, trees) ==
    /\ texts \in Seq(Seq(Tokens)) /\ Len(texts) = Len(trees)
    /\ \A i \in 1 .. Len(trees) : Says(texts[i], trees[i])

\* A text that says a tree adds that tree to the items.
LEMMA Said ==
    ASSUME NEW text, NEW tree, Says(text, tree),
           NEW q, NEW is, NEW R, NEW O, NEW X, NEW W, IsAt(q, is, R, O, X, "items", W)
    PROVE  IsAt(Left(Run(q, text)), is, R, O, Append(X, tree), "item", W)
<1>1. SaidAt(q, text, tree)
  BY DEF Says
<1> QED
  BY <1>1 DEF SaidAt

\* One item more.
LEMMA OneMoreItem ==
    ASSUME NEW q, NEW b \in Seq(Tokens), NEW is, NEW R, NEW O, NEW X, NEW W,
           IsAt(Left(Run(q, b)), is, R, O, X, "item", W), NEW text, NEW tree, Says(text, tree)
    PROVE  /\ After(b, ",", text) \in Seq(Tokens)
           /\ IsAt(Left(Run(q, After(b, ",", text))), is, R, O, Append(X, tree), "item", W)
<1> DEFINE r == Run(q, b)
           x == ","
<1>0. x \in Tokens
  BY DEF Tokens, Signs
<1>1. text \in Seq(Tokens)
  BY DEF Says
<1>2. IsAt(Then(r, x), is, R, O, X, "items", W)
  BY CommaIsRead
<1> HIDE DEF x, r
<1>3. After(b, x, text) \in Seq(Tokens) /\ Run(q, After(b, x, text)) = Run(Then(Run(q, b), x), text)
  BY <1>0, <1>1, RunBehind
<1>4. IsAt(Left(Run(Then(r, x), text)), is, R, O, Append(X, tree), "item", W)
  BY <1>2, Said
<1> QED
  BY <1>3, <1>4 DEF x, r

\* The items of an $expand are read one after the other.
LEMMA ItemsAreRead ==
    ASSUME NEW T, NEW trees \in Seq(T), NEW texts, SayAll(texts, trees), trees # <<>>,
           NEW q, NEW is, NEW R, NEW O, NEW W, IsAt(q, is, R, O, <<>>, "items", W)
    PROVE  /\ Joined(texts, ",") \in Seq(Tokens)
           /\ IsAt(Left(Run(q, Joined(texts, ","))), is, R, O, trees, "item", W)
<1> DEFINE n == Len(texts)
           upto(k) == SubSeq(trees, 1, k)
<1>0. n \in Nat /\ n # 0 /\ Len(trees) = n /\ texts \in Seq(Seq(Tokens))
  BY DEF SayAll
<1>1. upto(0) = <<>> /\ upto(n) = trees /\ \A k \in 1 .. n : Append(upto(k - 1), trees[k]) = upto(k)
  BY <1>0, OneMore
<1>2. PICK g : JoinedOf(g, texts, ",", n) /\ Joined(texts, ",") = g[n]
  BY <1>0, JoinedIsLast
<1>3. ASSUME NEW i \in 1 .. n
      PROVE  Says(texts[i], trees[i]) /\ texts[i] \in Seq(Tokens) /\ g[i] = Behind(g[i - 1], ",", texts, i)
  <2>1. i \in 0 .. n /\ i \in 1 .. Len(trees)
    BY <1>0
  <2>2. g[i] = Behind(g[i - 1], ",", texts, i)
    BY <1>2, <2>1, JoinedSteps
  <2>3. texts[i] \in Seq(Tokens)
    BY <1>0
  <2>4. Says(texts[i], trees[i])
    BY <2>1 DEF SayAll
  <2> QED
    BY <2>2, <2>3, <2>4
<1> HIDE DEF n, upto
<1> DEFINE Read(i) == g[i] \in Seq(Tokens) /\ IsAt(Left(Run(q, g[i])), is, R, O, upto(i), "item", W)
           Bad == {i \in 1 .. n : ~ Read(i)}
<1>4. Bad = {}
  <2> SUFFICES ASSUME Bad # {} PROVE FALSE
    OBVIOUS
  <2>1. Bad \in SUBSET Nat
    OBVIOUS
  <2>2. PICK k \in Bad : \A j \in Bad : k <= j
    <3> HIDE DEF Bad
    <3> QED
      BY <2>1, Least
  <2>0. k \in 1 .. n /\ k \in Nat
    OBVIOUS
  <2>3. g[k] = Behind(g[k - 1], ",", texts, k) /\ Says(texts[k], trees[k]) /\ texts[k] \in Seq(Tokens)
    BY <1>3
  <2>4. CASE k = 1
    <3>1. g[k] = texts[k]
      BY <2>3, <2>4 DEF Behind
    <3> DEFINE z == <<>>
    <3>2. upto(k) = Append(z, trees[k])
      <4>1. k - 1 = 0
        BY <2>4
      <4> QED
        BY <1>1, <2>0, <4>1
    <3>0. IsAt(q, is, R, O, z, "items", W)
      OBVIOUS
    <3> HIDE DEF z
    <3>3. IsAt(Left(Run(q, texts[k])), is, R, O, Append(z, trees[k]), "item", W)
      BY <2>3, <3>0, Said
    <3>4. Read(k)
      BY <2>3, <3>1, <3>2, <3>3
    <3> QED
      BY <3>4
  <2>5. CASE k # 1
    <3>1. k - 1 \in 1 .. n /\ k - 1 \notin Bad /\ k # 0
      <4>1. k - 1 \in 1 .. n /\ k # 0
        BY <1>0, <2>0, <2>5
      <4>2. ~ (k <= k - 1)
        BY <2>0
      <4> HIDE DEF Bad
      <4> QED
        BY <2>2, <4>1, <4>2
    <3>2. Read(k - 1)
      BY <3>1
    <3> DEFINE b == g[k - 1]
               X == upto(k - 1)
    <3>3. b \in Seq(Tokens) /\ IsAt(Left(Run(q, b)), is, R, O, X, "item", W)
      BY <3>2
    <3>4. g[k] = After(b, ",", texts[k])
      BY <2>3, <2>5, <3>1 DEF Behind, After
    <3>5. Append(X, trees[k]) = upto(k)
      BY <1>1, <2>0
    <3> HIDE DEF b, X
    <3>6. /\ After(b, ",", texts[k]) \in Seq(Tokens)
          /\ IsAt(Left(Run(q, After(b, ",", texts[k]))), is, R, O, Append(X, trees[k]), "item", W)
      BY <2>3, <3>3, OneMoreItem
    <3>7. Read(k)
      BY <3>4, <3>5, <3>6
    <3> QED
      BY <3>7
  <2> QED
    BY <2>4, <2>5
<1>5. Read(n)
  <2>1. n \in 1 .. n /\ n \notin Bad
    BY <1>0, <1>4
  <2> QED
    BY <2>1
<1> QED
  BY <1>1, <1>2, <1>5

\* Options are read one after the other, if they come first.
OptionsFirst(options, parts) == \A i \in 1 .. Len(options) : parts[i] = <<options[i]>>

\* Options that are joined are read one by one.
LEMMA OptionsAreRead ==
    ASSUME NEW options \in Seq(DOMAIN Options), NEW parts, OptionsFirst(options, parts),
           NEW is, NEW separator, Separates(is, separator),
           NEW n \in Nat, Len(options) <= n, NEW g, JoinedOf(g, parts, separator, n),
           NEW q, NEW R, NEW W, IsAt(q, is, R, <<>>, <<>>, "clause", W), NEW m \in 1 .. Len(options)
    PROVE  g[m] \in Seq(Tokens) /\ IsAt(Run(q, g[m]), is, R, SubSeq(options, 1, m), <<>>, "option", W)
<1> DEFINE l == Len(options)
           upto(k) == SubSeq(options, 1, k)
           none == <<>>
<1>0. l \in Nat /\ l <= n /\ separator \in Tokens
  <2>1. separator \in Tokens
    BY DEF Separates, Tokens, Signs
  <2> QED
    BY <2>1
<1>1. upto(0) = <<>> /\ \A k \in 1 .. l : Append(upto(k - 1), options[k]) = upto(k)
  BY OneMore
<1>2. ASSUME NEW i \in 1 .. l
      PROVE  /\ options[i] \in DOMAIN Options /\ parts[i] = <<options[i]>> /\ <<options[i]>> \in Seq(Tokens)
             /\ g[i] = Behind(g[i - 1], separator, parts, i)
  <2>1. i \in 0 .. n
    BY <1>0
  <2>2. g[i] = Behind(g[i - 1], separator, parts, i)
    BY <2>1, JoinedSteps
  <2>3. options[i] \in DOMAIN Options
    OBVIOUS
  <2>4. <<options[i]>> \in Seq(Tokens)
    BY <2>3 DEF Tokens
  <2> QED
    BY <2>2, <2>3, <2>4 DEF OptionsFirst
<1>3. IsAt(q, is, R, upto(0), none, "clause", W)
  BY <1>1
<1>4. m \in 1 .. l
  OBVIOUS
<1> HIDE DEF l, upto, none
<1> DEFINE Read(i) == g[i] \in Seq(Tokens) /\ IsAt(Run(q, g[i]), is, R, upto(i), none, "option", W)
           Bad == {i \in 1 .. l : ~ Read(i)}
<1>5. Bad = {}
  <2> SUFFICES ASSUME Bad # {} PROVE FALSE
    OBVIOUS
  <2>1. Bad \in SUBSET Nat
    OBVIOUS
  <2>2. PICK k \in Bad : \A j \in Bad : k <= j
    <3> HIDE DEF Bad
    <3> QED
      BY <2>1, Least
  <2>0. k \in 1 .. l /\ k \in Nat
    OBVIOUS
  <2>3. /\ options[k] \in DOMAIN Options /\ parts[k] = <<options[k]>> /\ <<options[k]>> \in Seq(Tokens)
        /\ g[k] = Behind(g[k - 1], separator, parts, k)
    BY <1>2, <2>0
  <2>6. upto(k) = Append(upto(k - 1), options[k])
    BY <1>1, <2>0
  <2> DEFINE x == options[k]
             O == upto(k - 1)
  <2>4. CASE k = 1
    <3>1. g[k] = <<x>>
      BY <2>3, <2>4 DEF Behind
    <3>2. k - 1 = 0
      BY <2>4
    <3>3. IsAt(q, is, R, O, none, "clause", W)
      BY <1>3, <3>2
    <3> HIDE DEF x, O
    <3>4. IsAt(Then(q, x), is, R, Append(O, x), none, "option", W)
      BY <2>3, <3>3, OptionIsRead DEF x
    <3>5. Run(q, <<x>>) = Then(q, x)
      BY RunOne
    <3>6. Read(k)
      BY <2>3, <2>6, <3>1, <3>4, <3>5 DEF x, O
    <3> QED
      BY <3>6
  <2>5. CASE k # 1
    <3>1. k - 1 \in 1 .. l /\ k - 1 \notin Bad /\ k # 0
      <4>1. k - 1 \in 1 .. l /\ k # 0
        BY <1>0, <2>0, <2>5
      <4>2. ~ (k <= k - 1)
        BY <2>0
      <4> HIDE DEF Bad
      <4> QED
        BY <2>2, <4>1, <4>2
    <3>2. Read(k - 1)
      BY <3>1
    <3> DEFINE b == g[k - 1]
               r == Run(q, b)
               t == <<x>>
    <3>3. b \in Seq(Tokens) /\ IsAt(r, is, R, O, none, "option", W)
      BY <3>2
    <3>4. g[k] = After(b, separator, t)
      BY <2>3, <2>5, <3>1 DEF Behind, After
    <3>5. t \in Seq(Tokens) /\ x \in DOMAIN Options
      BY <2>3
    <3> HIDE DEF b, x, O, t
    <3>6. After(b, separator, t) \in Seq(Tokens) /\ Run(q, After(b, separator, t)) = Run(Then(Run(q, b), separator), t)
      BY <1>0, <3>3, <3>5, RunBehind
    <3> HIDE DEF r
    <3>7. IsAt(Left(r), is, R, O, none, "option", W)
      <4> DEFINE a == "option"
      <4>1. a # "resource" /\ IsAt(r, is, R, O, none, a, W)
        BY <3>3
      <4> HIDE DEF a
      <4>2. Left(r) = r
        BY <4>1, LeftStays
      <4> QED
        BY <3>3, <4>2
    <3>8. IsAt(Then(r, separator), is, R, O, none, "clause", W)
      BY <3>7, ClauseEnds DEF HasClause
    <3>9. IsAt(Then(Then(r, separator), x), is, R, Append(O, x), none, "option", W)
      BY <3>5, <3>8, OptionIsRead
    <3>10. Run(Then(r, separator), t) = Then(Then(r, separator), x)
      BY RunOne DEF t
    <3>11. Read(k)
      BY <2>6, <3>4, <3>6, <3>9, <3>10 DEF x, O, r
    <3> QED
      BY <3>11
  <2> QED
    BY <2>4, <2>5
<1>6. Read(m)
  BY <1>4, <1>5
<1> QED
  BY <1>6 DEF upto, none

\* A state that has a clause, and is none that has no more.
LEMMA OptionStays ==
    ASSUME NEW q, NEW is, NEW R, NEW O, NEW X, NEW W, IsAt(q, is, R, O, X, "option", W)
    PROVE  Left(q) = q
<1> DEFINE a == "option"
<1>1. a # "resource" /\ IsAt(q, is, R, O, X, a, W)
  OBVIOUS
<1> HIDE DEF a
<1> QED
  BY <1>1, LeftStays

\* The $expand is read.
Expanding(texts) == <<"$expand">> \o Joined(texts, ",")
\* The clause $expand is read as the trees of its items.
LEMMA ExpandIsRead ==
    ASSUME NEW T, NEW trees \in Seq(T), NEW texts, SayAll(texts, trees), trees # <<>>,
           NEW q, NEW is, NEW R, NEW O, NEW W, IsAt(q, is, R, O, <<>>, "clause", W)
    PROVE  Expanding(texts) \in Seq(Tokens) /\ IsAt(Left(Run(q, Expanding(texts))), is, R, O, trees, "item", W)
<1> DEFINE x == "$expand"
           y == <<x>>
           none == <<>>
           t == Joined(texts, ",")
           r == Then(q, x)
<1>0. y \in Seq(Tokens)
  BY DEF Tokens, Signs
<1>1. IsAt(q, is, R, O, none, "clause", W)
  OBVIOUS
<1> HIDE DEF none
<1>2. IsAt(r, is, R, O, none, "items", W)
  BY <1>1, ExpandBegins
<1> HIDE DEF r, t
<1>3. t \in Seq(Tokens) /\ IsAt(Left(Run(r, t)), is, R, O, trees, "item", W)
  BY <1>2, ItemsAreRead DEF none, t
<1>4. Run(q, y) = r
  BY RunOne DEF r
<1> HIDE DEF y
<1>5. Run(q, y \o t) = Run(Run(q, y), t) /\ y \o t \in Seq(Tokens)
  BY <1>0, <1>3, RunConcat
<1> QED
  BY <1>3, <1>4, <1>5 DEF y, t, Expanding

\* The parts that clauses are made of.
LEMMA OptionParts ==
    ASSUME NEW options \in Seq(DOMAIN Options), NEW P, P = [i \in DOMAIN options |-> <<options[i]>>]
    PROVE  P \in Seq(Seq(Tokens)) /\ Len(P) = Len(options) /\ OptionsFirst(options, P)
<1>1. DOMAIN options = 1 .. Len(options) /\ Len(options) \in Nat
  OBVIOUS
<1>2. ASSUME NEW i \in 1 .. Len(options) PROVE <<options[i]>> \in Seq(Tokens)
  <2>1. options[i] \in DOMAIN Options
    OBVIOUS
  <2> QED
    BY <2>1 DEF Tokens
<1>3. P \in [1 .. Len(options) -> Seq(Tokens)]
  BY <1>1, <1>2
<1>4. P \in Seq(Seq(Tokens)) /\ Len(P) = Len(options)
  BY <1>1, <1>3
<1>5. OptionsFirst(options, P)
  BY <1>1 DEF OptionsFirst
<1> QED
  BY <1>4, <1>5

PartsOf(parts, options, texts, e) == parts = Clauses(options, texts) /\ (texts # <<>> => e = Expanding(texts))
\* A sequence with one part more.
LEMMA OnePartMore ==
    ASSUME NEW T, NEW s \in Seq(T), NEW x \in T
    PROVE  Len(s \o <<x>>) = Len(s) + 1 /\ (s \o <<x>>)[Len(s) + 1] = x /\ \A i \in 1 .. Len(s) : (s \o <<x>>)[i] = s[i]
OBVIOUS

\* The clauses are the options, and one more if something is expanded.
LEMMA ClauseParts ==
    ASSUME NEW options \in Seq(DOMAIN Options), NEW texts, NEW e \in Seq(Tokens), NEW parts,
           PartsOf(parts, options, texts, e)
    PROVE  /\ OptionsFirst(options, parts)
           /\ texts = <<>> => Len(parts) = Len(options)
           /\ texts # <<>> => Len(parts) = Len(options) + 1 /\ parts[Len(options) + 1] = e
<1> DEFINE P == [i \in DOMAIN options |-> <<options[i]>>]
           m == Len(options)
<1>0. m \in Nat
  OBVIOUS
<1>1. P \in Seq(Seq(Tokens)) /\ Len(P) = m /\ OptionsFirst(options, P)
  BY OptionParts
<1>2. CASE texts = <<>>
  <2>1. parts = P \o <<>>
    BY <1>2 DEF Clauses, PartsOf
  <2> HIDE DEF P
  <2>2. P \o <<>> = P
    BY <1>1, ConcatEmptySeq
  <2> QED
    BY <1>1, <1>2, <2>1, <2>2
<1>3. CASE texts # <<>>
  <2>1. parts = P \o <<e>>
    BY <1>3 DEF Clauses, PartsOf, Expanding
  <2> HIDE DEF P
  <2>2. Len(P \o <<e>>) = Len(P) + 1 /\ (P \o <<e>>)[Len(P) + 1] = e /\ \A i \in 1 .. Len(P) : (P \o <<e>>)[i] = P[i]
    BY <1>1, OnePartMore
  <2> HIDE DEF m
  <2>4. Len(parts) = m + 1 /\ parts[m + 1] = e /\ \A i \in 1 .. m : parts[i] = P[i]
    BY <1>1, <2>1, <2>2
  <2>5. OptionsFirst(options, parts)
    BY <1>1, <2>4 DEF OptionsFirst, m
  <2> QED
    BY <1>3, <2>4, <2>5 DEF m
<1> QED
  BY <1>2, <1>3

\* Clauses are read one after the other.
LEMMA ClausesAreRead ==
    ASSUME NEW options \in Seq(DOMAIN Options), NEW T, NEW trees \in Seq(T), NEW texts, SayAll(texts, trees),
           NEW is, NEW separator, Separates(is, separator),
           NEW q, NEW R, NEW W, IsAt(q, is, R, <<>>, <<>>, "clause", W),
           NEW c, c = Joined(Clauses(options, texts), separator)
    PROVE  /\ c \in Seq(Tokens)
           /\ options = <<>> /\ trees = <<>> => c = <<>>
           /\ options # <<>> \/ trees # <<>> =>
                 \E a : HasClause(a) /\ IsAt(Left(Run(q, c)), is, R, options, trees, a, W)
<1> DEFINE parts == Clauses(options, texts)
           m == Len(options)
           n == Len(parts)
           e == IF texts = <<>> THEN <<>> ELSE Expanding(texts)
           none == <<>>
<1>1. m \in Nat /\ (trees = <<>> <=> texts = <<>>) /\ (options = <<>> <=> m = 0)
  BY DEF SayAll
<1>2. e \in Seq(Tokens) /\ PartsOf(parts, options, texts, e)
  BY <1>1, ExpandIsRead DEF PartsOf
<1>0. texts # <<>> => e = Expanding(texts)
  OBVIOUS
<1> HIDE DEF e
<1>3. /\ OptionsFirst(options, parts)
      /\ texts = <<>> => n = m
      /\ texts # <<>> => n = m + 1 /\ parts[m + 1] = e
  BY <1>2, ClauseParts
<1> HIDE DEF parts, n, m
<1>4. IsAt(q, is, R, none, none, "clause", W) /\ n \in Nat /\ m <= n
  BY <1>1, <1>3
<1>5. PICK g : JoinedOf(g, parts, separator, n) /\ c = g[n]
  BY <1>4, JoinedIsLast DEF n, parts
<1>6. separator \in Tokens
  BY DEF Separates, Tokens, Signs
<1> HIDE DEF none
<1>7. \A i \in 0 .. n : g[i] = Behind(g[i - 1], separator, parts, i)
  BY <1>5, JoinedSteps
<1>8. ASSUME m # 0 PROVE g[m] \in Seq(Tokens) /\ IsAt(Run(q, g[m]), is, R, options, none, "option", W)
  <2>1. m \in 1 .. Len(options) /\ SubSeq(options, 1, m) = options
    BY <1>1, <1>8, OneMore DEF m
  <2> QED
    BY <1>3, <1>4, <1>5, <2>1, OptionsAreRead DEF none, m
<1>9. CASE trees = <<>>
  <2>1. n = m /\ c = g[m] /\ trees = none
    BY <1>1, <1>3, <1>5, <1>9 DEF none
  <2>2. ASSUME m = 0 PROVE c = <<>> /\ c \in Seq(Tokens)
    <3>1. 0 \in 0 .. n /\ c = g[0]
      BY <1>4, <2>1, <2>2
    <3>2. g[0] = Behind(g[0 - 1], separator, parts, 0)
      BY <1>7, <3>1
    <3> QED
      BY <3>1, <3>2 DEF Behind
  <2>3. ASSUME m # 0
        PROVE  c \in Seq(Tokens) /\ HasClause("option") /\ IsAt(Left(Run(q, c)), is, R, options, trees, "option", W)
    <3>1. IsAt(Run(q, c), is, R, options, none, "option", W) /\ c \in Seq(Tokens)
      BY <1>8, <2>1, <2>3
    <3>2. Left(Run(q, c)) = Run(q, c)
      BY <3>1, OptionStays
    <3> QED
      BY <2>1, <3>1, <3>2 DEF HasClause
  <2> QED
    BY <1>1, <1>9, <2>2, <2>3
<1>10. CASE trees # <<>>
  <2>1. n = m + 1 /\ parts[n] = e /\ n \in 0 .. n /\ n # 0
    BY <1>1, <1>3, <1>4, <1>10
  <2>2. c = Behind(g[n - 1], separator, parts, n) /\ n - 1 = m
    BY <1>1, <1>5, <1>7, <2>1
  <2>3. ASSUME m = 0 PROVE c \in Seq(Tokens) /\ IsAt(Left(Run(q, c)), is, R, options, trees, "item", W)
    <3>1. c = e
      BY <2>1, <2>2, <2>3 DEF Behind
    <3>2. IsAt(q, is, R, options, <<>>, "clause", W)
      BY <1>1, <2>3
    <3>3. e \in Seq(Tokens) /\ IsAt(Left(Run(q, e)), is, R, options, trees, "item", W)
      BY <1>0, <1>1, <1>10, <3>2, ExpandIsRead
    <3> QED
      BY <3>1, <3>3
  <2>4. ASSUME m # 0 PROVE c \in Seq(Tokens) /\ IsAt(Left(Run(q, c)), is, R, options, trees, "item", W)
    <3> DEFINE b == g[m]
               r == Run(q, b)
    <3>1. b \in Seq(Tokens) /\ IsAt(r, is, R, options, none, "option", W)
      BY <1>8, <2>4
    <3>2. c = After(b, separator, e)
      <4>1. n # 0 /\ n # 1
        BY <1>1, <2>1, <2>4
      <4>2. Behind(b, separator, parts, n) = b \o <<separator>> \o parts[n]
        <5> HIDE DEF b
        <5> QED
          BY <4>1 DEF Behind
      <4> QED
        BY <2>1, <2>2, <4>2 DEF After
    <3>3. e \in Seq(Tokens)
      BY <1>1, <1>2, <1>10
    <3> HIDE DEF b
    <3>4. After(b, separator, e) \in Seq(Tokens) /\ Run(q, After(b, separator, e)) = Run(Then(Run(q, b), separator), e)
      BY <1>6, <3>1, <3>3, RunBehind
    <3> HIDE DEF r
    <3>5. Left(r) = r
      BY <3>1, OptionStays
    <3>6. IsAt(Left(r), is, R, options, none, "option", W) /\ HasClause("option")
      BY <3>1, <3>5 DEF HasClause
    <3>7. IsAt(Then(r, separator), is, R, options, none, "clause", W)
      BY <3>6, ClauseEnds
    <3>8. IsAt(Left(Run(Then(r, separator), e)), is, R, options, trees, "item", W)
      BY <1>0, <1>1, <1>10, <3>7, ExpandIsRead DEF none
    <3> QED
      BY <3>2, <3>4, <3>8 DEF r
  <2>5. HasClause("item")
    BY DEF HasClause
  <2> QED
    BY <1>10, <2>3, <2>4, <2>5
<1> QED
  BY <1>9, <1>10

\* No clause, no text of clauses.
LEMMA NoClauseNoText ==
    ASSUME NEW q, NEW is, NEW R, NEW O, NEW X, NEW W, IsAt(q, is, R, O, X, "clause", W),
           NEW c, NEW S, NEW P, NEW Y, NEW a, HasClause(a), NEW V, IsAt(Left(Run(q, c)), is, S, P, Y, a, V)
    PROVE  c # <<>>
<1> SUFFICES ASSUME c = <<>> PROVE FALSE
  OBVIOUS
<1>1. Run(q, c) = q
  BY RunOne
<1>2. q.at = "clause"
  BY OpenMembers
<1>3. Left(q) = q
  BY <1>2 DEF Left
<1>4. IsAt(q, is, S, P, Y, a, V)
  BY <1>1, <1>3
<1>5. q.at = a
  BY <1>4, OpenMembers
<1> QED
  BY <1>2, <1>5 DEF HasClause

\* The types of sequences that others are made of.
LEMMA TypedSequences ==
    ASSUME NEW S, NEW T, S \subseteq T, NEW s \in Seq(S), NEW x \in S
    PROVE  s \in Seq(T) /\ <<x>> \in Seq(S) /\ <<x>> \in Seq(T)
OBVIOUS

\* Sequences of one type put together have that type.
LEMMA TypedConcat ==
    ASSUME NEW T, NEW s \in Seq(T), NEW t \in Seq(T)
    PROVE  s \o t \in Seq(T)
OBVIOUS

\* What is read of clauses that are enclosed.
LEMMA EnclosedIsRead ==
    ASSUME NEW c \in Seq(Tokens), NEW q
    PROVE  /\ \A root \in BOOLEAN : Enclosed(c, root) \in Seq(Tokens) /\ (c = <<>> => Enclosed(c, root) = <<>>)
           /\ c # <<>> => Run(q, Enclosed(c, TRUE)) = Run(Then(q, "?"), c)
           /\ c # <<>> => Run(q, Enclosed(c, FALSE)) = Then(Run(Then(q, "("), c), ")")
<1> DEFINE m == <<"?">>
           o == <<"(">>
           e == <<")">>
<1>1. m \in Seq(Tokens) /\ o \in Seq(Tokens) /\ e \in Seq(Tokens)
  <2>1. "?" \in Tokens /\ "(" \in Tokens /\ ")" \in Tokens
    BY DEF Tokens, Signs
  <2> QED
    BY <2>1
<1>2. /\ c = <<>> => Enclosed(c, TRUE) = <<>> /\ Enclosed(c, FALSE) = <<>>
      /\ c # <<>> => Enclosed(c, TRUE) = m \o c /\ Enclosed(c, FALSE) = o \o c \o e
  BY DEF Enclosed
<1>3. \A r : Run(r, m) = Then(r, "?") /\ Run(r, o) = Then(r, "(") /\ Run(r, e) = Then(r, ")")
  BY RunOne
<1> HIDE DEF m, o, e
<1>4. m \o c \in Seq(Tokens) /\ Run(q, m \o c) = Run(Run(q, m), c)
  BY <1>1, RunConcat
<1> DEFINE u == o \o c
<1>5. u \in Seq(Tokens) /\ Run(q, u) = Run(Run(q, o), c)
  BY <1>1, RunConcat
<1> HIDE DEF u
<1>6. u \o e \in Seq(Tokens) /\ Run(q, u \o e) = Run(Run(q, u), e)
  BY <1>1, <1>5, RunConcat
<1>7. \A root \in BOOLEAN : Enclosed(c, root) \in Seq(Tokens) /\ (c = <<>> => Enclosed(c, root) = <<>>)
  <2>1. Enclosed(c, TRUE) \in Seq(Tokens) /\ Enclosed(c, FALSE) \in Seq(Tokens)
    <3>1. <<>> \in Seq(Tokens)
      OBVIOUS
    <3> QED
      BY <1>2, <1>4, <1>6, <3>1 DEF u
  <2> QED
    BY <1>2, <2>1
<1>8. c # <<>> => Run(q, Enclosed(c, TRUE)) = Run(Then(q, "?"), c)
  BY <1>2, <1>3, <1>4
<1>9. c # <<>> => Run(q, Enclosed(c, FALSE)) = Then(Run(Then(q, "("), c), ")")
  BY <1>2, <1>3, <1>5, <1>6 DEF u
<1> QED
  BY <1>7, <1>8, <1>9

\* A query or an item that may end.
EndsAs(q, is, R, options, trees, W) ==
    \E a : (HasClause(a) \/ a = "resource") /\ IsAt(q, is, R, options, trees, a, W)

\* A query is read as it was asked for.
LEMMA QueryIsRead ==
    ASSUME NEW options \in Seq(DOMAIN Options), NEW T, NEW trees \in Seq(T), NEW texts, SayAll(texts, trees),
           NEW R \in Seq(Segments), NEW c, c = Joined(Clauses(options, texts), "&")
    PROVE  ReadQuery(R \o Enclosed(c, TRUE)) = Tree(R, options, trees)
<1> DEFINE none == <<>>
           q0 == Begun("query", <<>>, None)
           q1 == Run(q0, R)
           s == "&"
           is == "query"
           q2 == Then(q1, "?")
           t == Enclosed(c, TRUE)
           q3 == Run(q0, R \o t)
<1>0. Separates(is, s) /\ Opens(is, "?") /\ Tokens = Tokens \cup Segments /\ R \in Seq(Tokens)
  <2>1. Separates(is, s) /\ Opens(is, "?")
    BY DEF Separates, Opens
  <2>2. Segments \subseteq Tokens
    BY DEF Tokens
  <2>3. R \in Seq(Tokens)
    BY <2>2
  <2> QED
    BY <2>1, <2>2, <2>3
<1>1. IsAt(q0, is, none, none, none, "resource", None)
  BY DEF Begun, IsAt
<1>2. none \in Seq(Segments) /\ none \o R = R
  OBVIOUS
<1> HIDE DEF none, q0, s, is
<1>3. IsAt(q1, is, R, none, none, "resource", None)
  <2>1. IsAt(q1, is, none \o R, none, none, "resource", None)
    BY <1>1, <1>2, ResourceIsRead
  <2> QED
    BY <1>2, <2>1
<1> HIDE DEF q1
<1>4. IsAt(q2, is, R, none, none, "clause", None)
  BY <1>0, <1>3, ClausesBegin
<1> HIDE DEF q2
<1>5. /\ c \in Seq(Tokens)
      /\ options = <<>> /\ trees = <<>> => c = <<>>
      /\ options # <<>> \/ trees # <<>> =>
            \E a : HasClause(a) /\ IsAt(Left(Run(q2, c)), is, R, options, trees, a, None)
  <2>1. c = Joined(Clauses(options, texts), s)
    BY DEF s
  <2> QED
    BY <1>0, <1>4, <2>1, ClausesAreRead DEF none
<1>6. t \in Seq(Tokens) /\ (c = <<>> => t = <<>>) /\ (c # <<>> => Run(q1, t) = Run(q2, c))
  BY <1>5, EnclosedIsRead DEF q2
<1> HIDE DEF t
<1>7. q3 = Run(q1, t)
  BY <1>0, <1>6, RunConcat DEF q1
<1> HIDE DEF q3
<1>8. EndsAs(Left(q3), is, R, options, trees, None)
  <2>1. CASE options = <<>> /\ trees = <<>>
    <3>1. q3 = q1
      BY <1>5, <1>6, <1>7, <2>1, RunOne
    <3>2. IsAt(q3, is, R, options, trees, "resource", None)
      BY <1>3, <2>1, <3>1 DEF none
    <3>3. is # "item"
      BY DEF is
    <3>4. Left(q3) = q3
      BY <3>2, <3>3, LeftStays
    <3> QED
      BY <2>1, <3>2, <3>4 DEF EndsAs
  <2>2. CASE options # <<>> \/ trees # <<>>
    <3>1. PICK a : HasClause(a) /\ IsAt(Left(Run(q2, c)), is, R, options, trees, a, None)
      BY <1>5, <2>2
    <3>2. c # <<>>
      BY <1>4, <3>1, NoClauseNoText
    <3>3. q3 = Run(q2, c)
      BY <1>6, <1>7, <3>2
    <3>4. IsAt(Left(q3), is, R, options, trees, a, None)
      BY <3>1, <3>3
    <3> QED
      BY <3>1, <3>4 DEF EndsAs
  <2> QED
    BY <2>1, <2>2
<1> DEFINE l == Left(q3)
<1>9. l.at \in {"resource", "option", "item"} /\ l.is = "query" /\ What(l) = Tree(R, options, trees)
  <2>1. PICK a : (HasClause(a) \/ a = "resource") /\ IsAt(l, is, R, options, trees, a, None)
    BY <1>8 DEF EndsAs
  <2>2. l.is = is /\ l.resource = R /\ l.options = options /\ l.expands = trees /\ l.at = a
    BY <2>1, OpenMembers
  <2> HIDE DEF l
  <2> QED
    BY <2>1, <2>2 DEF HasClause, What, Tree, is
<1> HIDE DEF l
<1>10. ReadQuery(R \o t) = What(l)
  BY <1>9 DEF ReadQuery, l, q3, q0
<1> QED
  BY <1>9, <1>10 DEF t

\* An item of an $expand is read as it was asked for.
LEMMA ItemIsRead ==
    ASSUME NEW options \in Seq(DOMAIN Options), NEW T, NEW trees \in Seq(T), NEW texts, SayAll(texts, trees),
           NEW p \in Paths, NEW K \in Seq(Segments), NEW c, c = Joined(Clauses(options, texts), ";")
    PROVE  Says((<<p>> \o K) \o Enclosed(c, FALSE), Tree(<<p>> \o K, options, trees))
<1> DEFINE y == <<p>>
           R == y \o K
           t == Enclosed(c, FALSE)
           u == R \o t
           tree == Tree(R, options, trees)
           none == <<>>
           s == ";"
           item == "item"
<1>0. Separates(item, s) /\ Opens(item, "(")
  BY DEF Separates, Opens
<1>1. y \in Seq(Segments) /\ y \in Seq(Tokens) /\ K \in Seq(Tokens)
  <2>1. p \in Segments /\ Segments \subseteq Tokens
    BY DEF Segments, Tokens
  <2> QED
    BY <2>1, TypedSequences
<1>2. R \in Seq(Tokens) /\ R \in Seq(Segments)
  <2> HIDE DEF y
  <2>1. y \o K \in Seq(Tokens)
    BY <1>1, TypedConcat
  <2>2. y \o K \in Seq(Segments)
    BY <1>1, TypedConcat
  <2> QED
    BY <2>1, <2>2
<1>3. c = Joined(Clauses(options, texts), s)
  OBVIOUS
<1> HIDE DEF s
<1>4. c \in Seq(Tokens)
  <2> DEFINE q == [is |-> item, resource |-> R, options |-> <<>>, expands |-> <<>>, at |-> "clause", within |-> None]
  <2>1. IsAt(q, item, R, <<>>, <<>>, "clause", None)
    BY DEF IsAt
  <2> HIDE DEF q, item, R
  <2> QED
    BY <1>0, <1>3, <2>1, ClausesAreRead
<1>5. t \in Seq(Tokens) /\ u \in Seq(Tokens)
  <2>1. t \in Seq(Tokens)
    BY <1>4, EnclosedIsRead
  <2>2. R \in Seq(Tokens)
    BY <1>2
  <2> HIDE DEF t, R
  <2>3. R \o t \in Seq(Tokens)
    BY <2>1, <2>2, TypedConcat
  <2> QED
    BY <2>1, <2>3
<1>6. ASSUME NEW q, NEW is, NEW S, NEW O, NEW X, NEW W, IsAt(q, is, S, O, X, "items", W)
      PROVE  IsAt(Left(Run(q, u)), is, S, O, Append(X, tree), "item", W)
  <2> DEFINE q1 == Then(q, p)
             q2 == Run(q, R)
             q3 == Then(q2, "(")
             q4 == Run(q, u)
  <2>1. IsAt(q1, item, y, none, none, "resource", q) /\ Run(q, y) = q1
    BY <1>6, ItemBegins, RunOne
  <2> HIDE DEF y, none, item, q1, u, t
  <2>2. q2 = Run(q1, K)
    BY <1>1, <2>1, RunConcat
  <2>3. IsAt(q2, item, R, none, none, "resource", q)
    BY <1>1, <2>1, <2>2, ResourceIsRead
  <2>4. q4 = Run(q2, t)
    <3> HIDE DEF R
    <3> QED
      BY <1>2, <1>5, RunConcat DEF u
  <2> HIDE DEF q2, q4, R
  <2>5. IsAt(q3, item, R, none, none, "clause", q)
    BY <1>0, <2>3, ClausesBegin
  <2>6. (c = <<>> => t = <<>>) /\ (c # <<>> => Run(q2, t) = Then(Run(q3, c), ")"))
    BY <1>4, EnclosedIsRead DEF t
  <2> HIDE DEF q3
  <2>7. /\ options = <<>> /\ trees = <<>> => c = <<>>
        /\ options # <<>> \/ trees # <<>> =>
              \E a : HasClause(a) /\ IsAt(Left(Run(q3, c)), item, R, options, trees, a, q)
    BY <1>0, <1>3, <2>5, ClausesAreRead DEF none
  <2>8. CASE options = <<>> /\ trees = <<>>
    <3>1. q4 = q2
      BY <2>4, <2>6, <2>7, <2>8, RunOne
    <3>2. IsAt(q4, item, R, options, trees, "resource", q)
      BY <2>3, <2>8, <3>1 DEF none
    <3>3. q4.at = "resource" /\ q4.is = item
      BY <3>2, OpenMembers
    <3>4. Left(q4) = EndedItem(q4)
      BY <3>3 DEF Left, item
    <3>5. IsAt(EndedItem(q4), is, S, O, Append(X, Tree(R, options, trees)), "item", W)
      BY <1>6, <3>2, ItemEnds DEF item
    <3> QED
      BY <3>4, <3>5 DEF q4
  <2>9. CASE options # <<>> \/ trees # <<>>
    <3>1. PICK a : HasClause(a) /\ IsAt(Left(Run(q3, c)), item, R, options, trees, a, q)
      BY <2>7, <2>9
    <3>2. c # <<>>
      BY <2>5, <3>1, NoClauseNoText
    <3> DEFINE r == Run(q3, c)
               X2 == Append(X, Tree(R, options, trees))
    <3>3. q4 = Then(r, ")")
      BY <2>4, <2>6, <3>2
    <3> HIDE DEF r
    <3>4. IsAt(Left(r), "item", R, options, trees, a, q)
      BY <3>1 DEF r, item
    <3>5. q4 = EndedItem(Left(r))
      BY <3>1, <3>3, <3>4, ItemCloses
    <3>6. IsAt(q4, is, S, O, X2, "item", W)
      BY <1>6, <3>4, <3>5, ItemEnds
    <3>7. Left(q4) = q4
      <4> DEFINE b == "item"
      <4>1. IsAt(q4, is, S, O, X2, b, W) /\ b # "resource"
        BY <3>6
      <4> HIDE DEF b, X2
      <4> QED
        BY <4>1, LeftStays
    <3> QED
      BY <3>6, <3>7 DEF q4
  <2> QED
    BY <2>8, <2>9
<1> HIDE DEF u, tree
<1>7. \A q : SaidAt(q, u, tree)
  BY <1>6 DEF SaidAt
<1>8. Says(u, tree)
  BY <1>5, <1>7 DEF Says
<1> QED
  BY <1>8 DEF u, tree, R, t, y

-----------------------------------------------------------------------------
(* Texts and trees of the paths *)

\* The text and the tree of a path, made of those of the paths expanded from it.
Kids(f, p) == [i \in DOMAIN asked[p].expands |-> f[asked[p].expands[i]]]
Resource(p) == <<p>> \o [k \in 1 .. asked[p].keys |-> "key"]
TextAt(paths, p, texts) ==
    paths[p].resource
    \o Enclosed(Joined(Clauses(paths[p].options, texts), IF p \in Roots THEN "&" ELSE ";"), p \in Roots)
TreeAt(p, trees) == Tree(Resource(p), InOrder(asked[p].options), trees)
TextsOf(f, paths, V) == f = [p \in V |-> TextAt(paths, p, Kids(f, p))]
TreesOf(f, V) == f = [p \in V |-> TreeAt(p, Kids(f, p))]

\* What is expanded from a path ranks below it.
Ranked(V, rank, m) ==
    \A p \in V : /\ rank[p] \in Nat /\ rank[p] < m
                 /\ \A i \in DOMAIN asked[p].expands :
                       asked[p].expands[i] \in V /\ rank[asked[p].expands[i]] < rank[p]

\* So there are texts and trees of all of them.
LEMMA TextsExist ==
    ASSUME NEW V, NEW rank, NEW m \in Nat, Ranked(V, rank, m), NEW paths
    PROVE  \E f : TextsOf(f, paths, V)
<1> DEFINE Low(n) == {p \in V : rank[p] < n}
           Bad == {n \in Nat : ~ \E f : TextsOf(f, paths, Low(n))}
<1>1. Bad = {}
  <2> SUFFICES ASSUME Bad # {} PROVE FALSE
    OBVIOUS
  <2>1. Bad \in SUBSET Nat
    OBVIOUS
  <2>2. PICK n \in Bad : \A j \in Bad : n <= j
    <3> HIDE DEF Bad
    <3> QED
      BY <2>1, Least
  <2>3. PICK f : n = 0 \/ TextsOf(f, paths, Low(n - 1))
    <3>1. n # 0 => n - 1 \in Nat /\ n - 1 \notin Bad
      BY <2>2
    <3> QED
      BY <3>1
  <2> DEFINE h == [p \in Low(n) |-> TextAt(paths, p, Kids(f, p))]
  <2>4. ASSUME NEW p \in Low(n) PROVE Kids(h, p) = Kids(f, p)
    <3> SUFFICES ASSUME NEW i \in DOMAIN asked[p].expands PROVE h[asked[p].expands[i]] = f[asked[p].expands[i]]
      BY DEF Kids
    <3> DEFINE q == asked[p].expands[i]
    <3>1. q \in V /\ rank[q] < rank[p] /\ rank[p] < n /\ rank[q] \in Nat /\ rank[p] \in Nat
      BY DEF Ranked
    <3>2. q \in Low(n) /\ q \in Low(n - 1) /\ n # 0
      BY <3>1
    <3>3. f = [x \in Low(n - 1) |-> TextAt(paths, x, Kids(f, x))]
      BY <2>3, <3>2 DEF TextsOf
    <3> HIDE DEF q, Low
    <3>4. f[q] = TextAt(paths, q, Kids(f, q))
      BY <3>2, <3>3
    <3>5. h[q] = TextAt(paths, q, Kids(f, q))
      BY <3>2
    <3> QED
      BY <3>4, <3>5 DEF q
  <2>5. TextsOf(h, paths, Low(n))
    <3>1. \A p \in Low(n) : h[p] = TextAt(paths, p, Kids(h, p))
      <4> HIDE DEF Low
      <4> QED
        BY <2>4
    <3>2. h = [p \in Low(n) |-> h[p]]
      OBVIOUS
    <3> HIDE DEF h, Low
    <3> QED
      BY <3>1, <3>2 DEF TextsOf
  <2> HIDE DEF h, Low
  <2> QED
    BY <2>5
<1>2. Low(m) = V
  BY DEF Ranked
<1> HIDE DEF Low
<1> QED
  BY <1>1, <1>2

\* There are trees of them as well.
LEMMA TreesExist ==
    ASSUME NEW V, NEW rank, NEW m \in Nat, Ranked(V, rank, m)
    PROVE  \E f : TreesOf(f, V)
<1> DEFINE Low(n) == {p \in V : rank[p] < n}
           Bad == {n \in Nat : ~ \E f : TreesOf(f, Low(n))}
<1>1. Bad = {}
  <2> SUFFICES ASSUME Bad # {} PROVE FALSE
    OBVIOUS
  <2>1. Bad \in SUBSET Nat
    OBVIOUS
  <2>2. PICK n \in Bad : \A j \in Bad : n <= j
    <3> HIDE DEF Bad
    <3> QED
      BY <2>1, Least
  <2>3. PICK f : n = 0 \/ TreesOf(f, Low(n - 1))
    <3>1. n # 0 => n - 1 \in Nat /\ n - 1 \notin Bad
      BY <2>2
    <3> QED
      BY <3>1
  <2> DEFINE h == [p \in Low(n) |-> TreeAt(p, Kids(f, p))]
  <2>4. ASSUME NEW p \in Low(n) PROVE Kids(h, p) = Kids(f, p)
    <3> SUFFICES ASSUME NEW i \in DOMAIN asked[p].expands PROVE h[asked[p].expands[i]] = f[asked[p].expands[i]]
      BY DEF Kids
    <3> DEFINE q == asked[p].expands[i]
    <3>1. q \in V /\ rank[q] < rank[p] /\ rank[p] < n /\ rank[q] \in Nat /\ rank[p] \in Nat
      BY DEF Ranked
    <3>2. q \in Low(n) /\ q \in Low(n - 1) /\ n # 0
      BY <3>1
    <3>3. f = [x \in Low(n - 1) |-> TreeAt(x, Kids(f, x))]
      BY <2>3, <3>2 DEF TreesOf
    <3> HIDE DEF q, Low
    <3>4. f[q] = TreeAt(q, Kids(f, q))
      BY <3>2, <3>3
    <3>5. h[q] = TreeAt(q, Kids(f, q))
      BY <3>2
    <3> QED
      BY <3>4, <3>5 DEF q
  <2>5. TreesOf(h, Low(n))
    <3>1. \A p \in Low(n) : h[p] = TreeAt(p, Kids(h, p))
      <4> HIDE DEF Low
      <4> QED
        BY <2>4
    <3>2. h = [p \in Low(n) |-> h[p]]
      OBVIOUS
    <3> HIDE DEF h, Low
    <3> QED
      BY <3>1, <3>2 DEF TreesOf
  <2> HIDE DEF h, Low
  <2> QED
    BY <2>5
<1>2. Low(m) = V
  BY DEF Ranked
<1> HIDE DEF Low
<1> QED
  BY <1>1, <1>2

\* What is expanded from a path is beneath it.
LEMMA ExpandedAreBeneath ==
    ASSUME QueryTypes, TreeInv, NEW p \in Paths, path[p] # None
    PROVE  \A i \in DOMAIN asked[p].expands : asked[p].expands[i] \in Beneath(p) /\ asked[p].expands[i] \in Branches
<1> DEFINE e == asked[p].expands
<1>1. e \in Seq(Branches)
  BY DEF QueryTypes, Members
<1>2. Linked(p)
  BY DEF TreeInv
<1>3. \A x \in Branches : x # None /\ x \in Paths
  BY NoneAssumption DEF Paths
<1>4. \A i \in DOMAIN e : i \in Nat /\ i # 0 /\ e[i] \in Branches /\ (i # 1 => i - 1 \in DOMAIN e)
  BY <1>1
<1> HIDE DEF e
<1> DEFINE Bad == {i \in DOMAIN e : e[i] \notin Beneath(p)}
<1>5. Bad = {}
  <2> SUFFICES ASSUME Bad # {} PROVE FALSE
    OBVIOUS
  <2>1. Bad \in SUBSET Nat
    BY <1>4
  <2>2. PICK k \in Bad : \A j \in Bad : k <= j
    <3> HIDE DEF Bad
    <3> QED
      BY <2>1, Least
  <2>3. k \in DOMAIN e /\ k \in Nat /\ e[k] \in Branches
    BY <1>4
  <2>4. CASE k = 1
    <3>1. path[p].child = e[k] /\ e[k] # None
      BY <1>2, <1>3, <2>3, <2>4 DEF Linked, Expanded, e
    <3>2. e[k] \in Owned(p)
      BY <3>1 DEF Owned
    <3>3. Owned(p) \subseteq Beneath(p)
      BY OwnedAreBranches, ReachHas DEF Beneath
    <3> QED
      BY <3>2, <3>3
  <2>5. CASE k # 1
    <3>1. k - 1 \in DOMAIN e /\ ~ (k <= k - 1) /\ (k - 1) + 1 = k
      BY <1>4, <2>3, <2>5
    <3>2. e[k - 1] \in Beneath(p)
      <4>1. k - 1 \notin Bad
        <5> HIDE DEF Bad
        <5> QED
          BY <2>2, <3>1
      <4> QED
        BY <3>1, <4>1
    <3>3. path[e[k - 1]] # None /\ path[e[k - 1]].sibling = Expanded(p, k)
      BY <1>2, <3>1 DEF Linked, e
    <3>4. Expanded(p, k) = e[k] /\ e[k] # None
      BY <1>3, <2>3 DEF Expanded, e
    <3>5. e[k] \in Owned(e[k - 1])
      BY <3>3, <3>4 DEF Owned
    <3>6. Owned(e[k - 1]) \subseteq Beneath(p)
      BY <3>2, BeneathIsClosed
    <3> QED
      BY <3>5, <3>6
  <2> QED
    BY <2>4, <2>5
<1> QED
  BY <1>4, <1>5 DEF e

\* All there is to a builder: its path and those beneath it.
LEMMA VisitedAreClosed ==
    ASSUME QueryTypes, TreeInv, Once, NEW r \in Roots, path[r] # None, NEW V, V = {r} \cup Beneath(r)
    PROVE  \A p \in V : /\ p \in Paths /\ path[p] # None /\ (p = r \/ p \in Branches)
                        /\ Owned(p) \subseteq V /\ Beneath(p) \subseteq V /\ p \notin Beneath(p)
                        /\ \A i \in DOMAIN asked[p].expands :
                              asked[p].expands[i] \in V /\ asked[p].expands[i] \in Branches
<1>0. r \in Paths
  BY DEF Paths
<1> SUFFICES ASSUME NEW p \in V
             PROVE  /\ p \in Paths /\ path[p] # None /\ (p = r \/ p \in Branches)
                    /\ Owned(p) \subseteq V /\ Beneath(p) \subseteq V /\ p \notin Beneath(p)
                    /\ \A i \in DOMAIN asked[p].expands : asked[p].expands[i] \in V /\ asked[p].expands[i] \in Branches
  OBVIOUS
<1>1. p \in Paths /\ path[p] # None /\ (p = r \/ p \in Branches)
  BY <1>0, BeneathAreBranches, BeneathAreAlive
<1>2. Owned(p) \subseteq V /\ Beneath(p) \subseteq V
  <2>1. Owned(r) \subseteq Beneath(r)
    BY <1>0, OwnedAreBranches, ReachHas DEF Beneath
  <2>2. p \in Beneath(r) => Owned(p) \subseteq Beneath(r) /\ Beneath(p) \subseteq Beneath(r)
    BY <1>0, BeneathIsClosed
  <2> QED
    BY <2>1, <2>2
<1>3. p \notin Beneath(p)
  <2>1. r \notin Beneath(r)
    BY <1>0, BeneathAreBranches, PathsAssumption
  <2> QED
    BY <2>1, NoCircleBeneathRoots
<1>4. \A i \in DOMAIN asked[p].expands : asked[p].expands[i] \in Beneath(p) /\ asked[p].expands[i] \in Branches
  BY <1>1, ExpandedAreBeneath
<1> QED
  BY <1>1, <1>2, <1>3, <1>4

\* They are ranked by how many there are beneath them.
LEMMA VisitedAreRanked ==
    ASSUME QueryTypes, TreeInv, Once, NEW r \in Roots, path[r] # None, NEW V, V = {r} \cup Beneath(r)
    PROVE  \E rank : \E m \in Nat : Ranked(V, rank, m)
<1> DEFINE rank == [p \in V |-> Cardinality(Beneath(p))]
           m == Cardinality(Paths) + 1
<1>1. IsFiniteSet(Paths) /\ Cardinality(Paths) \in Nat /\ m \in Nat
  BY PathsAssumption, FS_CardinalityType
<1>2. ASSUME NEW p \in V
      PROVE  Beneath(p) \in SUBSET Paths /\ IsFiniteSet(Beneath(p)) /\ rank[p] = Cardinality(Beneath(p))
             /\ rank[p] \in Nat /\ rank[p] < m
  <2>1. p \in Paths
    BY VisitedAreClosed
  <2>2. Beneath(p) \in SUBSET Paths
    BY <2>1, BeneathAreBranches
  <2>3. IsFiniteSet(Beneath(p)) /\ Cardinality(Beneath(p)) <= Cardinality(Paths)
    BY <1>1, <2>2, FS_Subset
  <2>4. Cardinality(Beneath(p)) \in Nat
    BY <2>3, FS_CardinalityType
  <2> QED
    BY <1>1, <2>2, <2>3, <2>4
<1>3. ASSUME NEW p \in V, NEW i \in DOMAIN asked[p].expands
      PROVE  asked[p].expands[i] \in V /\ rank[asked[p].expands[i]] < rank[p]
  <2> DEFINE q == asked[p].expands[i]
  <2>1. p \in Paths /\ path[p] # None /\ q \in V
    BY VisitedAreClosed
  <2>2. q \in Beneath(p)
    BY <2>1, ExpandedAreBeneath
  <2>3. q \notin Beneath(q)
    BY <2>1, VisitedAreClosed
  <2> HIDE DEF q
  <2>4. Beneath(q) \subseteq Beneath(p)
    BY <2>1, <2>2, BeneathIsClosed
  <2>5. Cardinality(Beneath(q)) <= Cardinality(Beneath(p)) /\ Cardinality(Beneath(q)) # Cardinality(Beneath(p))
    <3>1. IsFiniteSet(Beneath(p)) /\ Beneath(q) \in SUBSET Beneath(p)
      BY <1>2, <2>4
    <3>2. Beneath(q) # Beneath(p)
      BY <2>2, <2>3
    <3> QED
      BY <3>1, <3>2, FS_Subset
  <2>6. rank[q] \in Nat /\ rank[p] \in Nat /\ rank[q] = Cardinality(Beneath(q)) /\ rank[p] = Cardinality(Beneath(p))
    BY <1>2, <2>1
  <2> HIDE DEF rank
  <2>7. rank[q] < rank[p]
    BY <2>5, <2>6
  <2> QED
    BY <2>1, <2>7 DEF q
<1> HIDE DEF rank, m
<1>4. Ranked(V, rank, m)
  BY <1>2, <1>3 DEF Ranked
<1> QED
  BY <1>1, <1>4

\* The lists that the pointers to siblings make.
SiblingsOf(f, paths, V) ==
    f = [p \in V \cup {None} |-> IF p = None THEN <<>> ELSE <<p>> \o f[paths[p].sibling]]
SamePointers(paths, V) ==
    \A p \in V : paths[p].child = path[p].child /\ paths[p].sibling = path[p].sibling

\* One element before a sequence.
LEMMA OneBefore ==
    ASSUME NEW T, NEW y \in Seq(T), Len(y) = 1, NEW t \in Seq(T)
    PROVE  /\ y \o t \in Seq(T) /\ Len(y \o t) = Len(t) + 1 /\ (y \o t)[1] = y[1]
           /\ \A j \in 2 .. Len(t) + 1 : (y \o t)[j] = t[j - 1]
<1>1. /\ y \o t \in Seq(T) /\ Len(y \o t) = Len(y) + Len(t)
      /\ \A i \in 1 .. Len(y) + Len(t) : (y \o t)[i] = IF i <= Len(y) THEN y[i] ELSE t[i - Len(y)]
  BY ConcatProperties
<1>2. Len(t) \in Nat
  OBVIOUS
<1> DEFINE u == y \o t
           n == Len(t)
<1> HIDE DEF u, n
<1>3. u \in Seq(T) /\ Len(u) = 1 + n /\ \A i \in 1 .. 1 + n : u[i] = IF i <= 1 THEN y[i] ELSE t[i - 1]
  BY <1>1 DEF u, n
<1>4. n \in Nat
  BY <1>2 DEF n
<1>5. u \in Seq(T) /\ Len(u) = n + 1 /\ u[1] = y[1]
  BY <1>3, <1>4
<1>6. \A j \in 2 .. n + 1 : u[j] = t[j - 1]
  BY <1>3, <1>4
<1> QED
  BY <1>5, <1>6 DEF u, n

\* The rest of a list from its place i on.
From(s, i) == SubSeq(s, i, Len(s))
\* The rest of a list is its next member and the rest behind that.
LEMMA FromUnfolds ==
    ASSUME NEW T, NEW s \in Seq(T)
    PROVE  /\ From(s, 1) = s /\ From(s, Len(s) + 1) = <<>>
           /\ \A i \in 1 .. Len(s) : From(s, i) = <<s[i]>> \o From(s, i + 1)
<1>1. From(s, 1) = s
  BY OneMore DEF From
<1>2. From(s, Len(s) + 1) = <<>>
  BY DEF From
<1>3. ASSUME NEW i \in 1 .. Len(s) PROVE From(s, i) = <<s[i]>> \o From(s, i + 1)
  <2> DEFINE u == From(s, i)
             t == From(s, i + 1)
             y == <<s[i]>>
             v == y \o t
             n == Len(s) - i + 1
  <2>1. u \in Seq(T) /\ Len(u) = n /\ \A j \in 1 .. n : u[j] = s[i + j - 1]
    BY DEF From
  <2>2. t \in Seq(T) /\ Len(t) = n - 1 /\ \A j \in 1 .. n - 1 : t[j] = s[i + j]
    BY DEF From
  <2>3. y \in Seq(T) /\ Len(y) = 1 /\ y[1] = s[i]
    OBVIOUS
  <2>4. n \in Nat /\ n >= 1 /\ i \in Nat
    OBVIOUS
  <2> HIDE DEF u, t, y, n
  <2>5. v \in Seq(T) /\ Len(v) = n /\ v[1] = s[i] /\ \A j \in 2 .. n : v[j] = t[j - 1]
    <3>1. Len(t) + 1 = n
      BY <2>2, <2>4
    <3> QED
      BY <2>2, <2>3, <3>1, OneBefore
  <2> HIDE DEF v
  <2>6. ASSUME NEW j \in 1 .. n PROVE u[j] = v[j]
    <3>1. CASE j = 1
      <4>1. u[1] = s[i + 1 - 1] /\ i + 1 - 1 = i
        BY <2>1, <2>4, <3>1
      <4> QED
        BY <2>5, <3>1, <4>1
    <3>2. CASE j # 1
      <4>1. j \in 2 .. n /\ j - 1 \in 1 .. n - 1 /\ i + (j - 1) = i + j - 1
        BY <2>4, <3>2
      <4>2. u[j] = s[i + j - 1] /\ t[j - 1] = s[i + (j - 1)] /\ v[j] = t[j - 1]
        BY <2>1, <2>2, <2>5, <4>1
      <4> QED
        BY <4>1, <4>2
    <3> QED
      BY <3>1, <3>2
  <2>7. u = v
    BY <2>1, <2>5, <2>6, SeqEqual
  <2> QED
    BY <2>7 DEF u, v, y, t
<1> QED
  BY <1>1, <1>2, <1>3

\* There are such lists: what was expanded from the path that a path was
\* expanded from, from this path on.
LEMMA SiblingsExist ==
    ASSUME QueryTypes, TreeInv, Once, NEW V \in SUBSET Paths, \A p \in V : path[p] # None /\ Owned(p) \subseteq V,
           NEW paths, SamePointers(paths, V)
    PROVE  \E f : SiblingsOf(f, paths, V)
<1> DEFINE RestOf(s, p) == \E z \in Paths : \E i \in Nat : ExpandedAs(z, i, p) /\ s = From(asked[z].expands, i)
           Rest(p) == IF Lone(p) THEN <<p>> ELSE CHOOSE s : RestOf(s, p)
           f == [p \in V \cup {None} |-> IF p = None THEN <<>> ELSE Rest(p)]
<1>0. None \notin V
  BY NoneAssumption
<1>1. ASSUME NEW p \in V, NEW z \in Paths, NEW i \in Nat, ExpandedAs(z, i, p) PROVE Rest(p) = From(asked[z].expands, i)
  <2>1. ~ Lone(p)
    BY <1>1 DEF Lone, ExpandedAs
  <2>2. p \in Branches
    <3>1. asked[z].expands \in Seq(Branches)
      BY DEF QueryTypes, Members
    <3> QED
      BY <1>1, <3>1 DEF ExpandedAs
  <2>3. RestOf(From(asked[z].expands, i), p)
    BY <1>1
  <2>4. PICK s : s = Rest(p) /\ RestOf(s, p)
    BY <2>1, <2>3
  <2>5. PICK y \in Paths, j \in Nat : ExpandedAs(y, j, p) /\ s = From(asked[y].expands, j)
    BY <2>4
  <2>6. y = z /\ j = i
    BY <1>1, <2>2, <2>5 DEF Once
  <2> QED
    BY <2>4, <2>5, <2>6
<1> HIDE DEF Rest
<1>2. ASSUME NEW p \in V PROVE Rest(p) = <<p>> \o f[paths[p].sibling]
  <2>1. CASE Lone(p)
    <3>1. paths[p].sibling = None
      BY <2>1 DEF TreeInv, SamePointers
    <3>2. f[None] = <<>>
      OBVIOUS
    <3>3. Rest(p) = <<p>>
      BY <2>1 DEF Rest
    <3>4. <<p>> \o <<>> = <<p>>
      OBVIOUS
    <3> QED
      BY <3>1, <3>2, <3>3, <3>4
  <2>2. CASE ~ Lone(p)
    <3>0. PICK z \in Paths : \E i \in DOMAIN asked[z].expands : asked[z].expands[i] = p
      BY <2>2 DEF Lone
    <3>1. PICK i \in DOMAIN asked[z].expands : asked[z].expands[i] = p
      BY <3>0
    <3> DEFINE e == asked[z].expands
    <3>2. e \in Seq(Branches) /\ i \in 1 .. Len(e) /\ Len(e) \in Nat /\ i + 1 \in Nat /\ i \in Nat
      BY DEF QueryTypes, Members
    <3>3. Linked(z)
      BY <3>1 DEF TreeInv, Gone
    <3>4. paths[p].sibling = Expanded(z, i + 1)
      BY <3>1, <3>3 DEF Linked, SamePointers
    <3>5. Rest(p) = From(e, i)
      BY <1>1, <3>1, <3>2 DEF ExpandedAs
    <3>6. From(e, i) = <<p>> \o From(e, i + 1)
      BY <3>1, <3>2, FromUnfolds
    <3>7. CASE i + 1 \in DOMAIN e
      <4> DEFINE q == e[i + 1]
      <4>1. q \in Branches /\ q # None /\ paths[p].sibling = q
        BY <3>2, <3>4, <3>7, NoneAssumption DEF Expanded, Paths
      <4>2. q \in V
        BY <4>1 DEF Owned, SamePointers
      <4>3. ExpandedAs(z, i + 1, q)
        BY <3>7 DEF ExpandedAs
      <4>4. Rest(q) = From(e, i + 1)
        BY <1>1, <3>2, <4>2, <4>3
      <4> HIDE DEF q
      <4>5. f[q] = Rest(q)
        BY <4>1, <4>2
      <4> HIDE DEF f
      <4> QED
        BY <3>5, <3>6, <4>1, <4>4, <4>5
    <3>8. CASE i + 1 \notin DOMAIN e
      <4>1. i + 1 = Len(e) + 1
        BY <3>2, <3>8
      <4>2. From(e, i + 1) = <<>>
        BY <3>2, <4>1, FromUnfolds
      <4>3. paths[p].sibling = None /\ f[None] = <<>>
        BY <3>4, <3>8 DEF Expanded
      <4> HIDE DEF f, e
      <4> QED
        BY <3>5, <3>6, <4>2, <4>3
    <3> QED
      BY <3>7, <3>8
  <2> QED
    BY <2>1, <2>2
<1>3. f = [p \in V \cup {None} |-> IF p = None THEN <<>> ELSE <<p>> \o f[paths[p].sibling]]
  <2>1. \A p \in V \cup {None} : f[p] = IF p = None THEN <<>> ELSE <<p>> \o f[paths[p].sibling]
    <3> SUFFICES ASSUME NEW p \in V \cup {None} PROVE f[p] = IF p = None THEN <<>> ELSE <<p>> \o f[paths[p].sibling]
      OBVIOUS
    <3>1. f[p] = IF p = None THEN <<>> ELSE Rest(p)
      OBVIOUS
    <3> HIDE DEF f
    <3> QED
      BY <1>2, <3>1
  <2>2. f = [p \in V \cup {None} |-> f[p]]
    OBVIOUS
  <2> HIDE DEF f
  <2> QED
    BY <2>1, <2>2
<1> HIDE DEF f
<1> QED
  BY <1>3 DEF SiblingsOf

\* Any such list is what was expanded from the path that owns it.
LEMMA SiblingsAreAsked ==
    ASSUME QueryTypes, TreeInv, NEW V \in SUBSET Paths, NEW paths, SamePointers(paths, V),
           NEW f, SiblingsOf(f, paths, V),
           NEW z \in V, path[z] # None, \A i \in DOMAIN asked[z].expands : asked[z].expands[i] \in V
    PROVE  f[paths[z].child] = asked[z].expands
<1> DEFINE e == asked[z].expands
           n == Len(e)
           Wrong(k) == f[Expanded(z, n + 1 - k)] # From(e, n + 1 - k)
           Bad == {k \in 0 .. n : Wrong(k)}
<1>0. None \notin V /\ e \in Seq(Branches) /\ n \in Nat /\ DOMAIN e = 1 .. n
  BY NoneAssumption DEF QueryTypes, Members
<1>1. f[None] = <<>> /\ \A p \in V : f[p] = <<p>> \o f[paths[p].sibling]
  BY <1>0 DEF SiblingsOf
<1>2. Linked(z)
  BY DEF TreeInv
<1>3. \A i \in 1 .. n : e[i] \in V /\ Expanded(z, i) = e[i] /\ paths[e[i]].sibling = Expanded(z, i + 1)
  BY <1>0, <1>2 DEF Linked, SamePointers, Expanded
<1>4. From(e, n + 1) = <<>> /\ From(e, 1) = e /\ \A i \in 1 .. n : From(e, i) = <<e[i]>> \o From(e, i + 1)
  BY <1>0, FromUnfolds
<1>5. Expanded(z, n + 1) = None
  BY <1>0 DEF Expanded
<1> HIDE DEF e, n
<1>6. Bad = {}
  <2> SUFFICES ASSUME Bad # {} PROVE FALSE
    OBVIOUS
  <2>1. Bad \in SUBSET Nat
    OBVIOUS
  <2>2. PICK k \in Bad : \A j \in Bad : k <= j
    <3> HIDE DEF Bad
    <3> QED
      BY <2>1, Least
  <2>3. k # 0
    <3>1. n + 1 - 0 = n + 1
      BY <1>0
    <3>2. ~ Wrong(0)
      BY <1>1, <1>4, <1>5, <3>1
    <3> HIDE DEF Wrong
    <3> QED
      BY <3>2
  <2> DEFINE i == n + 1 - k
  <2>4. i \in 1 .. n /\ k - 1 \in 0 .. n /\ k - 1 \notin Bad /\ n + 1 - (k - 1) = i + 1
    <3>1. k \in 0 .. n
      OBVIOUS
    <3>2. i \in 1 .. n /\ k - 1 \in 0 .. n /\ ~ (k <= k - 1) /\ n + 1 - (k - 1) = i + 1
      BY <1>0, <2>3, <3>1
    <3> HIDE DEF Bad
    <3> QED
      BY <2>2, <3>2
  <2>5. ~ Wrong(k - 1)
    <3> HIDE DEF Wrong
    <3> QED
      BY <2>4
  <2>6. f[Expanded(z, i + 1)] = From(e, i + 1)
    BY <2>4, <2>5
  <2>7. Wrong(k)
    OBVIOUS
  <2>8. f[Expanded(z, i)] # From(e, i)
    BY <2>7
  <2> HIDE DEF i
  <2>9. e[i] \in V /\ Expanded(z, i) = e[i] /\ paths[e[i]].sibling = Expanded(z, i + 1)
        /\ From(e, i) = <<e[i]>> \o From(e, i + 1)
    BY <1>3, <1>4, <2>4
  <2>10. f[e[i]] = <<e[i]>> \o f[Expanded(z, i + 1)]
    BY <1>1, <2>9
  <2>11. f[e[i]] = From(e, i)
    BY <2>6, <2>9, <2>10
  <2> QED
    BY <2>8, <2>9, <2>11
<1>7. f[Expanded(z, 1)] = From(e, 1)
  <2>1. n \in 0 .. n /\ n + 1 - n = 1
    BY <1>0
  <2>2. ~ Wrong(n)
    BY <1>6, <2>1
  <2> QED
    BY <2>1, <2>2
<1>8. paths[z].child = Expanded(z, 1)
  BY <1>2 DEF Linked, SamePointers
<1> QED
  BY <1>4, <1>7, <1>8 DEF e

\* A path that is as was asked for.
AsAsked(paths, p) ==
    /\ paths[p].resource = Resource(p)
    /\ paths[p].options = InOrder(asked[p].options) /\ paths[p].options \in Seq(DOMAIN Options)

\* The text of a path that is expanded is an item.
LEMMA PathSays ==
    ASSUME QueryTypes, NEW p \in Branches, NEW paths, AsAsked(paths, p),
           NEW texts, NEW T, NEW trees \in Seq(T), SayAll(texts, trees)
    PROVE  Says(TextAt(paths, p, texts), TreeAt(p, trees))
<1> DEFINE K == [k \in 1 .. asked[p].keys |-> "key"]
           o == paths[p].options
           c == Joined(Clauses(o, texts), ";")
<1>1. p \in Paths /\ p \notin Roots
  BY PathsAssumption DEF Paths
<1>2. K \in Seq(Segments)
  <2>1. asked[p].keys \in Nat
    BY <1>1 DEF QueryTypes, Members
  <2>2. "key" \in Segments
    BY DEF Segments
  <2> QED
    BY <2>1, <2>2
<1>3. paths[p].resource = <<p>> \o K /\ Resource(p) = <<p>> \o K
  BY DEF AsAsked, Resource
<1>4. o \in Seq(DOMAIN Options) /\ o = InOrder(asked[p].options)
  BY DEF AsAsked
<1> HIDE DEF K, o
<1>5. Says((<<p>> \o K) \o Enclosed(c, FALSE), Tree(<<p>> \o K, o, trees))
  BY <1>1, <1>2, <1>4, ItemIsRead
<1>6. TextAt(paths, p, texts) = (<<p>> \o K) \o Enclosed(c, FALSE)
  <2>1. (p \in Roots) = FALSE
    BY <1>1
  <2>2. (IF p \in Roots THEN "&" ELSE ";") = ";"
    BY <1>1
  <2> QED
    BY <1>3, <2>1, <2>2 DEF TextAt, o
<1>7. TreeAt(p, trees) = Tree(<<p>> \o K, o, trees)
  BY <1>3, <1>4 DEF TreeAt
<1> QED
  BY <1>5, <1>6, <1>7

\* What is expanded from a path says what was asked, if each of it does.
EachSays(p, f, g, V) ==
    \A i \in DOMAIN asked[p].expands :
        asked[p].expands[i] \in V /\ Says(f[asked[p].expands[i]], g[asked[p].expands[i]])

LEMMA KidsSay ==
    ASSUME QueryTypes, NEW p \in Paths, NEW f, NEW g, NEW V, EachSays(p, f, g, V)
    PROVE  SayAll(Kids(f, p), Kids(g, p)) /\ Kids(g, p) \in Seq({g[x] : x \in V})
<1> DEFINE e == asked[p].expands
           n == Len(e)
           T == {g[x] : x \in V}
<1>1. n \in Nat /\ DOMAIN e = 1 .. n
  <2>1. e \in Seq(Branches)
    BY DEF QueryTypes, Members
  <2> QED
    BY <2>1
<1>2. Kids(f, p) = [i \in 1 .. n |-> f[e[i]]] /\ Kids(g, p) = [i \in 1 .. n |-> g[e[i]]]
  BY <1>1 DEF Kids
<1>3. \A i \in 1 .. n : f[e[i]] \in Seq(Tokens) /\ g[e[i]] \in T
  BY <1>1 DEF EachSays, Says
<1>4. \A i \in 1 .. n : Says(f[e[i]], g[e[i]])
  BY <1>1 DEF EachSays
<1> HIDE DEF e, n, T
<1>5. Kids(f, p) \in [1 .. n -> Seq(Tokens)]
  BY <1>2, <1>3
<1>6. Kids(g, p) \in [1 .. n -> T]
  BY <1>2, <1>3
<1>7. Kids(f, p) \in Seq(Seq(Tokens)) /\ Len(Kids(f, p)) = n
  BY <1>1, <1>5
<1>8. Kids(g, p) \in Seq(T) /\ Len(Kids(g, p)) = n
  BY <1>1, <1>6
<1>9. \A i \in 1 .. n : Says(Kids(f, p)[i], Kids(g, p)[i])
  BY <1>2, <1>4
<1> QED
  BY <1>7, <1>8, <1>9 DEF SayAll, T

\* So do all that are beneath a builder.
LEMMA AllSay ==
    ASSUME QueryTypes, NEW V \in SUBSET Paths, NEW rank, NEW m \in Nat, Ranked(V, rank, m),
           NEW paths, \A p \in V : AsAsked(paths, p),
           \A p \in V : \A i \in DOMAIN asked[p].expands : asked[p].expands[i] \in Branches,
           NEW f, TextsOf(f, paths, V), NEW g, TreesOf(g, V)
    PROVE  \A p \in V : SayAll(Kids(f, p), Kids(g, p)) /\ Kids(g, p) \in Seq({g[x] : x \in V})
<1> DEFINE Bad == {n \in Nat : \E p \in V \cap Branches : rank[p] = n /\ ~ Says(f[p], g[p])}
<1>1. f = [p \in V |-> TextAt(paths, p, Kids(f, p))] /\ g = [p \in V |-> TreeAt(p, Kids(g, p))]
  BY DEF TextsOf, TreesOf
<1>2. ASSUME NEW p \in V PROVE f[p] = TextAt(paths, p, Kids(f, p)) /\ g[p] = TreeAt(p, Kids(g, p))
  BY <1>1
<1>3. Bad = {}
  <2> SUFFICES ASSUME Bad # {} PROVE FALSE
    OBVIOUS
  <2>1. Bad \in SUBSET Nat
    OBVIOUS
  <2>2. PICK n \in Bad : \A j \in Bad : n <= j
    <3> HIDE DEF Bad
    <3> QED
      BY <2>1, Least
  <2>3. PICK p \in V \cap Branches : rank[p] = n /\ ~ Says(f[p], g[p])
    OBVIOUS
  <2>4. ASSUME NEW i \in DOMAIN asked[p].expands
        PROVE  asked[p].expands[i] \in V /\ Says(f[asked[p].expands[i]], g[asked[p].expands[i]])
    <3> DEFINE q == asked[p].expands[i]
    <3>1. q \in V /\ q \in Branches /\ rank[q] \in Nat /\ rank[q] < n /\ n \in Nat
      BY <2>3 DEF Ranked
    <3> HIDE DEF q
    <3>2. rank[q] \notin Bad
      <4> HIDE DEF Bad
      <4> QED
        BY <2>2, <3>1
    <3>3. Says(f[q], g[q])
      BY <3>1, <3>2
    <3> QED
      BY <3>1, <3>3 DEF q
  <2>5. p \in Paths /\ EachSays(p, f, g, V)
    BY <2>4 DEF EachSays
  <2>6. SayAll(Kids(f, p), Kids(g, p)) /\ Kids(g, p) \in Seq({g[x] : x \in V})
    <3> HIDE DEF Bad
    <3> QED
      BY <2>5, KidsSay
  <2>7. AsAsked(paths, p)
    OBVIOUS
  <2>8. Says(TextAt(paths, p, Kids(f, p)), TreeAt(p, Kids(g, p)))
    <3> HIDE DEF Bad
    <3> QED
      BY <2>6, <2>7, PathSays
  <2> QED
    BY <1>2, <2>3, <2>8
<1>4. \A p \in V \cap Branches : Says(f[p], g[p])
  <2> SUFFICES ASSUME NEW p \in V \cap Branches, ~ Says(f[p], g[p]) PROVE FALSE
    OBVIOUS
  <2>1. rank[p] \in Nat
    BY DEF Ranked
  <2>2. rank[p] \in Bad
    BY <2>1
  <2> QED
    BY <1>3, <2>2
<1> SUFFICES ASSUME NEW p \in V PROVE SayAll(Kids(f, p), Kids(g, p)) /\ Kids(g, p) \in Seq({g[x] : x \in V})
  OBVIOUS
<1>5. p \in Paths /\ EachSays(p, f, g, V)
  BY <1>4 DEF Ranked, EachSays
<1> HIDE DEF Bad
<1> QED
  BY <1>5, KidsSay

\* What Evaluated and Asked compute.
LEMMA EvaluatedUnfolds ==
    ASSUME QueryTypes, TreeInv, Once, NEW r \in Roots, path[r] # None, NEW V, V = {r} \cup Beneath(r),
           NEW paths, SamePointers(paths, V)
    PROVE  /\ \E f : TextsOf(f, paths, V) /\ Evaluated(r, paths, V) = f[r]
           /\ \E g : TreesOf(g, V) /\ Asked(r) = g[r]
<1>1. PICK rank : \E m \in Nat : Ranked(V, rank, m)
  BY VisitedAreRanked
<1>2. PICK m \in Nat : Ranked(V, rank, m)
  BY <1>1
<1>0. \A p \in V : p \in Paths /\ path[p] # None /\ Owned(p) \subseteq V
  BY VisitedAreClosed
<1>3. V \in SUBSET Paths /\ \A p \in V : path[p] # None /\ Owned(p) \subseteq V
  BY <1>0
<1>4. \A p \in V : \A i \in DOMAIN asked[p].expands : asked[p].expands[i] \in V
  BY VisitedAreClosed
<1> DEFINE siblings == CHOOSE s : SiblingsOf(s, paths, V)
<1>5. SiblingsOf(siblings, paths, V)
  BY <1>3, SiblingsExist
<1>6. siblings = CHOOSE s : s = [p \in V \cup {None} |-> IF p = None THEN <<>> ELSE <<p>> \o s[paths[p].sibling]]
  BY DEF SiblingsOf
<1> HIDE DEF siblings
<1>7. \A p \in V : siblings[paths[p].child] = asked[p].expands
  BY <1>3, <1>4, <1>5, SiblingsAreAsked
<1> DEFINE body(f, p) == paths[p].resource
                         \o Enclosed(Joined(Clauses(paths[p].options,
                                                    [i \in DOMAIN siblings[paths[p].child] |->
                                                        f[siblings[paths[p].child][i]]]),
                                            IF p \in Roots THEN "&" ELSE ";"), p \in Roots)
           text == CHOOSE f : f = [p \in V |-> body(f, p)]
<1>8. Evaluated(r, paths, V) = text[r]
  BY <1>6 DEF Evaluated
<1>9. ASSUME NEW f PROVE TextsOf(f, paths, V) <=> f = [p \in V |-> body(f, p)]
  <2>1. \A p \in V : body(f, p) = TextAt(paths, p, Kids(f, p))
    BY <1>7 DEF TextAt, Kids
  <2> HIDE DEF body
  <2> QED
    BY <2>1 DEF TextsOf
<1>10. TextsOf(text, paths, V)
  <2>1. \E f : TextsOf(f, paths, V)
    BY <1>2, TextsExist
  <2> HIDE DEF body
  <2>2. text = [p \in V |-> body(text, p)]
    BY <1>9, <2>1
  <2> QED
    BY <1>9, <2>2
<1> DEFINE tree == CHOOSE g : TreesOf(g, V)
<1>11. TreesOf(tree, V)
  BY <1>2, TreesExist
<1>12. Asked(r) = tree[r]
  BY DEF Asked, TreesOf, TreeAt, Tree, Resource, Kids
<1> HIDE DEF text, tree
<1> QED
  BY <1>8, <1>10, <1>11, <1>12

\* The expression of a builder says what was asked, if its paths are so.
LEMMA BuilderSays ==
    ASSUME QueryTypes, TreeInv, Once, NEW r \in Roots, path[r] # None, NEW V, V = {r} \cup Beneath(r),
           NEW paths, SamePointers(paths, V), \A p \in V : AsAsked(paths, p)
    PROVE  ReadQuery(Evaluated(r, paths, V)) = Asked(r)
<1>1. PICK f : TextsOf(f, paths, V) /\ Evaluated(r, paths, V) = f[r]
  BY EvaluatedUnfolds
<1>2. PICK g : TreesOf(g, V) /\ Asked(r) = g[r]
  BY EvaluatedUnfolds
<1>3. PICK rank : \E m \in Nat : Ranked(V, rank, m)
  BY VisitedAreRanked
<1>4. PICK m \in Nat : Ranked(V, rank, m)
  BY <1>3
<1>0. \A p \in V : p \in Paths /\ \A i \in DOMAIN asked[p].expands : asked[p].expands[i] \in Branches
  BY VisitedAreClosed
<1>5. V \in SUBSET Paths /\ \A p \in V : \A i \in DOMAIN asked[p].expands : asked[p].expands[i] \in Branches
  BY <1>0
<1>6. r \in V /\ r \in Paths /\ r \in Roots
  BY DEF Paths
<1> DEFINE texts == Kids(f, r)
           trees == Kids(g, r)
           T == {g[x] : x \in V}
           o == paths[r].options
           R == Resource(r)
           c == Joined(Clauses(o, texts), "&")
<1>7. SayAll(texts, trees) /\ trees \in Seq(T)
  BY <1>1, <1>2, <1>4, <1>5, <1>6, AllSay
<1>8. paths[r].resource = R /\ o = InOrder(asked[r].options) /\ o \in Seq(DOMAIN Options)
  BY <1>6 DEF AsAsked
<1>9. R \in Seq(Segments)
  <2> DEFINE K == [k \in 1 .. asked[r].keys |-> "key"]
             y == <<r>>
  <2>1. asked[r].keys \in Nat
    BY <1>6 DEF QueryTypes, Members
  <2>2. "key" \in Segments /\ r \in Segments
    BY <1>6 DEF Segments
  <2>3. K \in Seq(Segments)
    BY <2>1, <2>2
  <2>4. y \in Seq(Segments)
    BY <2>2
  <2> HIDE DEF K, y
  <2>5. y \o K \in Seq(Segments)
    BY <2>3, <2>4, TypedConcat
  <2> QED
    BY <2>5 DEF Resource, K, y
<1>10. f[r] = R \o Enclosed(c, TRUE)
  <2>1. f = [p \in V |-> TextAt(paths, p, Kids(f, p))]
    BY <1>1 DEF TextsOf
  <2>2. f[r] = TextAt(paths, r, texts)
    BY <1>6, <2>1
  <2>3. (r \in Roots) = TRUE
    BY <1>6
  <2> QED
    BY <1>6, <1>8, <2>2, <2>3 DEF TextAt
<1>11. g[r] = Tree(R, o, trees)
  <2>1. g = [p \in V |-> TreeAt(p, Kids(g, p))]
    BY <1>2 DEF TreesOf
  <2>2. g[r] = TreeAt(r, trees)
    BY <1>6, <2>1
  <2> QED
    BY <1>8, <2>2 DEF TreeAt
<1>11a. o \in Seq(DOMAIN Options)
  BY <1>8
<1> HIDE DEF texts, trees, T, o, R
<1>12. ReadQuery(R \o Enclosed(Joined(Clauses(o, texts), "&"), TRUE)) = Tree(R, o, trees)
  BY <1>7, <1>11a, <1>9, QueryIsRead
<1> QED
  BY <1>1, <1>2, <1>10, <1>11, <1>12

-----------------------------------------------------------------------------
(* What a path holds of what was asked *)

\* The same options, in any order.
Permutes(f, S) == f \in [S -> S] /\ \A i, j \in S : i # j => f[i] # f[j]
RearrangedBy(f, s, t) == Permutes(f, DOMAIN t) /\ s = [i \in DOMAIN t |-> t[f[i]]]
Rearranged(s, t) == \E f : RearrangedBy(f, s, t)

\* One option more is one more of each.
LEMMA RearrangedAppend ==
    ASSUME NEW T, NEW s \in Seq(T), NEW t \in Seq(T), Rearranged(s, t), NEW o \in T
    PROVE  Rearranged(Append(s, o), Append(t, o))
<1>1. PICK f : RearrangedBy(f, s, t)
  BY DEF Rearranged
<1> DEFINE n == Len(t)
           u == Append(t, o)
           v == Append(s, o)
           h == [i \in 1 .. n + 1 |-> IF i = n + 1 THEN n + 1 ELSE f[i]]
<1>2. n \in Nat /\ DOMAIN t = 1 .. n
  OBVIOUS
<1>3. f \in [1 .. n -> 1 .. n] /\ (\A i, j \in 1 .. n : i # j => f[i] # f[j]) /\ s = [i \in 1 .. n |-> t[f[i]]]
  BY <1>1, <1>2 DEF RearrangedBy, Permutes
<1>4. Len(s) = n
  BY <1>2, <1>3
<1>5. DOMAIN u = 1 .. n + 1 /\ u[n + 1] = o /\ \A i \in 1 .. n : u[i] = t[i]
  OBVIOUS
<1>6. v \in Seq(T) /\ Len(v) = n + 1 /\ v[n + 1] = o /\ \A i \in 1 .. n : v[i] = s[i]
  BY <1>4
<1>7. v = [i \in 1 .. n + 1 |-> v[i]]
  <2> HIDE DEF v
  <2> QED
    BY <1>2, <1>6
<1> HIDE DEF n, u, v
<1>8. h \in [1 .. n + 1 -> 1 .. n + 1]
  BY <1>2, <1>3
<1>9. \A i, j \in 1 .. n + 1 : i # j => h[i] # h[j]
  <2> SUFFICES ASSUME NEW i \in 1 .. n + 1, NEW j \in 1 .. n + 1, i # j PROVE h[i] # h[j]
    OBVIOUS
  <2>1. CASE i = n + 1
    <3>1. j \in 1 .. n /\ f[j] \in 1 .. n /\ h[j] = f[j] /\ h[i] = n + 1
      BY <1>2, <1>3, <2>1
    <3> HIDE DEF h
    <3> QED
      BY <1>2, <3>1
  <2>2. CASE j = n + 1
    <3>1. i \in 1 .. n /\ f[i] \in 1 .. n /\ h[i] = f[i] /\ h[j] = n + 1
      BY <1>2, <1>3, <2>2
    <3> HIDE DEF h
    <3> QED
      BY <1>2, <3>1
  <2>3. CASE i # n + 1 /\ j # n + 1
    <3>1. i \in 1 .. n /\ j \in 1 .. n /\ h[i] = f[i] /\ h[j] = f[j]
      BY <1>2, <2>3
    <3> QED
      BY <1>3, <3>1
  <2> QED
    BY <2>1, <2>2, <2>3
<1>10. \A i \in 1 .. n + 1 : v[i] = u[h[i]]
  <2> SUFFICES ASSUME NEW i \in 1 .. n + 1 PROVE v[i] = u[h[i]]
    OBVIOUS
  <2>1. CASE i = n + 1
    BY <1>5, <1>6, <2>1
  <2>2. CASE i # n + 1
    <3>1. i \in 1 .. n /\ h[i] = f[i] /\ f[i] \in 1 .. n
      BY <1>2, <1>3, <2>2
    <3> HIDE DEF h
    <3> QED
      BY <1>3, <1>5, <1>6, <3>1
  <2> QED
    BY <2>1, <2>2
<1> HIDE DEF h
<1>11. v = [i \in 1 .. n + 1 |-> u[h[i]]]
  BY <1>7, <1>10
<1>12. RearrangedBy(h, v, u)
  BY <1>5, <1>8, <1>9, <1>11 DEF RearrangedBy, Permutes
<1> QED
  BY <1>12 DEF Rearranged, u, v

\* Sorting arranges them once more.
LEMMA RearrangedSorted ==
    ASSUME NEW s, NEW t, Rearranged(s, t), NEW u \in Ordered(s)
    PROVE  /\ Rearranged(u, t) /\ DOMAIN u = DOMAIN t
           /\ \A i, j \in DOMAIN u : i < j => Options[u[i]] <= Options[u[j]]
<1>1. PICK f : RearrangedBy(f, s, t)
  BY DEF Rearranged
<1> DEFINE S == DOMAIN t
<1>2. f \in [S -> S] /\ (\A i, j \in S : i # j => f[i] # f[j]) /\ s = [i \in S |-> t[f[i]]]
  BY <1>1 DEF RearrangedBy, Permutes
<1>3. DOMAIN s = S
  BY <1>2
<1>4. PICK g \in [S -> S] : /\ \A i, j \in S : (i # j => g[i] # g[j]) /\ (i < j => Options[s[g[i]]] <= Options[s[g[j]]])
                            /\ u = [i \in S |-> s[g[i]]]
  BY <1>3 DEF Ordered
<1> DEFINE h == [i \in S |-> f[g[i]]]
<1>5. h \in [S -> S] /\ \A i, j \in S : i # j => h[i] # h[j]
  BY <1>2, <1>4
<1>6. u = [i \in S |-> t[h[i]]]
  BY <1>2, <1>4
<1> HIDE DEF h
<1>7. RearrangedBy(h, u, t)
  BY <1>5, <1>6 DEF RearrangedBy, Permutes
<1> QED
  BY <1>4, <1>7 DEF Rearranged

\* No two options of one type.
Differ(t) == \A i, j \in DOMAIN t : Options[t[i]] = Options[t[j]] => i = j

\* In the order of their types.
InOrderOf(s, t) ==
    /\ s \in [DOMAIN t -> Range(t)] /\ Range(s) = Range(t)
    /\ \A i, j \in DOMAIN s : i < j => Options[s[i]] < Options[s[j]]

\* There is one such order only.
LEMMA OneOrder ==
    ASSUME NEW t \in Seq(DOMAIN Options), NEW u, NEW v, InOrderOf(u, t), InOrderOf(v, t)
    PROVE  u = v
<1> DEFINE n == Len(t)
           Bad == {i \in 1 .. n : u[i] # v[i]}
<1>1. n \in Nat /\ DOMAIN t = 1 .. n /\ \A x \in Range(t) : Options[x] \in Nat
  BY OptionsAssumption DEF Range
<1>2. /\ u \in [1 .. n -> Range(t)] /\ v \in [1 .. n -> Range(t)] /\ Range(u) = Range(v)
      /\ \A i, j \in 1 .. n : i < j => Options[u[i]] < Options[u[j]] /\ Options[v[i]] < Options[v[j]]
  BY <1>1 DEF InOrderOf
<1>3. \A i \in 1 .. n : (\E j \in 1 .. n : v[j] = u[i]) /\ (\E j \in 1 .. n : u[j] = v[i])
  <2>1. Range(u) = {u[i] : i \in 1 .. n} /\ Range(v) = {v[i] : i \in 1 .. n}
    BY <1>2 DEF Range
  <2> QED
    BY <1>2, <2>1
<1>4. \A i \in 1 .. n : Options[u[i]] \in Nat /\ Options[v[i]] \in Nat
  BY <1>1, <1>2
<1> HIDE DEF n
<1>5. Bad = {}
  <2> SUFFICES ASSUME Bad # {} PROVE FALSE
    OBVIOUS
  <2>1. Bad \in SUBSET Nat
    OBVIOUS
  <2>2. PICK k \in Bad : \A j \in Bad : k <= j
    <3> HIDE DEF Bad
    <3> QED
      BY <2>1, Least
  <2>3. k \in 1 .. n /\ u[k] # v[k] /\ \A j \in 1 .. n : j < k => u[j] = v[j]
    BY <1>1, <2>2
  <2>4. PICK i \in 1 .. n : v[i] = u[k]
    BY <1>3, <2>3
  <2>5. PICK j \in 1 .. n : u[j] = v[k]
    BY <1>3, <2>3
  <2> HIDE DEF Bad
  <2>6. i # k /\ j # k
    BY <2>3, <2>4, <2>5
  <2>7. ~ (i < k)
    BY <1>2, <1>4, <2>3, <2>4
  <2>8. ~ (j < k)
    BY <1>2, <1>4, <2>3, <2>5
  <2>9. k < i /\ k < j
    BY <1>1, <2>3, <2>6, <2>7, <2>8
  <2>10. Options[v[k]] < Options[u[k]] /\ Options[u[k]] < Options[v[k]]
    BY <1>2, <2>3, <2>4, <2>5, <2>9
  <2> QED
    BY <1>4, <2>3, <2>10
<1>6. \A i \in 1 .. n : u[i] = v[i]
  BY <1>5
<1> HIDE DEF Bad
<1>7. u = [i \in 1 .. n |-> u[i]] /\ v = [i \in 1 .. n |-> v[i]]
  BY <1>2
<1>8. [i \in 1 .. n |-> u[i]] = [i \in 1 .. n |-> v[i]]
  BY <1>6
<1> QED
  BY <1>7, <1>8, Zenon

\* Options that differ are in that order once they are sorted.
LEMMA SortedIsInOrder ==
    ASSUME NEW t \in Seq(DOMAIN Options), Differ(t), NEW s, Rearranged(s, t), NEW u \in Ordered(s)
    PROVE  u = InOrder(t)
<1> DEFINE S == DOMAIN t
<1>0. /\ DOMAIN u = S
      /\ \A i, j \in DOMAIN u : i < j => Options[u[i]] <= Options[u[j]]
  BY RearrangedSorted
<1>1. PICK f : RearrangedBy(f, u, t)
  BY RearrangedSorted DEF Rearranged
<1>2. f \in [S -> S] /\ (\A i, j \in S : i # j => f[i] # f[j]) /\ u = [i \in S |-> t[f[i]]]
  BY <1>1 DEF RearrangedBy, Permutes
<1>3. IsFiniteSet(S) /\ S \in SUBSET Nat
  BY FS_Interval
<1>4. \A x \in S : \E i \in S : f[i] = x
  <2>1. f \in Injection(S, S)
    BY <1>2 DEF Injection, IsInjective
  <2>2. f \in Surjection(S, S)
    BY <1>3, <2>1, FS_Injection
  <2> QED
    BY <2>2 DEF Surjection
<1>5. \A i \in S : t[i] \in DOMAIN Options /\ Options[t[i]] \in Nat
  BY OptionsAssumption
<1>6. u \in [S -> Range(t)] /\ Range(u) = Range(t)
  <2>1. Range(t) = {t[i] : i \in S} /\ Range(u) = {u[i] : i \in S}
    BY <1>0 DEF Range
  <2>2. ASSUME NEW x \in Range(t) PROVE x \in Range(u)
    <3>1. PICK j \in S : x = t[j]
      BY <2>1
    <3>2. PICK i \in S : f[i] = j
      BY <1>4
    <3> QED
      BY <1>2, <2>1, <3>1, <3>2
  <2>3. \A i \in S : u[i] \in Range(t)
    BY <1>2, <2>1
  <2>4. u = [i \in S |-> u[i]]
    BY <1>2
  <2> QED
    BY <2>1, <2>2, <2>3, <2>4
<1>7. \A i, j \in S : i < j => Options[u[i]] < Options[u[j]]
  <2> SUFFICES ASSUME NEW i \in S, NEW j \in S, i < j PROVE Options[u[i]] < Options[u[j]]
    OBVIOUS
  <2>1. u[i] = t[f[i]] /\ u[j] = t[f[j]] /\ f[i] \in S /\ f[j] \in S
    BY <1>2
  <2>2. i # j
    BY <1>3
  <2>3. Options[u[i]] # Options[u[j]]
    BY <1>2, <2>1, <2>2 DEF Differ
  <2>4. Options[u[i]] <= Options[u[j]] /\ Options[u[i]] \in Nat /\ Options[u[j]] \in Nat
    BY <1>0, <1>5, <2>1
  <2> QED
    BY <2>3, <2>4
<1>8. InOrderOf(u, t)
  BY <1>0, <1>6, <1>7 DEF InOrderOf
<1>9. InOrder(t) = CHOOSE w : InOrderOf(w, t)
  BY DEF InOrder, InOrderOf
<1>10. InOrderOf(InOrder(t), t)
  <2> HIDE DEF S
  <2>1. InOrder(t) = CHOOSE w \in [DOMAIN t -> Range(t)] :
            Range(w) = Range(t) /\ \A i, j \in DOMAIN w : i < j => Options[w[i]] < Options[w[j]]
    BY DEF InOrder
  <2> QED
    BY <1>8, <2>1 DEF InOrderOf
<1> QED
  BY <1>8, <1>10, OneOrder

\* What a path holds is what was asked of it, in some order, and every
\* expression says what was asked.
KeptAs(node, member, p) ==
    /\ node.resource = <<p>> \o [k \in 1 .. member.keys |-> "key"]
    /\ Rearranged(node.options, member.options)
PathsKept == \A p \in Paths : path[p] # None => KeptAs(path[p], asked[p], p)
ExpressionInv ==
    /\ PathsKept
    /\ expression = [r \in Roots |-> expression[r]]
    /\ ExpressionSaysWhatWasAsked

\* One key more.
LEMMA OneKeyMore ==
    ASSUME NEW n \in Nat, NEW p \in Paths
    PROVE  Append(<<p>> \o [k \in 1 .. n |-> "key"], "key") = <<p>> \o [k \in 1 .. n + 1 |-> "key"]
<1> DEFINE y == "key"
           a == [k \in 1 .. n |-> y]
           b == [k \in 1 .. n + 1 |-> y]
           z == <<p>>
           T == {p, y}
<1>1. y \in T /\ z \in Seq(T) /\ Len(z) = 1
  OBVIOUS
<1> HIDE DEF y, z, T
<1>2. a \in Seq(T) /\ Len(a) = n /\ b \in Seq(T) /\ Len(b) = n + 1
  BY <1>1
<1>3. b = Append(a, y)
  BY <1>2
<1> HIDE DEF a, b
<1>4. Append(z \o a, y) = z \o Append(a, y)
  <2> DEFINE c == z \o a
             d == Append(a, y)
             g == Append(c, y)
             w == z \o d
  <2>1. d \in Seq(T) /\ Len(d) = n + 1 /\ d[n + 1] = y /\ \A i \in 1 .. n : d[i] = a[i]
    BY <1>1, <1>2
  <2>2. c \in Seq(T) /\ Len(c) = 1 + n /\ c[1] = z[1] /\ \A i \in 2 .. n + 1 : c[i] = a[i - 1]
    <3>1. c \in Seq(T) /\ Len(c) = Len(a) + 1 /\ c[1] = z[1] /\ \A j \in 2 .. Len(a) + 1 : c[j] = a[j - 1]
      BY <1>1, <1>2, OneBefore
    <3> HIDE DEF c
    <3> QED
      BY <1>2, <3>1
  <2> HIDE DEF c, d
  <2>3. w \in Seq(T) /\ Len(w) = n + 2 /\ w[1] = z[1] /\ \A i \in 2 .. n + 2 : w[i] = d[i - 1]
    <3>1. w \in Seq(T) /\ Len(w) = Len(d) + 1 /\ w[1] = z[1] /\ \A j \in 2 .. Len(d) + 1 : w[j] = d[j - 1]
      BY <1>1, <2>1, OneBefore
    <3>2. Len(d) + 1 = n + 2
      BY <2>1
    <3> HIDE DEF w
    <3> QED
      BY <3>1, <3>2
  <2>4. g \in Seq(T) /\ Len(g) = n + 2 /\ g[n + 2] = y /\ \A i \in 1 .. n + 1 : g[i] = c[i]
    BY <1>1, <2>2
  <2> HIDE DEF g, w
  <2>5. ASSUME NEW i \in 1 .. n + 2 PROVE g[i] = w[i]
    <3>1. CASE i = 1
      BY <2>2, <2>3, <2>4, <3>1
    <3>2. CASE i \in 2 .. n + 1
      <4>1. i - 1 \in 1 .. n /\ i \in 1 .. n + 1 /\ i \in 2 .. n + 2
        BY <3>2
      <4> QED
        BY <2>1, <2>2, <2>3, <2>4, <3>2, <4>1
    <3>3. CASE i = n + 2
      <4>1. i - 1 = n + 1 /\ i \in 2 .. n + 2
        BY <3>3
      <4> QED
        BY <2>1, <2>3, <2>4, <3>3, <4>1
    <3> QED
      BY <3>1, <3>2, <3>3
  <2>6. g = w
    BY <2>3, <2>4, <2>5, SeqEqual
  <2> QED
    BY <2>6 DEF g, w, c, d
<1> QED
  BY <1>3, <1>4 DEF a, b, y, z

\* Options are put to both, at the end.
LEMMA OptionKeepsPaths ==
    ASSUME QueryTypes, PathsKept, NEW p \in Paths, NEW o \in DOMAIN Options, Option(p, o)
    PROVE  PathsKept'
<1>1. /\ path[p] # None
      /\ path' = [path EXCEPT ![p] = [path[p] EXCEPT !.options = Append(@, o)]]
      /\ asked' = [asked EXCEPT ![p] = [asked[p] EXCEPT !.options = Append(@, o)]]
  BY DEF Option, Runs
<1>2. path[p] \in Nodes /\ asked[p] \in Members
  BY <1>1, NodeFacts
<1>3. KeptAs(path[p], asked[p], p)
  BY <1>1 DEF PathsKept
<1> DEFINE node == path[p]
           member == asked[p]
<1>4. ASSUME NEW x \in Paths, path'[x] # None PROVE KeptAs(path'[x], asked'[x], x)
  <2>1. CASE x # p
    BY <1>1, <1>4, <2>1 DEF PathsKept, QueryTypes
  <2>2. CASE x = p
    <3>1. path'[p] = [node EXCEPT !.options = Append(@, o)] /\ asked'[p] = [member EXCEPT !.options = Append(@, o)]
      BY <1>1 DEF QueryTypes
    <3> HIDE DEF node, member
    <3>2. node \in Nodes /\ member \in Members /\ KeptAs(node, member, p)
      BY <1>2, <1>3 DEF node, member
    <3>3. /\ path'[p].resource = node.resource /\ path'[p].options = Append(node.options, o)
          /\ asked'[p].keys = member.keys /\ asked'[p].options = Append(member.options, o)
      BY <3>1, <3>2 DEF Nodes, Members
    <3>4. node.options \in Seq(DOMAIN Options) /\ member.options \in Seq(DOMAIN Options)
      BY <3>2 DEF Nodes, Members
    <3>5. Rearranged(Append(node.options, o), Append(member.options, o))
      BY <3>2, <3>4, RearrangedAppend DEF KeptAs
    <3> QED
      BY <2>2, <3>2, <3>3, <3>5 DEF KeptAs
  <2> QED
    BY <2>1, <2>2
<1> QED
  BY <1>4 DEF PathsKept

\* So are keys.
LEMMA KeyKeepsPaths ==
    ASSUME QueryTypes, PathsKept, NEW p \in Paths, Key(p)
    PROVE  PathsKept'
<1>1. /\ path[p] # None
      /\ path' = [path EXCEPT ![p] = [path[p] EXCEPT !.resource = Append(@, "key")]]
      /\ asked' = [asked EXCEPT ![p] = [asked[p] EXCEPT !.keys = @ + 1]]
  BY DEF Key, Runs
<1>2. path[p] \in Nodes /\ asked[p] \in Members
  BY <1>1, NodeFacts
<1>3. KeptAs(path[p], asked[p], p)
  BY <1>1 DEF PathsKept
<1> DEFINE node == path[p]
           member == asked[p]
<1>4. ASSUME NEW x \in Paths, path'[x] # None PROVE KeptAs(path'[x], asked'[x], x)
  <2>1. CASE x # p
    BY <1>1, <1>4, <2>1 DEF PathsKept, QueryTypes
  <2>2. CASE x = p
    <3>1. path'[p] = [node EXCEPT !.resource = Append(@, "key")] /\ asked'[p] = [member EXCEPT !.keys = @ + 1]
      BY <1>1 DEF QueryTypes
    <3> HIDE DEF node, member
    <3>2. node \in Nodes /\ member \in Members /\ KeptAs(node, member, p)
      BY <1>2, <1>3 DEF node, member
    <3>3. /\ path'[p].resource = Append(node.resource, "key") /\ path'[p].options = node.options
          /\ asked'[p].keys = member.keys + 1 /\ asked'[p].options = member.options
      BY <3>1, <3>2 DEF Nodes, Members
    <3>4. member.keys \in Nat
      BY <3>2 DEF Members
    <3>5. node.resource = <<p>> \o [k \in 1 .. member.keys |-> "key"]
      BY <3>2 DEF KeptAs
    <3>6. Append(node.resource, "key") = <<p>> \o [k \in 1 .. member.keys + 1 |-> "key"]
      BY <3>4, <3>5, OneKeyMore
    <3> QED
      BY <2>2, <3>2, <3>3, <3>6 DEF KeptAs
  <2> QED
    BY <2>1, <2>2
<1> QED
  BY <1>4 DEF PathsKept

\* Expanding changes neither resource nor options.
LEMMA ExpandKeepsPaths ==
    ASSUME QueryTypes, PathsKept, NEW p \in Paths, NEW q \in Branches, Expand(p, q)
    PROVE  PathsKept'
<1>0. q \in Paths
  BY DEF Paths
<1>1. /\ path[p] # None /\ path[q] # None
      /\ path' = [path EXCEPT ![q].sibling = path[p].child, ![p].child = q]
      /\ asked' = [asked EXCEPT ![p].expands = <<q>> \o @]
  BY DEF Expand, MayExpand, Runs
<1>2. ASSUME NEW x \in Paths, path'[x] # None PROVE KeptAs(path'[x], asked'[x], x)
  <2>1. path[x] # None
    BY <1>0, <1>1, <1>2 DEF QueryTypes
  <2>2. path[x] \in Nodes /\ asked[x] \in Members
    BY <2>1, NodeFacts
  <2>3. path'[x].resource = path[x].resource /\ path'[x].options = path[x].options
    BY <1>0, <1>1, <2>2 DEF QueryTypes, Nodes
  <2>4. asked'[x].keys = asked[x].keys /\ asked'[x].options = asked[x].options
    BY <1>1, <2>2 DEF QueryTypes, Members
  <2>5. KeptAs(path[x], asked[x], x)
    BY <2>1 DEF PathsKept
  <2> QED
    BY <2>3, <2>4, <2>5 DEF KeptAs
<1> QED
  BY <1>2 DEF PathsKept

\* Deleting changes nothing of what is left.
LEMMA DeleteKeepsPaths ==
    ASSUME QueryTypes, PathsKept, NEW r \in Roots, Delete(r)
    PROVE  PathsKept'
<1>1. /\ asked' = asked
      /\ UNCHANGED path \/ path' = [p \in Paths |-> IF p \in Freed(r) THEN None ELSE path[p]]
  BY DEF Delete
<1>2. ASSUME NEW x \in Paths, path'[x] # None PROVE path'[x] = path[x]
  BY <1>1, <1>2
<1> QED
  BY <1>1, <1>2 DEF PathsKept

\* Evaluating leaves the paths it visits as what was asked, with their options
\* in the order of their types, if no path has two of one type.
Sorts(paths, r, V) ==
    \E orders : /\ \A p \in V : orders[p] \in Ordered(path[p].options)
                /\ paths = [p \in Paths |-> IF p \in V THEN [path[p] EXCEPT !.options = orders[p]] ELSE path[p]]

LEMMA SortedPaths ==
    ASSUME QueryTypes, PathsKept, NEW r \in Roots, NEW V \in SUBSET Paths, \A p \in V : path[p] # None,
           NEW paths, Sorts(paths, r, V)
    PROVE  /\ \A p \in Paths : paths[p] # None => path[p] # None /\ KeptAs(paths[p], asked[p], p)
           /\ SamePointers(paths, V)
           /\ WellUsed => \A p \in V : AsAsked(paths, p)
<1>1. PICK orders : /\ \A p \in V : orders[p] \in Ordered(path[p].options)
                    /\ paths = [p \in Paths |-> IF p \in V THEN [path[p] EXCEPT !.options = orders[p]] ELSE path[p]]
  BY DEF Sorts
<1>2. ASSUME NEW p \in V
      PROVE  /\ path[p] \in Nodes /\ asked[p] \in Members /\ KeptAs(path[p], asked[p], p)
             /\ paths[p].resource = path[p].resource /\ paths[p].options = orders[p]
             /\ paths[p].child = path[p].child /\ paths[p].sibling = path[p].sibling
  <2>1. path[p] \in Nodes /\ asked[p] \in Members /\ KeptAs(path[p], asked[p], p)
    BY NodeFacts DEF PathsKept
  <2>2. paths[p] = [path[p] EXCEPT !.options = orders[p]]
    BY <1>1
  <2> QED
    BY <2>1, <2>2 DEF Nodes
<1>3. ASSUME NEW p \in V PROVE Rearranged(orders[p], asked[p].options)
  <2>1. Rearranged(path[p].options, asked[p].options)
    BY <1>2 DEF KeptAs
  <2>2. orders[p] \in Ordered(path[p].options)
    BY <1>1
  <2> QED
    BY <2>1, <2>2, RearrangedSorted
<1>4. ASSUME NEW p \in V PROVE KeptAs(paths[p], asked[p], p)
  BY <1>2, <1>3 DEF KeptAs
<1>5. ASSUME NEW p \in Paths, paths[p] # None PROVE path[p] # None /\ KeptAs(paths[p], asked[p], p)
  <2>1. CASE p \in V
    BY <1>4, <2>1
  <2>2. CASE p \notin V
    <3>1. paths[p] = path[p]
      BY <1>1, <2>2
    <3> QED
      BY <1>5, <3>1 DEF PathsKept
  <2> QED
    BY <2>1, <2>2
<1>6. SamePointers(paths, V)
  BY <1>2 DEF SamePointers
<1>7. ASSUME WellUsed, NEW p \in V PROVE AsAsked(paths, p)
  <2> DEFINE t == asked[p].options
             s == path[p].options
  <2>1. t \in Seq(DOMAIN Options) /\ s \in Seq(DOMAIN Options)
    BY <1>2 DEF Nodes, Members
  <2>2. Differ(t)
    BY <1>7 DEF WellUsed, Differ
  <2>3. Rearranged(s, t)
    BY <1>2 DEF KeptAs
  <2>4. orders[p] \in Ordered(s)
    BY <1>1
  <2>5. paths[p].resource = Resource(p)
    BY <1>2 DEF KeptAs, Resource
  <2>6. paths[p].options = orders[p]
    BY <1>2
  <2> HIDE DEF s
  <2>7. orders[p] \in Seq(DOMAIN Options)
    BY <2>1, <2>4, OrderedIsTyped
  <2>8. orders[p] = InOrder(t)
    BY <2>1, <2>2, <2>3, <2>4, SortedIsInOrder
  <2> QED
    BY <2>5, <2>6, <2>7, <2>8 DEF AsAsked
<1> QED
  BY <1>5, <1>6, <1>7

\* The expression it makes says what was asked.
LEMMA EvaluateKeepsExpressions ==
    ASSUME QueryIInv, ExpressionInv, NEW r \in Roots, Evaluate(r)
    PROVE  ExpressionInv'
<1>1. QueryTypes /\ (Once => TreeInv) /\ path[r] # None /\ asked' = asked /\ PathsKept
  BY DEF QueryIInv, ExpressionInv, Evaluate, Runs
<1>2. CASE UNCHANGED <<path, expression>>
  BY <1>1, <1>2 DEF ExpressionInv, PathsKept, ExpressionSaysWhatWasAsked
<1>3. CASE ~ UNCHANGED <<path, expression>>
  <2> DEFINE V == {r} \cup Beneath(r)
             made == [text |-> Evaluated(r, path', V), asked |-> IF WellUsed THEN Asked(r) ELSE None]
  <2>1. /\ \A p \in Beneath(r) : path[p] # None
        /\ \E orders \in [V -> UNION {Ordered(path[p].options) : p \in V}] :
              /\ \A p \in V : orders[p] \in Ordered(path[p].options)
              /\ path' = [p \in Paths |-> IF p \in V THEN [path[p] EXCEPT !.options = orders[p]] ELSE path[p]]
              /\ expression' = [expression EXCEPT ![r] = made]
    BY <1>3 DEF Evaluate
  <2>2. expression' = [expression EXCEPT ![r] = made]
    BY <2>1
  <2>3. V \in SUBSET Paths /\ \A p \in V : path[p] # None
    BY <1>1, <2>1, BeneathAreBranches DEF Paths
  <2>4. Sorts(path', r, V)
    BY <2>1 DEF Sorts
  <2> HIDE DEF V
  <2>5. /\ \A p \in Paths : path'[p] # None => path[p] # None /\ KeptAs(path'[p], asked[p], p)
        /\ SamePointers(path', V)
        /\ WellUsed => \A p \in V : AsAsked(path', p)
    BY <1>1, <2>3, <2>4, SortedPaths
  <2>6. PathsKept'
    BY <1>1, <2>5 DEF PathsKept
  <2>7. made.asked # None => ReadQuery(made.text) = made.asked
    <3>1. CASE ~ WellUsed
      BY <3>1
    <3>2. CASE WellUsed
      <4>1. Once /\ TreeInv
        BY <1>1, <3>2, OnceUsed
      <4>2. \A p \in V : AsAsked(path', p)
        BY <2>5, <3>2
      <4>3. ReadQuery(Evaluated(r, path', V)) = Asked(r)
        BY <1>1, <2>5, <4>1, <4>2, BuilderSays DEF V
      <4> QED
        BY <3>2, <4>3
    <3> QED
      BY <3>1, <3>2
  <2> HIDE DEF made
  <2>8. expression = [x \in Roots |-> expression[x]] /\ ExpressionSaysWhatWasAsked
    BY DEF ExpressionInv
  <2>9. expression' = [x \in Roots |-> IF x = r THEN made ELSE expression[x]]
    BY <2>2, <2>8
  <2>10. ExpressionSaysWhatWasAsked'
    <3> SUFFICES ASSUME NEW x \in Roots, expression'[x] # None, expression'[x].asked # None
                 PROVE  ReadQuery(expression'[x].text) = expression'[x].asked
      BY DEF ExpressionSaysWhatWasAsked
    <3>1. CASE x = r
      <4>1. expression'[x] = made
        BY <2>9, <3>1
      <4> QED
        BY <2>7, <4>1
    <3>2. CASE x # r
      <4>1. expression'[x] = expression[x]
        BY <2>9, <3>2
      <4> QED
        BY <2>8, <4>1 DEF ExpressionSaysWhatWasAsked
    <3> QED
      BY <3>1, <3>2
  <2>11. (expression = [x \in Roots |-> expression[x]])'
    BY <2>9
  <2> QED
    BY <2>6, <2>10, <2>11 DEF ExpressionInv
<1> QED
  BY <1>2, <1>3

\* At the start nothing was asked, and there is no expression.
LEMMA ExpressionsStart ==
    ASSUME QueryInit
    PROVE  ExpressionInv
<1>1. ASSUME NEW p \in Paths PROVE KeptAs(path[p], asked[p], p)
  <2> DEFINE y == "key"
             none == <<>>
             z == <<p>>
             T == {p, y}
             f == [i \in {} |-> 0]
  <2>1. path[p].resource = z /\ path[p].options = none /\ asked[p].keys = 0 /\ asked[p].options = none
    BY DEF QueryInit
  <2>2. z \in Seq(T) /\ [k \in 1 .. 0 |-> y] = none
    OBVIOUS
  <2>3. z = z \o none
    <3> HIDE DEF z, T
    <3> QED
      BY <2>2, ConcatEmptySeq
  <2>4. z = z \o [k \in 1 .. 0 |-> y]
    BY <2>2, <2>3
  <2>5. DOMAIN none = {} /\ none = [i \in {} |-> none[f[i]]] /\ f \in [{} -> {}]
    OBVIOUS
  <2>6. RearrangedBy(f, none, none)
    <3> HIDE DEF f, none
    <3> QED
      BY <2>5 DEF RearrangedBy, Permutes
  <2>7. Rearranged(none, none)
    <3> HIDE DEF f, none
    <3> QED
      BY <2>6 DEF Rearranged
  <2> QED
    BY <2>1, <2>4, <2>7 DEF KeptAs
<1>2. expression = [r \in Roots |-> None]
  BY DEF QueryInit
<1>3. expression = [r \in Roots |-> expression[r]] /\ ExpressionSaysWhatWasAsked
  BY <1>2 DEF ExpressionSaysWhatWasAsked
<1> QED
  BY <1>1, <1>3 DEF ExpressionInv, PathsKept

\* A path that is not deleted holds what was asked of it (odata_query_path),
\* and every expression that was made of one (evaluate_query_path) says what
\* was asked by then.
THEOREM ExpressionsAreKept == QuerySpec => [](QueryIInv /\ ExpressionInv)
<1> DEFINE I == QueryIInv /\ ExpressionInv
<1>1. QueryInit => I
  BY QueriesStart, ExpressionsStart
<1>2. I /\ [QueryNext]_query_vars => I'
  <2> SUFFICES ASSUME QueryIInv, ExpressionInv, [QueryNext]_query_vars PROVE I'
    OBVIOUS
  <2>1. QueryTypes /\ PathsKept /\ expression = [r \in Roots |-> expression[r]] /\ ExpressionSaysWhatWasAsked
    BY DEF QueryIInv, ExpressionInv
  <2>2. CASE UNCHANGED query_vars
    BY <2>1, <2>2 DEF query_vars, QueryIInv, QueryTypes, Once, ExpandedAs, TreeInv, Gone, Linked, Expanded, Lone,
                      ExpressionInv, PathsKept, ExpressionSaysWhatWasAsked
  <2>3. ASSUME NEW p \in Paths, NEW o \in DOMAIN Options, Option(p, o) PROVE I'
    <3>1. PathsKept' /\ UNCHANGED expression
      BY <2>1, <2>3, OptionKeepsPaths DEF Option
    <3> QED
      BY <2>1, <2>3, <3>1, OptionKeepsInv DEF ExpressionInv, ExpressionSaysWhatWasAsked
  <2>4. ASSUME NEW p \in Paths, Key(p) PROVE I'
    <3>1. PathsKept' /\ UNCHANGED expression
      BY <2>1, <2>4, KeyKeepsPaths DEF Key
    <3> QED
      BY <2>1, <2>4, <3>1, KeyKeepsInv DEF ExpressionInv, ExpressionSaysWhatWasAsked
  <2>5. ASSUME NEW p \in Paths, NEW q \in Branches, Expand(p, q) PROVE I'
    <3>1. PathsKept' /\ UNCHANGED expression
      BY <2>1, <2>5, ExpandKeepsPaths DEF Expand, MayExpand
    <3> QED
      BY <2>1, <2>5, <3>1, ExpandKeepsInv DEF ExpressionInv, ExpressionSaysWhatWasAsked
  <2>6. ASSUME NEW r \in Roots, Evaluate(r) PROVE I'
    BY <2>6, EvaluateKeepsInv, EvaluateKeepsExpressions
  <2>7. ASSUME NEW r \in Roots, Delete(r) PROVE I'
    <3>1. PathsKept' /\ UNCHANGED expression
      BY <2>1, <2>7, DeleteKeepsPaths DEF Delete
    <3> QED
      BY <2>1, <2>7, <3>1, DeleteKeepsInv DEF ExpressionInv, ExpressionSaysWhatWasAsked
  <2> QED
    BY <2>2, <2>3, <2>4, <2>5, <2>6, <2>7 DEF QueryNext
<1> QED
  BY <1>1, <1>2, PTL DEF QuerySpec

\* Every expression, of a query that is still being built or was evaluated
\* before, is read by the service as the paths and options asked for by then,
\* if no path was expanded twice or given two options of one type.
THEOREM ExpressionsSayWhatWasAsked == QuerySpec => []ExpressionSaysWhatWasAsked
<1>1. QueryIInv /\ ExpressionInv => ExpressionSaysWhatWasAsked
  BY DEF ExpressionInv
<1> QED
  BY <1>1, ExpressionsAreKept, PTL
==============================================================================
