-------------------------- MODULE EdmResolverProofs --------------------------
(***************************************************************************)
(* That the second pass over a model resolves every name some schema       *)
(* declares, for any number of schemas, types and properties.              *)
(***************************************************************************)
EXTENDS EdmResolver, FiniteSetTheorems, WellFoundedInduction, TLAPS

\* The step at which a type is visited, and whether it has been.
StepOf(t) == CASE doc.kind[t] = "Entity" -> 1 [] doc.kind[t] = "Complex" -> 2 [] OTHER -> 3

Visited(t) ==
    /\ doc.kind[t] # "Enum"
    /\ \/ doc.schema[t] < at
       \/ doc.schema[t] = at /\ StepOf(t) < step
       \/ doc.schema[t] = at /\ StepOf(t) = step /\ t \notin left

\* A property is as the reader left it until its type is visited; then what it
\* points to is found and, if nothing else owns it, kept.
SlotInv(p) ==
    /\ type[p].name = doc.declared[p].of /\ type[p].coll = doc.declared[p].coll
    /\ ~Visited(p[1]) => type[p] = Read(doc, p)
    /\ Visited(p[1]) => Seen(p) = IF doc.declared[p].of = Missing THEN Nothing
                                  ELSE doc.declared[p].of

IInv ==
    /\ TypeOK
    /\ doc \in Documents
    /\ left \subseteq Iterated(doc, at, step)
    /\ \A p \in doc.slots : SlotInv(p)

\* A model that was read is one of the documents the assumption is about.
LEMMA DocumentFacts ==
    ASSUME doc \in Documents
    PROVE  /\ doc \in Document
           /\ \A t \in Types : doc.schema[t] \in Nat \ {0} /\ doc.schema[t] <= doc.schemas
           /\ doc.schemas \in Nat \ {0}
           /\ \A t \in Types : doc.kind[t] \in Kinds
           /\ \A p \in doc.slots : p \in Slot /\ p[1] \in Types /\ doc.kind[p[1]] # "Enum"
           /\ \A p \in Slot : doc.declared[p] \in Declaration
BY DocumentsAssumption DEF Document, Slot

LEMMA ReadTyped ==
    ASSUME doc \in Documents, NEW p \in Slot
    PROVE  /\ Read(doc, p) \in Value
           /\ Read(doc, p).name = doc.declared[p].of
           /\ p \in doc.slots => Read(doc, p).coll = doc.declared[p].coll
<1>1. doc.declared[p] \in Declaration
    BY DocumentFacts
<1> QED BY <1>1, NamesAssumption DEF Read, Value, Declaration, TypeNames

LEMMA InitIInv == Init => IInv
<1> SUFFICES ASSUME Init PROVE IInv
    OBVIOUS
<1>1. doc \in Documents
    BY DEF Init
<1>2. TypeOK
    <2>1. \A p \in Slot : Read(doc, p) \in Value
        BY <1>1, ReadTyped
    <2>2. left \subseteq Types
        BY DEF Init, Iterated
    <2>3. at \in 1 .. doc.schemas + 1 /\ doc \in Document
        BY <1>1, DocumentFacts DEF Init
    <2>4. type \in [Slot -> Value]
        BY <2>1 DEF Init
    <2>5. kept \subseteq Slot /\ base \in [Types -> Types \cup {Nothing}] /\ step \in 1 .. 5
        BY DEF Init
    <2>6. /\ set_type \in [Sources -> Types \cup {Nothing}]
          /\ bound \in [Slot -> Sources \cup {Nothing}]
        BY DEF Init
    <2>7. crashed \in BOOLEAN /\ imported \subseteq TypeNames
        BY DEF Init
    <2> QED BY <2>2, <2>3, <2>4, <2>5, <2>6, <2>7 DEF TypeOK
<1>3. left \subseteq Iterated(doc, at, step)
    BY DEF Init
<1>4. ASSUME NEW p \in doc.slots PROVE SlotInv(p)
    <2>1. p \in Slot /\ p[1] \in Types
        BY <1>1, DocumentFacts
    <2>2. ~Visited(p[1])
        BY <1>1, <2>1, DocumentFacts DEF Init, Visited, StepOf, Iterated, Kinds
    <2> QED BY <1>1, <2>1, <2>2, ReadTyped DEF SlotInv, Init
<1> QED BY <1>1, <1>2, <1>3, <1>4 DEF IInv

\* What a visit makes of a property that has not been visited before.
LEMMA ResolvedSeen ==
    ASSUME doc \in Documents, NEW p \in doc.slots, type[p] = Read(doc, p),
           type[p].form = "Navigation" /\ ~type[p].coll => doc.declared[p].of # Missing
    PROVE  /\ Resolved(p) \in Value
           /\ Resolved(p).name = doc.declared[p].of
           /\ Resolved(p).coll = doc.declared[p].coll
           /\ Resolved(p).form = "Navigation" <=> type[p].form = "Navigation"
           /\ doc.declared[p].of = Missing =>
                Resolved(p).form = "Unknown" \/ Resolved(p).to = Nothing
           /\ doc.declared[p].of # Missing =>
                Resolved(p).form # "Unknown" /\ Resolved(p).to = doc.declared[p].of
<1>1. p \in Slot /\ doc.declared[p] \in Declaration /\ doc.kind[p[1]] \in Kinds
    BY DocumentFacts
<1> DEFINE d == doc.declared[p]
<1>2. d.of \in TypeNames /\ d.coll \in BOOLEAN /\ d.nav \in BOOLEAN
    BY <1>1 DEF Declaration
<1>3. ResolveTypeFromName(d.of) \in TypeNames \cup {Nothing}
      /\ (ResolveTypeFromName(d.of) = Nothing <=> d.of = Missing)
      /\ (d.of # Missing => ResolveTypeFromName(d.of) = d.of)
    BY <1>2, NamesAssumption DEF ResolveTypeFromName, TypeNames
<1>4. type[p].name = d.of /\ type[p] \in Value /\ type[p].coll = d.coll
    BY ReadTyped, <1>1
<1>5. type[p] = [form |-> type[p].form, name |-> d.of, coll |-> d.coll, to |-> type[p].to]
    BY <1>4 DEF Value
<1>6. d.of = Missing => type[p].to = Nothing
    BY <1>1, NamesAssumption DEF Read
<1>7. type[p].form = "Type" => d.of = Edm /\ type[p].to = Edm
    BY <1>1, NamesAssumption DEF Read
<1>8. type[p].form \in {"Collection", "Unknown", "Navigation", "Type"}
    BY <1>4 DEF Value
<1> DEFINE found == ResolveTypeFromName(d.of)
           form == IF type[p].form # "Unknown" THEN type[p].form
                   ELSE IF d.coll THEN "Collection"
                   ELSE IF found = Nothing THEN "Unknown" ELSE "Type"
           to == IF found = Nothing THEN type[p].to ELSE found
<1>9. Resolved(p) = [form |-> form, name |-> d.of, coll |-> d.coll, to |-> to]
    <2>1. Resolved(p) = [type[p] EXCEPT !.form = form, !.to = to]
        BY <1>4 DEF Resolved
    <2> HIDE DEF form, to
    <2> QED BY <2>1, <1>4 DEF Value
<1>10. form \in {"Collection", "Unknown", "Navigation", "Type"} /\ to \in TypeNames \cup {Nothing}
    BY <1>3, <1>4, <1>8 DEF Value
<1>11. Resolved(p) \in Value /\ Resolved(p).name = d.of /\ Resolved(p).coll = d.coll
    BY <1>2, <1>9, <1>10 DEF Value
<1>12. Resolved(p).form = form /\ Resolved(p).to = to
    BY <1>9
<1>13. form = "Navigation" <=> type[p].form = "Navigation"
    OBVIOUS
<1>14. d.of = Missing => form = "Unknown" \/ to = Nothing
    BY <1>3, <1>6
<1>15. d.of # Missing => form # "Unknown" /\ to = d.of
    BY <1>3, NamesAssumption
<1> QED BY <1>11, <1>12, <1>13, <1>14, <1>15

\* A step that leaves the types alone, and what has been visited.
LEMMA SlotsUnchanged ==
    ASSUME IInv, UNCHANGED <<doc, type, kept>>,
           \A t \in Types : Visited(t)' <=> Visited(t)
    PROVE  \A p \in doc'.slots : SlotInv(p)'
<1> SUFFICES ASSUME NEW p \in doc.slots PROVE SlotInv(p)'
    OBVIOUS
<1>1. p[1] \in Types /\ SlotInv(p)
    BY DocumentFacts DEF IInv
<1>2. Seen(p)' = Seen(p) /\ Read(doc, p)' = Read(doc, p)
    BY DEF Seen, Read
<1> QED BY <1>1, <1>2 DEF SlotInv

\* A visit: the properties of t are resolved and the others left alone.
LEMMA VisitStep ==
    ASSUME IInv, NEW t \in left, step \in {1, 2, 3}, Visit(t),
           step # 3 => ~FollowsNull(t)
    PROVE  /\ \A p \in doc'.slots : SlotInv(p)'
           /\ type' \in [Slot -> Value] /\ kept' \subseteq Slot
           /\ left' \subseteq Iterated(doc, at, step)' /\ left' \subseteq Types
<1>1. doc \in Documents /\ type \in [Slot -> Value] /\ kept \subseteq Slot
      /\ left \subseteq Iterated(doc, at, step)
    BY DEF IInv, TypeOK
<1>2. UNCHANGED <<doc, at, step>> /\ left' = left \ {t}
    BY DEF Visit
<1>3. t \in Types /\ doc.schema[t] = at /\ StepOf(t) = step /\ doc.kind[t] # "Enum"
    BY <1>1 DEF Iterated, StepOf
<1>4. ~Visited(t)
    BY <1>1, <1>3, DocumentFacts DEF Visited
<1>5. \A u \in Types : Visited(u)' <=> Visited(u) \/ u = t
    BY <1>2, <1>3 DEF Visited, StepOf
<1>6. ASSUME NEW p \in doc.slots, p[1] = t
      PROVE  /\ type[p] = Read(doc, p)
             /\ type[p].form = "Navigation" /\ ~type[p].coll => doc.declared[p].of # Missing
    <2>1. SlotInv(p)
        BY DEF IInv
    <2>2. type[p] = Read(doc, p)
        BY <2>1, <1>4, <1>6 DEF SlotInv
    <2>3. ASSUME type[p].form = "Navigation", ~type[p].coll, step # 3
          PROVE  doc.declared[p].of # Missing
        <3>1. ResolveTypeFromName(type[p].name) # Nothing
            BY <2>3, <1>6 DEF FollowsNull, SlotsOf
        <3> QED BY <3>1, <2>1 DEF SlotInv, ResolveTypeFromName
    <2>4. step = 3 => type[p].form # "Navigation"
        BY <2>2, <1>1, <1>3, <1>6, DocumentFacts DEF StepOf, Kinds, Read
    <2> QED BY <2>2, <2>3, <2>4
<1>7. \A p \in Slot : type'[p] = IF p \in doc.slots /\ p[1] = t THEN Resolved(p) ELSE type[p]
    BY DEF Visit, VisitTypes
<1>8. kept' = kept \cup {p \in doc.slots : p[1] = t /\ type[p].form = "Navigation" /\ type[p].coll}
    BY DEF Visit, VisitTypes
<1>9. doc.slots \subseteq Slot
    BY <1>1, DocumentFacts
<1>10. type' \in [Slot -> Value]
    <2>1. \A p \in Slot : type'[p] \in Value
        BY <1>1, <1>6, <1>7, ResolvedSeen
    <2> QED BY <2>1 DEF Visit, VisitTypes
<1>11. ASSUME NEW p \in doc.slots PROVE SlotInv(p)'
    <2>1. p \in Slot /\ p[1] \in Types /\ SlotInv(p)
        BY <1>1, <1>9, DocumentFacts DEF IInv
    <2>2. Read(doc, p)' = Read(doc, p)
        BY <1>2 DEF Read
    <2>3. CASE p[1] # t
        <3>1. type'[p] = type[p] /\ (p \in kept' <=> p \in kept)
            BY <2>1, <2>3, <1>7, <1>8
        <3>2. Seen(p)' = Seen(p)
            BY <3>1 DEF Seen
        <3> QED BY <2>1, <2>2, <2>3, <3>1, <3>2, <1>2, <1>5 DEF SlotInv
    <2>4. CASE p[1] = t
        <3>1. type'[p] = Resolved(p)
            BY <2>1, <2>4, <1>7
        <3>2. Visited(p[1])'
            BY <2>4, <1>5, <1>3
        <3>3. type'[p].name = doc.declared[p].of /\ type'[p].coll = doc.declared[p].coll
            BY <3>1, <1>1, <1>6, <2>4, ResolvedSeen
        <3>4. type'[p].form = "Navigation" /\ type'[p].coll => p \in kept'
            <4>1. type'[p].form = "Navigation" <=> type[p].form = "Navigation"
                BY <3>1, <1>1, <1>6, <2>4, ResolvedSeen
            <4>2. type'[p].coll => type[p].coll
                BY <3>3, <2>1 DEF SlotInv
            <4> QED BY <4>1, <4>2, <1>8, <2>4
        <3>5. /\ doc.declared[p].of = Missing =>
                    type'[p].form = "Unknown" \/ type'[p].to = Nothing
              /\ doc.declared[p].of # Missing =>
                    type'[p].form # "Unknown" /\ type'[p].to = doc.declared[p].of
            BY <3>1, <1>1, <1>6, <2>4, ResolvedSeen
        <3>6. Seen(p)' = IF type'[p].form = "Unknown" THEN Nothing ELSE type'[p].to
            BY <3>4 DEF Seen
        <3>7. Seen(p)' = IF doc.declared[p].of = Missing THEN Nothing ELSE doc.declared[p].of
            BY <3>5, <3>6
        <3> QED BY <1>2, <3>2, <3>3, <3>7 DEF SlotInv
    <2> QED BY <2>3, <2>4
<1>12. left' \subseteq Iterated(doc, at, step)' /\ left' \subseteq Types
    <2>1. Iterated(doc, at, step)' = Iterated(doc, at, step)
        BY <1>2 DEF Iterated
    <2> QED BY <1>1, <1>2, <2>1 DEF Iterated
<1>13. kept' \subseteq Slot
    BY <1>1, <1>8, <1>9
<1> QED BY <1>2, <1>10, <1>11, <1>12, <1>13

\* Going on to the next map visits nothing.
LEMMA AdvanceVisits ==
    ASSUME IInv, Advance, NEW u \in Types PROVE Visited(u)' <=> Visited(u)
<1>1. /\ at \in Nat \ {0} /\ step \in 1 .. 5
      /\ doc.schema[u] \in Nat /\ doc.kind[u] \in Kinds
    BY DocumentFacts DEF IInv, TypeOK
<1>2. left' = Iterated(doc, at', step') /\ left = {} /\ doc' = doc
    BY DEF Advance
<1>3. StepOf(u)' = StepOf(u) /\ StepOf(u) \in 1 .. 3
    BY <1>2 DEF StepOf
<1>4. doc.kind[u] # "Enum" /\ step' \in 1 .. 3 =>
        (u \in Iterated(doc, at', step') <=> doc.schema[u] = at' /\ StepOf(u) = step')
    BY <1>1 DEF Iterated, StepOf, Kinds
<1>5. CASE step = 5
    <2>1. at' = at + 1 /\ step' = 1
        BY <1>5 DEF Advance
    <2> QED BY <1>1, <1>2, <1>3, <1>4, <1>5, <2>1 DEF Visited
<1>6. CASE step # 5
    <2>1. at' = at /\ step' = step + 1
        BY <1>6 DEF Advance
    <2> QED BY <1>1, <1>2, <1>3, <1>4, <1>6, <2>1 DEF Visited
<1> QED BY <1>5, <1>6

LEMMA NextIInv == IInv /\ [Next]_vars => IInv'
<1> SUFFICES ASSUME IInv, [Next]_vars PROVE IInv'
    OBVIOUS
<1>1. /\ TypeOK /\ doc \in Documents /\ doc \in Document
      /\ left \subseteq Iterated(doc, at, step)
      /\ at \in Nat \ {0} /\ doc.schemas \in Nat \ {0} /\ step \in 1 .. 5
      /\ \A t \in Types : doc.schema[t] \in Nat /\ doc.kind[t] \in Kinds
    <2>1. TypeOK /\ doc \in Documents /\ doc \in Document /\ doc.schemas \in Nat \ {0}
        BY DocumentFacts DEF IInv
    <2> QED BY <2>1, DocumentFacts DEF IInv, TypeOK
<1>2. ASSUME UNCHANGED vars PROVE IInv'
    <2>1. \A t \in Types : Visited(t)' <=> Visited(t)
        BY <1>2 DEF vars, Visited, StepOf
    <2>2. \A p \in doc'.slots : SlotInv(p)'
        BY <1>2, <2>1, SlotsUnchanged DEF vars
    <2>3. Iterated(doc, at, step)' = Iterated(doc, at, step)
        BY <1>2 DEF vars, Iterated
    <2> QED BY <1>1, <1>2, <2>2, <2>3 DEF vars, IInv, TypeOK
<1>3. ASSUME NEW t \in Types, VisitStructured(t) PROVE IInv'
    <2>1. base' \in [Types -> Types \cup {Nothing}]
        <3>1. doc.base \in [Types -> Types \cup {Nothing}]
            BY <1>1 DEF Document
        <3>2. BaseOf(t) \in Types \cup {Nothing}
            BY <3>1 DEF BaseOf
        <3> QED BY <1>1, <1>3, <3>2 DEF VisitStructured, TypeOK
    <2>2. Visit(t) /\ t \in left /\ step \in {1, 2, 3} /\ ~FollowsNull(t)
        BY <1>3 DEF VisitStructured
    <2>3. /\ \A p \in doc'.slots : SlotInv(p)'
          /\ type' \in [Slot -> Value] /\ kept' \subseteq Slot
          /\ left' \subseteq Iterated(doc, at, step)' /\ left' \subseteq Types
        BY <2>2, VisitStep
    <2> QED BY <1>1, <2>1, <2>2, <2>3 DEF Visit, IInv, TypeOK
<1>4. ASSUME NEW t \in Types, VisitOperation(t) PROVE IInv'
    <2>1. Visit(t) /\ t \in left /\ step = 3
        BY <1>4 DEF VisitOperation
    <2>2. /\ \A p \in doc'.slots : SlotInv(p)'
          /\ type' \in [Slot -> Value] /\ kept' \subseteq Slot
          /\ left' \subseteq Iterated(doc, at, step)' /\ left' \subseteq Types
        BY <2>1, VisitStep
    <2>3. base' = base
        BY <1>4 DEF VisitOperation
    <2> QED BY <1>1, <2>1, <2>2, <2>3 DEF Visit, IInv, TypeOK
<1>5. ASSUME NEW t \in Types, Crash(t) PROVE IInv'
    <2>1. \A u \in Types : Visited(u)' <=> Visited(u)
        BY <1>5 DEF Crash, Visited, StepOf
    <2>2. \A p \in doc'.slots : SlotInv(p)'
        BY <1>5, <2>1, SlotsUnchanged DEF Crash
    <2>3. Iterated(doc, at, step)' = Iterated(doc, at, step)
        BY <1>5 DEF Crash, Iterated
    <2> QED BY <1>1, <1>5, <2>2, <2>3 DEF Crash, IInv, TypeOK
<1>6. ASSUME NEW x \in Binding, Bind(x) PROVE IInv'
    <2>1. \A u \in Types : Visited(u)' <=> Visited(u)
        BY <1>1, <1>6 DEF Bind, Visited, StepOf
    <2>2. \A p \in doc'.slots : SlotInv(p)'
        BY <1>6, <2>1, SlotsUnchanged DEF Bind
    <2>3. Iterated(doc, at, step)' = Iterated(doc, at, step)
        BY <1>6 DEF Bind, Iterated
    <2>4. bound' \in [Slot -> Sources \cup {Nothing}]
        <3>1. x.target \in Sources \cup {Nothing} /\ bound \in [Slot -> Sources \cup {Nothing}]
            BY <1>1 DEF Binding, TypeOK
        <3>2. \A p : [bound EXCEPT ![p] = x.target] \in [Slot -> Sources \cup {Nothing}]
            BY <3>1
        <3> QED BY <1>6, <3>1, <3>2 DEF Bind
    <2>5. left' \subseteq left
        BY <1>6 DEF Bind
    <2> QED BY <1>1, <1>6, <2>2, <2>3, <2>4, <2>5 DEF Bind, IInv, TypeOK
<1>7. ASSUME ResolveContainer PROVE IInv'
    <2>1. \A u \in Types : Visited(u)' <=> Visited(u)
        BY <1>1, <1>7 DEF ResolveContainer, Visited, StepOf
    <2>2. \A p \in doc'.slots : SlotInv(p)'
        BY <1>7, <2>1, SlotsUnchanged DEF ResolveContainer
    <2>3. left' = Iterated(doc, at, step)' /\ left' \subseteq Binding
        BY <1>1, <1>7 DEF ResolveContainer, Iterated, Document
    <2>4. set_type' \in [Sources -> Types \cup {Nothing}]
        <3>1. doc.setType \in [Sources -> Types \cup {Nothing}]
            BY <1>1 DEF Document
        <3>2. \A s \in Sources : EntityType(doc.setType[s]) \in Types \cup {Nothing}
            BY <3>1 DEF EntityType
        <3> QED BY <1>7, <3>2 DEF ResolveContainer
    <2>5. imported' \subseteq TypeNames
        BY <1>7 DEF ResolveContainer, TypeNames
    <2> QED BY <1>1, <1>7, <2>2, <2>3, <2>4, <2>5 DEF ResolveContainer, IInv, TypeOK
<1>8. ASSUME Advance PROVE IInv'
    <2>1. \A u \in Types : Visited(u)' <=> Visited(u)
        BY <1>8, AdvanceVisits
    <2>2. \A p \in doc'.slots : SlotInv(p)'
        BY <1>8, <2>1, SlotsUnchanged DEF Advance
    <2>3. left' = Iterated(doc, at, step)' /\ (left' \subseteq Types \/ left' \subseteq Binding)
        BY <1>1, <1>8 DEF Advance, Iterated, Document
    <2>4. at' \in 1 .. doc.schemas + 1 /\ step' \in 1 .. 5
        BY <1>1, <1>8 DEF Advance, TypeOK
    <2> QED BY <1>1, <1>8, <2>2, <2>3, <2>4 DEF Advance, IInv, TypeOK
<1> QED BY <1>2, <1>3, <1>4, <1>5, <1>6, <1>7, <1>8 DEF Next

THEOREM Invariant == Spec => []IInv
BY InitIInv, NextIInv, PTL DEF Spec

\* The model stays well typed, through every name that is resolved and bound.
THEOREM TypeCorrect == Spec => []TypeOK
<1>1. IInv => TypeOK
    BY DEF IInv
<1> QED BY <1>1, Invariant, PTL

\* Whatever the number of schemas and the order in which they and their maps
\* are visited, no declared name is left unresolved or resolved to another type.
THEOREM NamesAreResolved == Spec => []TypesResolved
<1>1. IInv => TypesResolved
    <2> SUFFICES ASSUME IInv, Done, NEW p \in doc.slots
                 PROVE  /\ Seen(p) = IF doc.declared[p].of = Missing THEN Nothing
                                     ELSE doc.declared[p].of
                        /\ type[p].coll = doc.declared[p].coll
        BY DEF TypesResolved
    <2>1. doc \in Documents /\ SlotInv(p) /\ at \in Nat
        BY DocumentFacts DEF IInv, TypeOK
    <2>2. p[1] \in Types /\ doc.kind[p[1]] # "Enum" /\ doc.schema[p[1]] < at
        BY <2>1, DocumentFacts DEF Done
    <2>3. Visited(p[1])
        BY <2>2 DEF Visited
    <2> QED BY <2>1, <2>3 DEF SlotInv
<1> QED BY <1>1, Invariant, PTL

-----------------------------------------------------------------------------
(* Bindings *)

\* A set of numbers has a least one.
LEMMA Least ==
    ASSUME NEW S \in SUBSET Nat, S # {}
    PROVE  \E n \in S : \A k \in S : n <= k
<1>1. PICK x \in S : \A y \in S : ~(<<y, x>> \in OpToRel(<, Nat))
    BY NatLessThanWellFounded, WFMin
<1>2. \A y \in S : ~(y < x)
    BY <1>1 DEF OpToRel
<1> QED BY <1>2

\* up is t, its base type, the base type of that, and so on n times.
Chain(up, b, t, n) ==
    up = [k \in 0 .. n |->
             IF k = 0 THEN t ELSE IF up[k - 1] = Nothing THEN Nothing ELSE b[up[k - 1]]]

\* There is such a chain for any n.
LEMMA ChainsExist == ASSUME NEW b, NEW t, NEW n \in Nat PROVE \E up : Chain(up, b, t, n)
<1> DEFINE Bad == {k \in Nat : ~ \E up : Chain(up, b, t, k)}
<1> SUFFICES ASSUME Bad # {} PROVE FALSE
    OBVIOUS
<1>1. PICK k \in Bad : \A j \in Bad : k <= j
    BY Least
<1>2. k # 0
    <2>1. Chain([i \in 0 .. 0 |-> t], b, t, 0)
        BY DEF Chain
    <2> QED BY <2>1
<1>3. k - 1 \in Nat /\ k - 1 \notin Bad
    BY <1>1, <1>2
<1>4. PICK g : Chain(g, b, t, k - 1)
    BY <1>3
<1> DEFINE next == IF g[k - 1] = Nothing THEN Nothing ELSE b[g[k - 1]]
           h == [i \in 0 .. k |-> IF i = k THEN next ELSE g[i]]
<1>5. ASSUME NEW i \in 0 .. k
      PROVE  h[i] = IF i = 0 THEN t ELSE IF h[i - 1] = Nothing THEN Nothing ELSE b[h[i - 1]]
    <2>1. CASE i = k
        <3>1. i # 0 /\ i - 1 \in 0 .. k /\ i - 1 # k
            BY <2>1, <1>2
        <3> QED BY <2>1, <3>1
    <2>2. CASE i # k
        <3>1. i \in 0 .. k - 1 /\ (i # 0 => i - 1 \in 0 .. k /\ i - 1 # k)
            BY <2>2
        <3>2. g[i] = IF i = 0 THEN t ELSE IF g[i - 1] = Nothing THEN Nothing ELSE b[g[i - 1]]
            BY <1>4, <3>1 DEF Chain
        <3> QED BY <2>2, <3>1, <3>2
    <2> QED BY <2>1, <2>2
<1>6. h = [i \in 0 .. k |->
              IF i = 0 THEN t ELSE IF h[i - 1] = Nothing THEN Nothing ELSE b[h[i - 1]]]
    <2> HIDE DEF h
    <2>1. h = [i \in 0 .. k |-> h[i]]
        BY DEF h
    <2> QED BY <2>1, <1>5
<1>7. Chain(h, b, t, k)
    BY <1>6 DEF Chain
<1> QED BY <1>7

\* Above is one.
LEMMA AboveIsChain ==
    ASSUME NEW b, NEW t
    PROVE  /\ Cardinality(Types) \in Nat
           /\ DOMAIN Above(b, t) = 0 .. Cardinality(Types)
           /\ Above(b, t)[0] = t
           /\ \A k \in 1 .. Cardinality(Types) :
                 Above(b, t)[k] = IF Above(b, t)[k - 1] = Nothing THEN Nothing
                                  ELSE b[Above(b, t)[k - 1]]
<1>1. Cardinality(Types) \in Nat
    BY TypesAssumption, FS_CardinalityType
<1> DEFINE n == Cardinality(Types)
           f == CHOOSE up : up = [k \in 0 .. n |->
                   IF k = 0 THEN t ELSE IF up[k - 1] = Nothing THEN Nothing ELSE b[up[k - 1]]]
<1>2. Above(b, t) = f
    BY DEF Above
<1>3. f = CHOOSE up : Chain(up, b, t, n)
    BY DEF Chain
<1> HIDE DEF f
<1>4. PICK up : Chain(up, b, t, n)
    BY <1>1, ChainsExist
<1>5. Chain(f, b, t, n)
    BY <1>3, <1>4
<1>6. f = [k \in 0 .. n |->
              IF k = 0 THEN t ELSE IF f[k - 1] = Nothing THEN Nothing ELSE b[f[k - 1]]]
    BY <1>5 DEF Chain
<1>7. DOMAIN f = 0 .. n
    BY <1>6
<1>8. f[0] = t
    BY <1>1, <1>6
<1>9. \A k \in 1 .. n : f[k] = IF f[k - 1] = Nothing THEN Nothing ELSE b[f[k - 1]]
    BY <1>1, <1>6
<1> QED BY <1>1, <1>2, <1>7, <1>8, <1>9

EntityTypes == {t \in Types : doc.kind[t] = "Entity"}

\* Bases b has some of those that bases c has for entity types.
SomeOf(b, c) ==
    \A t \in EntityTypes : b[t] \in {Nothing, c[t]} /\ c[t] \in EntityTypes \cup {Nothing}

\* Two ways up, along bases b and along bases c: what b leads to is what c leads to.
LEMMA SameWayUp ==
    ASSUME NEW b, NEW c, Nothing \notin EntityTypes, SomeOf(b, c),
           NEW t \in EntityTypes \cup {Nothing},
           NEW k \in 0 .. Cardinality(Types), Above(b, t)[k] # Nothing
    PROVE  \A j \in 0 .. k : /\ Above(b, t)[j] \in EntityTypes
                            /\ Above(b, t)[j] = Above(c, t)[j]
<1> DEFINE n == Cardinality(Types)
           B == Above(b, t)
           C == Above(c, t)
           Bad == {i \in 0 .. n : B[i] # Nothing /\ \E j \in 0 .. i : B[j] \notin EntityTypes \/ B[j] # C[j]}
<1>1. /\ n \in Nat /\ B[0] = t /\ C[0] = t
      /\ \A i \in 1 .. n : B[i] = IF B[i - 1] = Nothing THEN Nothing ELSE b[B[i - 1]]
      /\ \A i \in 1 .. n : C[i] = IF C[i - 1] = Nothing THEN Nothing ELSE c[C[i - 1]]
    BY AboveIsChain
<1> HIDE DEF B, C, n
<1>2. Bad = {}
    <2> SUFFICES ASSUME Bad # {} PROVE FALSE
        OBVIOUS
    <2>1. Bad \in SUBSET Nat
        BY <1>1
    <2>2. PICK i \in Bad : \A j \in Bad : i <= j
        <3> HIDE DEF Bad
        <3> QED BY <2>1, Least
    <2>3. i # 0
        BY <1>1
    <2>4. i - 1 \in 0 .. n /\ i - 1 \notin Bad /\ i \in 1 .. n
        BY <1>1, <2>2, <2>3
    <2>5. B[i - 1] # Nothing /\ B[i] = b[B[i - 1]]
        BY <1>1, <2>4
    <2>6. \A j \in 0 .. i - 1 : B[j] \in EntityTypes /\ B[j] = C[j]
        BY <2>4, <2>5
    <2>7. B[i - 1] \in EntityTypes /\ C[i - 1] = B[i - 1]
        BY <1>1, <2>4, <2>6
    <2>8. C[i] = c[B[i - 1]]
        BY <1>1, <2>4, <2>5, <2>7
    <2>9. B[i] \in EntityTypes /\ B[i] = C[i]
        BY <2>2, <2>5, <2>7, <2>8 DEF SomeOf
    <2>10. \A j \in 0 .. i : j = i \/ j \in 0 .. i - 1
        BY <1>1
    <2> QED BY <2>6, <2>9, <2>10
<1>3. k \in 0 .. n /\ B[k] # Nothing
    BY DEF n, B
<1>4. \A j \in 0 .. k : B[j] \in EntityTypes /\ B[j] = C[j]
    BY <1>2, <1>3
<1> QED BY <1>4 DEF B, C

\* Binding x has been visited.
Tried(x) == at > doc.home \/ (at = doc.home /\ step = 5 /\ x \notin left)

\* A base type that is set is the declared one, and is set of every type visited;
\* sources have their types when bindings are visited; and what is bound is bound
\* by a binding that names it, all that those visited name included, when no
\* derived type comes after the container.
BindInv ==
    /\ \A t \in Types : base[t] \in {Nothing, BaseOf(t)}
    /\ \A t \in Types : doc.kind[t] = "Entity" /\ Visited(t) => base[t] = BaseOf(t)
    /\ at > doc.home \/ (at = doc.home /\ step = 5) =>
          \A s \in Sources : set_type[s] = EntityType(doc.setType[s])
    /\ \A p \in Slot : bound[p] # Nothing =>
          \E x \in doc.bindings : Named(x, p) /\ x.target = bound[p]
    /\ DerivedTypesFirst =>
          \A x \in doc.bindings, p \in doc.slots :
              Tried(x) /\ Named(x, p) /\ ~doc.declared[p].contained =>
                  \E y \in doc.bindings : Named(y, p) /\ bound[p] = y.target

\* The declared base types.
DeclaredBase == [t \in Types |-> BaseOf(t)]
StartOf(x) == EntityType(IF x.on = Nothing THEN doc.setType[x.set] ELSE x.on)

\* base b holds bases of entity types that are the declared ones.
HoldsBases(b) == \A t \in Types : b[t] \in {Nothing, BaseOf(t)}

LEMMA BaseFacts ==
    ASSUME doc \in Documents
    PROVE  /\ Nothing \notin EntityTypes
           /\ \A t \in EntityTypes : /\ DeclaredBase[t] = BaseOf(t)
                                     /\ BaseOf(t) \in EntityTypes \cup {Nothing}
           /\ \A x \in doc.bindings : StartOf(x) \in EntityTypes \cup {Nothing}
<1>1. Nothing \notin Types
    BY NamesAssumption DEF TypeNames
<1>2. doc.base \in [Types -> Types \cup {Nothing}] /\ doc.setType \in [Sources -> Types \cup {Nothing}]
      /\ doc.bindings \subseteq Binding
    BY DocumentFacts DEF Document
<1>3. ASSUME NEW t \in EntityTypes PROVE BaseOf(t) \in EntityTypes \cup {Nothing}
    BY <1>2, <1>3 DEF EntityTypes, BaseOf
<1>4. ASSUME NEW x \in doc.bindings PROVE StartOf(x) \in EntityTypes \cup {Nothing}
    BY <1>2, <1>4 DEF StartOf, EntityType, EntityTypes, Binding
<1>5. EntityTypes \subseteq Types
    BY DEF EntityTypes
<1> QED BY <1>1, <1>3, <1>4, <1>5 DEF DeclaredBase

\* The same way up for the entity types, along bases that are some of the declared.
LEMMA SameEntitiesUp ==
    ASSUME doc \in Documents, NEW b, HoldsBases(b), NEW t \in EntityTypes \cup {Nothing},
           NEW k \in 0 .. Cardinality(Types), Above(b, t)[k] # Nothing
    PROVE  \A j \in 0 .. k : /\ Above(b, t)[j] \in EntityTypes
                            /\ Above(b, t)[j] = Above(DeclaredBase, t)[j]
<1>1. SomeOf(b, DeclaredBase)
    BY BaseFacts DEF HoldsBases, EntityTypes, SomeOf
<1>2. Nothing \notin EntityTypes
    BY BaseFacts
<1> QED BY <1>1, <1>2, SameWayUp

\* Along bases that are some of the declared ones a binding finds nothing but what
\* it names.
LEMMA FoundIsNamed ==
    ASSUME doc \in Documents, NEW b, HoldsBases(b), NEW x \in doc.bindings,
           NEW s, x.on = Nothing => s = StartOf(x),
           NavigationProperty(b, s, x) # Nothing
    PROVE  Named(x, NavigationProperty(b, s, x))
<1> DEFINE t == StartOf(x)
           n == Cardinality(Types)
           B == Above(b, t)
           C == Above(DeclaredBase, t)
           p == NavigationProperty(b, s, x)
           has == {k \in DOMAIN B : B[k] # Nothing /\ <<B[k], x.label>> \in doc.slots}
<1>1. n \in Nat /\ DOMAIN B = 0 .. n /\ DOMAIN C = 0 .. n
    BY AboveIsChain
<1>2. t = IF x.on = Nothing THEN s ELSE EntityType(x.on)
    BY DEF StartOf
<1>3. p = FindProperty(b, t, x.label) /\ type[p].form = "Navigation" /\ p # Nothing
    BY <1>2 DEF NavigationProperty
<1>4. has # {} /\ p = <<B[CHOOSE k \in has : \A j \in has : k <= j], x.label>>
    BY <1>3 DEF FindProperty
<1>5. PICK k \in has : (\A j \in has : k <= j) /\ p = <<B[k], x.label>>
    <2>1. has \in SUBSET Nat
        BY <1>1
    <2> HIDE DEF has
    <2>2. \E k \in has : \A j \in has : k <= j
        BY <1>4, <2>1, Least
    <2> QED BY <1>4, <2>2
<1>6. \A j \in 0 .. k : B[j] \in EntityTypes /\ B[j] = C[j]
    <2>1. t \in EntityTypes \cup {Nothing}
        BY BaseFacts
    <2>2. k \in 0 .. Cardinality(Types) /\ Above(b, t)[k] # Nothing
        BY <1>1
    <2> HIDE DEF t, has, p
    <2> QED BY <2>1, <2>2, SameEntitiesUp
<1>7. k \in 0 .. n /\ <<B[k], x.label>> \in doc.slots
    BY <1>1
<1>8. ASSUME NEW j \in 0 .. k - 1 PROVE <<C[j], x.label>> \notin doc.slots
    <2>1. j \in 0 .. k /\ j \in 0 .. n /\ ~(k <= j)
        BY <1>1, <1>7
    <2>2. j \notin has
        BY <1>5, <2>1
    <2>3. B[j] # Nothing
        BY <1>6, <2>1, BaseFacts
    <2> QED BY <1>1, <1>6, <2>1, <2>2, <2>3
<1>9. C[k] = B[k]
    BY <1>1, <1>6, <1>7
<1>10. /\ k \in DOMAIN C /\ p = <<C[k], x.label>> /\ p \in doc.slots
       /\ type[p].form = "Navigation"
       /\ \A j \in 0 .. k - 1 : <<C[j], x.label>> \notin doc.slots
    BY <1>1, <1>3, <1>5, <1>7, <1>8, <1>9
<1>11. Named(x, p)
    <2> HIDE DEF p
    <2> QED BY <1>10 DEF Named, DeclaredBase, StartOf
<1> QED BY <1>11

\* Along all of the declared ones it finds what it names.
LEMMA NamedIsFound ==
    ASSUME doc \in Documents, NEW b, \A t \in EntityTypes : b[t] = BaseOf(t),
           NEW x \in doc.bindings, NEW s, x.on = Nothing => s = StartOf(x),
           NEW p, Named(x, p)
    PROVE  p = NavigationProperty(b, s, x)
<1> DEFINE t == StartOf(x)
           n == Cardinality(Types)
           B == Above(b, t)
           C == Above(DeclaredBase, t)
           has == {k \in DOMAIN B : B[k] # Nothing /\ <<B[k], x.label>> \in doc.slots}
<1>1. n \in Nat /\ DOMAIN B = 0 .. n /\ DOMAIN C = 0 .. n /\ B[0] = t
    BY AboveIsChain
<1>2. PICK k \in DOMAIN C :
        /\ p = <<C[k], x.label>> /\ p \in doc.slots /\ type[p].form = "Navigation"
        /\ \A j \in 0 .. k - 1 : <<C[j], x.label>> \notin doc.slots
    BY DEF Named, DeclaredBase, StartOf
<1>3. k \in 0 .. n /\ C[k] # Nothing
    <2>1. p \in Types \X Labels /\ Nothing \notin Types
        BY <1>2, DocumentFacts, NamesAssumption DEF Slot, TypeNames
    <2> QED BY <1>1, <1>2, <2>1
<1>4. \A j \in 0 .. k : C[j] \in EntityTypes /\ C[j] = B[j]
    <2>1. SomeOf(DeclaredBase, b)
        BY BaseFacts DEF SomeOf
    <2>2. Nothing \notin EntityTypes /\ t \in EntityTypes \cup {Nothing}
        BY BaseFacts
    <2>3. k \in 0 .. Cardinality(Types) /\ C[k] # Nothing
        BY <1>3
    <2> HIDE DEF t
    <2> QED BY <2>1, <2>2, <2>3, SameWayUp
<1>5. \A j \in 0 .. k : B[j] # Nothing
    BY <1>4, BaseFacts
<1>6. k \in has /\ \A j \in has : k <= j
    <2>1. k \in has
        BY <1>1, <1>2, <1>3, <1>4, <1>5
    <2>2. ASSUME NEW j \in has, ~(k <= j) PROVE FALSE
        <3>1. j \in 0 .. k - 1 /\ j \in 0 .. k
            BY <1>1, <1>3, <2>2
        <3> QED BY <1>2, <1>4, <2>2, <3>1
    <2> QED BY <2>1, <2>2
<1>7. ASSUME NEW i \in has, \A j \in has : i <= j PROVE i = k
    <2>1. i \in Nat /\ k \in Nat /\ i <= k /\ k <= i
        BY <1>1, <1>6, <1>7
    <2> QED BY <2>1
<1>8. (CHOOSE i \in has : \A j \in has : i <= j) = k
    <2> HIDE DEF has
    <2> QED BY <1>6, <1>7
<1>9. FindProperty(b, t, x.label) = <<B[k], x.label>>
    BY <1>6, <1>8 DEF FindProperty
<1>10. p = FindProperty(b, t, x.label)
    BY <1>2, <1>3, <1>4, <1>9
<1>11. t # Nothing /\ p # Nothing
    <2>1. t # Nothing
        BY <1>1, <1>3, <1>5
    <2>2. p \in doc.slots /\ Nothing \notin doc.slots
        BY <1>2, DocumentFacts, NamesAssumption
    <2> QED BY <2>1, <2>2
<1>12. t = IF x.on = Nothing THEN s ELSE EntityType(x.on)
    BY DEF StartOf
<1> QED BY <1>2, <1>10, <1>11, <1>12 DEF NavigationProperty

\* What a binding names does not change: a navigation is one from the beginning.
LEMMA NamedStays ==
    ASSUME IInv, [Next]_vars
    PROVE  /\ doc' = doc
           /\ \A t : BaseOf(t)' = BaseOf(t)
           /\ \A x, p : Named(x, p)' <=> Named(x, p)
<1>1. doc' = doc
    BY DEF Next, VisitStructured, VisitOperation, Visit, Crash, Bind, ResolveContainer, Advance, vars
<1>2. \A t : BaseOf(t)' = BaseOf(t)
    BY <1>1 DEF BaseOf
<1>3. ASSUME NEW p \in doc.slots
      PROVE  type'[p].form = "Navigation" <=> type[p].form = "Navigation"
    <2>1. p \in Slot /\ type[p] \in Value
        BY DocumentFacts DEF IInv, TypeOK
    <2>2. Resolved(p).form = "Navigation" <=> type[p].form = "Navigation"
        BY <2>1 DEF Resolved, Value
    <2>3. ASSUME NEW ts, VisitTypes(ts) PROVE type'[p] = type[p] \/ type'[p] = Resolved(p)
        BY <2>1, <2>3 DEF VisitTypes
    <2>4. type' = type \/ \E ts : VisitTypes(ts)
        BY DEF Next, VisitStructured, VisitOperation, Visit, Crash, Bind, ResolveContainer,
               Advance, vars
    <2> QED BY <2>2, <2>3, <2>4
<1>4. DeclaredBase' = DeclaredBase
    BY <1>2 DEF DeclaredBase
<1>5. ASSUME NEW x, NEW p PROVE Named(x, p)' <=> Named(x, p)
    <2>1. StartOf(x)' = StartOf(x)
        BY <1>1 DEF StartOf, EntityType
    <2> DEFINE up == Above(DeclaredBase, StartOf(x))
    <2>2. up' = up
        BY <1>4, <2>1 DEF Above
    <2>3. Named(x, p) <=>
            \E k \in DOMAIN up :
                /\ p = <<up[k], x.label>> /\ p \in doc.slots /\ type[p].form = "Navigation"
                /\ \A j \in 0 .. k - 1 : <<up[j], x.label>> \notin doc.slots
        BY DEF Named, DeclaredBase, StartOf
    <2>4. Named(x, p)' <=>
            \E k \in DOMAIN up' :
                /\ p = <<up'[k], x.label>> /\ p \in doc'.slots /\ type'[p].form = "Navigation"
                /\ \A j \in 0 .. k - 1 : <<up'[j], x.label>> \notin doc'.slots
        BY DEF Named, DeclaredBase, StartOf
    <2> HIDE DEF up
    <2> QED BY <1>1, <1>3, <2>2, <2>3, <2>4
<1> QED BY <1>1, <1>2, <1>5

\* A step that binds nothing, and after which no more types or bindings are visited.
LEMMA NothingBound ==
    ASSUME IInv, BindInv, [Next]_vars, bound' = bound,
           \A t \in Types : base'[t] \in {Nothing, BaseOf(t)},
           \A t \in Types : doc.kind[t] = "Entity" /\ Visited(t)' => base'[t] = BaseOf(t),
           at' > doc.home \/ (at' = doc.home /\ step' = 5) =>
               \A s \in Sources : set_type'[s] = EntityType(doc.setType[s]),
           \A x \in doc.bindings : Tried(x)' => Tried(x)
    PROVE  BindInv'
<1>1. /\ doc' = doc
      /\ \A t : BaseOf(t)' = BaseOf(t)
      /\ \A x, p : Named(x, p)' <=> Named(x, p)
    BY NamedStays
<1>2. DerivedTypesFirst' <=> DerivedTypesFirst
    BY <1>1 DEF DerivedTypesFirst
<1>3. \A t : EntityType(t)' = EntityType(t)
    BY <1>1 DEF EntityType
<1>4. (\A t \in Types : base[t] \in {Nothing, BaseOf(t)})'
    BY <1>1
<1>5. (\A t \in Types : doc.kind[t] = "Entity" /\ Visited(t) => base[t] = BaseOf(t))'
    BY <1>1
<1>6. (at > doc.home \/ (at = doc.home /\ step = 5) =>
          \A s \in Sources : set_type[s] = EntityType(doc.setType[s]))'
    BY <1>1, <1>3
<1>7. (\A p \in Slot : bound[p] # Nothing =>
          \E x \in doc.bindings : Named(x, p) /\ x.target = bound[p])'
    BY <1>1 DEF BindInv
<1>8. (DerivedTypesFirst =>
          \A x \in doc.bindings, p \in doc.slots :
              Tried(x) /\ Named(x, p) /\ ~doc.declared[p].contained =>
                  \E y \in doc.bindings : Named(y, p) /\ bound[p] = y.target)'
    BY <1>1, <1>2 DEF BindInv
<1> QED BY <1>4, <1>5, <1>6, <1>7, <1>8 DEF BindInv

LEMMA InitBindInv == Init => BindInv
<1> SUFFICES ASSUME Init PROVE BindInv
    OBVIOUS
<1>1. doc \in Documents /\ at = 1 /\ step = 1 /\ doc \in Document /\ left = Iterated(doc, 1, 1)
    BY DocumentFacts DEF Init
<1>2. doc.home \in Nat \ {0}
    BY <1>1 DEF Document
<1>3. \A x : ~Tried(x)
    BY <1>1, <1>2 DEF Tried
<1>4. \A t \in Types : ~(doc.kind[t] = "Entity" /\ Visited(t))
    BY <1>1, DocumentFacts DEF Visited, StepOf, Iterated
<1> QED BY <1>1, <1>2, <1>3, <1>4 DEF BindInv, Init

LEMMA NextBindInv == IInv /\ BindInv /\ [Next]_vars => BindInv'
<1> SUFFICES ASSUME IInv, BindInv, [Next]_vars PROVE BindInv'
    OBVIOUS
<1>1. /\ doc \in Documents /\ left \subseteq Iterated(doc, at, step)
      /\ at \in Nat \ {0} /\ step \in 1 .. 5 /\ doc.home \in Nat \ {0}
      /\ base \in [Types -> Types \cup {Nothing}]
      /\ bound \in [Slot -> Sources \cup {Nothing}]
    <2>1. doc \in Documents /\ doc \in Document /\ doc.schemas \in Nat
        BY DocumentFacts DEF IInv
    <2> QED BY <2>1 DEF IInv, TypeOK, Document
<1>2. \A x, p : Named(x, p)' <=> Named(x, p)
    BY NamedStays
<1>3. doc' = doc /\ \A t : BaseOf(t)' = BaseOf(t)
    BY NamedStays
<1>4. CASE UNCHANGED vars
    <2>1. \A t \in Types : Visited(t)' <=> Visited(t)
        BY <1>4 DEF vars, Visited, StepOf
    <2>2. \A x : Tried(x)' <=> Tried(x)
        BY <1>4 DEF vars, Tried
    <2>3. UNCHANGED <<at, step, base, set_type, bound>>
        BY <1>4 DEF vars
    <2> QED BY <2>1, <2>2, <2>3, NothingBound DEF BindInv
<1>5. ASSUME NEW t \in Types, VisitStructured(t) PROVE BindInv'
    <2>1. /\ UNCHANGED <<at, step, set_type, bound>> /\ step \in {1, 2} /\ t \in left
          /\ left' = left \ {t} /\ base' = [base EXCEPT ![t] = BaseOf(t)]
        BY <1>5 DEF VisitStructured, Visit
    <2>2. doc.schema[t] = at /\ StepOf(t) = step
        BY <1>1, <2>1 DEF Iterated, StepOf
    <2>3. \A u \in Types : Visited(u)' => Visited(u) \/ u = t
        BY <1>3, <2>1, <2>2 DEF Visited, StepOf
    <2>4. \A u \in Types : base'[u] = IF u = t THEN BaseOf(t) ELSE base[u]
        BY <1>1, <2>1
    <2>5. \A x : Tried(x)' => Tried(x)
        BY <1>3, <2>1 DEF Tried
    <2> QED BY <2>1, <2>3, <2>4, <2>5, NothingBound DEF BindInv
<1>6. ASSUME NEW t \in Types, VisitOperation(t) PROVE BindInv'
    <2>1. /\ UNCHANGED <<at, step, set_type, bound, base>> /\ step = 3 /\ t \in left
          /\ left' = left \ {t}
        BY <1>6 DEF VisitOperation, Visit
    <2>2. doc.kind[t] = "Operation"
        BY <1>1, <2>1 DEF Iterated
    <2>3. \A u \in Types : Visited(u)' => Visited(u) \/ u = t
        BY <1>3, <2>1 DEF Visited, StepOf
    <2>4. \A x : Tried(x)' => Tried(x)
        BY <1>3, <2>1 DEF Tried
    <2> QED BY <2>1, <2>2, <2>3, <2>4, NothingBound DEF BindInv
<1>7. ASSUME NEW t \in Types, Crash(t) PROVE BindInv'
    <2>1. UNCHANGED <<at, step, left, base, set_type, bound>>
        BY <1>7 DEF Crash
    <2>2. \A u \in Types : Visited(u)' <=> Visited(u)
        BY <1>3, <2>1 DEF Visited, StepOf
    <2>3. \A x : Tried(x)' <=> Tried(x)
        BY <1>3, <2>1 DEF Tried
    <2> QED BY <2>1, <2>2, <2>3, NothingBound DEF BindInv
<1>8. ASSUME ResolveContainer PROVE BindInv'
    <2>1. /\ UNCHANGED <<at, base, bound>> /\ step = 4 /\ step' = 5 /\ doc.home = at
          /\ left' = doc.bindings
          /\ set_type' = [s \in Sources |-> EntityType(doc.setType[s])]
        BY <1>8 DEF ResolveContainer, Iterated
    <2>2. \A u \in Types : Visited(u)' <=> Visited(u)
        BY <1>1, <1>3, <2>1 DEF Visited, StepOf
    <2>3. \A x \in doc.bindings : ~Tried(x)'
        BY <1>1, <1>3, <2>1 DEF Tried
    <2> QED BY <2>1, <2>2, <2>3, NothingBound DEF BindInv
<1>9. ASSUME Advance PROVE BindInv'
    <2>1. /\ UNCHANGED <<base, set_type, bound>> /\ left = {} /\ (step = 4 => doc.home # at)
          /\ step = 5 => at' = at + 1 /\ step' = 1
          /\ step # 5 => at' = at /\ step' = step + 1
        BY <1>9 DEF Advance
    <2>2. \A u \in Types : Visited(u)' <=> Visited(u)
        BY <1>9, AdvanceVisits
    <2>3. at' > doc.home \/ (at' = doc.home /\ step' = 5) =>
            at > doc.home \/ (at = doc.home /\ step = 5)
        BY <1>1, <2>1
    <2>4. \A x : Tried(x)' => Tried(x)
        BY <1>3, <2>1, <2>3 DEF Tried
    <2> QED BY <2>1, <2>2, <2>3, <2>4, NothingBound DEF BindInv
<1>10. ASSUME NEW x \in Binding, Bind(x) PROVE BindInv'
    <2> DEFINE p == NavigationProperty(base, set_type[x.set], x)
    <2>1. UNCHANGED <<at, step, base, set_type>> /\ step = 5 /\ x \in left /\ left' = left \ {x}
        BY <1>10 DEF Bind
    <2>2. bound' = IF p # Nothing /\ ~doc.declared[p].contained
                   THEN [bound EXCEPT ![p] = x.target] ELSE bound
        BY <1>10 DEF Bind
    <2>3. doc.home = at /\ x \in doc.bindings
        BY <1>1, <2>1 DEF Iterated
    <2>4. x.on = Nothing => set_type[x.set] = StartOf(x)
        <3>1. x.set \in Sources
            BY DEF Binding
        <3> QED BY <2>1, <2>3, <3>1 DEF BindInv, StartOf
    <2>5. p # Nothing => Named(x, p)
        <3>1. HoldsBases(base)
            BY DEF BindInv, HoldsBases
        <3> QED BY <1>1, <2>3, <2>4, <3>1, FoundIsNamed
    <2>6. ASSUME NEW q \in doc.slots, DerivedTypesFirst, Named(x, q) PROVE q = p /\ p # Nothing
        <3>1. ASSUME NEW t \in EntityTypes PROVE base[t] = BaseOf(t)
            <4>1. t \in Types /\ StepOf(t) = 1 /\ doc.kind[t] = "Entity" /\ doc.schema[t] \in Nat
                BY <1>1, DocumentFacts DEF EntityTypes, StepOf
            <4>2. CASE BaseOf(t) = Nothing
                BY <4>1, <4>2 DEF BindInv
            <4>3. CASE BaseOf(t) # Nothing
                <5>1. doc.schema[t] <= at
                    BY <2>3, <2>6, <4>1, <4>3 DEF DerivedTypesFirst
                <5>2. Visited(t)
                    BY <1>1, <2>1, <4>1, <5>1 DEF Visited
                <5> QED BY <4>1, <5>2 DEF BindInv
            <4> QED BY <4>2, <4>3
        <3>2. q = p
            BY <1>1, <2>3, <2>4, <2>6, <3>1, NamedIsFound
        <3>3. q # Nothing
            BY <1>1, DocumentFacts, NamesAssumption
        <3> QED BY <3>2, <3>3
    <2> HIDE DEF p
    <2>7. ASSUME NEW q \in Slot
          PROVE  bound'[q] = bound[q] \/ (q = p /\ p # Nothing /\ bound'[q] = x.target)
        BY <1>1, <2>2
    <2>8. (\A q \in Slot : bound[q] # Nothing =>
              \E y \in doc.bindings : Named(y, q) /\ y.target = bound[q])'
        BY <1>2, <1>3, <2>3, <2>5, <2>7 DEF BindInv
    <2>9. DerivedTypesFirst' <=> DerivedTypesFirst
        BY <1>3 DEF DerivedTypesFirst
    <2>10. ASSUME DerivedTypesFirst, NEW z \in doc.bindings, NEW q \in doc.slots,
                  Tried(z)', Named(z, q), ~doc.declared[q].contained
           PROVE  \E y \in doc.bindings : Named(y, q) /\ bound'[q] = y.target
        <3>1. q \in Slot
            BY <1>1, DocumentFacts
        <3>2. CASE z = x
            <4>1. q = p /\ p # Nothing
                BY <2>6, <2>10, <3>2
            <4>2. bound'[q] = x.target
                BY <1>1, <2>2, <2>10, <3>1, <4>1
            <4> QED BY <2>3, <2>10, <3>2, <4>2
        <3>3. CASE z # x
            <4>1. Tried(z)
                BY <1>3, <2>1, <2>10, <3>3 DEF Tried
            <4>2. PICK y \in doc.bindings : Named(y, q) /\ bound[q] = y.target
                BY <2>10, <4>1 DEF BindInv
            <4> QED BY <2>3, <2>5, <2>7, <3>1, <4>2
        <3> QED BY <3>2, <3>3
    <2>11. (DerivedTypesFirst =>
              \A z \in doc.bindings, q \in doc.slots :
                  Tried(z) /\ Named(z, q) /\ ~doc.declared[q].contained =>
                      \E y \in doc.bindings : Named(y, q) /\ bound[q] = y.target)'
        BY <1>2, <1>3, <2>9, <2>10
    <2>12. \A u \in Types : Visited(u)' <=> Visited(u)
        BY <1>1, <1>3, <2>1 DEF Visited, StepOf
    <2>13. (\A t \in Types : base[t] \in {Nothing, BaseOf(t)})'
        BY <1>3, <2>1 DEF BindInv
    <2>14. (\A t \in Types : doc.kind[t] = "Entity" /\ Visited(t) => base[t] = BaseOf(t))'
        BY <1>3, <2>1, <2>12 DEF BindInv
    <2>15. (at > doc.home \/ (at = doc.home /\ step = 5) =>
              \A s \in Sources : set_type[s] = EntityType(doc.setType[s]))'
        <3>1. \A t : EntityType(t)' = EntityType(t)
            BY <1>3 DEF EntityType
        <3> QED BY <1>3, <2>1, <3>1 DEF BindInv
    <2> QED BY <2>8, <2>11, <2>13, <2>14, <2>15 DEF BindInv
<1> QED BY <1>4, <1>5, <1>6, <1>7, <1>8, <1>9, <1>10 DEF Next

\* For any number of schemas, types and bindings, and any order of their maps, a
\* navigation is bound to what some binding of it names; and one that has bindings
\* is bound, unless a derived type is declared after the container.
THEOREM BindingsAreDeclared == Spec => []BindingsAreRight
<1>1. Spec => [](IInv /\ BindInv)
    BY InitIInv, NextIInv, InitBindInv, NextBindInv, PTL DEF Spec
<1>2. IInv /\ BindInv => BindingsAreRight
    <2> SUFFICES ASSUME IInv, BindInv PROVE BindingsAreRight
        OBVIOUS
    <2>1. Done => \A x : Tried(x)
        <3>1. doc \in Documents /\ doc \in Document /\ at \in Nat
            BY DocumentFacts DEF IInv, TypeOK
        <3>2. doc.home <= doc.schemas /\ doc.home \in Nat /\ doc.schemas \in Nat
            BY <3>1, DocumentsAssumption DEF Document
        <3> QED BY <3>1, <3>2 DEF Done, Tried
    <2> QED BY <2>1 DEF BindInv, BindingsAreRight
<1> QED BY <1>1, <1>2, PTL
===============================================================================
