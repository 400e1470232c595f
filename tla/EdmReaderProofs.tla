---------------------------- MODULE EdmReaderProofs ----------------------------
(***************************************************************************)
(* That the reader's pointers and its flag stand for the stack of elements *)
(* in every document that CSDL allows, of any length, and that the model   *)
(* holds what the document declares.                                       *)
(***************************************************************************)
EXTENDS EdmReader, WellFoundedInduction, TLAPS

Elements == Declared \cup Members \cup {"Schema", "Key", "Other"}

\* What an element of a schema may be, and what holds declarations.
OfSchema == Structured \cup {"EnumType", "Function", "EntityContainer"}
OfContainer == {"EntitySet", "Singleton", "FunctionImport"}
Holders == Declared \cup {"Schema"}

Entry == [element : Elements, id : Nat \ {0}]
FiledEntry == [in : Nat, kind : Elements, name : Names \cup {NoName}, object : Nat]

TypeOK ==
    /\ stack \in Seq(Entry)
    /\ kind \in Seq(Elements) /\ name \in Seq(Names \cup {NoName})
    /\ parent \in Seq(Nat) /\ children \in Seq(Seq(Nat)) /\ members \in Seq(Seq(Nat))
    /\ Len(name) = Count /\ Len(parent) = Count
    /\ Len(children) = Count /\ Len(members) = Count
    /\ filed \subseteq FiledEntry
    /\ m_parsing_key \in BOOLEAN
    /\ phase \in {"reading", "read", "endless", "crashed"}

\* Elements lie as CSDL allows: what a pointer can stand for is at one depth.
Nested ==
    \A k \in DOMAIN stack :
        /\ stack[k].element = "Schema" <=> k = 1
        /\ stack[k].element \in OfSchema => k = 2
        /\ stack[k].element \in OfContainer \cup {"Key"} => k = 3
        /\ k > 1 => stack[k].element \in Inside(stack[k - 1].element)

\* Objects are numbered in the order in which their elements begin.
Numbered ==
    /\ \A k \in DOMAIN stack :
          stack[k].id \in 1 .. Count /\ kind[stack[k].id] = stack[k].element
    /\ \A j, k \in DOMAIN stack : j < k => stack[j].id < stack[k].id

\* p is the object of the one element of these kinds in s, and null if there is none.
PointsTo(s, p, kinds) ==
    /\ \A k \in DOMAIN s : s[k].element \in kinds => s[k].id = p
    /\ p # Null => \E k \in DOMAIN s : s[k].element \in kinds

\* The schema that has ended stays the current one.
PointersInv ==
    /\ \A k \in DOMAIN stack : stack[k].element = "Schema" => stack[k].id = m_current_schema
    /\ PointsTo(stack, m_current_container, {"EntityContainer"})
    /\ PointsTo(stack, m_current_entity_set, {"EntitySet"})
    /\ PointsTo(stack, m_current_singleton, {"Singleton"})
    /\ PointsTo(stack, m_current_st, Structured)
    /\ PointsTo(stack, m_current_enum, {"EnumType"})
    /\ PointsTo(stack, m_current_operation, {"Function"})
    /\ m_parsing_key <=> \E k \in DOMAIN stack : stack[k].element = "Key"

\* What is inside what: nothing that began after an open declaration is outside.
Placed ==
    /\ \A k \in 2 .. Len(stack) :
          stack[k].element \in Declared => parent[stack[k].id] = stack[k - 1].id
    /\ \A i \in 1 .. Count : parent[i] < i
    /\ \A k \in DOMAIN stack : stack[k].element \in Holders =>
          \A i \in 1 .. Count : i > stack[k].id => parent[i] >= stack[k].id
    /\ members = children

\* An import is filed when it begins, other declarations when they end.
IsDue(i) == kind[i] \in Declared /\ (Open(i) => kind[i] = "FunctionImport")

FiledInv ==
    /\ \A f \in filed :
          /\ f.object \in 1 .. Count /\ IsDue(f.object)
          /\ f.in = parent[f.object] /\ f.kind = kind[f.object] /\ f.name = name[f.object]
    /\ \A i \in 1 .. Count : IsDue(i) =>
          \E f \in filed : /\ f.in = parent[i] /\ f.kind = kind[i] /\ f.name = name[i]
                           /\ f.object >= i

IInv ==
    /\ TypeOK
    /\ Nested /\ Numbered /\ PointersInv /\ Placed /\ FiledInv
    /\ phase # "crashed"

-----------------------------------------------------------------------------
(* What may be inside what *)

LEMMA InsideFacts ==
    ASSUME NEW d \in Elements, NEW e \in Inside(d)
    PROVE  /\ e \in Elements /\ e # "Schema"
           /\ e \in OfSchema => d = "Schema"
           /\ e \in OfContainer => d = "EntityContainer"
           /\ e = "Key" => d = "EntityType"
           /\ e = "PropertyRef" => d = "Key"
           /\ e \in {"Property", "NavigationProperty"} => d \in Structured
           /\ e = "Member" => d = "EnumType"
           /\ e \in {"Parameter", "ReturnType"} => d = "Function"
           /\ e = "NavigationPropertyBinding" => d \in {"EntitySet", "Singleton"}
<1> USE DEF Elements, OfSchema, OfContainer, Declared, Structured, Members
<1>1. CASE d = "EntityType"
    BY <1>1 DEF Inside
<1>2. CASE d = "ComplexType"
    BY <1>2 DEF Inside
<1>3. CASE d = "Key"
    BY <1>3 DEF Inside
<1>4. CASE d = "EnumType"
    BY <1>4 DEF Inside
<1>5. CASE d = "Function"
    BY <1>5 DEF Inside
<1>6. CASE d = "EntityContainer"
    BY <1>6 DEF Inside
<1>7. CASE d \in {"EntitySet", "Singleton"}
    BY <1>7 DEF Inside
<1>8. CASE d = "Schema"
    BY <1>8 DEF Inside
<1>9. CASE d \in Members \cup {"FunctionImport", "Other"}
    <2>1. Inside(d) = {"Other"}
        BY <1>9 DEF Inside
    <2> QED BY <2>1
<1> QED BY <1>1, <1>2, <1>3, <1>4, <1>5, <1>6, <1>7, <1>8, <1>9

\* Where an element that begins lies.
LEMMA AllowedFacts ==
    ASSUME TypeOK, Nested, NEW e \in Allowed
    PROVE  /\ Len(stack) \in Nat /\ DOMAIN stack = 1 .. Len(stack)
           /\ e \in Elements
           /\ e = "Schema" => Len(stack) = 0
           /\ e # "Schema" => Len(stack) > 0 /\ e \in Inside(stack[Len(stack)].element)
           /\ e \in OfSchema => Len(stack) = 1
           /\ e \in OfContainer \cup {"Key"} => Len(stack) = 2
<1>1. stack \in Seq(Entry) /\ Len(stack) \in Nat /\ DOMAIN stack = 1 .. Len(stack)
    BY DEF TypeOK
<1>2. CASE stack = <<>>
    <2>1. e = "Schema"
        BY <1>2 DEF Allowed
    <2> QED BY <1>1, <1>2, <2>1 DEF Elements, OfSchema, OfContainer, Structured
<1>3. CASE stack # <<>>
    <2>1. Len(stack) \in DOMAIN stack /\ Len(stack) > 0
        BY <1>1, <1>3
    <2>2. stack[Len(stack)].element \in Elements
        <3>1. stack[Len(stack)] \in Entry
            BY <1>1, <2>1
        <3> QED BY <3>1 DEF Entry
    <2>3. e \in Inside(stack[Len(stack)].element)
        BY <1>3 DEF Allowed
    <2>4. e \in OfSchema => Len(stack) = 1
        BY <2>1, <2>2, <2>3, InsideFacts DEF Nested
    <2>5. e \in OfContainer \cup {"Key"} => Len(stack) = 2
        <3>1. e \in OfContainer \cup {"Key"} => stack[Len(stack)].element \in OfSchema
            BY <2>2, <2>3, InsideFacts DEF OfSchema, Structured
        <3> QED BY <2>1, <3>1 DEF Nested
    <2> QED BY <1>1, <2>1, <2>2, <2>3, <2>4, <2>5, InsideFacts
<1> QED BY <1>2, <1>3

\* A set of numbers has a least one, and one that is bounded has a greatest.
LEMMA Least ==
    ASSUME NEW S \in SUBSET Nat, S # {}
    PROVE  \E n \in S : \A k \in S : n <= k
<1>1. PICK x \in S : \A y \in S : ~(<<y, x>> \in OpToRel(<, Nat))
    BY NatLessThanWellFounded, WFMin
<1>2. \A y \in S : ~(y < x)
    BY <1>1 DEF OpToRel
<1> QED BY <1>2

LEMMA Greatest ==
    ASSUME NEW n \in Nat, NEW S \in SUBSET (1 .. n), S # {}
    PROVE  \E m \in S : \A k \in S : k <= m
<1> DEFINE T == {m \in Nat : \A k \in S : k <= m}
<1>1. n \in T
    OBVIOUS
<1>2. PICK m \in T : \A k \in T : m <= k
    <2> HIDE DEF T
    <2>1. T \in SUBSET Nat /\ T # {}
        BY <1>1 DEF T
    <2> QED BY <2>1, Least
<1>3. ASSUME m \notin S PROVE FALSE
    <2>1. PICK i \in S : i <= m
        BY <1>2
    <2>2. m - 1 \in T
        BY <1>2, <1>3, <2>1
    <2> QED BY <1>2, <2>2
<1> QED BY <1>2, <1>3

\* The declaration that an element is a part of is the innermost open one.
LEMMA EnclosingFacts ==
    ASSUME TypeOK, Numbered
    PROVE  /\ Enclosing \in 0 .. Count
           /\ \A k \in DOMAIN stack : stack[k].element \in Holders => stack[k].id <= Enclosing
           /\ \A k \in DOMAIN stack :
                 stack[k].element \in Holders /\ k >= Len(stack) - 1
                     /\ (k # Len(stack) => stack[Len(stack)].element \notin Holders)
                     => Enclosing = stack[k].id
<1> DEFINE around == {j \in DOMAIN stack : stack[j].element \in Declared \cup {"Schema"}}
<1>1. stack \in Seq(Entry) /\ Len(stack) \in Nat /\ DOMAIN stack = 1 .. Len(stack) /\ Count \in Nat
    BY DEF TypeOK, Count
<1>2. CASE around = {}
    BY <1>1, <1>2 DEF Enclosing, Null, Holders
<1>3. CASE around # {}
    <2>1. Enclosing = stack[CHOOSE j \in around : \A k \in around : k <= j].id
        BY <1>3 DEF Enclosing
    <2>2. around \in SUBSET (1 .. Len(stack))
        BY <1>1
    <2> HIDE DEF around
    <2>3. PICK j \in around : Enclosing = stack[j].id /\ \A k \in around : k <= j
        <3>1. \E j \in around : \A k \in around : k <= j
            BY <1>1, <1>3, <2>2, Greatest
        <3> QED BY <2>1, <3>1
    <2>4. j \in DOMAIN stack /\ stack[j].id \in 1 .. Count
        BY <2>3 DEF around, Numbered
    <2>5. ASSUME NEW k \in DOMAIN stack, stack[k].element \in Holders
          PROVE  stack[k].id <= stack[j].id
        <3>1. k <= j
            BY <2>3, <2>5 DEF around, Holders
        <3>2. stack[k].id \in Nat /\ (k < j => stack[k].id < stack[j].id)
            BY <2>4 DEF Numbered
        <3> QED BY <1>1, <2>4, <3>1, <3>2
    <2>6. ASSUME NEW k \in DOMAIN stack, stack[k].element \in Holders, k >= Len(stack) - 1,
                 k # Len(stack) => stack[Len(stack)].element \notin Holders
          PROVE  j = k
        <3>1. k <= j
            BY <2>3, <2>6 DEF around, Holders
        <3>2. j # k => j = Len(stack)
            BY <1>1, <2>4, <2>6, <3>1
        <3>3. stack[j].element \in Holders
            BY <2>3 DEF around, Holders
        <3> QED BY <2>6, <3>2, <3>3
    <2> QED BY <1>1, <2>3, <2>4, <2>5, <2>6
<1> QED BY <1>2, <1>3

-----------------------------------------------------------------------------
(* An element begins *)

\* What it does to the document read so far.
LEMMA BeginsFacts ==
    ASSUME IInv, NEW e, NEW n \in Names \cup {NoName}, NEW added,
           added = IF e \in Members THEN Enclosing ELSE Null,
           Begins(e, n, added)
    PROVE  /\ Len(stack) \in Nat /\ Count \in Nat /\ e \in Allowed /\ e \in Elements
           /\ Count' = Count + 1 /\ Len(stack') = Len(stack) + 1
           /\ DOMAIN stack = 1 .. Len(stack) /\ DOMAIN stack' = 1 .. Len(stack) + 1
           /\ \A k \in 1 .. Len(stack) : stack'[k] = stack[k]
           /\ stack'[Len(stack) + 1] = [element |-> e, id |-> Count + 1]
           /\ \A i \in 1 .. Count :
                 kind'[i] = kind[i] /\ name'[i] = name[i] /\ parent'[i] = parent[i]
           /\ kind'[Count + 1] = e /\ name'[Count + 1] = n /\ parent'[Count + 1] = Enclosing
           /\ members' = children'
           /\ phase' = phase
<1>1. TypeOK /\ Nested /\ Numbered /\ Placed
    BY DEF IInv
<1>2. e \in Allowed
    BY DEF Begins
<1>3. e \in Elements /\ Len(stack) \in Nat /\ DOMAIN stack = 1 .. Len(stack)
    BY <1>1, <1>2, AllowedFacts
<1>4. Enclosing \in Nat /\ Count \in Nat
    BY <1>1, EnclosingFacts DEF TypeOK, Count
<1>5. /\ stack' = Append(stack, [element |-> e, id |-> Count + 1])
      /\ kind' = Append(kind, e) /\ name' = Append(name, n) /\ parent' = Append(parent, Enclosing)
      /\ phase' = phase
    BY DEF Begins
<1>6. members' = children'
    BY <1>1 DEF Begins, Placed
<1>7. /\ Count' = Count + 1 /\ Len(stack') = Len(stack) + 1
      /\ DOMAIN stack' = 1 .. Len(stack) + 1
      /\ \A k \in 1 .. Len(stack) : stack'[k] = stack[k]
      /\ stack'[Len(stack) + 1] = [element |-> e, id |-> Count + 1]
    BY <1>1, <1>3, <1>4, <1>5 DEF TypeOK, Count, Entry
<1>8. \A i \in 1 .. Count :
          kind'[i] = kind[i] /\ name'[i] = name[i] /\ parent'[i] = parent[i]
    BY <1>1, <1>3, <1>4, <1>5 DEF TypeOK, Count
<1>9. kind'[Count + 1] = e /\ name'[Count + 1] = n /\ parent'[Count + 1] = Enclosing
    BY <1>1, <1>3, <1>4, <1>5 DEF TypeOK, Count
<1> QED BY <1>2, <1>3, <1>4, <1>5, <1>6, <1>7, <1>8, <1>9

LEMMA BeginsTyped ==
    ASSUME IInv, NEW e, NEW n \in Names \cup {NoName}, NEW added,
           added = IF e \in Members THEN Enclosing ELSE Null,
           Begins(e, n, added), filed' \subseteq FiledEntry, m_parsing_key' \in BOOLEAN
    PROVE  TypeOK'
<1>1. TypeOK /\ Nested /\ Numbered /\ Placed
    BY DEF IInv
<1>2. e \in Elements /\ e \in Allowed /\ Count \in Nat /\ Count' = Count + 1
    BY BeginsFacts
<1>3. Enclosing \in Nat
    BY <1>1, <1>2, EnclosingFacts
<1>4. stack' \in Seq(Entry) /\ kind' \in Seq(Elements)
    <2>1. [element |-> e, id |-> Count + 1] \in Entry
        BY <1>2 DEF Entry
    <2> QED BY <1>1, <1>2, <2>1 DEF Begins, TypeOK
<1>5. name' \in Seq(Names \cup {NoName}) /\ Len(name') = Count' /\ parent' \in Seq(Nat) /\ Len(parent') = Count'
    BY <1>1, <1>2, <1>3 DEF Begins, TypeOK
<1>6. children' \in Seq(Seq(Nat)) /\ Len(children') = Count'
    <2> DEFINE to == IF e \in Members THEN Enclosing ELSE Null
               f(j) == IF j = Count + 1 THEN <<>>
                       ELSE IF j = to THEN Append(children[j], Count + 1) ELSE children[j]
    <2>1. children' = [j \in 1 .. Count + 1 |-> f(j)]
        BY DEF Begins
    <2>2. ASSUME NEW j \in 1 .. Count + 1 PROVE f(j) \in Seq(Nat)
        <3>1. j # Count + 1 => children[j] \in Seq(Nat)
            BY <1>1, <1>2 DEF TypeOK
        <3>2. j # Count + 1 => Append(children[j], Count + 1) \in Seq(Nat)
            BY <1>2, <3>1
        <3>3. <<>> \in Seq(Nat)
            OBVIOUS
        <3> QED BY <3>1, <3>2, <3>3
    <2> HIDE DEF f
    <2> QED BY <1>2, <2>1, <2>2
<1>7. members' = children' /\ phase' = phase
    BY BeginsFacts
<1> QED BY <1>1, <1>4, <1>5, <1>6, <1>7 DEF TypeOK

\* It lies as CSDL allows, and is numbered after all others.
LEMMA BeginsNested ==
    ASSUME IInv, NEW e, NEW n \in Names \cup {NoName}, NEW added,
           added = IF e \in Members THEN Enclosing ELSE Null,
           Begins(e, n, added)
    PROVE  Nested' /\ Numbered' /\ Placed'
<1> DEFINE len == Len(stack)
<1>1. TypeOK /\ Nested /\ Numbered /\ Placed
    BY DEF IInv
<1>2. /\ len \in Nat /\ Count \in Nat /\ e \in Allowed /\ e \in Elements
      /\ Count' = Count + 1 /\ Len(stack') = len + 1
      /\ DOMAIN stack = 1 .. len /\ DOMAIN stack' = 1 .. len + 1
      /\ \A k \in 1 .. len : stack'[k] = stack[k]
      /\ stack'[len + 1] = [element |-> e, id |-> Count + 1]
    BY BeginsFacts
<1>3. /\ \A i \in 1 .. Count : kind'[i] = kind[i] /\ parent'[i] = parent[i]
      /\ kind'[Count + 1] = e /\ parent'[Count + 1] = Enclosing
      /\ members' = children'
    BY BeginsFacts
<1>4. /\ e = "Schema" => len = 0
      /\ e # "Schema" => len > 0 /\ e \in Inside(stack[len].element)
      /\ e \in OfSchema => len = 1
      /\ e \in OfContainer \cup {"Key"} => len = 2
    BY <1>1, <1>2, AllowedFacts
<1> HIDE DEF len
<1>5. Nested'
    <2> SUFFICES ASSUME NEW k \in 1 .. len + 1
                 PROVE  /\ stack'[k].element = "Schema" <=> k = 1
                        /\ stack'[k].element \in OfSchema => k = 2
                        /\ stack'[k].element \in OfContainer \cup {"Key"} => k = 3
                        /\ k > 1 => stack'[k].element \in Inside(stack'[k - 1].element)
        BY <1>2 DEF Nested
    <2>1. CASE k \in 1 .. len
        <3>1. stack'[k] = stack[k] /\ (k > 1 => stack'[k - 1] = stack[k - 1])
            BY <1>2, <2>1
        <3> QED BY <1>1, <1>2, <2>1, <3>1 DEF Nested
    <2>2. CASE k = len + 1
        <3>1. stack'[k].element = e /\ (k > 1 => stack'[k - 1] = stack[len])
            BY <1>2, <2>2
        <3>2. e # "Schema" => k # 1
            BY <1>2, <1>4, <2>2
        <3> QED BY <1>2, <1>4, <2>2, <3>1, <3>2
    <2> QED BY <1>2, <2>1, <2>2
<1>6. Numbered'
    <2>1. ASSUME NEW k \in 1 .. len + 1
          PROVE  stack'[k].id \in 1 .. Count + 1 /\ kind'[stack'[k].id] = stack'[k].element
        BY <1>1, <1>2, <1>3 DEF Numbered
    <2>2. ASSUME NEW j \in 1 .. len + 1, NEW k \in 1 .. len + 1, j < k
          PROVE  stack'[j].id < stack'[k].id
        <3>1. j \in 1 .. len /\ stack[j].id \in 1 .. Count
            BY <1>1, <1>2, <2>2 DEF Numbered
        <3>2. CASE k = len + 1
            BY <1>2, <3>1, <3>2
        <3>3. CASE k # len + 1
            BY <1>1, <1>2, <2>2, <3>1, <3>3 DEF Numbered
        <3> QED BY <3>2, <3>3
    <2> QED BY <1>2, <2>1, <2>2 DEF Numbered
<1>7. Placed'
    <2>1. /\ Enclosing \in 0 .. Count
          /\ \A k \in 1 .. len : stack[k].element \in Holders => stack[k].id <= Enclosing
        BY <1>1, <1>2, EnclosingFacts
    <2>2. ASSUME NEW k \in 2 .. len + 1, stack'[k].element \in Declared
          PROVE  parent'[stack'[k].id] = stack'[k - 1].id
        <3>1. CASE k = len + 1
            <4>1. stack'[k] = [element |-> e, id |-> Count + 1] /\ stack'[k - 1] = stack[len]
                  /\ len \in 1 .. len
                BY <1>2, <3>1
            <4>2. stack[len].element \in Holders
                <5>1. e \in Declared /\ e # "Schema"
                    BY <2>2, <4>1 DEF Declared, Structured
                <5>2. stack[len].element \in Elements
                    <6>1. stack[len] \in Entry
                        BY <1>1, <4>1 DEF TypeOK, len
                    <6> QED BY <6>1 DEF Entry
                <5>3. e \in OfSchema \/ e \in OfContainer
                    BY <5>1 DEF Declared, OfSchema, OfContainer
                <5> QED BY <1>4, <5>1, <5>2, <5>3, InsideFacts DEF Holders, Declared
            <4>3. Enclosing = stack[len].id
                BY <1>1, <1>2, <4>1, <4>2, EnclosingFacts DEF len
            <4> QED BY <1>3, <4>1, <4>3
        <3>2. CASE k # len + 1
            <4>1. k \in 2 .. len /\ stack'[k] = stack[k] /\ stack'[k - 1] = stack[k - 1]
                BY <1>2, <3>2
            <4>2. stack[k].id \in 1 .. Count
                BY <1>1, <1>2, <4>1 DEF Numbered
            <4> QED BY <1>1, <1>3, <2>2, <4>1, <4>2 DEF Placed, len
        <3> QED BY <3>1, <3>2
    <2>3. \A i \in 1 .. Count + 1 : parent'[i] < i
        BY <1>1, <1>2, <1>3, <2>1 DEF Placed
    <2>4. ASSUME NEW k \in 1 .. len + 1, stack'[k].element \in Holders,
                 NEW i \in 1 .. Count + 1, i > stack'[k].id
          PROVE  parent'[i] >= stack'[k].id
        <3>1. k \in 1 .. len /\ stack'[k] = stack[k] /\ stack[k].id \in 1 .. Count
            BY <1>1, <1>2, <2>4 DEF Numbered
        <3>2. CASE i = Count + 1
            BY <1>3, <2>1, <2>4, <3>1, <3>2
        <3>3. CASE i # Count + 1
            BY <1>1, <1>2, <1>3, <2>4, <3>1, <3>3 DEF Placed
        <3> QED BY <3>2, <3>3
    <2> QED BY <1>2, <1>3, <2>2, <2>3, <2>4 DEF Placed
<1> QED BY <1>5, <1>6, <1>7

-----------------------------------------------------------------------------
(* The pointers *)

\* t is s with one more element, kinds are of one depth: a pointer that is set by
\* an element of these kinds when it begins, and reset when it ends, is right.
LEMMA PointsOn ==
    ASSUME NEW len \in Nat, NEW s, NEW t, DOMAIN s = 1 .. len, DOMAIN t = 1 .. len + 1,
           \A k \in 1 .. len : t[k] = s[k],
           NEW kinds,
           \A k \in 1 .. len : t[k].element \in kinds => t[len + 1].element \notin kinds,
           NEW p
    PROVE  /\ PointsTo(s, p, kinds) =>
                PointsTo(t, IF t[len + 1].element \in kinds THEN t[len + 1].id ELSE p, kinds)
           /\ PointsTo(t, p, kinds) =>
                PointsTo(s, IF t[len + 1].element \in kinds THEN Null ELSE p, kinds)
<1>1. CASE t[len + 1].element \in kinds
    <2>1. \A k \in 1 .. len : s[k].element \notin kinds
        BY <1>1
    <2>2. PointsTo(t, t[len + 1].id, kinds)
        BY <1>1, <2>1 DEF PointsTo
    <2>3. PointsTo(s, Null, kinds)
        BY <2>1 DEF PointsTo
    <2> QED BY <1>1, <2>2, <2>3
<1>2. CASE t[len + 1].element \notin kinds
    BY <1>2 DEF PointsTo
<1> QED BY <1>1, <1>2

LEMMA BeginsPointers ==
    ASSUME IInv, NEW e, NEW n \in Names \cup {NoName}, NEW added,
           added = IF e \in Members THEN Enclosing ELSE Null,
           Begins(e, n, added),
           m_current_schema' = IF e = "Schema" THEN Count + 1 ELSE m_current_schema,
           m_current_container' = IF e \in {"EntityContainer"} THEN Count + 1
                                  ELSE m_current_container,
           m_current_entity_set' = IF e \in {"EntitySet"} THEN Count + 1
                                   ELSE m_current_entity_set,
           m_current_singleton' = IF e \in {"Singleton"} THEN Count + 1 ELSE m_current_singleton,
           m_current_st' = IF e \in Structured THEN Count + 1 ELSE m_current_st,
           m_current_enum' = IF e \in {"EnumType"} THEN Count + 1 ELSE m_current_enum,
           m_current_operation' = IF e \in {"Function"} THEN Count + 1 ELSE m_current_operation,
           m_parsing_key' <=> m_parsing_key \/ e = "Key"
    PROVE  PointersInv'
<1> DEFINE len == Len(stack)
<1>1. Nested /\ PointersInv /\ Nested'
    BY BeginsNested DEF IInv
<1>2. /\ len \in Nat /\ DOMAIN stack = 1 .. len /\ DOMAIN stack' = 1 .. len + 1
      /\ \A k \in 1 .. len : stack'[k] = stack[k]
      /\ stack'[len + 1].element = e /\ stack'[len + 1].id = Count + 1
    <2>1. stack'[len + 1] = [element |-> e, id |-> Count + 1]
        BY BeginsFacts
    <2>2. len \in Nat /\ DOMAIN stack = 1 .. len /\ DOMAIN stack' = 1 .. len + 1
        BY BeginsFacts
    <2>3. \A k \in 1 .. len : stack'[k] = stack[k]
        BY BeginsFacts
    <2>4. stack'[len + 1].element = e /\ stack'[len + 1].id = Count + 1
        <3> HIDE DEF len
        <3> QED BY <2>1
    <2> QED BY <2>2, <2>3, <2>4
<1> HIDE DEF len
<1>3. \A k \in 1 .. len + 1 :
        /\ stack'[k].element \in OfSchema => k = 2
        /\ stack'[k].element \in OfContainer => k = 3
    BY <1>1, <1>2 DEF Nested
<1>4. ASSUME NEW p, NEW kinds, PointsTo(stack, p, kinds),
             kinds \in SUBSET OfSchema \/ kinds \in SUBSET OfContainer
      PROVE  PointsTo(stack', IF e \in kinds THEN Count + 1 ELSE p, kinds)
    <2>1. \A k \in 1 .. len : stack'[k].element \in kinds => stack'[len + 1].element \notin kinds
        BY <1>2, <1>3, <1>4
    <2> QED BY <1>2, <1>4, <2>1, PointsOn
<1>5. PointsTo(stack', m_current_container', {"EntityContainer"})
    BY <1>1, <1>4 DEF PointersInv, OfSchema
<1>6. PointsTo(stack', m_current_entity_set', {"EntitySet"})
    BY <1>1, <1>4 DEF PointersInv, OfContainer
<1>7. PointsTo(stack', m_current_singleton', {"Singleton"})
    BY <1>1, <1>4 DEF PointersInv, OfContainer
<1>8. PointsTo(stack', m_current_st', Structured)
    BY <1>1, <1>4 DEF PointersInv, OfSchema
<1>9. PointsTo(stack', m_current_enum', {"EnumType"})
    BY <1>1, <1>4 DEF PointersInv, OfSchema
<1>10. PointsTo(stack', m_current_operation', {"Function"})
    BY <1>1, <1>4 DEF PointersInv, OfSchema
<1>11. m_parsing_key' <=> \E k \in DOMAIN stack' : stack'[k].element = "Key"
    BY <1>1, <1>2 DEF PointersInv
<1>12. \A k \in DOMAIN stack' : stack'[k].element = "Schema" => stack'[k].id = m_current_schema'
    <2>1. ASSUME NEW k \in 1 .. len, stack[k].element = "Schema" PROVE e # "Schema"
        <3>1. k = 1
            BY <1>1, <1>2, <2>1 DEF Nested
        <3>2. e = "Schema" => len + 1 = 1
            BY <1>1, <1>2 DEF Nested
        <3> QED BY <1>2, <3>1, <3>2
    <2> QED BY <1>1, <1>2, <2>1 DEF PointersInv
<1> QED BY <1>5, <1>6, <1>7, <1>8, <1>9, <1>11, <1>12, <1>10 DEF PointersInv

-----------------------------------------------------------------------------
(* What is filed *)

\* Nothing is filed and nothing becomes due.
LEMMA FiledKept ==
    ASSUME FiledInv, filed' = filed, Count \in Nat, Count' \in Nat, Count <= Count',
           \A i \in 1 .. Count : kind'[i] = kind[i] /\ name'[i] = name[i] /\ parent'[i] = parent[i],
           \A i \in 1 .. Count' : IsDue(i)' <=> i \in 1 .. Count /\ IsDue(i)
    PROVE  FiledInv'
<1>1. ASSUME NEW f \in filed
      PROVE  /\ f.object \in 1 .. Count' /\ IsDue(f.object)'
             /\ f.in = parent'[f.object] /\ f.kind = kind'[f.object] /\ f.name = name'[f.object]
    BY DEF FiledInv
<1>2. ASSUME NEW i \in 1 .. Count', IsDue(i)'
      PROVE  \E f \in filed : /\ f.in = parent'[i] /\ f.kind = kind'[i] /\ f.name = name'[i]
                              /\ f.object >= i
    BY <1>2 DEF FiledInv
<1> QED BY <1>1, <1>2 DEF FiledInv

\* Object o is filed where it is declared, and becomes due; those of its place are
\* older, so what it replaces is.
LEMMA FileStep ==
    ASSUME FiledInv, Count \in Nat, Count' \in Nat, Count <= Count',
           NEW o \in 1 .. Count', File(parent'[o], o),
           \A i \in 1 .. Count : kind'[i] = kind[i] /\ name'[i] = name[i] /\ parent'[i] = parent[i],
           \A i \in 1 .. Count' : IsDue(i)' <=> (i \in 1 .. Count /\ IsDue(i)) \/ i = o,
           \A i \in 1 .. Count : parent[i] = parent'[o] => i <= o
    PROVE  FiledInv'
<1> DEFINE new == [in |-> parent'[o], kind |-> kind'[o], name |-> name'[o], object |-> o]
           Replaced(f) == f.in = parent'[o] /\ f.kind = kind'[o] /\ f.name = name'[o]
<1>1. filed' = {f \in filed : ~Replaced(f)} \cup {new}
    BY DEF File
<1>2. ASSUME NEW f \in filed'
      PROVE  /\ f.object \in 1 .. Count' /\ IsDue(f.object)'
             /\ f.in = parent'[f.object] /\ f.kind = kind'[f.object] /\ f.name = name'[f.object]
    <2>1. CASE f = new
        BY <2>1
    <2>2. CASE f \in filed
        BY <2>2 DEF FiledInv
    <2> QED BY <1>1, <2>1, <2>2
<1>3. ASSUME NEW i \in 1 .. Count', IsDue(i)'
      PROVE  \E f \in filed' : /\ f.in = parent'[i] /\ f.kind = kind'[i] /\ f.name = name'[i]
                               /\ f.object >= i
    <2>1. new \in filed'
        BY <1>1
    <2>2. CASE i = o
        BY <2>1, <2>2
    <2>3. CASE i # o
        <3>1. i \in 1 .. Count /\ IsDue(i)
            BY <1>3, <2>3
        <3>2. PICK f \in filed : /\ f.in = parent[i] /\ f.kind = kind[i] /\ f.name = name[i]
                                 /\ f.object >= i
            BY <3>1 DEF FiledInv
        <3>3. CASE Replaced(f)
            <4>1. i <= o
                BY <3>1, <3>2, <3>3
            <4> QED BY <2>1, <3>1, <3>2, <3>3, <4>1
        <3>4. CASE ~Replaced(f)
            BY <1>1, <3>1, <3>2, <3>4
        <3> QED BY <3>3, <3>4
    <2> QED BY <2>2, <2>3
<1> QED BY <1>2, <1>3 DEF FiledInv

LEMMA FileTyped ==
    ASSUME filed \subseteq FiledEntry, NEW w \in Nat, NEW o \in Nat, File(w, o),
           kind'[o] \in Elements, name'[o] \in Names \cup {NoName}
    PROVE  filed' \subseteq FiledEntry
BY DEF File, FiledEntry

\* Of what begins only an import is due.
LEMMA BeginsDue ==
    ASSUME IInv, NEW e, NEW n \in Names \cup {NoName}, NEW added,
           added = IF e \in Members THEN Enclosing ELSE Null,
           Begins(e, n, added), NEW i \in 1 .. Count + 1
    PROVE  IsDue(i)' <=> (i \in 1 .. Count /\ IsDue(i)) \/ (i = Count + 1 /\ e = "FunctionImport")
<1> DEFINE len == Len(stack)
<1>1. Numbered
    BY DEF IInv
<1>2. len \in Nat /\ Count \in Nat /\ DOMAIN stack = 1 .. len /\ DOMAIN stack' = 1 .. len + 1
    BY BeginsFacts
<1>3. (\A k \in 1 .. len : stack'[k] = stack[k]) /\ stack'[len + 1] = [element |-> e, id |-> Count + 1]
    BY BeginsFacts
<1>4. (\A j \in 1 .. Count : kind'[j] = kind[j]) /\ kind'[Count + 1] = e
    BY BeginsFacts
<1> HIDE DEF len
<1>5. CASE i \in 1 .. Count
    <2>1. Open(i)' <=> Open(i)
        <3>1. i # Count + 1
            BY <1>2, <1>5
        <3>2. stack'[len + 1].id = Count + 1
            BY <1>3
        <3> QED BY <1>2, <1>3, <3>1, <3>2 DEF Open
    <2> QED BY <1>2, <1>4, <1>5, <2>1 DEF IsDue
<1>6. CASE i = Count + 1
    <2>1. Open(i)'
        BY <1>2, <1>3, <1>6 DEF Open
    <2> QED BY <1>2, <1>4, <1>6, <2>1 DEF IsDue, Declared
<1> QED BY <1>2, <1>5, <1>6

-----------------------------------------------------------------------------
(* An element ends *)

LEMMA EndsFacts ==
    ASSUME IInv, NEW S, Ends(S)
    PROVE  /\ Len(stack) \in Nat \ {0} /\ Len(stack) - 1 \in Nat /\ Len(stack') = Len(stack) - 1
           /\ DOMAIN stack = 1 .. Len(stack) /\ DOMAIN stack' = 1 .. Len(stack) - 1
           /\ \A k \in 1 .. Len(stack) - 1 : stack'[k] = stack[k]
           /\ stack[Len(stack)].element \in S /\ stack[Len(stack)].id \in 1 .. Count
           /\ kind[stack[Len(stack)].id] = stack[Len(stack)].element
           /\ Count \in Nat /\ UNCHANGED <<kind, name, parent, children, members, phase>>
           /\ stack' \in Seq(Entry)
<1>1. stack \in Seq(Entry) /\ stack # <<>> /\ Count \in Nat
    BY DEF IInv, TypeOK, Count, Ends
<1>2. stack' = SubSeq(stack, 1, Len(stack) - 1) /\ stack[Len(stack)].element \in S
      /\ UNCHANGED <<kind, name, parent, children, members, phase>>
    BY DEF Ends, document
<1>3. Len(stack) \in Nat \ {0} /\ Len(stack) - 1 \in Nat /\ DOMAIN stack = 1 .. Len(stack)
    BY <1>1
<1>4. /\ Len(stack') = Len(stack) - 1 /\ DOMAIN stack' = 1 .. Len(stack) - 1
      /\ \A k \in 1 .. Len(stack) - 1 : stack'[k] = stack[k]
      /\ stack' \in Seq(Entry)
    BY <1>1, <1>2, <1>3
<1>5. stack[Len(stack)].id \in 1 .. Count /\ kind[stack[Len(stack)].id] = stack[Len(stack)].element
    BY <1>3 DEF IInv, Numbered
<1> QED BY <1>1, <1>2, <1>3, <1>4, <1>5

LEMMA EndsNested ==
    ASSUME IInv, NEW S, Ends(S)
    PROVE  Nested' /\ Numbered' /\ Placed'
<1> DEFINE len == Len(stack) - 1
<1>1. Nested /\ Numbered /\ Placed
    BY DEF IInv
<1>2. /\ len \in Nat /\ DOMAIN stack' = 1 .. len /\ Len(stack') = len
      /\ DOMAIN stack = 1 .. len + 1 /\ Len(stack) = len + 1
    BY EndsFacts
<1>3. \A k \in 1 .. len : stack'[k] = stack[k]
    BY EndsFacts
<1>4. UNCHANGED <<kind, parent, children, members>> /\ Count' = Count
    BY EndsFacts DEF Count
<1> HIDE DEF len
<1>5. Nested'
    BY <1>1, <1>2, <1>3 DEF Nested
<1>6. Numbered'
    BY <1>1, <1>2, <1>3, <1>4 DEF Numbered
<1>7. Placed'
    <2>1. \A k \in 2 .. len : stack'[k].element \in Declared => parent'[stack'[k].id] = stack'[k - 1].id
        BY <1>1, <1>2, <1>3, <1>4 DEF Placed
    <2>2. \A k \in 1 .. len : stack'[k].element \in Holders =>
              \A i \in 1 .. Count' : i > stack'[k].id => parent'[i] >= stack'[k].id
        BY <1>1, <1>2, <1>3, <1>4 DEF Placed
    <2> QED BY <1>1, <1>2, <1>4, <2>1, <2>2 DEF Placed
<1> QED BY <1>5, <1>6, <1>7

\* The pointers follow the stack when each is reset by the elements of its kind.
LEMMA EndsPointers ==
    ASSUME IInv, NEW S, Ends(S),
           m_current_schema' = m_current_schema,
           m_current_container' = IF Top \in {"EntityContainer"} THEN Null ELSE m_current_container,
           m_current_entity_set' = IF Top \in {"EntitySet"} THEN Null ELSE m_current_entity_set,
           m_current_singleton' = IF Top \in {"Singleton"} THEN Null ELSE m_current_singleton,
           m_current_st' = IF Top \in Structured THEN Null ELSE m_current_st,
           m_current_enum' = IF Top \in {"EnumType"} THEN Null ELSE m_current_enum,
           m_current_operation' = IF Top \in {"Function"} THEN Null ELSE m_current_operation,
           m_parsing_key' <=> m_parsing_key /\ Top # "Key"
    PROVE  PointersInv'
<1> DEFINE len == Len(stack) - 1
<1>1. Nested /\ PointersInv
    BY DEF IInv
<1>2. /\ len \in Nat /\ DOMAIN stack' = 1 .. len
      /\ DOMAIN stack = 1 .. len + 1 /\ Len(stack) = len + 1
    BY EndsFacts
<1>3. \A k \in 1 .. len : stack'[k] = stack[k]
    BY EndsFacts
<1>4. stack[len + 1].element = Top
    BY <1>2 DEF Top
<1> HIDE DEF len
<1>5. \A k \in 1 .. len + 1 :
        /\ stack[k].element \in OfSchema => k = 2
        /\ stack[k].element \in OfContainer \cup {"Key"} => k = 3
    BY <1>1, <1>2 DEF Nested
<1>6. ASSUME NEW p, NEW kinds, PointsTo(stack, p, kinds),
             kinds \in SUBSET OfSchema \/ kinds \in SUBSET OfContainer
      PROVE  PointsTo(stack', IF Top \in kinds THEN Null ELSE p, kinds)
    <2>1. \A k \in 1 .. len : stack[k].element \in kinds => stack[len + 1].element \notin kinds
        BY <1>2, <1>5, <1>6
    <2> QED BY <1>2, <1>3, <1>4, <1>6, <2>1, PointsOn
<1>7. PointsTo(stack', m_current_container', {"EntityContainer"})
    BY <1>1, <1>6 DEF PointersInv, OfSchema
<1>8. PointsTo(stack', m_current_entity_set', {"EntitySet"})
    BY <1>1, <1>6 DEF PointersInv, OfContainer
<1>9. PointsTo(stack', m_current_singleton', {"Singleton"})
    BY <1>1, <1>6 DEF PointersInv, OfContainer
<1>10. PointsTo(stack', m_current_st', Structured)
    BY <1>1, <1>6 DEF PointersInv, OfSchema
<1>11. PointsTo(stack', m_current_enum', {"EnumType"})
    BY <1>1, <1>6 DEF PointersInv, OfSchema
<1>12. PointsTo(stack', m_current_operation', {"Function"})
    BY <1>1, <1>6 DEF PointersInv, OfSchema
<1>13. m_parsing_key' <=> \E k \in DOMAIN stack' : stack'[k].element = "Key"
    <2>1. Top = "Key" => \A k \in 1 .. len : stack[k].element # "Key"
        BY <1>2, <1>4, <1>5
    <2>2. m_parsing_key <=> Top = "Key" \/ \E k \in 1 .. len : stack[k].element = "Key"
        BY <1>1, <1>2, <1>4 DEF PointersInv
    <2> QED BY <1>2, <1>3, <2>1, <2>2
<1>14. \A k \in DOMAIN stack' : stack'[k].element = "Schema" => stack'[k].id = m_current_schema'
    BY <1>1, <1>2, <1>3 DEF PointersInv
<1> QED BY <1>7, <1>8, <1>9, <1>10, <1>11, <1>12, <1>13, <1>14 DEF PointersInv

\* What ends becomes due if it is a declaration, and nothing else does.
LEMMA EndsDue ==
    ASSUME IInv, NEW S, Ends(S), NEW i \in 1 .. Count
    PROVE  IsDue(i)' <=> IsDue(i) \/ (i = stack[Len(stack)].id /\ Top \in Declared)
<1> DEFINE len == Len(stack) - 1
<1>1. Numbered
    BY DEF IInv
<1>2. /\ len \in Nat /\ DOMAIN stack' = 1 .. len
      /\ DOMAIN stack = 1 .. len + 1 /\ Len(stack) = len + 1
    BY EndsFacts
<1>3. \A k \in 1 .. len : stack'[k] = stack[k]
    BY EndsFacts
<1>4. kind' = kind /\ Top = stack[len + 1].element /\ kind[stack[len + 1].id] = stack[len + 1].element
    BY <1>2, EndsFacts DEF Top
<1> HIDE DEF len
<1>5. CASE i = stack[len + 1].id
    <2>1. ~Open(i)'
        <3>1. \A k \in 1 .. len : stack[k].id < i
            BY <1>1, <1>2, <1>5 DEF Numbered
        <3> QED BY <1>2, <1>3, <3>1 DEF Open
    <2>2. Open(i)
        BY <1>2, <1>5 DEF Open
    <2> QED BY <1>2, <1>4, <1>5, <2>1 DEF IsDue
<1>6. CASE i # stack[len + 1].id
    <2>1. Open(i)' <=> Open(i)
        BY <1>2, <1>3, <1>6 DEF Open
    <2> QED BY <1>2, <1>4, <1>6, <2>1 DEF IsDue
<1> QED BY <1>5, <1>6

-----------------------------------------------------------------------------
(* The pointers that are followed *)

\* The innermost element is what the pointer of its kind stands for, and the
\* pointers of other kinds of its depth are null.
LEMMA TopFacts ==
    ASSUME IInv, NEW k \in DOMAIN stack
    PROVE  /\ stack[k].id \in Nat \ {0} /\ stack[k].element \in Elements
           /\ stack[k].element = "Schema" => m_current_schema = stack[k].id
           /\ stack[k].element = "EntityContainer" => m_current_container = stack[k].id
           /\ stack[k].element = "EntitySet" => m_current_entity_set = stack[k].id
           /\ stack[k].element = "Singleton" =>
                m_current_singleton = stack[k].id /\ m_current_entity_set = Null
           /\ stack[k].element \in Structured => m_current_st = stack[k].id
           /\ stack[k].element = "EnumType" =>
                m_current_enum = stack[k].id /\ m_current_st = Null
           /\ stack[k].element = "Function" => m_current_operation = stack[k].id
<1>1. Nested /\ PointersInv /\ stack[k] \in Entry
    BY DEF IInv, TypeOK
<1>2. \A j \in DOMAIN stack : /\ stack[j].element \in OfSchema => j = 2
                              /\ stack[j].element \in OfContainer => j = 3
    BY <1>1 DEF Nested
<1>3. stack[k].element = "Singleton" => m_current_entity_set = Null
    BY <1>1, <1>2 DEF PointersInv, PointsTo, OfContainer
<1>4. stack[k].element = "EnumType" => m_current_st = Null
    BY <1>1, <1>2 DEF PointersInv, PointsTo, OfSchema, Structured
<1> QED BY <1>1, <1>3, <1>4 DEF Entry, PointersInv, PointsTo

\* A member goes to the declaration its element is a part of.
LEMMA MemberTarget ==
    ASSUME IInv, NEW e \in Members \ {"PropertyRef"}, e \in Allowed
    PROVE  Target(e) = Enclosing
<1> DEFINE top == stack[Len(stack)]
<1>1. TypeOK /\ Nested /\ Numbered
    BY DEF IInv
<1>2. e # "Schema"
    BY DEF Members
<1>3. Len(stack) \in DOMAIN stack /\ e \in Inside(top.element)
    BY <1>1, <1>2, AllowedFacts
<1>4. /\ top.id \in Nat \ {0} /\ top.element \in Elements
      /\ top.element = "EntitySet" => m_current_entity_set = top.id
      /\ top.element = "Singleton" => m_current_singleton = top.id /\ m_current_entity_set = Null
      /\ top.element \in Structured => m_current_st = top.id
      /\ top.element = "EnumType" => m_current_enum = top.id /\ m_current_st = Null
      /\ top.element = "Function" => m_current_operation = top.id
    BY <1>3, TopFacts
<1>5. top.element \in Holders => Enclosing = top.id
    BY <1>1, <1>3, EnclosingFacts
<1> HIDE DEF top
<1>6. Structured \cup {"EnumType", "Function", "EntitySet", "Singleton"} \subseteq Holders
    BY DEF Holders, Declared
<1>7. CASE e \in {"Property", "NavigationProperty"}
    <2>1. top.element \in Structured
        BY <1>3, <1>4, <1>7, InsideFacts
    <2> QED BY <1>4, <1>5, <1>6, <1>7, <2>1 DEF Target, First, Null
<1>8. CASE e = "Member"
    <2>1. top.element = "EnumType"
        BY <1>3, <1>4, <1>8, InsideFacts
    <2> QED BY <1>4, <1>5, <1>6, <1>8, <2>1 DEF Target, First
<1>9. CASE e \in {"Parameter", "ReturnType"}
    <2>1. top.element = "Function"
        BY <1>3, <1>4, <1>9, InsideFacts
    <2> QED BY <1>4, <1>5, <1>6, <1>9, <2>1 DEF Target
<1>10. CASE e = "NavigationPropertyBinding"
    <2>1. top.element \in {"EntitySet", "Singleton"}
        BY <1>3, <1>4, <1>10, InsideFacts
    <2> QED BY <1>4, <1>5, <1>6, <1>10, <2>1 DEF Target, First, Null
<1> QED BY <1>7, <1>8, <1>9, <1>10 DEF Members

\* A PropertyRef is found in a key, and a key in an entity type.
LEMMA KeyTarget ==
    ASSUME IInv, "PropertyRef" \in Allowed
    PROVE  /\ m_parsing_key
           /\ m_current_st # Null /\ kind[m_current_st] = "EntityType" /\ m_current_st = Enclosing
<1> DEFINE len == Len(stack)
<1>1. TypeOK /\ Nested /\ Numbered /\ PointersInv
    BY DEF IInv
<1>2. len \in DOMAIN stack /\ len \in Nat /\ DOMAIN stack = 1 .. len
      /\ "PropertyRef" \in Inside(stack[len].element)
    BY <1>1, AllowedFacts
<1>3. stack[len].element = "Key"
    BY <1>2, TopFacts, InsideFacts
<1>4. len = 3 /\ 2 \in DOMAIN stack /\ "Key" \in Inside(stack[2].element)
    BY <1>1, <1>2, <1>3 DEF Nested
<1>5. stack[2].element = "EntityType" /\ m_current_st = stack[2].id /\ m_current_st # Null
    <2>1. stack[2].element = "EntityType"
        BY <1>4, TopFacts, InsideFacts
    <2> QED BY <1>4, <2>1, TopFacts DEF Structured, Null
<1>6. kind[m_current_st] = "EntityType"
    BY <1>1, <1>4, <1>5 DEF Numbered
<1>7. m_current_st = Enclosing
    <2>1. stack[len].element \notin Holders /\ stack[2].element \in Holders
        BY <1>3, <1>5 DEF Holders, Declared, Structured
    <2> QED BY <1>1, <1>4, <1>5, <2>1, EnclosingFacts
<1> QED BY <1>1, <1>2, <1>3, <1>5, <1>6, <1>7 DEF PointersInv

-----------------------------------------------------------------------------
(* The invariant *)

LEMMA BeginsIInv ==
    ASSUME IInv, NEW e, NEW n \in Names \cup {NoName}, NEW added,
           added = IF e \in Members THEN Enclosing ELSE Null,
           Begins(e, n, added),
           m_current_schema' = IF e = "Schema" THEN Count + 1 ELSE m_current_schema,
           m_current_container' = IF e \in {"EntityContainer"} THEN Count + 1
                                  ELSE m_current_container,
           m_current_entity_set' = IF e \in {"EntitySet"} THEN Count + 1
                                   ELSE m_current_entity_set,
           m_current_singleton' = IF e \in {"Singleton"} THEN Count + 1 ELSE m_current_singleton,
           m_current_st' = IF e \in Structured THEN Count + 1 ELSE m_current_st,
           m_current_enum' = IF e \in {"EnumType"} THEN Count + 1 ELSE m_current_enum,
           m_current_operation' = IF e \in {"Function"} THEN Count + 1 ELSE m_current_operation,
           m_parsing_key' \in BOOLEAN,
           m_parsing_key' <=> m_parsing_key \/ e = "Key",
           \/ e # "FunctionImport" /\ filed' = filed
           \/ e = "FunctionImport" /\ m_current_container = Enclosing
                /\ File(m_current_container, Count + 1)
    PROVE  IInv'
<1>1. FiledInv /\ TypeOK /\ Numbered /\ phase # "crashed"
    BY DEF IInv
<1>2. /\ Count \in Nat /\ Count' = Count + 1 /\ e \in Elements
      /\ \A i \in 1 .. Count :
            kind'[i] = kind[i] /\ name'[i] = name[i] /\ parent'[i] = parent[i]
      /\ kind'[Count + 1] = e /\ name'[Count + 1] = n /\ parent'[Count + 1] = Enclosing
      /\ phase' = phase
    BY BeginsFacts
<1>3. \A i \in 1 .. Count + 1 :
         IsDue(i)' <=> (i \in 1 .. Count /\ IsDue(i)) \/ (i = Count + 1 /\ e = "FunctionImport")
    BY BeginsDue
<1>4. FiledInv' /\ filed' \subseteq FiledEntry
    <2>1. CASE e # "FunctionImport"
        BY <1>1, <1>2, <1>3, <2>1, FiledKept DEF TypeOK
    <2>2. CASE e = "FunctionImport"
        <3>1. File(parent'[Count + 1], Count + 1) /\ Enclosing \in Nat
            BY <1>1, <1>2, <2>2, EnclosingFacts
        <3>2. filed' \subseteq FiledEntry
            BY <1>1, <1>2, <2>2, <3>1, FileTyped DEF TypeOK
        <3>3. \A i \in 1 .. Count' : IsDue(i)' <=> (i \in 1 .. Count /\ IsDue(i)) \/ i = Count + 1
            BY <1>2, <1>3, <2>2
        <3>4. \A i \in 1 .. Count : i <= Count + 1
            BY <1>2
        <3>5. Count + 1 \in 1 .. Count' /\ Count' \in Nat /\ Count <= Count'
            BY <1>2
        <3>6. FiledInv'
            BY <1>1, <1>2, <3>1, <3>3, <3>4, <3>5, FileStep
        <3> QED BY <3>2, <3>6
    <2> QED BY <2>1, <2>2
<1>5. PointersInv'
    BY BeginsPointers
<1>6. TypeOK'
    BY <1>4, BeginsTyped
<1>7. Nested' /\ Numbered' /\ Placed'
    BY BeginsNested
<1> QED BY <1>1, <1>2, <1>4, <1>5, <1>6, <1>7 DEF IInv

LEMMA EndsIInv ==
    ASSUME IInv, NEW S, Ends(S),
           m_current_schema' = m_current_schema,
           m_current_container' = IF Top \in {"EntityContainer"} THEN Null ELSE m_current_container,
           m_current_entity_set' = IF Top \in {"EntitySet"} THEN Null ELSE m_current_entity_set,
           m_current_singleton' = IF Top \in {"Singleton"} THEN Null ELSE m_current_singleton,
           m_current_st' = IF Top \in Structured THEN Null ELSE m_current_st,
           m_current_enum' = IF Top \in {"EnumType"} THEN Null ELSE m_current_enum,
           m_current_operation' = IF Top \in {"Function"} THEN Null ELSE m_current_operation,
           m_parsing_key' \in BOOLEAN,
           m_parsing_key' <=> m_parsing_key /\ Top # "Key",
           \/ Top \notin Declared \ {"FunctionImport"} /\ filed' = filed
           \/ /\ Top \in Declared \ {"FunctionImport"}
              /\ \E w, o : /\ w = stack[Len(stack) - 1].id /\ o = stack[Len(stack)].id
                           /\ File(w, o)
    PROVE  IInv'
<1> DEFINE top == stack[Len(stack)]
<1>1. FiledInv /\ TypeOK /\ Numbered /\ Nested /\ Placed /\ phase # "crashed"
    BY DEF IInv
<1>2. /\ Len(stack) \in Nat \ {0} /\ DOMAIN stack = 1 .. Len(stack) /\ Count \in Nat
      /\ top.element \in S /\ top.id \in 1 .. Count /\ kind[top.id] = top.element
      /\ UNCHANGED <<kind, name, parent, children, members, phase>>
      /\ stack' \in Seq(Entry)
    BY EndsFacts
<1>3. Count' = Count
    BY <1>2 DEF Count
<1>4. \A i \in 1 .. Count : IsDue(i)' <=> IsDue(i) \/ (i = top.id /\ Top \in Declared)
    BY EndsDue
<1>5. Top = top.element
    BY DEF Top
<1> HIDE DEF top
<1>6. FiledInv' /\ filed' \subseteq FiledEntry
    <2>1. CASE Top \notin Declared \ {"FunctionImport"}
        <3>1. \A i \in 1 .. Count' : IsDue(i)' <=> i \in 1 .. Count /\ IsDue(i)
            BY <1>2, <1>3, <1>4, <1>5, <2>1 DEF IsDue
        <3> QED BY <1>1, <1>2, <1>3, <2>1, <3>1, FiledKept DEF TypeOK
    <2>2. CASE Top \in Declared \ {"FunctionImport"}
        <3>1. Len(stack) >= 2
            BY <1>1, <1>2, <1>5, <2>2 DEF Nested, Declared, Structured, top
        <3>2. parent[top.id] = stack[Len(stack) - 1].id
            BY <1>1, <1>2, <1>5, <2>2, <3>1 DEF Placed, top
        <3>3. File(parent'[top.id], top.id)
            BY <1>2, <2>2, <3>2 DEF top
        <3>4. parent[top.id] \in Nat /\ kind[top.id] \in Elements /\ name[top.id] \in Names \cup {NoName}
            <4>1. top.id \in 1 .. Len(parent) /\ top.id \in 1 .. Len(name) /\ top.id \in 1 .. Len(kind)
                BY <1>1, <1>2 DEF TypeOK, Count
            <4>2. parent \in Seq(Nat) /\ kind \in Seq(Elements) /\ name \in Seq(Names \cup {NoName})
                BY <1>1 DEF TypeOK
            <4> QED BY <4>1, <4>2
        <3>5. filed' \subseteq FiledEntry
            <4>1. /\ parent'[top.id] \in Nat /\ top.id \in Nat
                  /\ kind'[top.id] \in Elements /\ name'[top.id] \in Names \cup {NoName}
                BY <1>2, <3>4
            <4>2. filed \subseteq FiledEntry
                BY <1>1 DEF TypeOK
            <4> QED BY <3>3, <4>1, <4>2, FileTyped
        <3>6. \A i \in 1 .. Count' : IsDue(i)' <=> (i \in 1 .. Count /\ IsDue(i)) \/ i = top.id
            BY <1>2, <1>3, <1>4, <2>2
        <3>7. ASSUME NEW i \in 1 .. Count, parent[i] = parent'[top.id] PROVE i <= top.id
            <4>1. parent[top.id] < top.id
                BY <1>1, <1>2 DEF Placed
            <4>2. i > top.id => parent[i] >= top.id
                BY <1>1, <1>2, <1>5, <2>2 DEF Placed, Holders, top
            <4> QED BY <1>2, <3>4, <3>7, <4>1, <4>2
        <3>8. FiledInv'
            BY <1>1, <1>2, <1>3, <3>3, <3>6, <3>7, FileStep
        <3> QED BY <3>5, <3>8
    <2> QED BY <2>1, <2>2
<1>7. PointersInv'
    BY EndsPointers
<1>8. TypeOK'
    BY <1>1, <1>2, <1>3, <1>6 DEF TypeOK
<1>9. Nested' /\ Numbered' /\ Placed'
    BY EndsNested
<1> QED BY <1>1, <1>2, <1>6, <1>7, <1>8, <1>9 DEF IInv

\* Where what ends was declared, and the pointer to it.
LEMMA EndsPlace ==
    ASSUME IInv, NEW S, Ends(S)
    PROVE  /\ Top \in OfSchema => m_current_schema = stack[Len(stack) - 1].id
           /\ Top \in OfContainer =>
                m_current_container = stack[Len(stack) - 1].id /\ m_current_container # Null
           /\ Top = "EntityContainer" => m_current_container = stack[Len(stack)].id
           /\ Top \in Structured => m_current_st = stack[Len(stack)].id
           /\ Top = "EnumType" => m_current_enum = stack[Len(stack)].id
           /\ Top = "Function" => m_current_operation = stack[Len(stack)].id
           /\ Top = "EntitySet" => m_current_entity_set = stack[Len(stack)].id
           /\ Top = "Singleton" => m_current_singleton = stack[Len(stack)].id
<1>1. TypeOK /\ Nested
    BY DEF IInv
<1>2. Len(stack) \in Nat \ {0} /\ DOMAIN stack = 1 .. Len(stack) /\ Len(stack) \in DOMAIN stack
    BY EndsFacts
<1>3. ASSUME Top \in OfSchema PROVE m_current_schema = stack[Len(stack) - 1].id
    <2>1. Len(stack) = 2
        BY <1>1, <1>2, <1>3 DEF Nested, Top
    <2>2. 1 \in DOMAIN stack /\ stack[1].element = "Schema"
        BY <1>1, <1>2, <2>1 DEF Nested
    <2> QED BY <2>1, <2>2, TopFacts
<1>4. ASSUME Top \in OfContainer
      PROVE  m_current_container = stack[Len(stack) - 1].id /\ m_current_container # Null
    <2>1. Len(stack) = 3 /\ 2 \in DOMAIN stack
        BY <1>1, <1>2, <1>4 DEF Nested, Top
    <2>2. Top \in Inside(stack[2].element)
        BY <1>1, <1>2, <2>1 DEF Nested, Top
    <2>3. stack[2].element = "EntityContainer"
        BY <1>4, <2>1, <2>2, TopFacts, InsideFacts
    <2> QED BY <2>1, <2>3, TopFacts DEF Null
<1> QED BY <1>2, <1>3, <1>4, TopFacts DEF Top

LEMMA InitIInv == Init => IInv
<1> SUFFICES ASSUME Init PROVE IInv
    OBVIOUS
<1>1. TypeOK
    <2>1. \A S : <<>> \in Seq(S)
        OBVIOUS
    <2>2. stack \in Seq(Entry) /\ kind \in Seq(Elements) /\ name \in Seq(Names \cup {NoName})
          /\ parent \in Seq(Nat) /\ children \in Seq(Seq(Nat)) /\ members \in Seq(Seq(Nat))
        BY <2>1 DEF Init
    <2>3. Len(name) = Count /\ Len(parent) = Count /\ Len(children) = Count /\ Len(members) = Count
        BY DEF Init, Count
    <2> QED BY <2>2, <2>3 DEF Init, TypeOK
<1>2. Nested /\ Numbered /\ Placed /\ FiledInv /\ phase # "crashed"
    BY DEF Init, Nested, Numbered, Placed, FiledInv, Count
<1>3. PointersInv
    BY DEF Init, PointersInv, PointsTo, Null
<1> QED BY <1>1, <1>2, <1>3 DEF IInv

LEMMA NextIInv == IInv /\ [Next]_vars => IInv'
<1> SUFFICES ASSUME IInv, [Next]_vars PROVE IInv'
    OBVIOUS
<1>1. TypeOK /\ Nested /\ Numbered /\ PointersInv /\ m_parsing_key \in BOOLEAN
    BY DEF IInv, TypeOK
<1> USE DEF pointers
<1>2. ASSUME NEW n \in Names, BeginContainer(n) PROVE IInv'
    <2>1. "EntityContainer" \notin Members
        BY DEF Members
    <2>2. Begins("EntityContainer", n, Null)
        BY <1>2 DEF BeginContainer
    <2> QED BY <1>1, <1>2, <2>1, <2>2, BeginsIInv DEF BeginContainer, Structured
<1>3. ASSUME NEW n \in Names, BeginImport(n) PROVE IInv'
    <2>1. "FunctionImport" \notin Members
        BY DEF Members
    <2>2. Begins("FunctionImport", n, Null)
        BY <1>3 DEF BeginImport
    <2>3. m_current_container = Enclosing /\ m_current_container # Null
        <3>1. "FunctionImport" \in Allowed
            BY <2>2 DEF Begins
        <3>2. Len(stack) \in DOMAIN stack /\ stack[Len(stack)].element = "EntityContainer"
            BY <1>1, <3>1, AllowedFacts, TopFacts, InsideFacts DEF OfContainer
        <3>3. stack[Len(stack)].element \in Holders
            BY <3>2 DEF Holders, Declared
        <3> QED BY <1>1, <3>2, <3>3, TopFacts, EnclosingFacts DEF Null
    <2> QED BY <1>1, <1>3, <2>1, <2>2, <2>3, BeginsIInv DEF BeginImport, Structured
<1>4. ASSUME NEW n \in Names, NEW e \in Structured \cup {"EnumType", "Function"}, BeginType(e, n)
      PROVE  IInv'
    <2>1. e \notin Members
        BY DEF Members, Structured
    <2>2. e \in Allowed => m_current_schema # Null
        <3> SUFFICES ASSUME e \in Allowed PROVE m_current_schema # Null
            OBVIOUS
        <3>1. e \in OfSchema /\ e # "Schema"
            BY DEF OfSchema, Structured
        <3>2. Len(stack) = 1 /\ 1 \in DOMAIN stack
            BY <1>1, <3>1, AllowedFacts
        <3>3. stack[1].element = "Schema"
            BY <1>1, <3>2 DEF Nested
        <3> QED BY <3>2, <3>3, TopFacts DEF Null
    <2>3. Begins(e, n, Null)
        BY <1>4, <2>2 DEF BeginType
    <2>4. e \in Allowed
        BY <2>3 DEF Begins
    <2> QED BY <1>1, <1>4, <2>1, <2>2, <2>3, <2>4, BeginsIInv DEF BeginType, Structured
<1>5. ASSUME NEW n \in Names, NEW e \in {"EntitySet", "Singleton"}, BeginSet(e, n) PROVE IInv'
    <2>1. e \notin Members
        BY DEF Members
    <2>2. Begins(e, n, Null)
        BY <1>5 DEF BeginSet
    <2> QED BY <1>1, <1>5, <2>1, <2>2, BeginsIInv DEF BeginSet, Structured
<1>6. CASE BeginSchema
    <2>1. "Schema" \notin Members
        BY DEF Members
    <2>2. Begins("Schema", NoName, Null)
        BY <1>6 DEF BeginSchema
    <2> QED BY <1>1, <1>6, <2>1, <2>2, BeginsIInv DEF BeginSchema, Structured
<1>7. CASE BeginPropertyRef
    <2>1. "PropertyRef" \in Allowed
        BY <1>7 DEF BeginPropertyRef, Begins
    <2>2. m_parsing_key /\ m_current_st # Null /\ kind[m_current_st] = "EntityType"
          /\ m_current_st = Enclosing
        BY <2>1, KeyTarget
    <2>3. "PropertyRef" \in Members
        BY DEF Members
    <2>4. Begins("PropertyRef", NoName, m_current_st)
        BY <1>7, <2>2 DEF BeginPropertyRef
    <2>5. UNCHANGED <<pointers, m_parsing_key, filed>>
        BY <1>7, <2>2 DEF BeginPropertyRef
    <2> QED BY <1>1, <2>2, <2>3, <2>4, <2>5, BeginsIInv DEF Structured
<1>8. CASE BeginKey
    <2>1. "Key" \notin Members
        BY DEF Members
    <2>2. Begins("Key", NoName, Null)
        BY <1>8 DEF BeginKey
    <2> QED BY <1>1, <1>8, <2>1, <2>2, BeginsIInv DEF BeginKey, Structured
<1>9. CASE BeginOther
    <2>1. "Other" \notin Members
        BY DEF Members
    <2>2. Begins("Other", NoName, Null)
        BY <1>9 DEF BeginOther
    <2> QED BY <1>1, <1>9, <2>1, <2>2, BeginsIInv DEF BeginOther, Structured
<1>10. ASSUME NEW e \in Members \ {"PropertyRef"}, BeginMember(e) PROVE IInv'
    <2>1. Begins(e, NoName, Target(e)) /\ UNCHANGED <<pointers, m_parsing_key, filed>>
        BY <1>10 DEF BeginMember
    <2>2. e \in Allowed
        BY <2>1 DEF Begins
    <2>3. Target(e) = Enclosing
        BY <2>2, MemberTarget
    <2>4. e \notin Declared \cup {"Schema", "Key"}
        BY DEF Members, Declared, Structured
    <2> QED BY <1>1, <2>1, <2>3, <2>4, BeginsIInv DEF Declared, Structured
<1>11. CASE EndContainer
    <2>1. Ends({"EntityContainer"}) /\ Top \in {"EntityContainer"}
        BY <1>11 DEF EndContainer, Ends, Top
    <2>2. /\ Top \in OfSchema /\ Top \in Declared \ {"FunctionImport"}
          /\ m_current_schema = stack[Len(stack) - 1].id /\ m_current_container = stack[Len(stack)].id
        BY <2>1, EndsPlace DEF OfSchema, Declared, Structured
    <2>3. File(m_current_schema, m_current_container)
        BY <1>11 DEF EndContainer
    <2> QED BY <1>1, <1>11, <2>1, <2>2, <2>3, EndsIInv DEF EndContainer, Structured
<1>12. CASE EndType
    <2>1. Ends(Structured) /\ Top \in Structured
        BY <1>12 DEF EndType, Ends, Top
    <2>2. /\ Top \in OfSchema /\ Top \in Declared \ {"FunctionImport"}
          /\ m_current_schema = stack[Len(stack) - 1].id /\ m_current_st = stack[Len(stack)].id
        BY <2>1, EndsPlace DEF OfSchema, Declared, Structured
    <2>3. File(m_current_schema, m_current_st)
        BY <1>12 DEF EndType
    <2> QED BY <1>1, <1>12, <2>1, <2>2, <2>3, EndsIInv DEF EndType, Structured
<1>13. CASE EndEnum
    <2>1. Ends({"EnumType"}) /\ Top \in {"EnumType"}
        BY <1>13 DEF EndEnum, Ends, Top
    <2>2. /\ Top \in OfSchema /\ Top \in Declared \ {"FunctionImport"}
          /\ m_current_schema = stack[Len(stack) - 1].id /\ m_current_enum = stack[Len(stack)].id
        BY <2>1, EndsPlace DEF OfSchema, Declared, Structured
    <2>3. File(m_current_schema, m_current_enum)
        BY <1>13 DEF EndEnum
    <2> QED BY <1>1, <1>13, <2>1, <2>2, <2>3, EndsIInv DEF EndEnum, Structured
<1>14. CASE EndOperation
    <2>1. Ends({"Function"}) /\ Top \in {"Function"}
        BY <1>14 DEF EndOperation, Ends, Top
    <2>2. /\ Top \in OfSchema /\ Top \in Declared \ {"FunctionImport"}
          /\ m_current_schema = stack[Len(stack) - 1].id /\ m_current_operation = stack[Len(stack)].id
        BY <2>1, EndsPlace DEF OfSchema, Declared, Structured
    <2>3. File(m_current_schema, m_current_operation)
        BY <1>14 DEF EndOperation
    <2> QED BY <1>1, <1>14, <2>1, <2>2, <2>3, EndsIInv DEF EndOperation, Structured
<1>15. CASE EndSet
    <2> DEFINE set == IF Top = "EntitySet" THEN m_current_entity_set ELSE m_current_singleton
    <2>1. Ends({"EntitySet", "Singleton"}) /\ Top \in {"EntitySet", "Singleton"}
        BY <1>15 DEF EndSet, Ends, Top
    <2>2. /\ Top \in Declared \ {"FunctionImport"}
          /\ m_current_container = stack[Len(stack) - 1].id /\ set = stack[Len(stack)].id
          /\ m_current_container # Null
        BY <2>1, EndsPlace DEF OfContainer, Declared
    <2>3. File(m_current_container, set)
        BY <1>15, <2>2 DEF EndSet
    <2> HIDE DEF set
    <2> QED BY <1>1, <1>15, <2>1, <2>2, <2>3, EndsIInv DEF EndSet, Structured
<1>16. CASE EndKey
    <2>1. Ends({"Key"}) /\ Top = "Key"
        BY <1>16 DEF EndKey, Ends, Top
    <2> QED BY <1>1, <1>16, <2>1, EndsIInv DEF EndKey, Structured, Declared
<1>17. CASE EndOther
    <2>1. Ends(Silent) /\ Top \in Silent
        BY <1>17 DEF EndOther, Ends, Top
    <2>2. Top \notin Declared \ {"FunctionImport"} /\ Top # "Key" /\ Top \notin OfSchema
          /\ Top \notin {"EntitySet", "Singleton"}
        BY <2>1 DEF Silent, Members, Declared, Structured, OfSchema
    <2>3. UNCHANGED <<pointers, m_parsing_key, filed>>
        BY <1>17 DEF EndOther
    <2> QED BY <1>1, <2>1, <2>2, <2>3, EndsIInv DEF OfSchema, Structured
<1>18. CASE EndOfStream \/ UNCHANGED vars
    <2>1. /\ UNCHANGED <<stack, pointers, m_parsing_key, document, members, filed>>
          /\ phase' \in {"reading", "read", "endless"}
        BY <1>18 DEF EndOfStream, vars, IInv, TypeOK
    <2>2. Count' = Count
        BY <2>1 DEF document, Count
    <2>3. TypeOK' /\ Nested' /\ Numbered' /\ Placed'
        BY <2>1, <2>2 DEF document, IInv, TypeOK, Nested, Numbered, Placed
    <2>4. PointersInv'
        BY <2>1 DEF IInv, PointersInv
    <2>5. \A i : IsDue(i)' <=> IsDue(i)
        BY <2>1 DEF document, IsDue, Open
    <2>6. FiledInv'
        BY <2>1, <2>2, <2>5 DEF document, IInv, FiledInv
    <2> QED BY <2>1, <2>3, <2>4, <2>6 DEF IInv
<1> QED BY <1>2, <1>3, <1>4, <1>5, <1>6, <1>7, <1>8, <1>9, <1>10, <1>11, <1>12, <1>13, <1>14,
           <1>15, <1>16, <1>17, <1>18 DEF Next

LEMMA Invariant == Spec => []IInv
BY InitIInv, NextIInv, PTL DEF Spec

\* In any document that CSDL allows, however long and wherever it breaks off, no
\* element finds the pointer null that it needs.
THEOREM NoNullPointer == Spec => []PointersAreSet
<1>1. IInv => PointersAreSet
    BY DEF IInv, PointersAreSet
<1> QED BY <1>1, Invariant, PTL

\* What the model holds has ended, lies where it was declared, and has the members
\* of its element and no others.
THEOREM DeclarationsAreWhole == Spec => []FiledWhole
<1>1. IInv => FiledWhole
    BY DEF IInv, Placed, FiledInv, IsDue, FiledWhole
<1> QED BY <1>1, Invariant, PTL

\* No declaration that has ended is lost, but for a later one of its name.
THEOREM DeclarationsAreKept == Spec => []NothingDropped
<1>1. IInv => NothingDropped
    BY DEF IInv, FiledInv, IsDue, NothingDropped
<1> QED BY <1>1, Invariant, PTL
================================================================================
