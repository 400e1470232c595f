---------------------------- MODULE EditLinksProofs ----------------------------
(***************************************************************************)
(* Proofs about EditLinks, for any model, store, payload and depth.        *)
(*                                                                         *)
(* The inductive invariant speaks of the JSON objects that are still to be *)
(* decoded: the base of each leads to its entity, or to the collection     *)
(* that holds it; one has a base unless it came with a property that is    *)
(* neither contained nor bound; and what was sent is what was read and     *)
(* what stands within the objects to be decoded.                           *)
(***************************************************************************)
EXTENDS EditLinks, FiniteSetTheorems, FunctionTheorems, NaturalsInduction, TLAPS

Urls == Seq(Segments) \ {<<>>}

(***************************************************************************)
(* The invariant.                                                          *)
(***************************************************************************)
DocInv == /\ state \in {"idle", "header", "reading", "done", "failed", "crashed"}
          /\ IF state = "idle" THEN doc = None ELSE doc \in Payloads
          /\ state \in {"idle", "header"} => todo = <<>> /\ read = {}
          /\ state = "done" => todo = <<>>

FrameTyped(f) == /\ f.entity \in Entities
                 /\ f.base \in Urls \cup {None}
                 /\ f.depth \in 0 .. MaxDepth

\* The base of an object leads to its entity, with its key where it is in a
\* collection.
BaseLeadsHome(f) ==
    doc.select # "path" /\ f.base # None /\ ~OfSingleton(f) =>
        IF f.keyed THEN /\ f.base = Collection(Owner(f.entity))
                        /\ Last(Owner(f.entity)).args # "bare"
                   ELSE f.base = Owner(f.entity)

\* An object without a base came with a property that is neither contained
\* nor bound.
BaseKnown(f) ==
    doc.request.shape \in {"collection", "one"} /\ f.base = None =>
        f.via # None /\ ~Navs[f.via].contained /\ Navs[f.via].bound = None

TodoInv == /\ todo \in Seq(Range(todo))
           /\ \A f \in Range(todo) : FrameTyped(f) /\ BaseLeadsHome(f) /\ BaseKnown(f)

ReadInv ==
    \A r \in read :
        /\ r.type = Store[r.entity].type
        /\ doc.select # "path" => r.link = None \/ OfSingleton(r) \/ Addresses(r.link, r.entity)
        /\ doc.request.shape \in {"collection", "one"} /\ r.link = None =>
               r.via # None /\ ~Navs[r.via].contained /\ Navs[r.via].bound = None

\* What object f holds, its own entity with it.
Held(f) == Within(doc.expand)[MaxDepth - f.depth][f.entity]

SentInv ==
    state \in {"reading", "done"} /\ doc.request.shape # "functions" /\ doc.select # "path" =>
        Sent = {r.entity : r \in read} \cup UNION {Held(f) : f \in Range(todo)}

IInv == DocInv /\ TodoInv /\ ReadInv /\ SentInv /\ OnlyUnboundContextsCrash

(***************************************************************************)
(* Sequences and trees.                                                    *)
(***************************************************************************)
LEMMA Least ==
    ASSUME NEW S \in SUBSET Nat, S # {}
    PROVE  \E n \in S : \A k \in S : n <= k
<1>1. PICK x \in S : \A y \in S : ~(<<y, x>> \in OpToRel(<, Nat))
    BY NatLessThanWellFounded, WFMin
<1>2. \A y \in S : ~(y < x)
    BY <1>1 DEF OpToRel
<1> QED BY <1>2

\* SetToSeq lists a finite set.
LEMMA SetInSequence ==
    ASSUME NEW S, IsFiniteSet(S)
    PROVE  SetToSeq(S) \in Seq(S) /\ Range(SetToSeq(S)) = S
<1> DEFINE n == Cardinality(S)
<1>1. n \in Nat /\ ExistsBijection(1 .. n, S)
    BY FS_CardinalityType
<1>2. PICK f : f \in Bijection(1 .. n, S)
    BY <1>1, Fun_ExistsBij
<1>3. f \in [1 .. n -> S] /\ IsInjective(f)
    BY <1>2 DEF Bijection, Injection
<1> DEFINE g == SetToSeq(S)
<1>4. g \in [1 .. n -> S] /\ IsInjective(g)
    BY <1>3 DEF SetToSeq
<1> HIDE DEF g
<1>5. g \in Injection(1 .. n, S)
    BY <1>4 DEF Injection
<1>6. IsFiniteSet(1 .. n) /\ Cardinality(1 .. n) = n
    BY <1>1, FS_Interval
<1>7. g \in Surjection(1 .. n, S)
    BY <1>5, <1>6, FS_Injection
<1>8. \A s \in S : \E k \in 1 .. n : g[k] = s
    BY <1>7 DEF Surjection
<1>9. g \in Seq(S)
    BY <1>1, <1>4
<1>10. DOMAIN g = 1 .. n
    BY <1>4
<1>11. Range(g) = S
    BY <1>4, <1>8, <1>10 DEF Range
<1> QED BY <1>9, <1>11 DEF g

\* What follows the first element of a list, and another list before it.
LEMMA Ranges ==
    ASSUME NEW S, NEW s \in Seq(S), NEW t \in Seq(S)
    PROVE  /\ Range(s \o t) = Range(s) \cup Range(t)
           /\ s # <<>> => Range(s) = {Head(s)} \cup Range(Tail(s))
<1>1. Range(s \o t) = Range(s) \cup Range(t)
    <2>1. ASSUME NEW x \in Range(s \o t) PROVE x \in Range(s) \cup Range(t)
        <3>1. PICK i \in 1 .. Len(s) + Len(t) : x = (s \o t)[i]
            BY DEF Range
        <3>2. CASE i <= Len(s)
            BY <3>1, <3>2 DEF Range
        <3>3. CASE i > Len(s)
            <4>1. i - Len(s) \in 1 .. Len(t) /\ x = t[i - Len(s)]
                BY <3>1, <3>3
            <4> QED BY <4>1 DEF Range
        <3> QED BY <3>2, <3>3
    <2>2. ASSUME NEW x \in Range(s) PROVE x \in Range(s \o t)
        <3>1. PICK i \in 1 .. Len(s) : x = s[i]
            BY <2>2 DEF Range
        <3>2. i \in DOMAIN (s \o t) /\ (s \o t)[i] = x
            BY <3>1
        <3> QED BY <3>2 DEF Range
    <2>3. ASSUME NEW x \in Range(t) PROVE x \in Range(s \o t)
        <3>1. PICK i \in 1 .. Len(t) : x = t[i]
            BY <2>3 DEF Range
        <3>2. Len(s) + i \in DOMAIN (s \o t) /\ (s \o t)[Len(s) + i] = x
            BY <3>1
        <3> QED BY <3>2 DEF Range
    <2> QED BY <2>1, <2>2, <2>3
<1>2. ASSUME s # <<>> PROVE Range(s) = {Head(s)} \cup Range(Tail(s))
    <2>1. ASSUME NEW x \in Range(s) PROVE x \in {Head(s)} \cup Range(Tail(s))
        <3>1. PICK i \in 1 .. Len(s) : x = s[i]
            BY <2>1 DEF Range
        <3>2. CASE i = 1
            BY <3>1, <3>2
        <3>3. CASE i # 1
            <4>1. i - 1 \in 1 .. Len(Tail(s)) /\ Tail(s)[i - 1] = x
                BY <3>1, <3>3, <1>2
            <4>2. Tail(s) \in Seq(S)
                BY <1>2
            <4>3. i - 1 \in DOMAIN Tail(s)
                BY <4>1, <4>2
            <4> QED BY <4>1, <4>3 DEF Range
        <3> QED BY <3>2, <3>3
    <2>2. Head(s) \in Range(s)
        BY <1>2 DEF Range
    <2>3. ASSUME NEW x \in Range(Tail(s)) PROVE x \in Range(s)
        <3>1. PICK i \in 1 .. Len(Tail(s)) : x = Tail(s)[i]
            BY <2>3, <1>2 DEF Range
        <3>2. i + 1 \in DOMAIN s /\ s[i + 1] = x
            BY <3>1, <1>2
        <3> QED BY <3>2 DEF Range
    <2> QED BY <2>1, <2>2, <2>3
<1> QED BY <1>1, <1>2

\* w lists what stands within each entity, for depths up to n.
Tree(w, expand, n) ==
    w = [d \in 0 .. n |->
            [e \in Entities |-> {e} \cup IF d = 0 THEN {}
                                        ELSE UNION {w[d - 1][c] : c \in Below(e, expand)}]]

LEMMA TreesExist == ASSUME NEW expand, NEW n \in Nat PROVE \E w : Tree(w, expand, n)
<1> DEFINE Bad == {k \in Nat : ~ \E w : Tree(w, expand, k)}
<1> SUFFICES ASSUME Bad # {} PROVE FALSE
    OBVIOUS
<1>1. PICK k \in Bad : \A j \in Bad : k <= j
    BY Least
<1> DEFINE Level(w, d) == [e \in Entities |-> {e} \cup IF d = 0 THEN {}
                                ELSE UNION {w[d - 1][c] : c \in Below(e, expand)}]
<1>2. k # 0
    <2> DEFINE w == [d \in 0 .. 0 |-> [e \in Entities |-> {e} \cup {}]]
    <2>1. \A d \in 0 .. 0 : Level(w, d) = [e \in Entities |-> {e} \cup {}]
        OBVIOUS
    <2>2. w = [d \in 0 .. 0 |-> Level(w, d)]
        BY <2>1
    <2>3. Tree(w, expand, 0)
        BY <2>2 DEF Tree
    <2> QED BY <2>3
<1>3. k - 1 \in Nat /\ k - 1 \notin Bad
    BY <1>1, <1>2
<1>4. PICK g : Tree(g, expand, k - 1)
    BY <1>3
<1> DEFINE h == [d \in 0 .. k |-> IF d = k THEN Level(g, k) ELSE g[d]]
<1>5. ASSUME NEW d \in 0 .. k PROVE h[d] = Level(h, d)
    <2>1. CASE d = k
        <3>1. d # 0 /\ d - 1 \in 0 .. k /\ d - 1 # k
            BY <2>1, <1>2
        <3>2. h[d - 1] = g[d - 1]
            BY <3>1
        <3>3. h[d] = Level(g, k)
            BY <2>1
        <3>4. Level(h, d) = Level(g, d)
            BY <3>1, <3>2
        <3> HIDE DEF Level, h
        <3> QED BY <2>1, <3>3, <3>4
    <2>2. CASE d # k
        <3>1. d \in 0 .. k - 1 /\ (d # 0 => d - 1 \in 0 .. k /\ d - 1 # k)
            BY <2>2
        <3>2. g[d] = Level(g, d)
            BY <1>4, <3>1 DEF Tree
        <3>3. h[d] = g[d] /\ (d # 0 => h[d - 1] = g[d - 1])
            BY <2>2, <3>1
        <3>4. Level(h, d) = Level(g, d)
            BY <3>3
        <3> QED BY <3>2, <3>3, <3>4
    <2> QED BY <2>1, <2>2
<1>6. h = [d \in 0 .. k |-> Level(h, d)]
    <2> HIDE DEF Level
    <2>1. h = [d \in 0 .. k |-> h[d]]
        OBVIOUS
    <2> HIDE DEF h
    <2> QED BY <2>1, <1>5
<1>7. Tree(h, expand, k)
    BY <1>6 DEF Tree
<1> QED BY <1>7

\* An entity, and what stands below it with one level less.
LEMMA WithinIs ==
    ASSUME NEW expand, NEW e \in Entities, NEW d \in 0 .. MaxDepth
    PROVE  Within(expand)[d][e] =
               {e} \cup IF d = 0 THEN {} ELSE UNION {Within(expand)[d - 1][c] : c \in Below(e, expand)}
<1> DEFINE w == CHOOSE w : w = [k \in 0 .. MaxDepth |->
                [x \in Entities |-> {x} \cup IF k = 0 THEN {}
                                        ELSE UNION {w[k - 1][c] : c \in Below(x, expand)}]]
<1>1. Within(expand) = w
    BY DEF Within
<1>2. w = CHOOSE v : Tree(v, expand, MaxDepth)
    BY DEF Tree
<1> HIDE DEF w
<1>3. Tree(w, expand, MaxDepth)
    BY <1>2, TreesExist, BoundsAssumption
<1>4. w = [k \in 0 .. MaxDepth |->
                [x \in Entities |-> {x} \cup IF k = 0 THEN {}
                                        ELSE UNION {w[k - 1][c] : c \in Below(x, expand)}]]
    BY <1>3 DEF Tree
<1>5. w[d] = [x \in Entities |-> {x} \cup IF d = 0 THEN {}
                                        ELSE UNION {w[d - 1][c] : c \in Below(x, expand)}]
    BY <1>4
<1>6. w[d][e] = {e} \cup IF d = 0 THEN {} ELSE UNION {w[d - 1][c] : c \in Below(e, expand)}
    BY <1>5
<1> QED BY <1>1, <1>6

(***************************************************************************)
(* URLs.                                                                   *)
(***************************************************************************)
Args == Keys \cup Selects \cup Types

LEMMA WithArgsIs ==
    ASSUME NEW url \in Urls, NEW args \in Args
    PROVE  /\ WithArgs(url, args) \in Urls
           /\ Len(WithArgs(url, args)) = Len(url)
           /\ \A k \in 1 .. Len(url) : WithArgs(url, args)[k].name = url[k].name
           /\ \A k \in 1 .. Len(url) : k # Len(url) => WithArgs(url, args)[k] = url[k]
           /\ Last(WithArgs(url, args)) = Seg(Last(url).name, args)
<1> DEFINE n == Len(url)
<1>1. n \in Nat \ {0} /\ n \in 1 .. n /\ url[n] \in Segments
    BY DEF Urls
<1>2. [url[n] EXCEPT !.args = args] = Seg(url[n].name, args) /\ Seg(url[n].name, args) \in Segments
    <2>1. PICK name, old : url[n] = [name |-> name, args |-> old] /\ Seg(name, args) \in Segments
        BY <1>1 DEF Segments, Seg, Args
    <2> QED BY <2>1 DEF Seg
<1>3. WithArgs(url, args) = [url EXCEPT ![n] = Seg(url[n].name, args)]
    <2>1. WithArgs(url, args) = [url EXCEPT ![n] = [url[n] EXCEPT !.args = args]]
        BY DEF WithArgs
    <2> QED BY <1>2, <2>1, Zenon
<1>4. WithArgs(url, args) \in Urls /\ Len(WithArgs(url, args)) = n
    BY <1>1, <1>2, <1>3 DEF Urls
<1>5. WithArgs(url, args)[n] = Seg(url[n].name, args)
    BY <1>1, <1>3 DEF Urls
<1>6. \A k \in 1 .. n : k # n => WithArgs(url, args)[k] = url[k]
    BY <1>3 DEF Urls
<1>7. Seg(url[n].name, args).name = url[n].name
    BY DEF Seg
<1> QED BY <1>1, <1>4, <1>5, <1>6, <1>7 DEF Last, Urls

\* Two URLs are the same when their segments are.
LEMMA SameUrl ==
    ASSUME NEW u \in Urls, NEW v \in Urls, Len(u) = Len(v), \A k \in 1 .. Len(u) : u[k] = v[k]
    PROVE  u = v
BY DEF Urls

\* The brackets that were written last stand.
LEMMA Rebracketed ==
    ASSUME NEW url \in Urls, NEW a \in Args, NEW b \in Args
    PROVE  WithArgs(WithArgs(url, a), b) = WithArgs(url, b)
<1> DEFINE u == WithArgs(WithArgs(url, a), b)
           v == WithArgs(url, b)
<1>1. WithArgs(url, a) \in Urls /\ Len(WithArgs(url, a)) = Len(url)
    BY WithArgsIs
<1>2. u \in Urls /\ v \in Urls /\ Len(u) = Len(url) /\ Len(v) = Len(url)
    BY <1>1, WithArgsIs
<1>3. ASSUME NEW k \in 1 .. Len(url) PROVE u[k] = v[k]
    <2>1. CASE k # Len(url)
        <3>1. WithArgs(url, a)[k] = url[k] /\ v[k] = url[k]
            BY <2>1, WithArgsIs
        <3>2. u[k] = WithArgs(url, a)[k]
            BY <1>1, <2>1, WithArgsIs
        <3> QED BY <3>1, <3>2
    <2>2. CASE k = Len(url)
        <3>1. Last(u) = Seg(Last(WithArgs(url, a)).name, b)
            BY <1>1, WithArgsIs
        <3>2. Last(WithArgs(url, a)).name = Last(url).name
            BY WithArgsIs DEF Seg
        <3>3. Last(v) = Seg(Last(url).name, b)
            BY WithArgsIs
        <3> QED BY <1>2, <2>2, <3>1, <3>2, <3>3 DEF Last
    <2> QED BY <2>1, <2>2
<1> HIDE DEF u, v
<1> QED BY <1>2, <1>3, SameUrl DEF u, v

LEMMA SameBrackets ==
    ASSUME NEW url \in Urls, NEW a \in Args, Last(url).args = a
    PROVE  WithArgs(url, a) = url
<1>1. WithArgs(url, a) \in Urls /\ Len(WithArgs(url, a)) = Len(url)
    BY WithArgsIs
<1>2. Last(url) \in Segments
    BY DEF Urls, Last
<1>3. Seg(Last(url).name, a) = Last(url)
    BY <1>2 DEF Segments, Seg
<1>4. Last(WithArgs(url, a)) = Last(url)
    BY <1>3, WithArgsIs
<1>5. \A k \in 1 .. Len(url) : WithArgs(url, a)[k] = url[k]
    BY <1>1, <1>4, WithArgsIs DEF Last
<1> QED BY <1>1, <1>5, SameUrl

LEMMA LongerUrl ==
    ASSUME NEW url \in Urls, NEW seg \in Segments
    PROVE  Append(url, seg) \in Urls
BY DEF Urls

LEMMA Owners ==
    ASSUME NEW e \in Entities
    PROVE  /\ Owner(e) \in Urls /\ Len(Owner(e)) \in Nat \ {0}
           /\ Collection(Owner(e)) \in Urls
           /\ Len(Collection(Owner(e))) = Len(Owner(e))
           /\ \A k \in 1 .. Len(Owner(e)) : Collection(Owner(e))[k].name = Owner(e)[k].name
           /\ Last(Collection(Owner(e))) = Bare(Last(Owner(e)).name)
           /\ "bare" \in Args /\ Store[e].type \in Args
<1>1. Owner(e) \in Urls /\ Store[e].type \in Types
    BY StoreAssumption DEF Urls
<1>2. "bare" \in Args /\ Store[e].type \in Args
    BY <1>1 DEF Args, Selects
<1>3. Len(Owner(e)) \in Nat \ {0}
    BY <1>1 DEF Urls
<1> QED BY <1>1, <1>2, <1>3, WithArgsIs DEF Collection, Bare

(***************************************************************************)
(* The parser.                                                             *)
(***************************************************************************)
Start == [kind |-> "start"]

\* p holds what the parser knows after each of the first n segments of url.
Parse(p, url, n) ==
    p = [k \in 0 .. n |-> IF k = 0 THEN Start ELSE ParseSegment(p[k - 1], url[k])]

LEMMA ParsesExist == ASSUME NEW url, NEW n \in Nat PROVE \E p : Parse(p, url, n)
<1> DEFINE Bad == {k \in Nat : ~ \E p : Parse(p, url, k)}
<1> SUFFICES ASSUME Bad # {} PROVE FALSE
    OBVIOUS
<1>1. PICK k \in Bad : \A j \in Bad : k <= j
    BY Least
<1>2. k # 0
    <2>1. Parse([i \in 0 .. 0 |-> Start], url, 0)
        BY DEF Parse
    <2> QED BY <2>1
<1>3. k - 1 \in Nat /\ k - 1 \notin Bad
    BY <1>1, <1>2
<1>4. PICK g : Parse(g, url, k - 1)
    BY <1>3
<1> DEFINE Step(p, i) == IF i = 0 THEN Start ELSE ParseSegment(p[i - 1], url[i])
           h == [i \in 0 .. k |-> IF i = k THEN ParseSegment(g[k - 1], url[k]) ELSE g[i]]
<1>5. ASSUME NEW i \in 0 .. k PROVE h[i] = Step(h, i)
    <2>1. CASE i = k
        <3>1. i # 0 /\ i - 1 \in 0 .. k /\ i - 1 # k
            BY <2>1, <1>2
        <3>2. h[i - 1] = g[k - 1] /\ h[i] = ParseSegment(g[k - 1], url[k])
            BY <2>1, <3>1
        <3> HIDE DEF h
        <3> QED BY <2>1, <3>1, <3>2
    <2>2. CASE i # k
        <3>1. i \in 0 .. k - 1 /\ (i # 0 => i - 1 \in 0 .. k /\ i - 1 # k)
            BY <2>2
        <3>2. g[i] = Step(g, i)
            BY <1>4, <3>1 DEF Parse
        <3>3. h[i] = g[i] /\ (i # 0 => h[i - 1] = g[i - 1])
            BY <2>2, <3>1
        <3> HIDE DEF h
        <3> QED BY <3>2, <3>3
    <2> QED BY <2>1, <2>2
<1>6. h = [i \in 0 .. k |-> Step(h, i)]
    <2> HIDE DEF Step
    <2>1. h = [i \in 0 .. k |-> h[i]]
        OBVIOUS
    <2> HIDE DEF h
    <2> QED BY <2>1, <1>5
<1>7. Parse(h, url, k)
    BY <1>6 DEF Parse
<1> QED BY <1>7

\* The type of a context is what the parser knows after its last segment.
LEMMA ContextTypeIs ==
    ASSUME NEW url \in Urls, Last(url).args # "path"
    PROVE  \E p : /\ p[0] = Start
                  /\ \A k \in 1 .. Len(url) : p[k] = ParseSegment(p[k - 1], url[k])
                  /\ ContextType(url) = p[Len(url)]
<1> DEFINE n == Len(url)
           f == CHOOSE p : p = [k \in 0 .. n |->
                   IF k = 0 THEN [kind |-> "start"] ELSE ParseSegment(p[k - 1], url[k])]
<1>1. n \in Nat
    BY DEF Urls
<1>2. ContextType(url) = f[n]
    BY DEF ContextType
<1>3. f = CHOOSE p : Parse(p, url, n)
    BY DEF Parse, Start
<1> HIDE DEF f
<1>4. Parse(f, url, n)
    BY <1>1, <1>3, ParsesExist
<1>5. f[0] = Start
    BY <1>1, <1>4 DEF Parse
<1>6. \A k \in 1 .. n : f[k] = ParseSegment(f[k - 1], url[k])
    BY <1>1, <1>4 DEF Parse
<1> QED BY <1>2, <1>5, <1>6

\* What the parser makes of a segment: an end, a type, or a navigation
\* property of that name.
LEMMA ParsedSegment ==
    ASSUME NEW prev, NEW seg
    PROVE  LET type == ParseSegment(prev, seg)
           IN /\ type.kind = "navigation" => type.nav = seg.name
              /\ \/ type = prev /\ prev.kind \in {"nothing", "collection"}
                 \/ type.kind \in {"nothing", "collection", "entity"}
                 \/ type.kind = "navigation" /\ seg.name \notin Types
<1> DEFINE type == ParseSegment(prev, seg)
<1>1. CASE prev.kind \in {"nothing", "collection"}
    BY <1>1 DEF ParseSegment
<1>2. CASE prev.kind \notin {"nothing", "collection"} /\ seg.name = "Collection"
    <2>1. type = [kind |-> "collection"]
        BY <1>2 DEF ParseSegment
    <2> QED BY <2>1
<1>3. CASE prev.kind \notin {"nothing", "collection"} /\ seg.name # "Collection"
    <2>1. \/ seg.name \in Types /\ type = Entity(seg.name)
          \/ type = Entity(Sets[seg.name])
          \/ type = Entity(Singletons[seg.name])
          \/ seg.name \notin Types /\ type = Navigation(seg.name)
          \/ type = Nothing
        BY <1>3 DEF ParseSegment
    <2> QED BY <2>1 DEF Entity, Navigation, Nothing
<1> QED BY <1>1, <1>2, <1>3

LEMMA RealTypes ==
    /\ \A t : RealType(Entity(t)) = {t} /\ Entity(t).kind = "entity"
    /\ \A n : /\ RealType(Navigation(n)) = {Navs[n].to}
              /\ Navigation(n).kind = "navigation" /\ Navigation(n).nav = n
<1>1. ASSUME NEW t PROVE RealType(Entity(t)) = {t} /\ Entity(t).kind = "entity"
    BY DEF RealType, Entity
<1>2. ASSUME NEW n PROVE /\ RealType(Navigation(n)) = {Navs[n].to}
                         /\ Navigation(n).kind = "navigation" /\ Navigation(n).nav = n
    BY DEF RealType, Navigation
<1> QED BY <1>1, <1>2

\* The parser follows the address of an entity to its end, whatever stands in
\* the brackets or behind.
LEMMA AddressParsed ==
    ASSUME NEW e \in Entities, NEW url,
           \A k \in 1 .. Len(Owner(e)) : url[k].name = Owner(e)[k].name,
           NEW p, p[0] = Start,
           \A k \in 1 .. Len(Owner(e)) : p[k] = ParseSegment(p[k - 1], url[k])
    PROVE  /\ p[Len(Owner(e))].kind \in {"entity", "navigation"}
           /\ Len(Owner(e)) > 1 => p[Len(Owner(e))] = Navigation(Last(Owner(e)).name)
<1> DEFINE n == Len(Owner(e))
           name(k) == url[k].name
           Good(k) == /\ p[k].kind \in {"entity", "navigation"}
                      /\ RealType(p[k]) = {TypeAt(name(k))}
                      /\ k > 1 /\ name(k) \notin Types => p[k] = Navigation(name(k))
           Bad == {k \in 1 .. n : ~ Good(k)}
<1>1. n \in Nat \ {0}
    BY Owners
<1>2. ASSUME NEW k \in 1 .. n, k = 1 \/ (k - 1 \in 1 .. n /\ Good(k - 1)) PROVE Good(k)
    <2>1. CASE k = 1
        <3>1. name(k) \in DOMAIN Sets \cup DOMAIN Singletons
            BY <1>1, <2>1, AddressAssumption
        <3>2. name(k) \notin Types /\ name(k) # "Collection"
            BY <3>1, NamesAssumption
        <3>3. p[k] = ParseSegment(Start, url[k])
            BY <2>1
        <3>4. p[k] = Entity(TypeAt(name(k)))
            <4>1. Start.kind \notin {"nothing", "collection"}
                BY DEF Start
            <4>2. CASE name(k) \in DOMAIN Sets
                BY <3>2, <3>3, <4>1, <4>2 DEF ParseSegment, TypeAt
            <4>3. CASE name(k) \notin DOMAIN Sets /\ name(k) \in DOMAIN Singletons
                BY <3>2, <3>3, <4>1, <4>3 DEF ParseSegment, TypeAt
            <4> QED BY <3>1, <4>2, <4>3
        <3> QED BY <2>1, <3>4, RealTypes
    <2>2. CASE k # 1
        <3>1. Good(k - 1) /\ k > 1
            BY <1>2, <2>2
        <3>2. p[k] = ParseSegment(p[k - 1], url[k]) /\ p[k - 1].kind \notin {"nothing", "collection"}
            BY <3>1
        <3>3. k - 1 \in 1 .. n
            BY <1>2, <2>2
        <3>4. \/ name(k) \in Types
              \/ /\ name(k) \in NavsOf[TypeAt(name(k - 1))] \cap DOMAIN Navs
                 /\ name(k) \notin DOMAIN Sets \cup DOMAIN Singletons
            BY <2>2, <3>3, AddressAssumption
        <3>5. CASE name(k) \in Types
            <4>1. name(k) # "Collection"
                BY <3>5, NamesAssumption
            <4>2. p[k] = Entity(name(k)) /\ TypeAt(name(k)) = name(k)
                BY <3>2, <3>5, <4>1 DEF ParseSegment, TypeAt
            <4> QED BY <3>5, <4>2, RealTypes
        <3>6. CASE name(k) \notin Types
            <4>1. /\ name(k) \in NavsOf[TypeAt(name(k - 1))] \cap DOMAIN Navs
                  /\ name(k) \notin DOMAIN Sets \cup DOMAIN Singletons
                BY <3>4, <3>6
            <4>2. name(k) # "Collection"
                BY <4>1, NamesAssumption
            <4>3. \E t \in RealType(p[k - 1]) : name(k) \in NavsOf[t]
                BY <3>1, <4>1
            <4>4. p[k] = Navigation(name(k))
                BY <3>2, <3>6, <4>1, <4>2, <4>3 DEF ParseSegment
            <4>5. TypeAt(name(k)) = Navs[name(k)].to
                BY <3>6, <4>1 DEF TypeAt
            <4> QED BY <4>4, <4>5, RealTypes
        <3> QED BY <3>5, <3>6
    <2> QED BY <2>1, <2>2
<1>3. Bad = {}
    <2> SUFFICES ASSUME Bad # {} PROVE FALSE
        OBVIOUS
    <2> HIDE DEF Good
    <2>1. PICK k \in Bad : \A j \in Bad : k <= j
        <3>1. Bad \in SUBSET Nat
            BY <1>1
        <3> QED BY <3>1, Least
    <2>2. k # 1 => k - 1 \in 1 .. n /\ k - 1 \notin Bad
        BY <1>1, <2>1
    <2>3. k = 1 \/ (k - 1 \in 1 .. n /\ Good(k - 1))
        BY <2>2
    <2> QED BY <1>2, <2>1, <2>3
<1>4. Good(n)
    <2> HIDE DEF Good
    <2> QED BY <1>1, <1>3
<1>5. ASSUME n > 1 PROVE p[n] = Navigation(Last(Owner(e)).name)
    <2>1. Last(Owner(e)).name \in DOMAIN Navs
        BY <1>5, StoreAssumption
    <2>2. name(n) = Last(Owner(e)).name
        BY <1>1 DEF Last
    <2>3. name(n) \notin Types
        BY <2>1, <2>2, NamesAssumption
    <2> QED BY <1>1, <1>4, <1>5, <2>2, <2>3
<1> QED BY <1>4, <1>5

(***************************************************************************)
(* The objects a payload starts with.                                      *)
(***************************************************************************)
\* What a request is for, with an entity e that it names.
RequestOf(r, e) ==
    /\ e \in r.entities /\ e \in Entities
    /\ \/ /\ r.shape \in {"collection", "one"}
          /\ r.url = Collection(Owner(e))
          /\ \A x \in r.entities :
                /\ x \in Entities /\ Collection(Owner(x)) = r.url
                /\ (Last(Owner(x)).args = "bare") = (Last(Owner(e)).args = "bare")
       \/ /\ r.shape = "cast" /\ r.entities = {e}
          /\ r.url = Append(Collection(Owner(e)), Bare(Store[e].type))
       \/ r.shape = "function" /\ r.entities = {e} /\ r.url = <<Bare(Store[e].type)>>
       \/ r.shape = "functions" /\ r.entities = {e} /\ r.url = <<Seg("Collection", Store[e].type)>>

LEMMA RequestsAre == ASSUME NEW r \in Requests PROVE \E e \in Entities : RequestOf(r, e)
<1>1. CASE \E c \in Collections : r = [shape |-> "collection", url |-> c, entities |-> Members(c)]
    <2>1. PICK c \in Collections : r = [shape |-> "collection", url |-> c, entities |-> Members(c)]
        BY <1>1
    <2>2. PICK e \in Entities : Last(Owner(e)).args # "bare" /\ c = Collection(Owner(e))
        BY DEF Collections, Singles
    <2>3. Len(Owner(e)) = Len(c)
        BY <2>2, Owners
    <2>4. e \in Members(c)
        BY <2>2, <2>3 DEF Members
    <2>5. \A x \in Members(c) : x \in Entities /\ Collection(Owner(x)) = c /\ Last(Owner(x)).args # "bare"
        BY DEF Members
    <2>6. r.shape = "collection" /\ r.url = c /\ r.entities = Members(c)
        BY <2>1
    <2> QED BY <2>2, <2>4, <2>5, <2>6 DEF RequestOf
<1>2. CASE \E e \in Entities : r = [shape |-> "one", url |-> Collection(Owner(e)), entities |-> {e}]
    BY <1>2 DEF RequestOf
<1>3. CASE \E e \in Entities :
        r = [shape |-> "cast", url |-> Append(Collection(Owner(e)), Bare(Store[e].type)), entities |-> {e}]
    BY <1>3 DEF RequestOf
<1>4. CASE \E e \in Entities : r = [shape |-> "function", url |-> <<Bare(Store[e].type)>>, entities |-> {e}]
    BY <1>4 DEF RequestOf
<1>5. CASE \E e \in Entities :
        r = [shape |-> "functions", url |-> <<Seg("Collection", Store[e].type)>>, entities |-> {e}]
    BY <1>5 DEF RequestOf
<1> QED BY <1>1, <1>2, <1>3, <1>4, <1>5 DEF Requests

LEMMA PayloadsAre ==
    ASSUME NEW d \in Payloads
    PROVE  /\ d.request \in Requests /\ d.expand \in SUBSET DOMAIN Navs
           /\ d.select \in Selects /\ d.select \in Args
           /\ d.links \in BOOLEAN /\ d.types \in BOOLEAN /\ d.contexts \in BOOLEAN /\ d.keys \in BOOLEAN
           /\ d.keys \/ d.links
BY DEF Payloads, Expansions, Args

LEMMA LinkOfContext ==
    ASSUME NEW url \in Urls, NEW select \in Selects, select # "path"
    PROVE  LinkFromContext(WithArgs(url, select)) = WithArgs(url, "bare")
<1>1. select \in Args /\ "bare" \in Args
    BY DEF Args, Selects
<1>2. Last(WithArgs(url, select)) = Seg(Last(url).name, select)
    BY <1>1, WithArgsIs
<1>3. Last(WithArgs(url, select)).args # "path"
    BY <1>2 DEF Seg
<1>4. LinkFromContext(WithArgs(url, select)) = WithArgs(WithArgs(url, select), "bare")
    BY <1>3 DEF LinkFromContext
<1> QED BY <1>1, <1>4, Rebracketed

\* A collection of the store, or one entity of it: the link and the kind are
\* right.  With a slash in the select list nothing is read.
LEMMA KindOfMembers ==
    ASSUME doc \in Payloads, doc.request.shape \in {"collection", "one"}
    PROVE  LET type == ContextType(Context)
           IN IF doc.select = "path" THEN type.kind = "nothing"
              ELSE /\ type.kind \in {"entity", "navigation"}
                   /\ LinkFromContext(Context) = doc.request.url
                   /\ doc.request.url \in Urls
                   /\ \A e \in doc.request.entities :
                         /\ e \in Entities /\ Collection(Owner(e)) = doc.request.url
                         /\ Kind(doc.request.url, type) =
                               IF Last(Owner(e)).args = "bare" THEN "plain" ELSE "keyed"
<1> DEFINE url == doc.request.url
           type == ContextType(Context)
<1>1. PICK e \in Entities : RequestOf(doc.request, e)
    BY PayloadsAre, RequestsAre
<1>2. /\ url = Collection(Owner(e))
      /\ \A x \in doc.request.entities :
            /\ x \in Entities /\ Collection(Owner(x)) = url
            /\ (Last(Owner(x)).args = "bare") = (Last(Owner(e)).args = "bare")
    BY <1>1 DEF RequestOf
<1>3. /\ url \in Urls /\ Len(url) = Len(Owner(e)) /\ Len(url) \in Nat \ {0}
      /\ \A k \in 1 .. Len(url) : url[k].name = Owner(e)[k].name
      /\ Last(url) = Bare(Last(Owner(e)).name)
    BY <1>2, Owners
<1>4. doc.select \in Selects /\ doc.select \in Args
    BY PayloadsAre
<1>5. Context = WithArgs(url, doc.select)
    BY DEF Context
<1>6. /\ Context \in Urls /\ Len(Context) = Len(url)
      /\ \A k \in 1 .. Len(url) : Context[k].name = url[k].name
      /\ Last(Context) = Seg(Last(url).name, doc.select)
    BY <1>3, <1>4, <1>5, WithArgsIs
<1>7. Last(Context).args = doc.select
    BY <1>6 DEF Seg
<1>8. ASSUME doc.select = "path" PROVE type.kind = "nothing"
    BY <1>7, <1>8 DEF ContextType, Nothing
<1>9. ASSUME doc.select # "path"
      PROVE  /\ type.kind \in {"entity", "navigation"}
             /\ LinkFromContext(Context) = url
             /\ Kind(url, type) = IF Last(Owner(e)).args = "bare" THEN "plain" ELSE "keyed"
    <2>1. LinkFromContext(Context) = url
        <3>1. LinkFromContext(Context) = WithArgs(url, "bare")
            BY <1>3, <1>4, <1>5, <1>9, LinkOfContext
        <3>2. Last(url).args = "bare" /\ "bare" \in Args
            BY <1>3 DEF Bare, Seg, Args, Selects
        <3> QED BY <1>3, <3>1, <3>2, SameBrackets
    <2>2. PICK p : /\ p[0] = Start
                   /\ \A k \in 1 .. Len(Context) : p[k] = ParseSegment(p[k - 1], Context[k])
                   /\ type = p[Len(Context)]
        BY <1>6, <1>7, <1>9, ContextTypeIs
    <2>3. /\ p[Len(Owner(e))].kind \in {"entity", "navigation"}
          /\ Len(Owner(e)) > 1 => p[Len(Owner(e))] = Navigation(Last(Owner(e)).name)
        <3>1. /\ \A k \in 1 .. Len(Owner(e)) : Context[k].name = Owner(e)[k].name
              /\ \A k \in 1 .. Len(Owner(e)) : p[k] = ParseSegment(p[k - 1], Context[k])
            BY <1>3, <1>6, <2>2
        <3> QED BY <2>2, <3>1, AddressParsed
    <2>4. type.kind \in {"entity", "navigation"}
        BY <1>3, <1>6, <2>2, <2>3
    <2>5. CASE Len(url) = 1
        <3>1. url[1].name = Last(Owner(e)).name
            BY <1>3, <2>5 DEF Last
        <3>2. url[1].name \in IF Last(Owner(e)).args = "bare" THEN DOMAIN Singletons ELSE DOMAIN Sets
            BY <1>3, <2>5, <3>1, StoreAssumption
        <3>3. IF Last(Owner(e)).args = "bare" THEN IsSingleton(url) /\ ~IsSet(url) ELSE IsSet(url)
            BY <2>5, <3>2, TypesAssumption DEF IsSet, IsSingleton
        <3> QED BY <2>1, <2>4, <3>3 DEF Kind
    <2>6. CASE Len(url) # 1
        <3>1. Len(Owner(e)) > 1 /\ ~IsSet(url) /\ ~IsSingleton(url)
            <4>1. Len(Owner(e)) \in Nat \ {0, 1}
                BY <1>3, <2>6
            <4>2. Len(Owner(e)) > 1
                <5>1. \A m \in Nat \ {0, 1} : m > 1
                    OBVIOUS
                <5> QED BY <4>1, <5>1
            <4> QED BY <2>6, <4>2 DEF IsSet, IsSingleton
        <3>2. type = Navigation(Last(Owner(e)).name)
            BY <1>3, <1>6, <2>2, <2>3, <3>1
        <3>3. type.kind = "navigation" /\ type.nav = Last(Owner(e)).name
            BY <3>2, RealTypes
        <3>4. Navs[type.nav].many = (Last(Owner(e)).args # "bare")
            BY <1>3, <2>6, <3>3, StoreAssumption
        <3> QED BY <2>1, <2>4, <3>1, <3>3, <3>4 DEF Kind
    <2> QED BY <2>5, <2>6
<1> QED BY <1>2, <1>3, <1>8, <1>9

\* An entity that is cast to its type: it is read, and given no link.
LEMMA KindOfCast ==
    ASSUME doc \in Payloads, doc.request.shape = "cast"
    PROVE  LET type == ContextType(Context)
           IN /\ type.kind \in {"entity", "navigation"} => Kind(LinkFromContext(Context), type) = "none"
              /\ doc.select # "path" => type.kind = "entity"
              /\ doc.request.entities \subseteq Entities
<1> DEFINE url == doc.request.url
           type == ContextType(Context)
<1>1. PICK e \in Entities : RequestOf(doc.request, e)
    BY PayloadsAre, RequestsAre
<1>2. url = Append(Collection(Owner(e)), Bare(Store[e].type)) /\ doc.request.entities = {e}
    BY <1>1 DEF RequestOf
<1> DEFINE before == Collection(Owner(e))
           n == Len(Owner(e))
<1>3. before \in Urls /\ Len(before) = n /\ n \in Nat \ {0} /\ \A k \in 1 .. n : before[k].name = Owner(e)[k].name
    BY Owners
<1>4. Store[e].type \in Types /\ Bare(Store[e].type) \in Segments /\ Bare(Store[e].type).name = Store[e].type
    BY StoreAssumption DEF Bare, Seg, Segments, Selects
<1>5. /\ url \in Urls /\ Len(url) = n + 1
      /\ url[n + 1] = Bare(Store[e].type) /\ Last(url) = Bare(Store[e].type)
      /\ \A k \in 1 .. n : url[k].name = Owner(e)[k].name
    BY <1>2, <1>3, <1>4 DEF Urls, Last
<1>6. doc.select \in Selects /\ doc.select \in Args
    BY PayloadsAre
<1>7. Context = WithArgs(url, doc.select)
    BY DEF Context
<1>8. /\ Context \in Urls /\ Len(Context) = n + 1
      /\ \A k \in 1 .. n + 1 : Context[k].name = url[k].name
      /\ Last(Context) = Seg(Last(url).name, doc.select)
    BY <1>5, <1>6, <1>7, WithArgsIs
<1>9. Last(Context).args = doc.select
    BY <1>8 DEF Seg
<1>10. ASSUME doc.select = "path" PROVE type.kind = "nothing"
    BY <1>9, <1>10 DEF ContextType, Nothing
<1>11. ASSUME doc.select # "path"
       PROVE  type.kind = "entity" /\ Kind(LinkFromContext(Context), type) = "none"
    <2>1. PICK p : /\ p[0] = Start
                   /\ \A k \in 1 .. Len(Context) : p[k] = ParseSegment(p[k - 1], Context[k])
                   /\ type = p[Len(Context)]
        BY <1>8, <1>9, <1>11, ContextTypeIs
    <2>2. p[n].kind \in {"entity", "navigation"}
        <3>1. /\ \A k \in 1 .. Len(Owner(e)) : Context[k].name = Owner(e)[k].name
              /\ \A k \in 1 .. Len(Owner(e)) : p[k] = ParseSegment(p[k - 1], Context[k])
            BY <1>3, <1>5, <1>8, <2>1
        <3> QED BY <2>1, <3>1, AddressParsed
    <2>3. type = ParseSegment(p[n], Context[n + 1]) /\ Context[n + 1].name = Store[e].type
        BY <1>3, <1>4, <1>5, <1>8, <2>1
    <2>4. Store[e].type # "Collection"
        BY <1>4, NamesAssumption
    <2>5. type = Entity(Store[e].type)
        BY <1>4, <2>2, <2>3, <2>4 DEF ParseSegment
    <2>6. type.kind = "entity"
        BY <2>5, RealTypes
    <2>7. LinkFromContext(Context) = WithArgs(url, "bare")
        BY <1>5, <1>6, <1>7, <1>11, LinkOfContext
    <2>8. Len(WithArgs(url, "bare")) = n + 1
        BY <1>5, WithArgsIs DEF Args, Selects
    <2>9. n + 1 # 1
        BY <1>3
    <2>10. ~IsSet(LinkFromContext(Context)) /\ ~IsSingleton(LinkFromContext(Context))
        BY <2>7, <2>8, <2>9 DEF IsSet, IsSingleton
    <2> QED BY <2>6, <2>10 DEF Kind
<1> QED BY <1>2, <1>10, <1>11

\* What a function returns: one entity is read, and given no link; of a
\* collection nothing is read.
LEMMA KindOfFunction ==
    ASSUME doc \in Payloads, doc.request.shape \in {"function", "functions"}
    PROVE  LET type == ContextType(Context)
           IN /\ doc.request.shape = "function" =>
                    type.kind = "entity" /\ Kind(LinkFromContext(Context), type) = "none"
              /\ doc.request.shape = "functions" => type.kind \in {"collection", "nothing"}
              /\ doc.request.entities \subseteq Entities
<1> DEFINE url == doc.request.url
           type == ContextType(Context)
<1>1. PICK e \in Entities : RequestOf(doc.request, e)
    BY PayloadsAre, RequestsAre
<1>2. /\ doc.request.entities = {e}
      /\ url = IF doc.request.shape = "function" THEN <<Bare(Store[e].type)>>
               ELSE <<Seg("Collection", Store[e].type)>>
    BY <1>1 DEF RequestOf
<1>3. Context = url
    BY DEF Context
<1>4. Store[e].type \in Types /\ Store[e].type # "Collection"
    BY StoreAssumption, NamesAssumption
<1>5. Bare(Store[e].type) \in Segments /\ Seg("Collection", Store[e].type) \in Segments
    BY <1>4 DEF Bare, Seg, Segments, Selects
<1>6. url \in Urls /\ Len(url) = 1 /\ Last(url) = url[1]
    BY <1>2, <1>5 DEF Urls, Last
<1>7. ASSUME NEW p, p[0] = Start, \A k \in 1 .. Len(url) : p[k] = ParseSegment(p[k - 1], url[k])
      PROVE  p[1] = ParseSegment(Start, url[1])
    BY <1>6, <1>7
<1>8. Start.kind \notin {"nothing", "collection"}
    BY DEF Start
<1>9. ASSUME doc.request.shape = "function"
      PROVE  type.kind = "entity" /\ Kind(LinkFromContext(Context), type) = "none"
    <2>1. url[1] = Bare(Store[e].type) /\ url[1].name = Store[e].type /\ url[1].args = "bare"
        BY <1>2, <1>9 DEF Bare, Seg
    <2>2. type = ParseSegment(Start, url[1])
        BY <1>3, <1>6, <1>7, <2>1, ContextTypeIs
    <2>3. type = Entity(Store[e].type)
        BY <1>4, <1>8, <2>1, <2>2 DEF ParseSegment
    <2>4. type.kind = "entity"
        BY <2>3, RealTypes
    <2>5. LinkFromContext(Context) = WithArgs(url, "bare")
        BY <1>3, <1>6, <2>1 DEF LinkFromContext
    <2>6. "bare" \in Args
        BY DEF Args, Selects
    <2>7. LinkFromContext(Context) = url
        BY <1>6, <2>1, <2>5, <2>6, SameBrackets
    <2>8. ~IsSet(url) /\ ~IsSingleton(url)
        BY <1>4, <2>1, NamesAssumption DEF IsSet, IsSingleton
    <2> QED BY <2>4, <2>7, <2>8 DEF Kind
<1>10. ASSUME doc.request.shape = "functions"
       PROVE  type.kind \in {"collection", "nothing"}
    <2>1. url[1].name = "Collection" /\ url[1].args = Store[e].type
        BY <1>2, <1>10 DEF Seg
    <2>2. CASE Store[e].type = "path"
        BY <1>3, <1>6, <2>1, <2>2 DEF ContextType, Nothing
    <2>3. CASE Store[e].type # "path"
        <3>1. type = ParseSegment(Start, url[1])
            BY <1>3, <1>6, <1>7, <2>1, <2>3, ContextTypeIs
        <3>2. type = [kind |-> "collection"]
            BY <1>8, <2>1, <3>1 DEF ParseSegment
        <3> QED BY <3>2
    <2> QED BY <2>2, <2>3
<1> QED BY <1>2, <1>9, <1>10

LEMMA FrameIs ==
    ASSUME NEW e, NEW declared, NEW expected, NEW base, NEW keyed, NEW depth, NEW via
    PROVE  LET f == Frame(e, declared, expected, base, keyed, depth, via)
           IN /\ f.entity = e /\ f.declared = declared /\ f.expected = expected /\ f.base = base
              /\ f.keyed = keyed /\ f.depth = depth /\ f.via = via
BY DEF Frame

\* The object of entity e, where the type of the context is type.
FirstFrame(e, type) ==
    LET url == LinkFromContext(Context)
    IN Frame(e, DeclaredType(type), DeclaredType(type),
             IF Kind(url, type) = "none" THEN None ELSE url, Kind(url, type) = "keyed", 0, None)

LEMMA ImageIsFinite ==
    ASSUME NEW S, IsFiniteSet(S), NEW T, NEW g \in [S -> T], \A t \in T : \E s \in S : g[s] = t
    PROVE  IsFiniteSet(T)
<1>1. g \in Surjection(S, T)
    BY Fun_IsSurj
<1> QED BY <1>1, FS_Surjection

LEMMA EntitiesOfPayload == ASSUME doc \in Payloads PROVE doc.request.entities \subseteq Entities
<1>1. PICK e \in Entities : RequestOf(doc.request, e)
    BY PayloadsAre, RequestsAre
<1> QED BY <1>1 DEF RequestOf

LEMMA FirstFrames ==
    ASSUME doc \in Payloads, NEW type, type = ContextType(Context)
    PROVE  IF type.kind \in {"entity", "navigation"}
           THEN /\ Frames \in Seq(Range(Frames))
                /\ Range(Frames) = {FirstFrame(e, type) : e \in doc.request.entities}
           ELSE Frames = <<>>
<1> DEFINE S == doc.request.entities
           F == {FirstFrame(e, type) : e \in S}
           g == [e \in S |-> FirstFrame(e, type)]
<1>1. IsFiniteSet(S)
    BY EntitiesOfPayload, StoreAssumption, FS_Subset
<1>2. g \in [S -> F] /\ \A t \in F : \E s \in S : g[s] = t
    <2> HIDE DEF F
    <2>1. \A e \in S : FirstFrame(e, type) \in F
        BY DEF F
    <2>2. \A t \in F : \E s \in S : t = FirstFrame(s, type)
        BY DEF F
    <2> QED BY <2>1, <2>2
<1> HIDE DEF g
<1>3. IsFiniteSet(F)
    BY <1>1, <1>2, ImageIsFinite
<1>4. SetToSeq(F) \in Seq(F) /\ Range(SetToSeq(F)) = F
    BY <1>3, SetInSequence
<1>5. MemberFrames(type) = SetToSeq(F)
    BY DEF MemberFrames, FirstFrame
<1>6. Frames = IF type.kind \in {"entity", "navigation"} THEN MemberFrames(type) ELSE <<>>
    BY DEF Frames
<1> HIDE DEF F
<1> QED BY <1>4, <1>5, <1>6 DEF F

\* The objects a payload starts with are right, and they are all there is.
LEMMA StartFrames ==
    ASSUME doc \in Payloads
    PROVE  /\ Frames \in Seq(Range(Frames))
           /\ \A f \in Range(Frames) : /\ FrameTyped(f) /\ BaseLeadsHome(f) /\ BaseKnown(f)
                                       /\ f.depth = 0
           /\ doc.request.shape # "functions" /\ doc.select # "path" =>
                  {f.entity : f \in Range(Frames)} = doc.request.entities
<1> DEFINE type == ContextType(Context)
           url == LinkFromContext(Context)
           kind == Kind(url, type)
           S == doc.request.entities
<1>1. PICK e0 \in Entities : RequestOf(doc.request, e0)
    BY PayloadsAre, RequestsAre
<1>2. doc.request.shape \in {"collection", "one", "cast", "function", "functions"}
    BY <1>1 DEF RequestOf
<1>3. S \subseteq Entities
    BY EntitiesOfPayload
<1>4. ASSUME doc.request.shape # "functions", doc.select # "path"
      PROVE  type.kind \in {"entity", "navigation"}
    BY <1>2, <1>4, KindOfMembers, KindOfCast, KindOfFunction
<1>5. ASSUME type.kind \in {"entity", "navigation"}, NEW e \in S
      PROVE  \/ /\ doc.request.shape \in {"collection", "one"} /\ doc.select # "path"
                /\ url \in Urls /\ url = Collection(Owner(e))
                /\ kind = IF Last(Owner(e)).args = "bare" THEN "plain" ELSE "keyed"
             \/ /\ doc.request.shape \in {"cast", "function"} /\ kind = "none"
    <2>1. CASE doc.request.shape \in {"collection", "one"}
        BY <1>5, <2>1, KindOfMembers
    <2>2. CASE doc.request.shape = "cast"
        BY <1>5, <2>2, KindOfCast
    <2>3. CASE doc.request.shape \in {"function", "functions"}
        BY <1>5, <2>3, KindOfFunction
    <2> QED BY <1>2, <2>1, <2>2, <2>3
<1>6. CASE type.kind \notin {"entity", "navigation"}
    <2>1. Frames = <<>>
        BY <1>6, FirstFrames
    <2>2. Range(<<>>) = {}
        BY DEF Range
    <2> QED BY <1>4, <1>6, <2>1, <2>2
<1>7. CASE type.kind \in {"entity", "navigation"}
    <2>1. Frames \in Seq(Range(Frames)) /\ Range(Frames) = {FirstFrame(e, type) : e \in S}
        BY <1>7, FirstFrames
    <2>2. ASSUME NEW e \in S
          PROVE  LET f == FirstFrame(e, type)
                 IN /\ FrameTyped(f) /\ BaseLeadsHome(f) /\ BaseKnown(f)
                    /\ f.depth = 0 /\ f.entity = e
        <3> DEFINE f == FirstFrame(e, type)
        <3> SUFFICES FrameTyped(f) /\ BaseLeadsHome(f) /\ BaseKnown(f) /\ f.depth = 0 /\ f.entity = e
            OBVIOUS
        <3>1. f = Frame(e, DeclaredType(type), DeclaredType(type),
                        IF kind = "none" THEN None ELSE url, kind = "keyed", 0, None)
            BY DEF FirstFrame
        <3> HIDE DEF f, url, kind, type
        <3>2. /\ f.entity = e /\ f.base = (IF kind = "none" THEN None ELSE url)
              /\ f.keyed = (kind = "keyed") /\ f.depth = 0 /\ f.via = None
            BY <3>1 DEF Frame
        <3>5. e \in Entities /\ 0 \in 0 .. MaxDepth
            BY <1>3, BoundsAssumption
        <3>3. CASE doc.request.shape \in {"cast", "function"} /\ kind = "none"
            BY <3>2, <3>5, <3>3 DEF FrameTyped, BaseLeadsHome, BaseKnown
        <3>4. CASE /\ doc.request.shape \in {"collection", "one"} /\ doc.select # "path"
                   /\ url \in Urls /\ url = Collection(Owner(e))
                   /\ kind = IF Last(Owner(e)).args = "bare" THEN "plain" ELSE "keyed"
            <4>1. kind # "none" /\ f.base = url
                BY <3>2, <3>4
            <4>2. url # None
                BY <3>4, UrlsAssumption DEF Urls
            <4>3. Last(Owner(e)).args = "bare" => url = Owner(e)
                BY <3>5, <3>4, Owners, SameBrackets DEF Collection
            <4>4. FrameTyped(f) /\ BaseKnown(f)
                BY <3>2, <3>5, <3>4, <4>1, <4>2 DEF FrameTyped, BaseKnown
            <4>5. BaseLeadsHome(f)
                <5>1. CASE Last(Owner(e)).args = "bare"
                    <6>1. ~f.keyed
                        BY <3>2, <3>4, <5>1
                    <6> QED BY <3>2, <4>1, <4>3, <5>1, <6>1 DEF BaseLeadsHome
                <5>2. CASE Last(Owner(e)).args # "bare"
                    <6>1. f.keyed
                        BY <3>2, <3>4, <5>2
                    <6> QED BY <3>2, <3>4, <4>1, <5>2, <6>1 DEF BaseLeadsHome
                <5> QED BY <5>1, <5>2
            <4> QED BY <3>2, <4>4, <4>5
        <3> QED BY <1>5, <1>7, <3>3, <3>4 DEF f, type, url, kind
    <2>3. ASSUME NEW f \in Range(Frames) PROVE \E e \in S : f = FirstFrame(e, type)
        BY <2>1
    <2>4. \A e \in S : FirstFrame(e, type) \in Range(Frames)
        BY <2>1
    <2>5. {f.entity : f \in Range(Frames)} = S
        <3>1. \A f \in Range(Frames) : f.entity \in S
            BY <2>2, <2>3
        <3>2. \A e \in S : \E f \in Range(Frames) : f.entity = e
            BY <2>2, <2>4
        <3> QED BY <3>1, <3>2
    <2>6. ASSUME NEW f \in Range(Frames)
          PROVE  FrameTyped(f) /\ BaseLeadsHome(f) /\ BaseKnown(f) /\ f.depth = 0
        BY <2>2, <2>3
    <2> QED BY <2>1, <2>5, <2>6
<1> QED BY <1>6, <1>7

(***************************************************************************)
(* The objects below one.                                                  *)
(***************************************************************************)
\* What a navigation property of an entity refers to is in one collection.
LEMMA Referred ==
    ASSUME NEW x \in Entities, NEW n \in NavsOf[Store[x].type] \cap DOMAIN Navs,
           NEW e \in Range(Store[x].refs[n])
    PROVE  /\ e \in Entities
           /\ NavUrl(x, n) = Collection(Owner(e))
           /\ Navs[n].contained => Navs[n].many = (Last(Owner(e)).args # "bare")
           /\ ~Navs[n].contained /\ Navs[n].bound \in DOMAIN Sets =>
                  /\ Collection(Owner(e)) = <<Bare(Navs[n].bound)>>
                  /\ Last(Owner(e)).args # "bare"
<1> DEFINE refs == Store[x].refs[n]
<1>1. refs \in Seq(Entities)
    BY RefsAssumption
<1>2. PICK i \in 1 .. Len(refs) : e = refs[i]
    BY <1>1 DEF Range
<1>3. e \in Entities /\ refs # <<>>
    BY <1>1, <1>2
<1>4. /\ Collection(Owner(e)) = Collection(Owner(refs[1]))
      /\ Navs[n].contained => Len(Owner(e)) > 1 /\ Last(Owner(e)).name = n
      /\ ~Navs[n].contained /\ Navs[n].bound \in DOMAIN Sets =>
             Collection(Owner(e)) = <<Bare(Navs[n].bound)>>
    BY <1>2, RefsAssumption
<1>5. NavUrl(x, n) = Collection(Owner(e))
    BY <1>3, <1>4 DEF NavUrl
<1>6. ASSUME Navs[n].contained PROVE Navs[n].many = (Last(Owner(e)).args # "bare")
    <2>1. Len(Owner(e)) # 1
        <3>1. Len(Owner(e)) \in Nat \ {0} /\ Len(Owner(e)) > 1
            BY <1>3, <1>4, <1>6, Owners
        <3>2. \A m \in Nat : m > 1 => m # 1
            OBVIOUS
        <3> QED BY <3>1, <3>2
    <2> QED BY <1>3, <1>4, <1>6, <2>1, StoreAssumption
<1>7. ASSUME ~Navs[n].contained, Navs[n].bound \in DOMAIN Sets
      PROVE  Last(Owner(e)).args # "bare"
    <2>1. Collection(Owner(e)) = <<Bare(Navs[n].bound)>>
        BY <1>4, <1>7
    <2>2. Len(Owner(e)) = 1
        BY <1>3, <2>1, Owners
    <2>3. Bare(Last(Owner(e)).name) = Bare(Navs[n].bound)
        BY <1>3, <2>1, Owners DEF Last
    <2>4. Last(Owner(e)).name = Navs[n].bound
        BY <2>3 DEF Bare, Seg
    <2>5. Navs[n].bound \notin DOMAIN Singletons
        BY <1>7, TypesAssumption
    <2> QED BY <1>3, <2>2, <2>4, <2>5, StoreAssumption
<1> QED BY <1>3, <1>4, <1>5, <1>6, <1>7

\* The base of a property that refers to e.
LEMMA NavBaseIs ==
    ASSUME doc \in Payloads, NEW x \in Entities, NEW n \in NavsOf[Store[x].type] \cap DOMAIN Navs,
           NEW e \in Range(Store[x].refs[n])
    PROVE  IF HasContext(n)
           THEN /\ NavBase(x, n) \in Urls
                /\ doc.select # "path" => NavBase(x, n) = Collection(Owner(e))
           ELSE /\ ~Navs[n].contained
                /\ IF Navs[n].bound = None THEN NavBase(x, n) = None
                   ELSE NavBase(x, n) \in Urls /\ NavBase(x, n) = <<Bare(Navs[n].bound)>>
<1>1. e \in Entities /\ NavUrl(x, n) = Collection(Owner(e))
    BY Referred
<1>2. doc.select \in Selects /\ doc.select \in Args /\ "bare" \in Args
    BY PayloadsAre DEF Args, Selects
<1> DEFINE url == Collection(Owner(e))
<1>3. url \in Urls
    BY <1>1, Owners
<1>4. CASE HasContext(n)
    <2>1. NavBase(x, n) = LinkFromContext(WithArgs(url, doc.select))
        BY <1>1, <1>4 DEF NavBase
    <2>2. WithArgs(url, doc.select) \in Urls
        BY <1>2, <1>3, WithArgsIs
    <2>3. NavBase(x, n) \in Urls
        BY <1>2, <2>1, <2>2, WithArgsIs DEF LinkFromContext
    <2>4. ASSUME doc.select # "path" PROVE NavBase(x, n) = url
        <3>1. NavBase(x, n) = WithArgs(url, "bare")
            BY <1>2, <1>3, <2>1, <2>4, LinkOfContext
        <3>2. Last(url).args = "bare"
            BY <1>1, Owners DEF Bare, Seg
        <3> QED BY <1>2, <1>3, <3>1, <3>2, SameBrackets
    <2> QED BY <1>4, <2>3, <2>4
<1>5. CASE ~HasContext(n)
    <2>1. ~Navs[n].contained
        BY <1>5 DEF HasContext
    <2>2. CASE Navs[n].bound = None
        BY <1>5, <2>1, <2>2 DEF NavBase
    <2>3. CASE Navs[n].bound # None
        <3>1. NavBase(x, n) = <<Bare(Navs[n].bound)>>
            BY <1>5, <2>1, <2>3 DEF NavBase
        <3>2. Navs[n].bound \in DOMAIN Sets \cup DOMAIN Singletons
            BY <2>3, NavsAssumption
        <3>3. Bare(Navs[n].bound) \in Segments
            BY <3>2 DEF Bare, Seg, Segments, Selects
        <3>4. NavBase(x, n) \in Urls
            BY <3>1, <3>3 DEF Urls
        <3> QED BY <1>5, <2>1, <2>3, <3>1, <3>4
    <2> QED BY <1>5, <2>1, <2>2, <2>3
<1> QED BY <1>4, <1>5

\* The object of an entity a property refers to is right, unless the reader
\* goes down on the property.
LEMMA NavFrameRight ==
    ASSUME doc \in Payloads, NEW f, FrameTyped(f), NEW n \in Expanded(f), ~UsesNoSource(f, n),
           NEW e \in Range(Store[f.entity].refs[n])
    PROVE  LET c == NavFrame(f, n, e)
           IN /\ FrameTyped(c) /\ BaseLeadsHome(c) /\ BaseKnown(c)
              /\ c.depth = f.depth + 1 /\ c.entity = e
<1> DEFINE c == NavFrame(f, n, e)
           x == f.entity
<1> SUFFICES FrameTyped(c) /\ BaseLeadsHome(c) /\ BaseKnown(c) /\ c.depth = f.depth + 1 /\ c.entity = e
    OBVIOUS
<1>1. /\ c.entity = e /\ c.base = NavBase(x, n) /\ c.depth = f.depth + 1 /\ c.via = n
      /\ c.keyed = (Navs[n].many \/ ~Navs[n].contained)
    BY DEF NavFrame, Frame
<1> HIDE DEF c
<1>2. /\ x \in Entities /\ f.depth \in 0 .. MaxDepth /\ f.depth # MaxDepth
      /\ n \in NavsOf[Store[x].type] \cap DOMAIN Navs /\ n # None
    BY PayloadsAre, NavsAssumption DEF FrameTyped, Expanded
<1>3. f.depth + 1 \in 0 .. MaxDepth
    BY <1>2, BoundsAssumption
<1>4. e \in Entities
    BY <1>2, Referred
<1>5. NavBase(x, n) \in Urls \cup {None}
    BY <1>2, NavBaseIs
<1>6. None \notin Urls
    BY UrlsAssumption DEF Urls
<1>7. FrameTyped(c)
    BY <1>1, <1>3, <1>4, <1>5 DEF FrameTyped
<1>8. BaseKnown(c)
    <2>1. c.base = None => ~Navs[n].contained /\ Navs[n].bound = None
        <3>1. NavBase(x, n) = None => ~HasContext(n)
            BY <1>2, <1>6, NavBaseIs
        <3> QED BY <1>1, <1>2, <1>6, <3>1, NavBaseIs
    <2> QED BY <1>1, <1>2, <2>1 DEF BaseKnown
<1>9. BaseLeadsHome(c)
    <2> SUFFICES ASSUME doc.select # "path", c.base # None, ~OfSingleton(c)
                 PROVE  IF c.keyed THEN /\ c.base = Collection(Owner(e))
                                        /\ Last(Owner(e)).args # "bare"
                                   ELSE c.base = Owner(e)
        BY <1>1 DEF BaseLeadsHome
    <2>1. CASE Navs[n].contained
        <3>1. c.base = Collection(Owner(e))
            BY <1>1, <1>2, <2>1, NavBaseIs DEF HasContext
        <3>2. Navs[n].many = (Last(Owner(e)).args # "bare")
            BY <1>2, <2>1, Referred
        <3>3. CASE Navs[n].many
            BY <1>1, <3>1, <3>2, <3>3
        <3>4. CASE ~Navs[n].many
            <4>1. ~c.keyed /\ Last(Owner(e)).args = "bare"
                BY <1>1, <2>1, <3>2, <3>4
            <4>2. Collection(Owner(e)) = Owner(e)
                BY <1>4, <4>1, Owners, SameBrackets DEF Collection
            <4> QED BY <3>1, <4>1, <4>2
        <3> QED BY <3>3, <3>4
    <2>2. CASE ~Navs[n].contained
        <3>1. Navs[n].bound # None
            BY <1>1, <1>2, <2>2 DEF UsesNoSource
        <3>2. Navs[n].bound \notin DOMAIN Singletons
            BY <1>1, <1>2, <2>2 DEF OfSingleton
        <3>3. Navs[n].bound \in DOMAIN Sets
            BY <1>2, <3>1, <3>2, NavsAssumption
        <3>4. Collection(Owner(e)) = <<Bare(Navs[n].bound)>> /\ Last(Owner(e)).args # "bare"
            BY <1>2, <2>2, <3>3, Referred
        <3>5. c.base = Collection(Owner(e))
            BY <1>1, <1>2, <3>1, <3>4, NavBaseIs
        <3>6. c.keyed
            BY <1>1, <2>2
        <3> QED BY <3>4, <3>5, <3>6
    <2> QED BY <2>1, <2>2
<1> QED BY <1>1, <1>7, <1>8, <1>9

\* A sequence is one of what occurs in it.
LEMMA OwnElements ==
    ASSUME NEW S, NEW s \in Seq(S)
    PROVE  s \in Seq(Range(s)) /\ \A x \in Range(s) : x \in S
<1>1. Len(s) \in Nat /\ s \in [1 .. Len(s) -> S] /\ DOMAIN s = 1 .. Len(s)
    OBVIOUS
<1>2. \A k \in 1 .. Len(s) : s[k] \in Range(s) /\ s[k] \in S
    BY <1>1 DEF Range
<1>3. s \in [1 .. Len(s) -> Range(s)]
    BY <1>1, <1>2
<1>4. s \in Seq(Range(s))
    BY <1>3
<1>5. \A x \in Range(s) : x \in S
    BY <1>1, <1>2 DEF Range
<1> QED BY <1>4, <1>5

\* The objects below one are right, and they are all there is.
LEMMA ChildFrames ==
    ASSUME doc \in Payloads, NEW f, FrameTyped(f), \A n \in Expanded(f) : ~UsesNoSource(f, n)
    PROVE  /\ Children(f) \in Seq(Range(Children(f)))
           /\ \A c \in Range(Children(f)) : /\ FrameTyped(c) /\ BaseLeadsHome(c) /\ BaseKnown(c)
                                            /\ c.depth = f.depth + 1
           /\ IF f.depth = MaxDepth THEN Range(Children(f)) = {}
              ELSE {c.entity : c \in Range(Children(f))} = Below(f.entity, doc.expand)
<1> DEFINE x == f.entity
           N == Expanded(f)
           Refs(n) == Range(Store[x].refs[n])
           S == {NavFrames(f, n) : n \in N}
           C == UNION S
<1>1. x \in Entities /\ N \subseteq NavsOf[Store[x].type] \cap DOMAIN Navs
    BY PayloadsAre DEF FrameTyped, Expanded
<1>2. IsFiniteSet(N)
    BY <1>1, NavsAssumption, FS_Subset
<1>3. ASSUME NEW n \in N PROVE IsFiniteSet(NavFrames(f, n))
    <2> DEFINE g == [e \in Refs(n) |-> NavFrame(f, n, e)]
               r == Store[x].refs[n]
    <2>1. r \in Seq(Entities)
        BY <1>1, RefsAssumption
    <2>2. Len(r) \in Nat /\ r \in [1 .. Len(r) -> Refs(n)] /\ \A e \in Refs(n) : \E i \in 1 .. Len(r) : r[i] = e
        BY <2>1 DEF Range
    <2>3. IsFiniteSet(1 .. Len(r))
        BY <2>2, FS_Interval
    <2>4. IsFiniteSet(Refs(n))
        BY <2>2, <2>3, ImageIsFinite
    <2>5. NavFrames(f, n) = {NavFrame(f, n, e) : e \in Refs(n)}
        BY DEF NavFrames
    <2> HIDE DEF Refs
    <2>6. g \in [Refs(n) -> NavFrames(f, n)] /\ \A t \in NavFrames(f, n) : \E e \in Refs(n) : g[e] = t
        BY <2>5
    <2> HIDE DEF g
    <2> QED BY <2>4, <2>6, ImageIsFinite
<1>4. IsFiniteSet(S)
    <2> DEFINE g == [n \in N |-> NavFrames(f, n)]
    <2> HIDE DEF N
    <2>1. g \in [N -> S] /\ \A t \in S : \E n \in N : g[n] = t
        OBVIOUS
    <2> HIDE DEF g, S
    <2> QED BY <1>2, <2>1, ImageIsFinite
<1>5. IsFiniteSet(C)
    <2>1. \A T \in S : IsFiniteSet(T)
        BY <1>3
    <2> HIDE DEF S
    <2> QED BY <1>4, <2>1, FS_UNION
<1>6. Children(f) \in Seq(C) /\ Range(Children(f)) = C
    <2>1. Children(f) = SetToSeq(C)
        BY DEF Children
    <2> HIDE DEF C
    <2> QED BY <1>5, <2>1, SetInSequence
<1>7. ASSUME NEW c \in C PROVE \E n \in N : \E e \in Refs(n) : c = NavFrame(f, n, e)
    BY DEF NavFrames
<1>8. ASSUME NEW n \in N, NEW e \in Refs(n) PROVE NavFrame(f, n, e) \in C
    BY DEF NavFrames
<1>9. ASSUME NEW n \in N, NEW e \in Refs(n)
      PROVE  LET c == NavFrame(f, n, e)
             IN /\ FrameTyped(c) /\ BaseLeadsHome(c) /\ BaseKnown(c)
                /\ c.depth = f.depth + 1 /\ c.entity = e
    BY NavFrameRight
<1> HIDE DEF C
<1>10. ASSUME NEW c \in C
       PROVE  /\ FrameTyped(c) /\ BaseLeadsHome(c) /\ BaseKnown(c) /\ c.depth = f.depth + 1
              /\ \E n \in N : c.entity \in Refs(n)
    <2>1. PICK n \in N : \E e \in Refs(n) : c = NavFrame(f, n, e)
        BY <1>7
    <2>2. PICK e \in Refs(n) : c = NavFrame(f, n, e)
        BY <2>1
    <2> HIDE DEF Refs, N
    <2> QED BY <1>9, <2>2
<1>11. CASE f.depth = MaxDepth
    <2>1. N = {}
        BY <1>11 DEF Expanded
    <2>2. C = {}
        BY <2>1, <1>10
    <2> QED BY <1>6, <1>10, <1>11, <2>2
<1>12. CASE f.depth # MaxDepth
    <2>1. N = NavsOf[Store[x].type] \cap doc.expand
        BY <1>12 DEF Expanded
    <2>2. Below(x, doc.expand) = UNION {Refs(n) : n \in N}
        BY <2>1 DEF Below
    <2> HIDE DEF N, Refs
    <2>3. ASSUME NEW e \in Below(x, doc.expand) PROVE \E c \in C : c.entity = e
        <3>1. PICK n \in N : e \in Refs(n)
            BY <2>2
        <3> QED BY <1>8, <1>9, <3>1
    <2>4. ASSUME NEW c \in C PROVE c.entity \in Below(x, doc.expand)
        BY <1>10, <2>2
    <2>5. {c.entity : c \in C} = Below(x, doc.expand)
        BY <2>3, <2>4
    <2> QED BY <1>6, <1>10, <1>12, <2>5
<1> QED BY <1>11, <1>12

\* An object holds its own entity and what the objects below it hold.
LEMMA HeldIs ==
    ASSUME doc \in Payloads, NEW f, FrameTyped(f), \A n \in Expanded(f) : ~UsesNoSource(f, n)
    PROVE  Held(f) = {f.entity} \cup UNION {Held(c) : c \in Range(Children(f))}
<1> DEFINE x == f.entity
           d == MaxDepth - f.depth
           w == Within(doc.expand)
<1>1. x \in Entities /\ f.depth \in 0 .. MaxDepth /\ d \in 0 .. MaxDepth
    BY BoundsAssumption DEF FrameTyped
<1>2. w[d][x] = {x} \cup IF d = 0 THEN {} ELSE UNION {w[d - 1][c] : c \in Below(x, doc.expand)}
    <2>1. \A y \in Entities : \A k \in 0 .. MaxDepth :
            w[k][y] = {y} \cup IF k = 0 THEN {} ELSE UNION {w[k - 1][c] : c \in Below(y, doc.expand)}
        BY WithinIs
    <2> HIDE DEF d, w
    <2> QED BY <1>1, <2>1
<1>3. Held(f) = w[d][x]
    BY DEF Held
<1>4. CASE d = 0
    <2>1. Range(Children(f)) = {}
        <3>1. f.depth = MaxDepth
            BY <1>1, <1>4, BoundsAssumption
        <3> QED BY <3>1, ChildFrames
    <2> QED BY <1>2, <1>3, <1>4, <2>1
<1>5. CASE d # 0
    <2>1. f.depth # MaxDepth
        BY <1>1, <1>5, BoundsAssumption
    <2>2. {c.entity : c \in Range(Children(f))} = Below(x, doc.expand)
        BY <2>1, ChildFrames
    <2>3. ASSUME NEW c \in Range(Children(f)) PROVE Held(c) = w[d - 1][c.entity]
        <3>1. c.depth = f.depth + 1
            BY ChildFrames
        <3>2. MaxDepth - c.depth = d - 1
            BY <1>1, <3>1, BoundsAssumption
        <3> QED BY <3>2 DEF Held
    <2> HIDE DEF w, d
    <2>4. UNION {Held(c) : c \in Range(Children(f))} = UNION {w[d - 1][e] : e \in Below(x, doc.expand)}
        <3>1. \A c \in Range(Children(f)) : c.entity \in Below(x, doc.expand)
            BY <2>2
        <3>2. \A e \in Below(x, doc.expand) : \E c \in Range(Children(f)) : c.entity = e
            BY <2>2
        <3> QED BY <2>3, <3>1, <3>2
    <2> QED BY <1>2, <1>3, <1>5, <2>4
<1> QED BY <1>4, <1>5

(***************************************************************************)
(* The invariant is inductive.                                             *)
(***************************************************************************)
LEMMA InitIInv == Init => IInv
<1> SUFFICES ASSUME Init PROVE IInv
    OBVIOUS
<1>1. Range(todo) = {} /\ todo \in Seq(Range(todo))
    BY DEF Init, Range
<1>2. read = {} /\ state = "idle" /\ doc = None
    BY DEF Init
<1> QED BY <1>1, <1>2 DEF Init, IInv, DocInv, TodoInv, ReadInv, SentInv, OnlyUnboundContextsCrash

\* Annotations name the type of an entity where it is not the declared one.
LEMMA OwnType ==
    ASSUME NEW e \in Entities, NEW declared
    PROVE  /\ ActualType(declared, TypeAnnotation(e, declared)) = Store[e].type
           /\ TypeAnnotation(e, declared) \in {None, Store[e].type}
<1>1. Store[e].type \in Types /\ Store[e].type # None
    BY StoreAssumption, TypesAssumption
<1>2. CASE doc.types \/ Store[e].type # declared
    BY <1>1, <1>2 DEF ActualType, TypeAnnotation
<1>3. CASE ~(doc.types \/ Store[e].type # declared)
    BY <1>1, <1>3 DEF ActualType, TypeAnnotation
<1> QED BY <1>2, <1>3

\* The link of an object whose base leads home addresses its entity; and one
\* with a base has a link.
LEMMA LinkAddresses ==
    ASSUME doc \in Payloads, NEW f, FrameTyped(f), BaseLeadsHome(f), ~Throws(f),
           NEW actual, NEW annotation \in {None, Store[f.entity].type}
    PROVE  /\ doc.select # "path" =>
                 \/ LinkOf(f, actual, annotation) = None
                 \/ OfSingleton(f)
                 \/ Addresses(LinkOf(f, actual, annotation), f.entity)
           /\ LinkOf(f, actual, annotation) = None => f.base = None
<1> DEFINE e == f.entity
           link == LinkOf(f, actual, annotation)
<1>1. e \in Entities /\ f.base \in Urls \cup {None} /\ None \notin Urls
    BY UrlsAssumption DEF FrameTyped, Urls
<1>2. Owner(e) \in Urls /\ Store[e].type \in Types
    BY <1>1, Owners, StoreAssumption
<1>3. CASE doc.links
    BY <1>1, <1>2, <1>3 DEF LinkOf, Addresses
<1>4. CASE ~doc.links /\ f.base = None
    BY <1>4 DEF LinkOf
<1>5. CASE ~doc.links /\ f.base # None
    <2> DEFINE key == KeyString(e)
               plain == IF f.keyed THEN AppendKey(f.base, key) ELSE f.base
    <2>1. link = IF f.expected # actual /\ annotation # None THEN Append(plain, Bare(annotation)) ELSE plain
        BY <1>5 DEF LinkOf, ComputedLink
    <2>2. f.base \in Urls
        BY <1>1, <1>5
    <2>3. f.keyed => key \in Keys /\ key = Store[e].key /\ key # None
        <3>1. doc.keys
            BY <1>5, PayloadsAre
        <3>2. f.keyed => Store[e].key # None
            BY <1>5 DEF Throws
        <3>3. Store[e].key \in Keys \cup {None}
            BY <1>1, StoreAssumption
        <3> QED BY <3>1, <3>2, <3>3 DEF KeyString
    <2>4. plain \in Urls
        <3>1. CASE f.keyed /\ Last(f.base).args = "bare"
            BY <2>2, <2>3, <3>1, WithArgsIs DEF AppendKey, Args
        <3>2. CASE f.keyed /\ Last(f.base).args # "bare"
            <4>1. Seg("", key) \in Segments
                BY <2>3, <3>2 DEF Seg, Segments
            <4>2. plain = Append(f.base, Seg("", key))
                BY <3>2 DEF AppendKey
            <4> HIDE DEF plain, key
            <4> QED BY <2>2, <4>1, <4>2, LongerUrl
        <3>3. CASE ~f.keyed
            BY <2>2, <3>3
        <3> QED BY <3>1, <3>2, <3>3
    <2>5. link # None
        <3>1. annotation # None => Bare(annotation) \in Segments
            BY <1>2 DEF Bare, Seg, Segments, Selects
        <3>2. annotation # None => Append(plain, Bare(annotation)) \in Urls
            <4> HIDE DEF plain
            <4> QED BY <2>4, <3>1, LongerUrl
        <3> HIDE DEF plain, link
        <3> QED BY <1>1, <2>1, <2>4, <3>2
    <2>6. ASSUME doc.select # "path", ~OfSingleton(f) PROVE Addresses(link, e)
        <3>1. IF f.keyed THEN f.base = Collection(Owner(e)) /\ Last(Owner(e)).args # "bare"
              ELSE f.base = Owner(e)
            BY <1>5, <2>6 DEF BaseLeadsHome
        <3>2. plain = Owner(e)
            <4>1. CASE f.keyed
                <5>1. f.base = Collection(Owner(e)) /\ Last(f.base).args = "bare" /\ "bare" \in Args
                    BY <1>1, <3>1, <4>1, Owners DEF Bare, Seg
                <5>2. key = Last(Owner(e)).args /\ key \in Args
                    BY <1>1, <2>3, <3>1, <4>1, StoreAssumption DEF Args
                <5>3. plain = WithArgs(WithArgs(Owner(e), "bare"), key)
                    BY <4>1, <5>1 DEF AppendKey, Collection
                <5>4. plain = WithArgs(Owner(e), key)
                    BY <1>2, <5>1, <5>2, <5>3, Rebracketed
                <5> QED BY <1>2, <5>2, <5>4, SameBrackets
            <4>2. CASE ~f.keyed
                BY <3>1, <4>2
            <4> QED BY <4>1, <4>2
        <3> HIDE DEF plain
        <3> QED BY <2>1, <3>2 DEF Addresses
    <2> QED BY <1>5, <2>5, <2>6
<1> QED BY <1>3, <1>4, <1>5

\* One object is decoded.
LEMMA ReadEntityIInv == IInv /\ ReadEntity => IInv'
<1> SUFFICES ASSUME IInv, ReadEntity PROVE IInv'
    OBVIOUS
<1> DEFINE f == Head(todo)
           annotation == TypeAnnotation(f.entity, f.declared)
           actual == ActualType(f.declared, annotation)
           r == [entity |-> f.entity, type |-> actual, via |-> f.via, link |-> LinkOf(f, actual, annotation)]
<1>1. state = "reading" /\ todo # <<>> /\ doc' = doc
    BY DEF ReadEntity
<1>2. doc \in Payloads /\ todo \in Seq(Range(todo))
    BY <1>1 DEF IInv, DocInv, TodoInv
<1>3. Range(todo) = {f} \cup Range(Tail(todo)) /\ Tail(todo) \in Seq(Range(todo))
    BY <1>1, <1>2, Ranges
<1>4. FrameTyped(f) /\ BaseLeadsHome(f) /\ BaseKnown(f)
    BY <1>3 DEF IInv, TodoInv
<1>5. f.entity \in Entities
    BY <1>4 DEF FrameTyped
<1>6. ASSUME NEW g PROVE /\ FrameTyped(g)' = FrameTyped(g) /\ BaseLeadsHome(g)' = BaseLeadsHome(g)
                         /\ BaseKnown(g)' = BaseKnown(g) /\ Held(g)' = Held(g)
    BY <1>1 DEF FrameTyped, BaseLeadsHome, BaseKnown, Held, OfSingleton
<1>7. Sent' = Sent
    BY <1>1 DEF Sent
<1>8. CASE \E n \in Expanded(f) : UsesNoSource(f, n)
    <2>1. state' = "crashed" /\ UNCHANGED <<todo, read>>
        BY <1>8 DEF ReadEntity
    <2>2. PICK n \in Expanded(f) : UsesNoSource(f, n)
        BY <1>8
    <2>3. n \in doc.expand /\ ~Navs[n].contained /\ Navs[n].bound = None /\ NavBase(f.entity, n) # None
        BY <2>2 DEF Expanded, UsesNoSource
    <2>4. doc.contexts
        <3>1. HasContext(n)
            BY <2>3 DEF NavBase
        <3> QED BY <2>3, <3>1 DEF HasContext
    <2>5. OnlyUnboundContextsCrash'
        BY <1>1, <2>3, <2>4 DEF OnlyUnboundContextsCrash
    <2>6. DocInv' /\ SentInv'
        BY <1>1, <1>2, <2>1 DEF DocInv, SentInv
    <2>7. TodoInv'
        BY <1>6, <2>1 DEF IInv, TodoInv
    <2>8. ReadInv'
        BY <1>1, <2>1 DEF IInv, ReadInv, OfSingleton
    <2> QED BY <2>5, <2>6, <2>7, <2>8 DEF IInv
<1>9. CASE ~(\E n \in Expanded(f) : UsesNoSource(f, n)) /\ Throws(f)
    <2>1. state' = "failed" /\ UNCHANGED <<todo, read>>
        BY <1>9 DEF ReadEntity
    <2>2. DocInv' /\ SentInv' /\ OnlyUnboundContextsCrash'
        BY <1>1, <1>2, <2>1 DEF DocInv, SentInv, OnlyUnboundContextsCrash
    <2>3. TodoInv'
        BY <1>6, <2>1 DEF IInv, TodoInv
    <2>4. ReadInv'
        BY <1>1, <2>1 DEF IInv, ReadInv, OfSingleton
    <2> QED BY <2>2, <2>3, <2>4 DEF IInv
<1>10. CASE ~(\E n \in Expanded(f) : UsesNoSource(f, n)) /\ ~Throws(f)
    <2>1. /\ read' = read \cup {r}
          /\ todo' = Children(f) \o Tail(todo)
          /\ state' = state
        BY <1>10 DEF ReadEntity
    <2> DEFINE C == Range(Children(f))
               T == Range(Tail(todo))
    <2>2. /\ Children(f) \in Seq(C)
          /\ \A c \in C : FrameTyped(c) /\ BaseLeadsHome(c) /\ BaseKnown(c)
        BY <1>2, <1>4, <1>10, ChildFrames
    <2>3. Tail(todo) \in Seq(T)
        BY <1>3, OwnElements
    <2>4. todo' \in Seq(C \cup T) /\ Range(todo') = C \cup T
        <3>1. Children(f) \in Seq(C \cup T) /\ Tail(todo) \in Seq(C \cup T)
            BY <2>2, <2>3
        <3> DEFINE U == C \cup T
        <3> HIDE DEF U
        <3>2. Children(f) \o Tail(todo) \in Seq(U)
            BY <3>1 DEF U
        <3>3. Range(Children(f) \o Tail(todo)) = C \cup T
            <4>1. Children(f) \in Seq(U) /\ Tail(todo) \in Seq(U)
                BY <3>1 DEF U
            <4>2. \A s, t \in Seq(U) : Range(s \o t) = Range(s) \cup Range(t)
                BY Ranges
            <4> QED BY <4>1, <4>2
        <3> USE DEF U
        <3> QED BY <2>1, <3>2, <3>3
    <2>5. TodoInv'
        <3>1. todo' \in Seq(Range(todo'))
            BY <2>4
        <3>2. ASSUME NEW g \in C \cup T PROVE FrameTyped(g) /\ BaseLeadsHome(g) /\ BaseKnown(g)
            BY <1>3, <2>2 DEF IInv, TodoInv
        <3> HIDE DEF C, T
        <3> QED BY <1>6, <2>4, <3>1, <3>2 DEF TodoInv
    <2>6. ReadInv'
        <3>1. /\ actual = Store[f.entity].type
              /\ annotation \in {None, Store[f.entity].type}
            BY <1>5, OwnType
        <3>2. /\ doc.select # "path" => \/ LinkOf(f, actual, annotation) = None
                                       \/ OfSingleton(f)
                                       \/ Addresses(LinkOf(f, actual, annotation), f.entity)
              /\ LinkOf(f, actual, annotation) = None => f.base = None
            BY <1>2, <1>4, <1>10, <3>1, LinkAddresses
        <3>3. /\ r.type = Store[r.entity].type
              /\ doc.select # "path" => r.link = None \/ OfSingleton(r) \/ Addresses(r.link, r.entity)
              /\ doc.request.shape \in {"collection", "one"} /\ r.link = None =>
                     r.via # None /\ ~Navs[r.via].contained /\ Navs[r.via].bound = None
            <4>1. r.entity = f.entity /\ r.type = actual /\ r.via = f.via /\ r.link = LinkOf(f, actual, annotation)
                OBVIOUS
            <4> HIDE DEF r, actual, annotation
            <4> QED BY <1>4, <3>1, <3>2, <4>1 DEF OfSingleton, BaseKnown
        <3> HIDE DEF r
        <3> QED BY <1>1, <2>1, <3>3 DEF IInv, ReadInv
    <2>7. SentInv'
        <3> SUFFICES ASSUME doc.request.shape # "functions", doc.select # "path"
                     PROVE  Sent = {x.entity : x \in read'} \cup UNION {Held(g) : g \in C \cup T}
            BY <1>1, <1>6, <1>7, <2>1, <2>4 DEF SentInv
        <3>1. Sent = {x.entity : x \in read} \cup UNION {Held(g) : g \in Range(todo)}
            BY <1>1 DEF IInv, SentInv
        <3>2. Held(f) = {f.entity} \cup UNION {Held(c) : c \in C}
            BY <1>2, <1>4, <1>10, HeldIs
        <3>3. UNION {Held(g) : g \in Range(todo)} = Held(f) \cup UNION {Held(g) : g \in T}
            <4> HIDE DEF f, T
            <4> QED BY <1>3 DEF T
        <3>4. {x.entity : x \in read'} = {x.entity : x \in read} \cup {f.entity}
            <4>1. r.entity = f.entity
                OBVIOUS
            <4> HIDE DEF r, f
            <4> QED BY <2>1, <4>1
        <3>5. UNION {Held(g) : g \in C \cup T} = (UNION {Held(c) : c \in C}) \cup (UNION {Held(g) : g \in T})
            <4> HIDE DEF C, T
            <4>1. ASSUME NEW y PROVE (y \in UNION {Held(g) : g \in C \cup T}) <=>
                                     (y \in UNION {Held(c) : c \in C} \/ y \in UNION {Held(g) : g \in T})
                OBVIOUS
            <4> QED BY <4>1
        <3> QED BY <3>1, <3>2, <3>3, <3>4, <3>5
    <2>8. DocInv' /\ OnlyUnboundContextsCrash'
        BY <1>1, <1>2, <2>1 DEF DocInv, OnlyUnboundContextsCrash
    <2> QED BY <2>5, <2>6, <2>7, <2>8 DEF IInv
<1> QED BY <1>8, <1>9, <1>10

\* What was sent is what stands within the entities of the request.
LEMMA SentAtStart ==
    ASSUME doc \in Payloads, doc.request.shape # "functions", doc.select # "path"
    PROVE  Sent = UNION {Held(f) : f \in Range(Frames)}
<1>1. {f.entity : f \in Range(Frames)} = doc.request.entities
    BY StartFrames
<1>2. ASSUME NEW f \in Range(Frames) PROVE Held(f) = Within(doc.expand)[MaxDepth][f.entity]
    <2>1. f.depth = 0
        BY StartFrames
    <2>2. MaxDepth - f.depth = MaxDepth
        BY <2>1, BoundsAssumption
    <2> QED BY <2>2 DEF Held
<1>3. Sent = UNION {Within(doc.expand)[MaxDepth][e] : e \in doc.request.entities}
    BY DEF Sent
<1> DEFINE w(e) == Within(doc.expand)[MaxDepth][e]
<1> HIDE DEF w
<1>4. \A f \in Range(Frames) : Held(f) = w(f.entity) /\ f.entity \in doc.request.entities
    BY <1>1, <1>2 DEF w
<1>5. \A e \in doc.request.entities : \E f \in Range(Frames) : f.entity = e
    BY <1>1
<1>6. Sent = UNION {w(e) : e \in doc.request.entities}
    BY <1>3 DEF w
<1> QED BY <1>4, <1>5, <1>6

LEMMA NextIInv == IInv /\ [Next]_vars => IInv'
<1> SUFFICES ASSUME IInv, [Next]_vars PROVE IInv'
    OBVIOUS
<1>1. CASE Receive
    <2>1. /\ state = "idle" /\ doc' \in Payloads /\ state' = "header"
          /\ UNCHANGED <<todo, read>>
        BY <1>1 DEF Receive
    <2>2. todo = <<>> /\ read = {} /\ Range(<<>>) = {}
        BY <2>1 DEF IInv, DocInv, Range
    <2>3. todo' \in Seq(Range(todo')) /\ Range(todo') = {} /\ read' = {}
        BY <2>1, <2>2
    <2> QED BY <2>1, <2>2, <2>3
            DEF IInv, DocInv, TodoInv, ReadInv, SentInv, OnlyUnboundContextsCrash
<1>2. CASE ReadHeader
    <2>1. /\ state = "header" /\ todo' = Frames /\ state' = "reading"
          /\ UNCHANGED <<doc, read>>
        BY <1>2 DEF ReadHeader
    <2>2. doc \in Payloads /\ read = {}
        BY <2>1 DEF IInv, DocInv
    <2>3. /\ Frames \in Seq(Range(Frames))
          /\ \A f \in Range(Frames) : FrameTyped(f) /\ BaseLeadsHome(f) /\ BaseKnown(f)
        BY <2>2, StartFrames
    <2>4. ASSUME NEW f PROVE /\ FrameTyped(f)' = FrameTyped(f) /\ BaseLeadsHome(f)' = BaseLeadsHome(f)
                             /\ BaseKnown(f)' = BaseKnown(f) /\ Held(f)' = Held(f)
        BY <2>1 DEF FrameTyped, BaseLeadsHome, BaseKnown, Held, OfSingleton
    <2>5. TodoInv'
        BY <2>1, <2>3, <2>4 DEF TodoInv
    <2>6. SentInv'
        <3> SUFFICES ASSUME doc.request.shape # "functions", doc.select # "path"
                     PROVE  Sent = {r.entity : r \in read} \cup UNION {Held(f) : f \in Range(Frames)}
            BY <2>1, <2>4 DEF SentInv, Sent
        <3>1. Sent = UNION {Held(f) : f \in Range(Frames)}
            BY <2>2, SentAtStart
        <3> QED BY <2>2, <3>1
    <2> QED BY <2>1, <2>2, <2>5, <2>6 DEF IInv, DocInv, ReadInv, OnlyUnboundContextsCrash
<1>3. CASE ReadEntity
    BY <1>3, ReadEntityIInv
<1>4. CASE Finish
    <2>1. /\ state = "reading" /\ todo = <<>> /\ state' = "done"
          /\ UNCHANGED <<doc, todo, read>>
        BY <1>4 DEF Finish
    <2>2. ASSUME NEW f PROVE /\ FrameTyped(f)' = FrameTyped(f) /\ BaseLeadsHome(f)' = BaseLeadsHome(f)
                             /\ BaseKnown(f)' = BaseKnown(f) /\ Held(f)' = Held(f)
        BY <2>1 DEF FrameTyped, BaseLeadsHome, BaseKnown, Held, OfSingleton
    <2>3. TodoInv'
        BY <2>1, <2>2 DEF IInv, TodoInv
    <2>4. SentInv'
        <3>1. doc' = doc /\ todo' = todo /\ read' = read /\ Sent' = Sent
            BY <2>1 DEF Sent
        <3>2. (UNION {Held(f) : f \in Range(todo)})' = UNION {Held(f) : f \in Range(todo)}
            BY <2>2, <3>1
        <3> QED BY <2>1, <3>1, <3>2 DEF IInv, SentInv
    <2>5. ReadInv'
        BY <2>1 DEF IInv, ReadInv, OfSingleton
    <2> QED BY <2>1, <2>3, <2>4, <2>5 DEF IInv, DocInv, OnlyUnboundContextsCrash
<1>5. CASE UNCHANGED vars
    <2>1. ASSUME NEW f PROVE /\ FrameTyped(f)' = FrameTyped(f) /\ BaseLeadsHome(f)' = BaseLeadsHome(f)
                             /\ BaseKnown(f)' = BaseKnown(f) /\ Held(f)' = Held(f)
        BY <1>5 DEF vars, FrameTyped, BaseLeadsHome, BaseKnown, Held, OfSingleton
    <2>2. TodoInv'
        BY <1>5, <2>1 DEF vars, IInv, TodoInv
    <2>3. SentInv'
        <3>1. UNCHANGED <<doc, state, todo, read>> /\ Sent' = Sent
            BY <1>5 DEF vars, Sent
        <3>2. (UNION {Held(f) : f \in Range(todo)})' = UNION {Held(f) : f \in Range(todo)}
            BY <2>1, <3>1
        <3> QED BY <3>1, <3>2 DEF IInv, SentInv
    <2>4. ReadInv'
        BY <1>5 DEF vars, IInv, ReadInv, OfSingleton
    <2> QED BY <1>5, <2>2, <2>3, <2>4 DEF vars, IInv, DocInv, OnlyUnboundContextsCrash
<1> QED BY <1>1, <1>2, <1>3, <1>4, <1>5 DEF Next, Terminated

\* The inductive invariant, and with it the type of what is to be decoded.
THEOREM Invariant == Spec => []IInv
<1> QED BY InitIInv, NextIInv, PTL DEF Spec

(***************************************************************************)
(* What follows.                                                           *)
(***************************************************************************)
\* For any model, store, request, expansions and metadata level, every link
\* an entity is given leads to it: set_edit_link_for_entity_value.
THEOREM LinksDoLeadHome == Spec => []LinksLeadHome
<1>1. IInv => LinksLeadHome
    BY DEF IInv, ReadInv, LinksLeadHome
<1> QED BY <1>1, Invariant, PTL

\* An entity is read with its own type, and when the read ends every entity of
\* the payload has been read: handle_extract_entity_property, at any depth.
THEOREM EverythingSentIsRead == Spec => []ReadIsWhatWasSent
<1>1. ASSUME IInv PROVE ReadIsWhatWasSent
    <2>1. \A r \in read : r.type = Store[r.entity].type
        BY <1>1 DEF IInv, ReadInv
    <2>2. ASSUME state = "done", doc.request.shape # "functions", doc.select # "path"
          PROVE  Sent = {r.entity : r \in read}
        <3>1. todo = <<>> /\ Range(<<>>) = {}
            BY <1>1, <2>2 DEF IInv, DocInv, Range
        <3>2. Sent = {r.entity : r \in read} \cup UNION {Held(f) : f \in Range(todo)}
            BY <1>1, <2>2 DEF IInv, SentInv
        <3> QED BY <3>1, <3>2
    <2> QED BY <2>1, <2>2 DEF ReadIsWhatWasSent
<1> QED BY <1>1, Invariant, PTL

\* What was read from a set, a singleton or a navigation property has a link,
\* unless it came with a property that is neither contained nor bound.
THEOREM WhatIsReadIsEditable == Spec => []ReadIsEditable
<1>1. IInv => ReadIsEditable
    BY DEF IInv, ReadInv, ReadIsEditable
<1> QED BY <1>1, Invariant, PTL

\* The reader goes down only on the context of a property without a binding.
THEOREM OtherPayloadsAreSafe == Spec => []OnlyUnboundContextsCrash
<1>1. IInv => OnlyUnboundContextsCrash
    BY DEF IInv
<1> QED BY <1>1, Invariant, PTL
================================================================================
