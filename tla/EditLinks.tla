------------------------------ MODULE EditLinks ------------------------------
(***************************************************************************)
(* The edit links the JSON reader gives the entities it reads              *)
(* (src/core/odata_json_reader.cpp, odata_context_url_parser.cpp,          *)
(* odata_entity_value.cpp).                                                *)
(*                                                                         *)
(* A service that sends minimal metadata leaves @odata.editLink out, and   *)
(* the client works the link out from the context URL, the keys, the       *)
(* containment of navigation properties and the bindings of the model.     *)
(* Later every update and delete goes to that link.                        *)
(*                                                                         *)
(* A URL below the service root is a sequence of segments; a segment has a *)
(* name and what stands in its brackets.  The store of the service, its    *)
(* metadata and the payloads it may send are the environment.              *)
(***************************************************************************)
EXTENDS Naturals, Sequences, FiniteSets, SequencesExt

CONSTANTS
    Types,        \* entity types, by their qualified names
    Base,         \* type -> its base type, or None
    Declared,     \* type -> the navigation properties it declares
    Navs,         \* navigation property -> [to, many, contained, bound]
    Sets,         \* entity set -> its type
    Singletons,   \* singleton -> its type
    Keys,         \* key strings
    Store,        \* entity -> [type, at, key, refs]; a key that is not
                  \* primitive is None
    MaxDepth,     \* how deep expansions nest
    MaxExpand,    \* how many navigation properties a request expands
    None

ASSUME TypesAssumption == /\ Base \in [Types -> Types \cup {None}]
                          /\ Declared \in [Types -> SUBSET DOMAIN Navs]
                          /\ None \notin Types
                          /\ DOMAIN Sets \cap DOMAIN Singletons = {}

\* A qualified name has a dot, the name of a property, a set or a singleton
\* has none.
ASSUME NamesAssumption ==
    /\ Types \cap (DOMAIN Sets \cup DOMAIN Singletons \cup DOMAIN Navs) = {}
    /\ "Collection" \notin Types \cup DOMAIN Sets \cup DOMAIN Singletons \cup DOMAIN Navs

ASSUME NavsAssumption ==
    /\ IsFiniteSet(DOMAIN Navs) /\ None \notin DOMAIN Navs
    /\ \A n \in DOMAIN Navs :
          /\ {Navs[n].many, Navs[n].contained} \subseteq BOOLEAN
          /\ Navs[n].bound \in {None} \cup DOMAIN Sets \cup DOMAIN Singletons

ASSUME BoundsAssumption == MaxDepth \in Nat /\ MaxExpand \in Nat

VARIABLES
    doc,     \* the payload being read
    state,   \* "idle", "header", "reading", "done", "failed" or "crashed"
    todo,    \* the JSON objects still to be decoded, the next one first
    read     \* the entities decoded: entity, type, link

vars == <<doc, state, todo, read>>

Entities == DOMAIN Store

(***************************************************************************)
(* URLs.                                                                   *)
(***************************************************************************)
Seg(name, args) == [name |-> name, args |-> args]
Bare(name) == Seg(name, "bare")

\* What may stand in the brackets of a segment of a context URL besides a key.
\* "path" is a select list with a slash in it.
Selects == {"bare", "select", "path"}

\* The segments there are; None is not a URL.
Segments == [name : Types \cup DOMAIN Sets \cup DOMAIN Singletons \cup DOMAIN Navs \cup {"Collection", ""},
             args : Keys \cup Selects \cup Types]
ASSUME UrlsAssumption == None \notin Seq(Segments) /\ Keys \cap Selects = {} /\ None \notin Keys

WithArgs(url, args) == [url EXCEPT ![Len(url)].args = args]

\* The text url followed by the key string of entity e, or by "()".
AppendKey(url, key) ==
    IF Last(url).args = "bare" THEN WithArgs(url, key)
                               ELSE Append(url, Seg("", key))

(***************************************************************************)
(* The types of the model.                                                 *)
(***************************************************************************)
\* edm_structured_type::find_property, for navigation properties: those of
\* the type and of its base types.
NavsOf[t \in Types] == Declared[t] \cup IF Base[t] = None THEN {} ELSE NavsOf[Base[t]]

(***************************************************************************)
(* What the service sends.  A payload answers a request for an entity set, *)
(* one entity, a singleton, a navigation property, a cast of one of them   *)
(* to a derived type, or a function; it expands the navigation properties  *)
(* in "expand" wherever they occur.                                        *)
(***************************************************************************)
Owner(e) == Store[e].at
Collection(url) == WithArgs(url, "bare")

\* A store holds its entities where the model has a place for them: in a set,
\* under its key, in a singleton, or under a containing navigation property,
\* under its key where the property has many.
ASSUME StoreAssumption ==
    /\ IsFiniteSet(Entities)
    /\ \A e \in Entities :
          /\ Store[e].type \in Types
          /\ Store[e].key \in Keys \cup {None}
          /\ Owner(e) \in Seq(Segments) /\ Owner(e) # <<>>
          /\ Last(Owner(e)).args # "bare" => Last(Owner(e)).args \in Keys /\ Store[e].key \in {Last(Owner(e)).args, None}
          /\ IF Len(Owner(e)) = 1
             THEN Last(Owner(e)).name \in IF Last(Owner(e)).args = "bare" THEN DOMAIN Singletons ELSE DOMAIN Sets
             ELSE /\ Last(Owner(e)).name \in DOMAIN Navs
                  /\ Navs[Last(Owner(e)).name].many = (Last(Owner(e)).args # "bare")

\* The type of what a segment of an address names.
TypeAt(name) == IF name \in Types THEN name
                ELSE IF name \in DOMAIN Sets THEN Sets[name]
                ELSE IF name \in DOMAIN Singletons THEN Singletons[name]
                ELSE Navs[name].to

\* An address goes from a set or a singleton through navigation properties of
\* the type before them, or casts.  The parser takes the name of a set for the
\* set wherever it stands, so a containing property has a name of its own.
ASSUME AddressAssumption ==
    \A e \in Entities : \A k \in 1 .. Len(Owner(e)) :
        LET name == Owner(e)[k].name
        IN IF k = 1 THEN name \in DOMAIN Sets \cup DOMAIN Singletons
           ELSE \/ name \in Types
                \/ /\ name \in NavsOf[TypeAt(Owner(e)[k - 1].name)] \cap DOMAIN Navs
                   /\ name \notin DOMAIN Sets \cup DOMAIN Singletons

\* What a navigation property refers to is in one collection: a contained
\* one's under its own name, a bound one's in the set it is bound to.
ASSUME RefsAssumption ==
    \A e \in Entities : \A n \in NavsOf[Store[e].type] :
        LET refs == Store[e].refs[n]
        IN /\ refs \in Seq(Entities)
           /\ \A i \in 1 .. Len(refs) :
                /\ Collection(Owner(refs[i])) = Collection(Owner(refs[1]))
                /\ Navs[n].contained => /\ Len(Owner(refs[i])) > 1
                                        /\ Last(Owner(refs[i])).name = n
                /\ ~Navs[n].contained /\ Navs[n].bound \in DOMAIN Sets =>
                       Collection(Owner(refs[i])) = <<Bare(Navs[n].bound)>>

\* The entities whose address is a member of the collection at url.
Members(url) == {e \in Entities : /\ Len(Owner(e)) = Len(url)
                                  /\ Collection(Owner(e)) = url
                                  /\ Last(Owner(e)).args # "bare"}

Singles == {e \in Entities : Last(Owner(e)).args = "bare"}
Collections == {Collection(Owner(e)) : e \in Entities \ Singles}

\* Requests: the context URL the service sends, without the select list,
\* and the entities it sends.
Requests ==
    {[shape |-> "collection", url |-> c, entities |-> Members(c)] : c \in Collections}
    \cup {[shape |-> "one", url |-> Collection(Owner(e)), entities |-> {e}] : e \in Entities}
    \cup {[shape |-> "cast", url |-> Append(Collection(Owner(e)), Bare(Store[e].type)),
            entities |-> {e}] :
               e \in {e \in Entities : Base[Store[e].type] # None}}
    \cup {[shape |-> "function", url |-> <<Bare(Store[e].type)>>, entities |-> {e}] : e \in Entities}
    \cup {[shape |-> "functions", url |-> <<Seg("Collection", Store[e].type)>>, entities |-> {e}] : e \in Entities}

\* links: the payload carries edit links; types: it names every type, not
\* only derived ones; contexts: it gives the context of every expanded
\* navigation property, not only of contained ones; keys: it carries the
\* keys, which a service that sends no links always does.
Expansions == {x \in SUBSET DOMAIN Navs : Cardinality(x) <= MaxExpand}

Payloads ==
    {d \in [request : Requests, expand : Expansions, select : Selects,
            links : BOOLEAN, types : BOOLEAN, contexts : BOOLEAN, keys : BOOLEAN] :
        d.keys \/ d.links}

\* The context URL: the select list stands in the last segment.
Context == IF doc.request.shape \in {"functions", "function"} THEN doc.request.url
           ELSE WithArgs(doc.request.url, doc.select)

Expanded(f) == IF f.depth = MaxDepth THEN {}
               ELSE NavsOf[Store[f.entity].type] \cap doc.expand

HasContext(n) == Navs[n].contained \/ doc.contexts

\* The type a payload names in the entity it sends where type t is declared.
TypeAnnotation(e, t) == IF doc.types \/ Store[e].type # t THEN Store[e].type ELSE None

\* Where the entities of navigation property n of e are, for the service.
NavUrl(e, n) ==
    LET refs == Store[e].refs[n]
    IN IF refs = <<>> THEN Append(Owner(e), Bare(n)) ELSE Collection(Owner(refs[1]))

(***************************************************************************)
(* odata_contex_url_parser: the type of the payload, segment by segment.   *)
(***************************************************************************)
Nothing == [kind |-> "nothing"]
Entity(t) == [kind |-> "entity", type |-> t]
Navigation(n) == [kind |-> "navigation", nav |-> n]

\* The type whose properties the next segment may name.
RealType(t) == CASE t.kind = "entity" -> {t.type}
                 [] t.kind = "navigation" -> {Navs[t.nav].to}
                 [] OTHER -> {}

\* A mutant: only entity types have properties a segment can name.
ParseSegmentFlat(prev, seg) ==
    IF prev.kind \in {"nothing", "collection"} THEN prev
    ELSE IF seg.name = "Collection" THEN [kind |-> "collection"]
    ELSE IF seg.name \in Types THEN Entity(seg.name)
    ELSE IF seg.name \in DOMAIN Sets THEN Entity(Sets[seg.name])
    ELSE IF seg.name \in DOMAIN Singletons THEN Entity(Singletons[seg.name])
    ELSE IF prev.kind = "entity" /\ seg.name \in Declared[prev.type] THEN Navigation(seg.name)
    ELSE Nothing

ParseSegment(prev, seg) ==
    IF prev.kind \in {"nothing", "collection"} THEN prev
    ELSE IF seg.name = "Collection" THEN [kind |-> "collection"]
    ELSE IF seg.name \in Types THEN Entity(seg.name)
    ELSE IF seg.name \in DOMAIN Sets THEN Entity(Sets[seg.name])
    ELSE IF seg.name \in DOMAIN Singletons THEN Entity(Singletons[seg.name])
    ELSE IF \E t \in RealType(prev) : seg.name \in NavsOf[t] THEN Navigation(seg.name)
    ELSE Nothing

\* A slash in the select list ends the segment there: what follows it names
\* nothing.
ContextType(url) ==
    IF Last(url).args = "path" THEN Nothing
    ELSE LET parsed[k \in 0 .. Len(url)] ==
                IF k = 0 THEN [kind |-> "start"] ELSE ParseSegment(parsed[k - 1], url[k])
         IN parsed[Len(url)]

(***************************************************************************)
(* odata_json_reader: links.                                               *)
(***************************************************************************)
\* A mutant: the brackets stay.
LinkFromContextWhole(url) == url

\* get_edit_link_from_context_url: the last segment loses its brackets,
\* unless the last slash stands within them.
LinkFromContext(url) ==
    IF Last(url).args = "path" THEN url ELSE WithArgs(url, "bare")

\* odata_entity_value::get_entity_key_string
KeyString(e) == IF doc.keys THEN Store[e].key ELSE ""

\* set_edit_link_for_entity_value: expected is the name of the type the
\* context promises, actual the name of the entity's.
ComputedLink(f, actual, annotation) ==
    LET link == IF f.keyed THEN AppendKey(f.base, KeyString(f.entity)) ELSE f.base
    IN IF f.expected # actual /\ annotation # None THEN Append(link, Bare(annotation))
                                                   ELSE link

\* What deserilize and handle_extract_entity_property give an entity object:
\* a link the payload carries stands, and without a base there is none.
LinkOf(f, actual, annotation) ==
    IF doc.links THEN Owner(f.entity)
    ELSE IF f.base = None THEN None
    ELSE ComputedLink(f, actual, annotation)

\* get_entity_key_string throws on a key that is not primitive.
Throws(f) == /\ f.base # None /\ f.keyed /\ ~doc.links
             /\ Store[f.entity].key = None

Frame(e, declared, expected, base, keyed, depth, via) ==
    [entity |-> e, declared |-> declared, expected |-> expected, base |-> base,
     keyed |-> keyed, depth |-> depth, via |-> via]

(***************************************************************************)
(* deserilize, up to its loop.                                             *)
(***************************************************************************)
IsSet(url) == Len(url) = 1 /\ url[1].name \in DOMAIN Sets
IsSingleton(url) == Len(url) = 1 /\ url[1].name \in DOMAIN Singletons

\* A mutant: singletons are forgotten.
KindOfSets(url, type) ==
    IF IsSet(url) THEN "keyed"
    ELSE IF type.kind = "navigation" THEN IF Navs[type.nav].many THEN "keyed" ELSE "plain"
    ELSE "none"

\* entity_kind: how the link of a member follows from the context's link.
Kind(url, type) ==
    IF IsSet(url) THEN "keyed"
    ELSE IF IsSingleton(url) THEN "plain"
    ELSE IF type.kind = "navigation" THEN IF Navs[type.nav].many THEN "keyed" ELSE "plain"
    ELSE "none"

DeclaredType(type) == IF type.kind = "navigation" THEN Navs[type.nav].to ELSE type.type

MemberFrames(type) ==
    LET url == LinkFromContext(Context)
        kind == Kind(url, type)
        declared == DeclaredType(type)
        frame(e) == Frame(e, declared, declared, IF kind = "none" THEN None ELSE url,
                          kind = "keyed", 0, None)
    IN  SetToSeq({frame(e) : e \in doc.request.entities})

\* A payload of a collection of entities that belong to no set, and one
\* whose context means nothing to the parser, are read as empty.
Frames == LET type == ContextType(Context)
          IN IF type.kind \in {"entity", "navigation"} THEN MemberFrames(type) ELSE <<>>

Receive ==
    /\ state = "idle"
    /\ doc' \in Payloads
    /\ state' = "header"
    /\ UNCHANGED <<todo, read>>

ReadHeader ==
    /\ state = "header"
    /\ todo' = Frames
    /\ state' = "reading"
    /\ UNCHANGED <<doc, read>>

(***************************************************************************)
(* handle_extract_entity_property: one entity object, and the objects its  *)
(* expanded navigation properties hold.                                    *)
(***************************************************************************)
\* The link the members of an expanded property start from.
NavBase(e, n) ==
    CASE HasContext(n) -> LinkFromContext(WithArgs(NavUrl(e, n), doc.select))
      [] ~HasContext(n) /\ ~Navs[n].contained /\ Navs[n].bound # None -> <<Bare(Navs[n].bound)>>
      [] OTHER -> None

\* A mutant: the source is used of every property that is not contained.
UsesNoSourceEver(f, n) == ~Navs[n].contained /\ Navs[n].bound = None

\* A property that is not contained and has no binding, given a context:
\* the source is used without a test that there is one.
UsesNoSource(f, n) == /\ NavBase(f.entity, n) # None
                      /\ ~Navs[n].contained
                      /\ Navs[n].bound = None

\* A collection expects its own name of its elements; a single value
\* expects its own type.  A single value's link takes a key unless the
\* property is contained.
NavFrame(f, n, e) ==
    LET declared == Navs[n].to
        expected == IF Navs[n].many THEN "collection" ELSE Store[e].type
        keyed == Navs[n].many \/ ~Navs[n].contained
    IN Frame(e, declared, expected, NavBase(f.entity, n), keyed, f.depth + 1, n)

NavFrames(f, n) == {NavFrame(f, n, e) : e \in Range(Store[f.entity].refs[n])}

\* The properties stand in any order in a JSON object; and links do not depend
\* on the order within a collection.
Children(f) == SetToSeq(UNION {NavFrames(f, n) : n \in Expanded(f)})

ActualType(declared, annotation) == IF annotation # None THEN annotation ELSE declared

ReadEntity ==
    /\ state = "reading" /\ todo # <<>>
    /\ LET f == Head(todo)
           annotation == TypeAnnotation(f.entity, f.declared)
           actual == ActualType(f.declared, annotation)
       IN IF \E n \in Expanded(f) : UsesNoSource(f, n)
          THEN /\ state' = "crashed"
               /\ UNCHANGED <<todo, read>>
          ELSE IF Throws(f)
          THEN /\ state' = "failed"
               /\ UNCHANGED <<todo, read>>
          ELSE /\ read' = read \cup {[entity |-> f.entity, type |-> actual, via |-> f.via,
                                      link |-> LinkOf(f, actual, annotation)]}
               /\ todo' = Children(f) \o Tail(todo)
               /\ UNCHANGED state
    /\ UNCHANGED doc

Finish ==
    /\ state = "reading" /\ todo = <<>>
    /\ state' = "done"
    /\ UNCHANGED <<doc, todo, read>>

Terminated ==
    /\ state \in {"done", "failed", "crashed"}
    /\ UNCHANGED vars

Init ==
    /\ doc = None
    /\ state = "idle"
    /\ todo = <<>>
    /\ read = {}

Next ==
    \/ Receive
    \/ ReadHeader
    \/ ReadEntity
    \/ Finish
    \/ Terminated

Spec == Init /\ [][Next]_vars

(***************************************************************************)
(* Properties.                                                             *)
(***************************************************************************)
\* A link addresses an entity with or without the cast to the entity's type.
Addresses(link, e) == link \in {Owner(e), Append(Owner(e), Bare(Store[e].type))}

\* An entity read as the value of a property that is bound to a singleton.
OfSingleton(r) == /\ r.via # None
                  /\ ~Navs[r.via].contained
                  /\ Navs[r.via].bound \in DOMAIN Singletons

\* Every link an entity is given leads to that entity on the service and to
\* no other, whatever the request, the expansions and the metadata level:
\* the update that follows cannot hit a stranger.  Not claimed of a select
\* list with a slash in it, nor of properties bound to a singleton, of
\* which SingletonsKeepTheirLink speaks.
LinksLeadHome ==
    doc # None /\ doc.select # "path" =>
        \A r \in read : \/ r.link = None
                        \/ OfSingleton(r)
                        \/ Addresses(r.link, r.entity)

\* An entity a singleton holds has the link of the singleton, with no key,
\* also when it is read as the value of an expanded property
\* (tests/e2e/singleton_tests.cpp:92).
SingletonsKeepTheirLink ==
    doc # None /\ doc.select # "path" =>
        \A r \in read : r.link # None /\ r.entity \in Singles => Addresses(r.link, r.entity)

\* What the payload holds directly below entity e.
Below(e, expand) == UNION {Range(Store[e].refs[n]) : n \in NavsOf[Store[e].type] \cap expand}

\* Entity e and what the payload holds below it, d levels deep.
Within(expand) ==
    LET within[d \in 0 .. MaxDepth] ==
            [e \in Entities |-> {e} \cup IF d = 0 THEN {}
                                        ELSE UNION {within[d - 1][c] : c \in Below(e, expand)}]
    IN within

Sent == UNION {Within(doc.expand)[MaxDepth][e] : e \in doc.request.entities}

\* What is read is what was sent: every entity with its own type, derived or
\* not, also where the payload names only types that differ from the declared
\* one; and, when the read ends, every entity at every depth, unless the
\* entities belong to no set (a function that returns a collection of them) or
\* the select list holds a slash.
ReadIsWhatWasSent ==
    /\ \A r \in read : r.type = Store[r.entity].type
    /\ state = "done" /\ doc.request.shape # "functions" /\ doc.select # "path" =>
           Sent = {r.entity : r \in read}

\* Whatever was read from a set, a singleton or a navigation property can be
\* edited: it has a link, and so has what came expanded with it, except the
\* values of properties that are neither contained nor bound.
ReadIsEditable ==
    state = "done" /\ doc.request.shape \in {"collection", "one"} =>
        \A r \in read : r.link = None => /\ r.via # None
                                        /\ ~Navs[r.via].contained
                                        /\ Navs[r.via].bound = None

\* The reader goes down only on a payload that gives the context of an
\* expanded property the model has no binding for: payloads that leave the
\* context of such properties out are safe.
OnlyUnboundContextsCrash ==
    state = "crashed" => /\ doc.contexts
                         /\ \E n \in doc.expand : ~Navs[n].contained /\ Navs[n].bound = None

==============================================================================
