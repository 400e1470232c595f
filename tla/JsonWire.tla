------------------------------ MODULE JsonWire -------------------------------
(***************************************************************************)
(* What becomes of the values of an entity on their way from the service   *)
(* to the application and back (src/core/odata_json_reader.cpp,            *)
(* odata_json_writer.cpp and the two writers of operation parameters).     *)
(*                                                                         *)
(* Clients read an entity, set some of its properties and send the whole   *)
(* value back, at the same time as one another; they also pass values they *)
(* hold as arguments of operations.  The reader keeps the text of a JSON   *)
(* string as it stands between its quotation marks, escapes included, and  *)
(* the writers put text between quotation marks as it is held.             *)
(*                                                                         *)
(* Navigation properties and links are the subject of module EditLinks.    *)
(***************************************************************************)
EXTENDS Naturals, Sequences, FiniteSets, SequencesExt

CONSTANTS
    Clients,
    Properties,   \* structured type -> its properties, the inherited ones
                  \* included -> what they hold, see "Kinds" below
    Entity,       \* the type the context of the payload promises
    Documents,    \* the entities the service may start with
    Texts,        \* property -> the texts the application sets it to
    Settings,     \* property -> the values the application sets it to
    Operations,   \* the operations the service offers: a sequence of
                  \* properties, whose values the application passes
    MaxEdits,     \* properties a client sets between two reads
    MaxUpdates,   \* updates the service applies
    None

VARIABLES
    stored,    \* the entity, as the service holds it
    held,      \* client -> the entity value it holds, or None
    fate,      \* client -> "ok", or what ended it: "unread", "unsent" and
               \* "uncalled" are exceptions of a read, an update and a call
    wire,      \* client -> the update on its way to the service, or None
    call,      \* the operation the service was asked for, or None
    seen,      \* client -> what the service held when the client read it
    edits,     \* client -> the properties set since
    updates    \* updates sent so far

wire_vars == <<stored, held, fate, wire, call, seen, edits, updates>>

(***************************************************************************)
(* Texts.  A special text has a character JSON escapes; "escapes" counts   *)
(* how often it has been escaped.  Other texts have none.                  *)
(***************************************************************************)
Text(name, escapes) == [text |-> name, escapes |-> escapes]
Plain(name) == Text(name, 0)
Special == "special"
Numerals == {"1", "2"}
Infinity == Plain("INF")

(***************************************************************************)
(* A JSON value, and a value the client holds, is a tree: a function from  *)
(* paths to what stands there.  A path is a sequence of the names of       *)
(* members and the numbers of items, and <<>> is the path of the entity.   *)
(***************************************************************************)
\* JSON, as the service holds, sends and receives it.
JNull == [node |-> "null"]
JText(t) == [node |-> "text", content |-> t]
JNumber(t) == [node |-> "number", content |-> t]
JObject == [node |-> "object"]
JArray == [node |-> "array"]
\* The annotation that names a type; a leading # marks it as a name.
JType(type, marked) == [node |-> "type", type |-> type, marked |-> marked]
\* Text that web::json::value::parse refuses.
Malformed == [node |-> "malformed"]

\* What the client holds.  A value has the kind of its type.
Null == [node |-> "null", kind |-> "none"]
Primitive(kind, t) == [node |-> "primitive", kind |-> kind, text |-> t]
Complex(kind) == [node |-> "object", kind |-> kind]
Collection == [node |-> "array", kind |-> "collection"]
TypeName(type, marked) == [node |-> "type", kind |-> "annotation", type |-> type, marked |-> marked]

Parses(tree) == \A p \in DOMAIN tree : tree[p] # Malformed

IsItem(tree, p) == p # <<>> /\ tree[Front(p)].node = "array"

\* An object or an array with nothing in it.
IsBare(tree, p) == \A q \in DOMAIN tree : q # <<>> => Front(q) # p

\* What stands at some members of the entity, and below them.
Within(tree, names) == {p \in DOMAIN tree : p # <<>> /\ p[1] \in names}

\* The tree with another part at the member n.
Put(tree, n, part) ==
    [p \in (DOMAIN tree \ Within(tree, {n})) \cup DOMAIN part |->
        IF p \in DOMAIN part THEN part[p] ELSE tree[p]]

(***************************************************************************)
(* Kinds of properties.  "unknown" is the kind of the primitive types the  *)
(* client does not know, and "unread" of what it does not look at.         *)
(***************************************************************************)
Scalar(kind) == [kind |-> kind]
ComplexOf(type) == [kind |-> "complex", type |-> type]
CollectionOf(of) == [kind |-> "collection", of |-> of]

\* The type of the object at p.
ActualType(declared, tree, p) ==
    LET named == Append(p, "@type")
    IN IF named \in DOMAIN tree /\ tree[named].type \in DOMAIN Properties
       THEN tree[named].type ELSE declared

\* What a step below p holds, if p is of the kind k.
Inner(k, tree, p, step) ==
    IF k.kind = "complex" /\ tree[p].node = "object"
    THEN LET properties == Properties[ActualType(k.type, tree, p)]
         IN CASE step = "@type" -> Scalar("annotation")
              [] step # "@type" /\ step \in DOMAIN properties -> properties[step]
              [] OTHER -> Scalar("unread")
    ELSE IF k.kind = "collection" /\ tree[p].node = "array" THEN k.of
    ELSE Scalar("unread")

\* path -> what its type says it holds
Kinds(tree) ==
    LET kind[p \in DOMAIN tree] ==
            IF p = <<>> THEN ComplexOf(Entity) ELSE Inner(kind[Front(p)], tree, Front(p), Last(p))
    IN kind

(***************************************************************************)
(* odata_json_reader                                                       *)
(***************************************************************************)
\* A mutant: the decoded text is kept.
StrippedDecoded(j) == IF j = JNull THEN Plain("null") ELSE j.content

\* strip_string(value.serialize())
Stripped(j) ==
    CASE j.node = "null" -> Plain("null")
      [] j.node = "text" /\ j.content.text = Special -> Text(Special, j.content.escapes + 1)
      [] OTHER -> j.content

\* The JSON decides what a member becomes, the type only of what kind it is.
ReadMember(k, j) ==
    IF k.kind = "annotation" THEN TypeName(j.type, TRUE)
    ELSE CASE j.node = "null" -> Null
           [] j.node = "array" -> IF k.kind = "collection" THEN Collection ELSE Null
           [] j.node = "object" -> Complex(k.kind)
           [] OTHER -> Primitive(k.kind, Stripped(j))

\* handle_extract_collection_property
ReadElement(k, j) == IF k.kind = "complex" THEN Complex("complex") ELSE Primitive(k.kind, Stripped(j))

\* handle_extract_complex_property, and handle_extract_entity_property: the
\* members that are properties of the type, and its name.
ReadEntity(tree) ==
    LET kind == Kinds(tree)
    IN [p \in {p \in DOMAIN tree : kind[p].kind # "unread"} |->
           IF IsItem(tree, p) THEN ReadElement(kind[p], tree[p]) ELSE ReadMember(kind[p], tree[p])]

\* handle_extract_collection_property throws on elements of no known kind.
CannotRead(tree) == \E p \in DOMAIN tree : IsItem(tree, p) /\ Kinds(tree)[p].kind = "unknown"

(***************************************************************************)
(* odata_json_writer, and the payload writer of operation parameters.      *)
(***************************************************************************)
\* A mutant: no annotation is written.
SerializableValue(kind) == kind \notin {"unknown", "annotation"}

\* is_type_serializable
Serializable(kind) == kind # "unknown"

\* What the parser makes of held text between quotation marks.
Quoted(t) == CASE t.text # Special -> JText(t)
               [] t.text = Special /\ t.escapes > 0 -> JText(Text(Special, t.escapes - 1))
               [] OTHER -> Malformed

\* What it makes of held text that stands alone.
Literal(t) == CASE t.text \in Numerals -> JNumber(t)
                [] t.text = "null" -> JNull
                [] OTHER -> Malformed

\* A mutant: only the types of the properties themselves are given their #.
MarkedAtTop(v) == [p \in DOMAIN v |-> IF v[p].node = "type" /\ Len(p) = 1 THEN TypeName(v[p].type, TRUE) ELSE v[p]]

\* odata_json_writer gives the types of structured values their #, and leaves
\* it in the values it writes; the payload writer does not.
Marked(v) == [p \in DOMAIN v |-> IF v[p].node = "type" THEN TypeName(v[p].type, TRUE) ELSE v[p]]

\* All the elements of a collection are written as the kind of the first.
WrittenAs(v, p) == IF IsItem(v, p) THEN v[Append(Front(p), 1)].kind ELSE v[p].kind

\* handle_serialize_odata_value, handle_serialize_primitive_value,
\* handle_serialize_enum_value and handle_serialize_collection_value
WriteNode(v, p) ==
    LET kind == WrittenAs(v, p)
    IN CASE v[p] = Null -> JNull
         [] kind = "annotation" -> JType(v[p].type, v[p].marked)
         [] kind \in {"string", "enum"} -> Quoted(v[p].text)
         [] kind = "number" -> Literal(v[p].text)
         [] kind = "complex" -> IF IsBare(v, p) THEN JNull ELSE JObject
         [] kind = "collection" -> JArray

\* handle_serialize_odata_properties: what has a type that can be written.
Written(v) ==
    [p \in {p \in DOMAIN v : \A q \in Prefixes(p) : Serializable(WrittenAs(v, q))} |->
        WriteNode(v, p)]

(***************************************************************************)
(* odata_json_operation_url_parameter_writer: no escapes are known, and    *)
(* INF stands for itself.                                                  *)
(***************************************************************************)
InUrl(v) == v.kind \in {"string", "enum", "number"}

UrlValue(v) == IF v.kind = "number" /\ v.text.text \in Numerals THEN JNumber(v.text) ELSE JText(v.text)

(***************************************************************************)
(* The service: an update names what it changes, a replacement what stays. *)
(* A type that is not marked as a name is no type to it.                   *)
(***************************************************************************)
Understood(body) == Restrict(body, {p \in DOMAIN body : body[p].node = "type" => body[p].marked})

SameType(old, new, p) ==
    LET named == Append(p, "@type")
    IN named \in DOMAIN new => named \in DOMAIN old /\ old[named] = new[named]

\* Objects are merged, member by member, with objects of their type; anything
\* else takes the place of what was there.
Merge(old, new) ==
    LET merged(q) == old[q] = JObject /\ new[q] = JObject /\ SameType(old, new, q)
        kept == {p \in DOMAIN old : \A q \in Prefixes(p) \cap DOMAIN new : q = <<>> \/ merged(q)}
    IN [p \in kept \cup DOMAIN new |-> IF p \in DOMAIN new \ {<<>>} THEN new[p] ELSE old[p]]

Replace(old, new) ==
    LET names == {n \in {p[1] : p \in DOMAIN new \ {<<>>}} : <<n>> \in DOMAIN old}
    IN [p \in {p \in DOMAIN old : Len(p) <= 1} \cup Within(new, names) |->
           CASE p \in Within(new, names) -> new[p]
             [] p \in {<<>>, <<"@type">>} \ Within(new, names) -> old[p]
             [] OTHER -> JNull]

Apply(method, old, new) == IF method = "PATCH" THEN Merge(old, new) ELSE Replace(old, new)

(***************************************************************************)
(* What the values that enter the system are like.  Texts have escapes     *)
(* only if they are special; JSON has the shape its type says, but may     *)
(* have members no type knows and null anywhere but for a type; the types  *)
(* it names extend the declared ones and are marked; and what the          *)
(* application sets suits the property it sets.                            *)
(***************************************************************************)
IsText(t) == t = Text(t.text, t.escapes) /\ t.escapes \in Nat /\ (t.text # Special => t.escapes = 0)

IsTree(tree) ==
    /\ <<>> \in DOMAIN tree
    /\ \A p \in DOMAIN tree :
          /\ Len(p) \in Nat /\ p = [i \in 1..Len(p) |-> p[i]]
          /\ p # <<>> => Front(p) \in DOMAIN tree /\ tree[Front(p)].node \in {"object", "array"}
          /\ IsItem(tree, p) => Last(p) \in Nat \ {0} /\ \A i \in 1..Last(p) : Append(Front(p), i) \in DOMAIN tree

Extends(type, base) ==
    \A n \in DOMAIN Properties[base] : n \in DOMAIN Properties[type] /\ Properties[type][n] = Properties[base][n]

\* The types named in a tree extend those the members are declared with.
NamesDerivedTypes(tree) ==
    \A p \in DOMAIN tree : Kinds(tree)[p].kind = "complex" =>
        Extends(ActualType(Kinds(tree)[p].type, tree, p), Kinds(tree)[p].type)

IsJson(j) ==
    CASE j.node = "null" -> j = JNull
      [] j.node = "text" -> j = JText(j.content) /\ IsText(j.content)
      [] j.node = "number" -> j = JNumber(j.content) /\ IsText(j.content)
      [] j.node = "object" -> j = JObject
      [] j.node = "array" -> j = JArray
      [] j.node = "type" -> j = JType(j.type, j.marked)
      [] OTHER -> FALSE

\* JSON of the kind k.
Suits(k, j) ==
    CASE k.kind \in {"string", "enum"} -> j.node \in {"null", "text"}
      [] k.kind = "number" -> j \in {JNull, JText(Infinity)} \cup {JNumber(Plain(n)) : n \in Numerals}
      [] k.kind = "complex" -> j.node \in {"null", "object"}
      [] k.kind = "collection" -> j.node \in {"null", "array"}
      [] k.kind = "annotation" -> j.node = "type" /\ j.marked
      [] k.kind = "unknown" -> j.node # "array"
      [] OTHER -> TRUE

Conforms(tree) ==
    /\ IsTree(tree) /\ NamesDerivedTypes(tree)
    /\ \A p \in DOMAIN tree : IsJson(tree[p]) /\ Suits(Kinds(tree)[p], tree[p])

\* A held value of the kind k.  An enumeration set from a string is a string.
SuitsHeld(k, v) ==
    \/ k.kind = "string" /\ v = Primitive("string", v.text) /\ IsText(v.text)
    \/ k.kind = "enum" /\ v = Primitive(v.kind, v.text) /\ v.kind \in {"string", "enum"} /\ IsText(v.text)
    \/ k.kind = "number" /\ v = Primitive("number", v.text) /\ IsText(v.text)
    \/ k.kind = "complex" /\ v = Complex("complex")
    \/ k.kind = "collection" /\ v = Collection
    \/ k.kind = "annotation" /\ v = TypeName(v.type, v.marked)
    \/ k.kind = "unknown" /\ v.kind = "unknown" /\ v.node \in {"object", "primitive"}

Fits(v) ==
    /\ IsTree(v) /\ NamesDerivedTypes(v)
    /\ \A p \in DOMAIN v :
          \/ v[p] = Null /\ p # <<>> /\ ~IsItem(v, p) /\ Kinds(v)[p].kind \notin {"annotation", "unread"}
          \/ SuitsHeld(Kinds(v)[p], v[p])

PropertyKinds ==
    LET simple == {Scalar(kind) : kind \in {"string", "enum", "number", "unknown"}}
                  \cup {ComplexOf(type) : type \in DOMAIN Properties}
    IN simple \cup {CollectionOf(k) : k \in simple}

ASSUME PropertiesAssumption ==
    /\ Entity \in DOMAIN Properties
    /\ \A type \in DOMAIN Properties : \A n \in DOMAIN Properties[type] :
          n # "@type" /\ Properties[type][n] \in PropertyKinds

ASSUME DocumentsAssumption == \A d \in Documents : Conforms(d) /\ d[<<>>] = JObject

\* The types of entities that have the property n.
TypesWith(n) == {type \in DOMAIN Properties : Extends(type, Entity) /\ n \in DOMAIN Properties[type]}

ASSUME TextsAssumption ==
    \A n \in DOMAIN Texts :
        /\ n # "@type" /\ \A t \in Texts[n] : IsText(t)
        /\ \A type \in TypesWith(n) : Properties[type][n].kind \in {"string", "enum", "number"}

ASSUME SettingsAssumption ==
    \A n \in DOMAIN Settings : \A part \in Settings[n] :
        /\ n # "@type" /\ <<n>> \in DOMAIN part /\ \A p \in DOMAIN part : p # <<>> /\ p[1] = n
        /\ \A type \in TypesWith(n) :
              Fits(Put([p \in {<<>>, <<"@type">>} |->
                            IF p = <<>> THEN Complex("complex") ELSE TypeName(type, TRUE)], n, part))

(***************************************************************************)
(* Actions.                                                                *)
(***************************************************************************)
Running(c) == fate[c] = "ok"

Read(c) ==
    /\ Running(c)
    /\ IF CannotRead(stored)
       THEN /\ fate' = [fate EXCEPT ![c] = "unread"]
            /\ UNCHANGED <<held, seen, edits>>
       ELSE /\ held' = [held EXCEPT ![c] = ReadEntity(stored)]
            /\ seen' = [seen EXCEPT ![c] = stored]
            /\ edits' = [edits EXCEPT ![c] = {}]
            /\ UNCHANGED fate
    /\ UNCHANGED <<stored, wire, call, updates>>

CanSet(c, n) == /\ Running(c) /\ held[c] # None /\ updates < MaxUpdates
                /\ Cardinality(edits[c] \cup {n}) <= MaxEdits
                /\ <<n>> \in DOMAIN held[c]

\* A primitive that is set from a string keeps its type.
TextKind(v) == IF v.node = "primitive" /\ v.kind # "enum" THEN v.kind ELSE "string"

\* odata_structured_value::set_value of a string, which looks for the type of
\* what it replaces, even of null.
SetString(c, n) ==
    /\ CanSet(c, n)
    /\ \E t \in Texts[n] :
          IF held[c][<<n>>] = Null
          THEN /\ fate' = [fate EXCEPT ![c] = "crashed"]
               /\ UNCHANGED <<held, edits>>
          ELSE /\ held' = [held EXCEPT ![c] = Put(@, n, [p \in {<<n>>} |-> Primitive(TextKind(held[c][p]), t)])]
               /\ edits' = [edits EXCEPT ![c] = @ \cup {n}]
               /\ UNCHANGED fate
    /\ UNCHANGED <<stored, wire, call, seen, updates>>

\* odata_structured_value::set_value of a value
SetValue(c, n) ==
    /\ CanSet(c, n)
    /\ \E part \in Settings[n] : held' = [held EXCEPT ![c] = Put(@, n, part)]
    /\ edits' = [edits EXCEPT ![c] = @ \cup {n}]
    /\ UNCHANGED <<stored, fate, wire, call, seen, updates>>

\* odata_client::send_data_to_server of a value: the body is written at once,
\* and serialize throws when what was written does not parse.  The update
\* keeps what was sent, for the properties below.
Update(c, method) ==
    /\ Running(c) /\ held[c] # None /\ wire[c] = None /\ updates < MaxUpdates
    /\ LET sent == Marked(held[c])
           body == Written(sent)
       IN /\ held' = [held EXCEPT ![c] = sent]
          /\ IF Parses(body)
             THEN /\ wire' = [wire EXCEPT ![c] = [method |-> method, body |-> body, sent |-> sent,
                                                 seen |-> seen[c], edits |-> edits[c]]]
                  /\ updates' = updates + 1
                  /\ UNCHANGED fate
             ELSE /\ fate' = [fate EXCEPT ![c] = "unsent"]
                  /\ UNCHANGED <<wire, updates>>
    /\ UNCHANGED <<stored, call, seen, edits>>

\* The service applies an update, perhaps after others that were sent later.
Serve(c) ==
    /\ wire[c] # None
    /\ stored' = Apply(wire[c].method, stored, Understood(wire[c].body))
    /\ wire' = [wire EXCEPT ![c] = None]
    /\ UNCHANGED <<held, fate, call, seen, edits, updates>>

\* A parameter without a value leaves nothing but the comma beside it.
Stray(c, arguments) == Len(arguments) > 1 /\ \E n \in Range(arguments) : held[c][<<n>>] = Null

\* What an operation gets of its arguments.
Sent(c, given, how) ==
    IF how = "payload" THEN LET body == Written(held[c]) IN Restrict(body, Within(body, given))
    ELSE [p \in {<<n>> : n \in given} |-> UrlValue(held[c][p])]

\* odata_client::send_data_to_server of parameters: in the payload of an
\* action, or in the URL of a function, whose service refuses what it cannot
\* parse.  The call keeps what its client had read, for the properties below;
\* one call is enough for them.
Invoke(c, arguments, how) ==
    /\ Running(c) /\ held[c] # None /\ call = None
    /\ \A n \in Range(arguments) : <<n>> \in DOMAIN held[c]
    /\ LET given == {n \in Range(arguments) : held[c][<<n>>] # Null}
           writable == \A n \in given : IF how = "payload" THEN Serializable(held[c][<<n>>].kind)
                                                           ELSE InUrl(held[c][<<n>>])
           parses == how = "payload" => ~Stray(c, arguments) /\ Parses(Sent(c, given, how))
       IN IF writable /\ parses
          THEN /\ call' = [how |-> how, got |-> IF Stray(c, arguments) THEN None ELSE Sent(c, given, how),
                           arguments |-> Range(arguments), read |-> seen[c],
                           edited |-> Range(arguments) \cap edits[c] # {}]
               /\ UNCHANGED fate
          ELSE /\ fate' = [fate EXCEPT ![c] = "uncalled"]
               /\ UNCHANGED call
    /\ UNCHANGED <<stored, held, wire, seen, edits, updates>>

WireInit ==
    /\ stored \in Documents
    /\ held = [c \in Clients |-> None]
    /\ fate = [c \in Clients |-> "ok"]
    /\ wire = [c \in Clients |-> None]
    /\ call = None
    /\ seen = [c \in Clients |-> None]
    /\ edits = [c \in Clients |-> {}]
    /\ updates = 0

WireNext == \E c \in Clients :
    \/ Read(c)
    \/ \E n \in DOMAIN Texts : SetString(c, n)
    \/ \E n \in DOMAIN Settings : SetValue(c, n)
    \/ \E method \in {"PATCH", "PUT"} : Update(c, method)
    \/ Serve(c)
    \/ \E arguments \in Operations, how \in {"payload", "url"} : Invoke(c, arguments, how)

WireSpec == WireInit /\ [][WireNext]_wire_vars

(***************************************************************************)
(* Properties.                                                             *)
(***************************************************************************)
\* What a client cannot send back as it was: what its type does not know, or
\* has a primitive type the client does not know; a null among the items of a
\* collection, which is read as a text or an object; and an object of nothing
\* that is read, which is written as null.  So is all that is below.
Lost(tree, p) ==
    LET kind == Kinds(tree)
    IN \E q \in Prefixes(p) :
             \/ kind[q].kind \in {"unread", "unknown"}
             \/ IsItem(tree, q) /\ tree[q] = JNull
             \/ tree[q] = JObject /\ \A x \in DOMAIN tree : x # <<>> /\ Front(x) = q => kind[x].kind = "unread"

\* The arguments of an operation the service runs are what the client read,
\* where it has set nothing since and no argument is null or of a type it does
\* not know.  In a URL texts with escapes arrive with one more.
ArgumentsArrive ==
    (/\ call # None /\ ~call.edited
     /\ \A n \in call.arguments : call.read[<<n>>] # JNull /\ Kinds(call.read)[<<n>>].kind # "unknown")
    => /\ DOMAIN call.got \subseteq Within(call.read, call.arguments)
       /\ \A p \in Within(call.read, call.arguments) :
             \/ Lost(call.read, p)
             \/ p \in DOMAIN call.got /\ call.got[p] = call.read[p]
             \/ call.how = "url" /\ call.read[p].node = "text" /\ call.read[p].content.text = Special

\* A client whose entity is as it was read can send it back: what the service
\* sent is never refused by the client's own writer, unless a number in it is
\* infinite.
ReadCanBeWritten ==
    \A c \in Clients : fate[c] = "unsent" /\ edits[c] = {} => JText(Infinity) \in Range(seen[c])

\* What a client holds at p and what it reads back agree.  What has a type it
\* does not know is not written; a complex value the application has set no
\* property of, and a number it has set to the text null, are written as null;
\* an enumeration that was set from a string is read as one.
Agree(v, read, p) ==
    \/ \E q \in Prefixes(p) : v[q].kind = "unknown"
    \/ v[p].node = "object" /\ IsBare(v, p)
    \/ v[p] = Primitive("number", Plain("null"))
    \/ /\ p \in DOMAIN read
       /\ \/ read[p] = v[p]
          \/ v[p].node = "primitive" /\ read[p] = Primitive("enum", v[p].text)
       /\ v[p].node = "array" => \A q \in DOMAIN read \ {<<>>} : Front(q) = p => q \in DOMAIN v

\* An update the service has applied reads back as the client that sent it
\* held it, texts with escapes and derived types included.
WrittenReadsBack ==
    [][\A c \in Clients : Serve(c) =>
          \A p \in DOMAIN wire[c].sent : Agree(wire[c].sent, ReadEntity(stored'), p)]_wire_vars

\* The part of new that stands at p is the part of old that does.
Same(new, old, p) ==
    \A q \in DOMAIN new \cup DOMAIN old :
        p \in Prefixes(q) => q \in DOMAIN new \cap DOMAIN old /\ new[q] = old[q]

\* An update leaves every part its client has not set, down to the types of
\* nested values, as the service holds it or as the client read it, and loses
\* nothing that both have: sending back what was read changes nothing, though
\* it may undo what others did since.  Not claimed of what a client cannot send
\* back as it was; what it does not know stays unless the entity is replaced.
UneditedStays ==
    [][\A c \in Clients : Serve(c) =>
          LET read == wire[c].seen
              unedited(p) == p # <<>> /\ p[1] \notin wire[c].edits
              exempt(p) == /\ \E q \in DOMAIN read : p \in Prefixes(q) /\ Lost(read, q)
                           /\ wire[c].method = "PATCH" => Kinds(read)[p].kind \notin {"unread", "unknown"}
          IN /\ \A p \in DOMAIN stored' : unedited(p) =>
                   \/ Same(stored', stored, p)
                   \/ Same(stored', read, p)
                   \/ p \in DOMAIN stored \cap DOMAIN read /\ {stored'[p], stored[p], read[p]} = {JObject}
                   \/ p \in DOMAIN read /\ exempt(p)
             /\ \A p \in DOMAIN stored \cap DOMAIN read : unedited(p) =>
                   p \in DOMAIN stored' \/ Lost(read, p)]_wire_vars

==============================================================================
