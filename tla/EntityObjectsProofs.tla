------------------------- MODULE EntityObjectsProofs --------------------------
(***************************************************************************)
(* What the code generator makes of a model, for every model and every     *)
(* order of its hash maps: which classes it writes, and that the files of  *)
(* a model it supports compile.  And what the programs made with it hold,  *)
(* whatever the service has and in whatever order answers are handled: of  *)
(* which types their objects are, and when their links are current.        *)
(***************************************************************************)
EXTENDS EntityObjects, FiniteSetTheorems, SequenceTheorems, TLAPS

\* The base of a type is in a list, or it needs none: what lets initialize_class_info
\* list the type.
BaseIn(m, v, t) ==
    \/ m.base[t] = NoType
    \/ m.base[t] \in Listed(v) /\ m.schema[m.base[t]] = m.schema[t]

\* A list has types of the schemas of S, each once, after its base.
OneEach(v) == \A i, j \in DOMAIN v : v[i] = v[j] => i = j
BasesFirst(m, v) ==
    \A i \in DOMAIN v : m.base[v[i]] # NoType =>
        \E j \in DOMAIN v : j < i /\ v[j] = m.base[v[i]]
Sound(m, v, S) ==
    /\ v \in Seq(m.types)
    /\ OneEach(v)
    /\ BasesFirst(m, v)
    /\ \A t \in Listed(v) : m.schema[t] \in S /\ BaseIn(m, v, t)

\* It has all that can be in it.
Closed(m, v, S) == \A t \in m.types : m.schema[t] \in S /\ BaseIn(m, v, t) => t \in Listed(v)

\* A model the tool is given is one the assumption is about.
LEMMA ModelFacts ==
    ASSUME model \in DOMAIN Models
    PROVE  WellFormed(Model)
BY ModelsAssumption DEF Model

\* An empty list is that of no schema.
LEMMA NothingListed ==
    ASSUME NEW m
    PROVE  Sound(m, <<>>, {}) /\ Closed(m, <<>>, {})
BY DEF Sound, Closed, OneEach, BasesFirst, Listed

\* It is a list for any schema to begin with.
LEMMA NothingListedYet ==
    ASSUME NEW m, NEW S
    PROVE  Sound(m, <<>>, S)
BY DEF Sound, OneEach, BasesFirst, Listed

\* A type whose base is listed can be listed next.
LEMMA OneMore ==
    ASSUME NEW m, NEW S, NEW v, Sound(m, v, S),
           NEW t \in m.types \ Listed(v), m.schema[t] \in S, BaseIn(m, v, t)
    PROVE  Sound(m, Append(v, t), S)
<1> DEFINE w == Append(v, t)
<1>1. v \in Seq(m.types) /\ w \in Seq(m.types)
  BY DEF Sound
<1>2. /\ DOMAIN v = 1 .. Len(v) /\ DOMAIN w = 1 .. (Len(v) + 1) /\ Len(v) \in Nat
      /\ \A i \in DOMAIN v : w[i] = v[i]
      /\ w[Len(v) + 1] = t
  BY <1>1
<1> HIDE DEF w
<1>3. Listed(w) = Listed(v) \cup {t}
  BY <1>2 DEF Listed
<1>4. OneEach(w)
  <2> SUFFICES ASSUME NEW i \in DOMAIN w, NEW j \in DOMAIN w, w[i] = w[j] PROVE i = j
    BY DEF OneEach
  <2>1. \A k \in DOMAIN v : v[k] # t
    BY DEF Listed
  <2>2. CASE i \in DOMAIN v /\ j \in DOMAIN v
    BY <2>2, <1>2 DEF Sound, OneEach
  <2>3. CASE ~(i \in DOMAIN v /\ j \in DOMAIN v)
    BY <2>1, <2>3, <1>2
  <2> QED
    BY <2>2, <2>3
<1>5. BasesFirst(m, w)
  <2> SUFFICES ASSUME NEW i \in DOMAIN w, m.base[w[i]] # NoType
               PROVE  \E j \in DOMAIN w : j < i /\ w[j] = m.base[w[i]]
    BY DEF BasesFirst
  <2>1. CASE i \in DOMAIN v
    <3>1. PICK j \in DOMAIN v : j < i /\ v[j] = m.base[v[i]]
      BY <2>1, <1>2 DEF Sound, BasesFirst
    <3> QED
      BY <3>1, <2>1, <1>2
  <2>2. CASE i = Len(v) + 1
    <3>1. m.base[t] \in Listed(v)
      BY <2>2, <1>2 DEF BaseIn
    <3>2. PICK j \in DOMAIN v : v[j] = m.base[t]
      BY <3>1 DEF Listed
    <3> QED
      BY <3>2, <2>2, <1>2
  <2> QED
    BY <2>1, <2>2, <1>2
<1>6. \A u \in Listed(w) : m.schema[u] \in S /\ BaseIn(m, w, u)
  BY <1>3 DEF Sound, BaseIn
<1> QED
  BY <1>1, <1>4, <1>5, <1>6 DEF Sound, w

\* The classes of one more schema can follow those of others.
LEMMA Merged ==
    ASSUME NEW m, NEW S, NEW s, s \notin S,
           NEW v, Sound(m, v, S), Closed(m, v, S),
           NEW w, Sound(m, w, {s}), Closed(m, w, {s})
    PROVE  Sound(m, v \o w, S \cup {s}) /\ Closed(m, v \o w, S \cup {s})
<1> DEFINE x == v \o w
<1>1. v \in Seq(m.types) /\ w \in Seq(m.types) /\ x \in Seq(m.types)
  BY DEF Sound
<1>2. /\ DOMAIN v = 1 .. Len(v) /\ DOMAIN w = 1 .. Len(w) /\ DOMAIN x = 1 .. (Len(v) + Len(w))
      /\ Len(v) \in Nat /\ Len(w) \in Nat
      /\ \A i \in DOMAIN v : x[i] = v[i]
      /\ \A i \in DOMAIN w : x[Len(v) + i] = w[i]
      /\ \A i \in DOMAIN x \ DOMAIN v : i - Len(v) \in DOMAIN w /\ x[i] = w[i - Len(v)]
  BY <1>1
<1> HIDE DEF x
<1>3. Listed(x) = Listed(v) \cup Listed(w)
  <2>1. \A i \in DOMAIN w : Len(v) + i \in DOMAIN x
    BY <1>2
  <2>2. \A i \in DOMAIN v : i \in DOMAIN x
    BY <1>2
  <2> QED
    BY <2>1, <2>2, <1>2 DEF Listed
<1>4. \A i \in DOMAIN v : m.schema[v[i]] \in S
  BY DEF Sound, Listed
<1>5. \A i \in DOMAIN w : m.schema[w[i]] = s
  BY DEF Sound, Listed
<1>6. OneEach(x)
  <2> SUFFICES ASSUME NEW i \in DOMAIN x, NEW j \in DOMAIN x, x[i] = x[j] PROVE i = j
    BY DEF OneEach
  <2>1. CASE i \in DOMAIN v /\ j \in DOMAIN v
    BY <2>1, <1>2 DEF Sound, OneEach
  <2>2. CASE i \notin DOMAIN v /\ j \notin DOMAIN v
    <3>1. i - Len(v) = j - Len(v)
      BY <2>2, <1>2 DEF Sound, OneEach
    <3> QED
      BY <3>1, <1>2
  <2>3. CASE i \in DOMAIN v /\ j \notin DOMAIN v
    BY <2>3, <1>2, <1>4, <1>5
  <2>4. CASE i \notin DOMAIN v /\ j \in DOMAIN v
    BY <2>4, <1>2, <1>4, <1>5
  <2> QED
    BY <2>1, <2>2, <2>3, <2>4
<1>7. BasesFirst(m, x)
  <2> SUFFICES ASSUME NEW i \in DOMAIN x, m.base[x[i]] # NoType
               PROVE  \E j \in DOMAIN x : j < i /\ x[j] = m.base[x[i]]
    BY DEF BasesFirst
  <2>1. CASE i \in DOMAIN v
    <3>1. PICK j \in DOMAIN v : j < i /\ v[j] = m.base[v[i]]
      BY <2>1, <1>2 DEF Sound, BasesFirst
    <3> QED
      BY <3>1, <2>1, <1>2
  <2>2. CASE i \notin DOMAIN v
    <3>1. PICK j \in DOMAIN w : j < i - Len(v) /\ w[j] = m.base[w[i - Len(v)]]
      BY <2>2, <1>2 DEF Sound, BasesFirst
    <3>2. Len(v) + j \in DOMAIN x /\ Len(v) + j < i
      BY <3>1, <1>2
    <3> QED
      BY <3>1, <3>2, <2>2, <1>2
  <2> QED
    BY <2>1, <2>2
<1>8. \A t \in Listed(x) : m.schema[t] \in S \cup {s} /\ BaseIn(m, x, t)
  BY <1>3 DEF Sound, BaseIn
<1>9. ASSUME NEW t \in m.types, m.schema[t] \in S \cup {s}, BaseIn(m, x, t)
      PROVE  t \in Listed(x)
  <2>1. \A u \in Listed(v) : m.schema[u] \in S
    BY DEF Sound
  <2>2. \A u \in Listed(w) : m.schema[u] = s
    BY DEF Sound
  <2>3. CASE m.schema[t] \in S
    <3>1. BaseIn(m, v, t)
      BY <1>9, <1>3, <2>2, <2>3 DEF BaseIn
    <3> QED
      BY <3>1, <2>3, <1>3 DEF Closed
  <2>4. CASE m.schema[t] = s
    <3>1. BaseIn(m, w, t)
      BY <1>9, <1>3, <2>1, <2>4 DEF BaseIn
    <3> QED
      BY <3>1, <2>4, <1>3 DEF Closed
  <2> QED
    BY <1>9, <2>3, <2>4
<1> QED
  BY <1>1, <1>6, <1>7, <1>8, <1>9 DEF Sound, Closed, x

-----------------------------------------------------------------------------
(* The classes *)

GeneratorTypeOK ==
    /\ model \in DOMAIN Models
    /\ step \in {"schemas", "classes", "members", "merging", "written",
                 "compiled", "broken", "gave up", "quit"}
    /\ todo \subseteq Model.schemas
    /\ m_class_vec \in Seq(Model.types)
    /\ DOMAIN m_code_gen_map \subseteq Model.schemas
    /\ \A s \in DOMAIN m_code_gen_map : m_code_gen_map[s] \in Seq(Model.types)
    /\ total \in Seq(Model.types)
    /\ names \in [Of(Model, "enum") -> Seq(Seq(STRING))]

\* Every schema is still to be collected, being collected, or in the map.
SchemasInv ==
    /\ step = "schemas" => Model.schemas = todo \cup DOMAIN m_code_gen_map
    /\ step \in {"classes", "members"} =>
          Model.schemas = todo \cup {schema} \cup DOMAIN m_code_gen_map
    /\ step \in {"schemas", "classes", "members"} => total = <<>>

\* What has been listed of a schema is sound at any time, and all of it when the
\* map was iterated without anything to add.
ListInv ==
    /\ step \in {"classes", "members"} => Sound(Model, m_class_vec, {schema})
    /\ step = "members" => Closed(Model, m_class_vec, {schema})
    /\ \A s \in DOMAIN m_code_gen_map :
          Sound(Model, m_code_gen_map[s], {s}) /\ Closed(Model, m_code_gen_map[s], {s})

\* The merged list has the classes of the schemas that have left the map.
TotalInv ==
    step \in {"merging", "written", "compiled", "broken"} =>
        LET merged == IF step = "merging" THEN Model.schemas \ DOMAIN m_code_gen_map
                      ELSE Model.schemas
        IN  Sound(Model, total, merged) /\ Closed(Model, total, merged)

GeneratorIInv == GeneratorTypeOK /\ SchemasInv /\ ListInv /\ TotalInv

LEMMA InitGeneratorIInv == GeneratorInit => GeneratorIInv
<1> SUFFICES ASSUME GeneratorInit PROVE GeneratorIInv
  OBVIOUS
<1>1. GeneratorTypeOK
  <2>1. names \in [Of(Model, "enum") -> Seq(Seq(STRING))]
    <3>1. \A S : <<>> \in Seq(S)
      OBVIOUS
    <3> QED
      BY <3>1 DEF GeneratorInit
  <2>2. <<>> \in Seq(Model.types)
    OBVIOUS
  <2> QED
    BY <2>1, <2>2 DEF GeneratorInit, GeneratorTypeOK
<1>2. SchemasInv /\ ListInv /\ TotalInv
  BY DEF GeneratorInit, SchemasInv, ListInv, TotalInv
<1> QED
  BY <1>1, <1>2 DEF GeneratorIInv

\* No step changes the model.
LEMMA ModelStays == [GeneratorNext]_generator_vars => model' = model /\ Model' = Model
<1> SUFFICES ASSUME [GeneratorNext]_generator_vars PROVE model' = model
  BY DEF Model
<1> QED
  BY DEF GeneratorNext, Generate, GiveUp, BeginSchema, Merge, AddEnum, AddClass, NameEnumerator,
         EndClasses, EndSchema, Write, Compile, Quit, GeneratorDone, generator_vars

\* Every step keeps what the classes rest on.
LEMMA NextGeneratorIInv == GeneratorIInv /\ [GeneratorNext]_generator_vars => GeneratorIInv'
<1> SUFFICES ASSUME GeneratorIInv, [GeneratorNext]_generator_vars PROVE GeneratorIInv'
  OBVIOUS
<1>0. model' = model /\ Model' = Model
  BY ModelStays
<1>f. WellFormed(Model)
  BY ModelFacts DEF GeneratorIInv, GeneratorTypeOK
<1> USE <1>0
<1>1. CASE GiveUp
  BY <1>1 DEF GiveUp, GeneratorIInv, GeneratorTypeOK, SchemasInv, ListInv, TotalInv
<1>2. ASSUME NEW s \in Model.schemas, BeginSchema(s) PROVE GeneratorIInv'
  <2>1. GeneratorTypeOK'
    BY <1>2 DEF BeginSchema, GeneratorIInv, GeneratorTypeOK
  <2>2. SchemasInv'
    BY <1>2 DEF BeginSchema, GeneratorIInv, SchemasInv, GeneratorTypeOK
  <2>3. Sound(Model, <<>>, {s})
    BY NothingListedYet
  <2>4. ListInv'
    BY <1>2, <2>3 DEF BeginSchema, GeneratorIInv, ListInv
  <2>5. TotalInv'
    BY <1>2 DEF BeginSchema, TotalInv
  <2> QED
    BY <2>1, <2>2, <2>4, <2>5 DEF GeneratorIInv
<1>3. ASSUME NEW s \in Model.schemas, Merge(s) PROVE GeneratorIInv'
  <2> DEFINE D == Model.schemas \ DOMAIN m_code_gen_map
  <2>1. /\ Sound(Model, total, D) /\ Closed(Model, total, D)
        /\ Sound(Model, m_code_gen_map[s], {s}) /\ Closed(Model, m_code_gen_map[s], {s})
        /\ s \notin D
    BY <1>3 DEF Merge, GeneratorIInv, TotalInv, ListInv
  <2>2. Sound(Model, total \o m_code_gen_map[s], D \cup {s})
        /\ Closed(Model, total \o m_code_gen_map[s], D \cup {s})
    <3> HIDE DEF D
    <3> QED
      BY <2>1, Merged
  <2>3. D \cup {s} = Model.schemas \ DOMAIN m_code_gen_map'
    BY <1>3 DEF Merge, GeneratorIInv, GeneratorTypeOK
  <2>4. TotalInv'
    BY <1>3, <2>2, <2>3 DEF Merge, TotalInv
  <2>5. GeneratorTypeOK'
    <3>1. total' \in Seq(Model.types)
      BY <1>3, <2>2 DEF Merge, Sound
    <3> QED
      BY <1>3, <3>1 DEF Merge, GeneratorIInv, GeneratorTypeOK
  <2>6. SchemasInv' /\ ListInv'
    BY <1>3 DEF Merge, GeneratorIInv, SchemasInv, ListInv
  <2> QED
    BY <2>4, <2>5, <2>6 DEF GeneratorIInv
<1>4. ASSUME NEW t \in Model.types, AddEnum(t) \/ AddClass(t) PROVE GeneratorIInv'
  <2>1. t \notin Listed(m_class_vec) /\ Model.schema[t] = schema /\ BaseIn(Model, m_class_vec, t)
    <3>1. CASE AddEnum(t)
      BY <3>1, <1>f DEF AddEnum, Enums, Of, BaseIn, WellFormed
    <3>2. CASE AddClass(t)
      BY <3>2 DEF AddClass, Ready, BaseListed, Classes, BaseIn
    <3> QED
      BY <1>4, <3>1, <3>2
  <2>2. /\ step = "classes" /\ m_class_vec' = Append(m_class_vec, t)
        /\ UNCHANGED <<step, todo, schema, names, m_code_gen_map, total>>
    BY <1>4 DEF AddEnum, AddClass
  <2>3. Sound(Model, m_class_vec', {schema})
    BY <2>1, <2>2, OneMore DEF GeneratorIInv, ListInv
  <2>4. GeneratorTypeOK'
    BY <2>2, <2>3 DEF GeneratorIInv, GeneratorTypeOK, Sound
  <2>5. SchemasInv' /\ ListInv' /\ TotalInv'
    BY <2>2, <2>3 DEF GeneratorIInv, SchemasInv, ListInv, TotalInv
  <2> QED
    BY <2>4, <2>5 DEF GeneratorIInv
<1>5. CASE EndClasses
  <2>1. Closed(Model, m_class_vec, {schema})
    <3> SUFFICES ASSUME NEW t \in Model.types, Model.schema[t] = schema,
                        BaseIn(Model, m_class_vec, t)
                 PROVE  t \in Listed(m_class_vec)
      BY DEF Closed
    <3>1. CASE Model.kind[t] = "enum"
      BY <1>5, <3>1 DEF EndClasses, Enums, Of
    <3>2. CASE Model.kind[t] # "enum"
      <4>1. t \in Classes(Model, schema)
        BY <3>2 DEF Classes, Of
      <4>2. BaseListed(t)
        BY <1>f, <3>2 DEF BaseIn, BaseListed, Classes, Of, WellFormed
      <4> QED
        BY <1>5, <4>1, <4>2 DEF EndClasses, Ready
    <3> QED
      BY <3>1, <3>2
  <2> QED
    BY <1>5, <2>1 DEF EndClasses, GeneratorIInv, GeneratorTypeOK, SchemasInv, ListInv, TotalInv
<1>6. ASSUME NEW e \in Model.types, NameEnumerator(e) PROVE GeneratorIInv'
  <2>1. /\ e \in Of(Model, "enum")
        /\ Len(names[e]) \in Nat /\ Len(names[e]) < Len(Model.labels[e])
        /\ Model.labels[e] \in Seq(Seq(STRING))
        /\ names[e] \in Seq(Seq(STRING))
    BY <1>6, <1>f DEF NameEnumerator, Enums, WellFormed, GeneratorIInv, GeneratorTypeOK
  <2>2. Model.labels[e][Len(names[e]) + 1] \in Seq(STRING)
    BY <2>1
  <2>3. e \in STRING
    BY <1>f DEF WellFormed
  <2>4. ASSUME NEW l \in Seq(STRING) PROVE NameOf(e, l) \in Seq(STRING)
    <3>1. <<e>> \in Seq(STRING)
      BY <2>3
    <3>2. <<e>> \o l \in Seq(STRING)
      BY <3>1
    <3> QED
      BY <3>2 DEF NameOf
  <2>5. names' \in [Of(Model, "enum") -> Seq(Seq(STRING))]
    BY <1>6, <2>1, <2>2, <2>4 DEF NameEnumerator, GeneratorIInv, GeneratorTypeOK
  <2> QED
    BY <1>6, <2>5 DEF NameEnumerator, GeneratorIInv, GeneratorTypeOK, SchemasInv, ListInv, TotalInv
<1>7. CASE EndSchema
  <2>1. DOMAIN m_code_gen_map' = DOMAIN m_code_gen_map \cup {schema}
        /\ \A s \in DOMAIN m_code_gen_map' :
              m_code_gen_map'[s] = IF s = schema THEN m_class_vec ELSE m_code_gen_map[s]
    BY <1>7 DEF EndSchema
  <2>2. schema \in Model.schemas
    BY <1>7 DEF EndSchema, GeneratorIInv, SchemasInv
  <2>3. GeneratorTypeOK'
    BY <1>7, <2>1, <2>2 DEF EndSchema, GeneratorIInv, GeneratorTypeOK
  <2>4. SchemasInv'
    BY <1>7, <2>1 DEF EndSchema, GeneratorIInv, SchemasInv
  <2>5. ListInv'
    BY <1>7, <2>1 DEF EndSchema, GeneratorIInv, ListInv
  <2>6. TotalInv'
    <3>1. step' = "merging" => Model.schemas \ DOMAIN m_code_gen_map' = {} /\ total' = <<>>
      BY <1>7, <2>1 DEF EndSchema, GeneratorIInv, SchemasInv
    <3> QED
      BY <1>7, <3>1, NothingListed DEF EndSchema, TotalInv
  <2> QED
    BY <2>3, <2>4, <2>5, <2>6 DEF GeneratorIInv
<1>8. CASE Write
  <2>1. Model.schemas \ DOMAIN m_code_gen_map = Model.schemas
    BY <1>8 DEF Write
  <2> QED
    BY <1>8, <2>1 DEF Write, GeneratorIInv, GeneratorTypeOK, SchemasInv, ListInv, TotalInv
<1>9. CASE Compile
  BY <1>9 DEF Compile, GeneratorIInv, GeneratorTypeOK, SchemasInv, ListInv, TotalInv
<1>10. CASE Quit
  <2>1. <<>> \in Seq(Model.types)
    OBVIOUS
  <2>2. GeneratorTypeOK'
    BY <1>10, <2>1 DEF Quit, GeneratorIInv, GeneratorTypeOK
  <2> QED
    BY <1>10, <2>2 DEF Quit, GeneratorIInv, SchemasInv, ListInv, TotalInv
<1>11. CASE UNCHANGED generator_vars
  BY <1>11 DEF generator_vars, GeneratorIInv, GeneratorTypeOK, SchemasInv, ListInv, TotalInv
<1> QED
  BY <1>1, <1>2, <1>3, <1>4, <1>5, <1>6, <1>7, <1>8, <1>9, <1>10, <1>11
     DEF GeneratorNext, Generate, GeneratorDone

\* What the tool holds at any time: the inductive invariant, with its types.
THEOREM ListsAreSound == GeneratorSpec => []GeneratorIInv
BY InitGeneratorIInv, NextGeneratorIInv, PTL DEF GeneratorSpec

\* A sound list of all schemas is written with bases first.
LEMMA ListedIsWritten ==
    ASSUME GeneratorIInv, step \in {"written", "compiled", "broken"}
    PROVE  \A t \in Listed(total) : Model.base[t] # NoType => WrittenBefore(Model.base[t], t)
<1> SUFFICES ASSUME NEW t \in Listed(total), Model.base[t] # NoType
             PROVE  WrittenBefore(Model.base[t], t)
  OBVIOUS
<1>1. Sound(Model, total, Model.schemas)
  BY DEF GeneratorIInv, TotalInv
<1>2. PICK i \in DOMAIN total : total[i] = t
  BY DEF Listed
<1>3. PICK j \in DOMAIN total : j < i /\ total[j] = Model.base[t]
  BY <1>1, <1>2 DEF Sound, BasesFirst
<1>4. t \in Model.types
  BY <1>1, <1>2 DEF Sound
<1>5. Model.kind[Model.base[t]] = Model.kind[t]
  BY <1>4, ModelFacts DEF WellFormed, GeneratorIInv, GeneratorTypeOK
<1>6. Rank(Model.base[t]) = Rank(t)
  BY <1>5 DEF Rank
<1> QED
  BY <1>2, <1>3, <1>6 DEF WrittenBefore

\* The tool writes a class for every type whose base has one and is of its schema,
\* once and after the base, whatever the model and the order of the maps.
THEOREM EveryClassIsGenerated == GeneratorSpec => []ClassesGenerated
<1>1. GeneratorIInv => ClassesGenerated
  <2> SUFFICES ASSUME GeneratorIInv, step \in {"written", "compiled", "broken"}
               PROVE  /\ \A t \in Model.types : Generated(t) <=> BaseGenerated(t)
                      /\ \A i, j \in DOMAIN total : total[i] = total[j] => i = j
                      /\ \A t \in Listed(total) : Model.base[t] # NoType =>
                             WrittenBefore(Model.base[t], t)
    BY DEF ClassesGenerated
  <2>1. Sound(Model, total, Model.schemas) /\ Closed(Model, total, Model.schemas)
    BY DEF GeneratorIInv, TotalInv
  <2>2. \A t \in Model.types : Model.schema[t] \in Model.schemas
    BY ModelFacts DEF WellFormed, GeneratorIInv, GeneratorTypeOK
  <2>3. ASSUME NEW t \in Model.types PROVE Generated(t) <=> BaseGenerated(t)
    BY <2>1, <2>2 DEF Generated, BaseGenerated, Sound, Closed, BaseIn
  <2> QED
    BY <2>1, <2>3, ListedIsWritten DEF Sound, OneEach
<1> QED
  BY <1>1, ListsAreSound, PTL

-----------------------------------------------------------------------------
(* The names of enumerators, and compilation *)

\* An enumerator has its own name or one with the name of its enumeration before
\* it; in a schema no two have the same name of their own.
Prefixed(e, l) == <<e>> \o l
Plain(e, i) == names[e][i] = Model.labels[e][i]
NamesInv ==
    /\ \A e \in Of(Model, "enum") :
          /\ Len(names[e]) <= Len(Model.labels[e])
          /\ \A i \in DOMAIN names[e] : Plain(e, i) \/ names[e][i] = Prefixed(e, Model.labels[e][i])
    /\ \A e, f \in Of(Model, "enum") : \A i \in DOMAIN names[e], j \in DOMAIN names[f] :
          /\ Model.schema[e] = Model.schema[f]
          /\ Plain(e, i) /\ Plain(f, j) /\ names[e][i] = names[f][j]
          => e = f /\ i = j

LEMMA InitNamesInv == GeneratorInit => NamesInv
<1> SUFFICES ASSUME GeneratorInit PROVE NamesInv
  OBVIOUS
<1>1. WellFormed(Model)
  BY ModelFacts DEF GeneratorInit
<1>2. \A e \in Of(Model, "enum") : names[e] = <<>> /\ Model.labels[e] \in Seq(Seq(STRING))
  BY <1>1 DEF GeneratorInit, Of, WellFormed
<1>3. \A e \in Of(Model, "enum") : DOMAIN names[e] = {} /\ Len(names[e]) = 0
  BY <1>2
<1>4. \A e \in Of(Model, "enum") : Len(Model.labels[e]) \in Nat
  BY <1>2
<1> QED
  BY <1>3, <1>4 DEF NamesInv

\* An enumeration put before a name makes it longer, and another one.
LEMMA Longer ==
    ASSUME NEW T, NEW e \in T, NEW l \in Seq(T)
    PROVE  /\ <<e>> \o l \in Seq(T)
           /\ Len(<<e>> \o l) = Len(l) + 1
           /\ Len(l) \in Nat
           /\ (<<e>> \o l)[1] = e
           /\ <<e>> \o l # l
<1>1. <<e>> \in Seq(T) /\ Len(<<e>>) = 1 /\ <<e>>[1] = e
  OBVIOUS
<1>2. Len(<<e>> \o l) = Len(l) + 1 /\ <<e>> \o l \in Seq(T) /\ Len(l) \in Nat
  BY <1>1
<1>3. (<<e>> \o l)[1] = e
  BY <1>1, <1>2
<1>4. Len(<<e>> \o l) # Len(l)
  BY <1>2
<1>5. <<e>> \o l # l
  BY <1>4
<1> QED
  BY <1>2, <1>3, <1>5

\* The name an enumerator gets.
LEMMA NextNamesInv ==
    GeneratorIInv /\ NamesInv /\ [GeneratorNext]_generator_vars => NamesInv'
<1> SUFFICES ASSUME GeneratorIInv, NamesInv, [GeneratorNext]_generator_vars PROVE NamesInv'
  OBVIOUS
<1>0. model' = model /\ Model' = Model
  BY ModelStays
<1>f. WellFormed(Model) /\ names \in [Of(Model, "enum") -> Seq(Seq(STRING))]
  BY ModelFacts DEF GeneratorIInv, GeneratorTypeOK
<1>1. CASE UNCHANGED names
  BY <1>0, <1>1 DEF NamesInv, Plain
<1>2. ASSUME NEW e \in Model.types, NameEnumerator(e) PROVE NamesInv'
  <2> DEFINE n == Len(names[e]) + 1
             l == Model.labels[e][n]
  <2>1. /\ e \in Of(Model, "enum") /\ e \in STRING /\ Model.schema[e] = schema
        /\ Model.labels[e] \in Seq(Seq(STRING)) /\ names[e] \in Seq(Seq(STRING))
        /\ Len(names[e]) \in Nat /\ Len(names[e]) < Len(Model.labels[e])
    BY <1>2, <1>f DEF NameEnumerator, Enums, WellFormed
  <2>2. l \in Seq(STRING)
    BY <2>1
  <2>3. names' = [names EXCEPT ![e] = Append(names[e], NameOf(e, l))]
    BY <1>2 DEF NameEnumerator
  <2>4. /\ \A f \in Of(Model, "enum") : f # e => names'[f] = names[f]
        /\ names'[e] = Append(names[e], NameOf(e, l))
    BY <2>1, <2>3, <1>f
  <2>n. NameOf(e, l) \in Seq(STRING)
    BY <2>1, <2>2, Longer DEF NameOf
  <2>5. /\ DOMAIN names'[e] = DOMAIN names[e] \cup {n}
        /\ n \notin DOMAIN names[e]
        /\ Len(names'[e]) = n
        /\ \A i \in DOMAIN names[e] : names'[e][i] = names[e][i]
        /\ names'[e][n] = NameOf(e, l)
    <3> HIDE DEF l
    <3> QED
      BY <2>1, <2>4, <2>n
  <2> HIDE DEF n, l
  <2>6. ASSUME NameOf(e, l) = l
        PROVE  \A f \in Of(Model, "enum") : \A j \in DOMAIN names[f] :
                  Model.schema[f] = schema => names[f][j] # l
    <3>1. l \notin Used
      BY <2>1, <2>2, <2>6, Longer DEF NameOf
    <3> QED
      BY <3>1 DEF Used, Enums, Listed
  <2>7. ASSUME NEW f \in Of(Model, "enum")
        PROVE  /\ Len(names'[f]) <= Len(Model.labels[f])
               /\ \A i \in DOMAIN names'[f] :
                     Plain(f, i)' \/ names'[f][i] = Prefixed(f, Model.labels[f][i])
    <3>1. CASE f # e
      <4>1. names'[f] = names[f]
        BY <3>1, <2>4
      <4>2. \A i \in DOMAIN names[f] :
               names[f][i] = Model.labels[f][i] \/ names[f][i] = Prefixed(f, Model.labels[f][i])
        BY DEF NamesInv, Plain
      <4> QED
        BY <4>1, <4>2, <1>0 DEF NamesInv, Plain
    <3>2. CASE f = e
      <4>1. Len(names'[e]) <= Len(Model.labels[e])
        BY <2>1, <2>5 DEF n
      <4>2. names'[e][n] = Model.labels[e][n] \/ names'[e][n] = Prefixed(e, Model.labels[e][n])
        BY <2>5 DEF NameOf, Prefixed, l
      <4> QED
        BY <3>2, <4>1, <4>2, <2>5, <1>0 DEF NamesInv, Plain
    <3> QED
      BY <3>1, <3>2
  <2>8. ASSUME NEW f \in Of(Model, "enum"), NEW g \in Of(Model, "enum"),
               NEW i \in DOMAIN names'[f], NEW j \in DOMAIN names'[g],
               Model.schema[f] = Model.schema[g],
               Plain(f, i)', Plain(g, j)', names'[f][i] = names'[g][j]
        PROVE  f = g /\ i = j
    <3>1. \A h \in Of(Model, "enum") : \A k \in DOMAIN names'[h] :
             (h = e /\ k = n) \/ (k \in DOMAIN names[h] /\ names'[h][k] = names[h][k])
      BY <2>4, <2>5
    <3>2. CASE (f = e /\ i = n) /\ (g = e /\ j = n)
      BY <3>2
    <3>3. CASE (f = e /\ i = n) /\ ~(g = e /\ j = n)
      <4>1. NameOf(e, l) = l
        BY <2>8, <3>3, <2>5, <1>0 DEF Plain, l
      <4>2. j \in DOMAIN names[g] /\ names'[g][j] = names[g][j]
        BY <3>1, <3>3
      <4>3. names'[f][i] = l
        BY <4>1, <3>3, <2>5
      <4>4. Model.schema[g] = schema
        BY <2>1, <2>8, <3>3
      <4> QED
        BY <4>1, <4>2, <4>3, <4>4, <2>6, <2>8
    <3>4. CASE ~(f = e /\ i = n) /\ (g = e /\ j = n)
      <4>1. NameOf(e, l) = l
        BY <2>8, <3>4, <2>5, <1>0 DEF Plain, l
      <4>2. i \in DOMAIN names[f] /\ names'[f][i] = names[f][i]
        BY <3>1, <3>4
      <4>3. names'[g][j] = l
        BY <4>1, <3>4, <2>5
      <4>4. Model.schema[f] = schema
        BY <2>1, <2>8, <3>4
      <4> QED
        BY <4>1, <4>2, <4>3, <4>4, <2>6, <2>8
    <3>5. CASE ~(f = e /\ i = n) /\ ~(g = e /\ j = n)
      <4>1. /\ i \in DOMAIN names[f] /\ names'[f][i] = names[f][i]
            /\ j \in DOMAIN names[g] /\ names'[g][j] = names[g][j]
        BY <3>1, <3>5
      <4>2. Plain(f, i) /\ Plain(g, j) /\ names[f][i] = names[g][j]
        BY <4>1, <2>8, <1>0 DEF Plain
      <4> QED
        BY <4>1, <4>2, <2>8 DEF NamesInv
    <3> QED
      BY <3>2, <3>3, <3>4, <3>5
  <2> QED
    BY <2>7, <2>8, <1>0 DEF NamesInv
<1>3. CASE ~ \E e \in Model.types : NameEnumerator(e)
  <2>1. UNCHANGED names
    BY <1>3 DEF GeneratorNext, Generate, GiveUp, BeginSchema, Merge, AddEnum, AddClass,
           EndClasses, EndSchema, Write, Compile, Quit, GeneratorDone, generator_vars
  <2> QED
    BY <2>1, <1>1
<1> QED
  BY <1>2, <1>3

\* Put before one-part names, enumerations keep them apart.
LEMMA TwoParts ==
    ASSUME NEW T, NEW e \in T, NEW l \in Seq(T), Len(l) = 1
    PROVE  Len(Prefixed(e, l)) = 2 /\ Prefixed(e, l)[1] = e /\ Prefixed(e, l)[2] = l[1]
<1> DEFINE c == <<e>> \o l
<1>1. <<e>> \in Seq(T) /\ Len(<<e>>) = 1 /\ <<e>>[1] = e
  OBVIOUS
<1>2. Len(c) = 2 /\ \A i \in 1 .. 2 : c[i] = IF i <= 1 THEN <<e>>[i] ELSE l[i - 1]
  BY <1>1, ConcatProperties
<1>3. c = Prefixed(e, l)
  BY DEF Prefixed
<1> HIDE DEF c
<1>4. 2 - 1 = 1 /\ 1 \in 1 .. 2 /\ 2 \in 1 .. 2 /\ 1 <= 1 /\ ~(2 <= 1)
  OBVIOUS
<1> QED
  BY <1>1, <1>2, <1>3, <1>4

LEMMA OnePart ==
    ASSUME NEW T, NEW e \in T, NEW f \in T,
           NEW k \in Seq(T), NEW l \in Seq(T), Len(k) = 1, Len(l) = 1
    PROVE  /\ Prefixed(e, k) # l
           /\ Prefixed(e, k) = Prefixed(f, l) => e = f /\ k = l
<1>1. Len(Prefixed(e, k)) = 2 /\ Prefixed(e, k)[1] = e /\ Prefixed(e, k)[2] = k[1]
  BY TwoParts
<1>2. Prefixed(f, l)[1] = f /\ Prefixed(f, l)[2] = l[1]
  BY TwoParts
<1>3. k[1] = l[1] => k = l
  OBVIOUS
<1> QED
  BY <1>1, <1>2, <1>3

\* In a model of one schema whose labels have no underscores, all enumerators have
\* names of their own.
LEMMA SupportedNamesDiffer ==
    ASSUME GeneratorIInv, NamesInv, Supported
    PROVE  \A e, f \in DOMAIN names : \A i \in DOMAIN names[e], j \in DOMAIN names[f] :
              names[e][i] = names[f][j] => e = f /\ i = j
<1>f. WellFormed(Model) /\ names \in [Of(Model, "enum") -> Seq(Seq(STRING))]
  BY ModelFacts DEF GeneratorIInv, GeneratorTypeOK
<1> SUFFICES ASSUME NEW e \in Of(Model, "enum"), NEW f \in Of(Model, "enum"),
                    NEW i \in DOMAIN names[e], NEW j \in DOMAIN names[f],
                    names[e][i] = names[f][j]
             PROVE  e = f /\ i = j
  BY <1>f
<1>1. Model.schema[e] = Model.schema[f]
  BY <1>f DEF Supported, WellFormed, Of
<1>2. ASSUME NEW g \in Of(Model, "enum"), NEW k \in DOMAIN names[g]
      PROVE  /\ k \in DOMAIN Model.labels[g]
             /\ Model.labels[g][k] \in Seq(STRING)
             /\ Len(Model.labels[g][k]) = 1
             /\ g \in STRING
             /\ Plain(g, k) \/ names[g][k] = Prefixed(g, Model.labels[g][k])
  <2>1. g \in Model.types /\ g \in STRING /\ Model.labels[g] \in Seq(Seq(STRING))
    BY <1>f DEF Of, WellFormed
  <2>2. names[g] \in Seq(Seq(STRING)) /\ Len(names[g]) <= Len(Model.labels[g])
    BY <1>f DEF NamesInv
  <2>3. k \in DOMAIN Model.labels[g]
    BY <2>1, <2>2
  <2>4. Model.labels[g][k] \in Seq(STRING)
    BY <2>1, <2>3
  <2>5. Len(Model.labels[g][k]) = 1
    BY <2>3 DEF Supported, SupportedLabel
  <2>6. Plain(g, k) \/ names[g][k] = Prefixed(g, Model.labels[g][k])
    BY DEF NamesInv
  <2> QED
    BY <2>1, <2>3, <2>4, <2>5, <2>6
<1> DEFINE k == Model.labels[e][i]
           l == Model.labels[f][j]
           Names == STRING
<1>3. /\ k \in Seq(Names) /\ Len(k) = 1 /\ l \in Seq(Names) /\ Len(l) = 1
      /\ e \in Names /\ f \in Names
      /\ Plain(e, i) \/ names[e][i] = Prefixed(e, k)
      /\ Plain(f, j) \/ names[f][j] = Prefixed(f, l)
      /\ Plain(e, i) => names[e][i] = k
      /\ Plain(f, j) => names[f][j] = l
  BY <1>2 DEF Plain
<1>4. CASE Plain(e, i) /\ Plain(f, j)
  BY <1>1, <1>4 DEF NamesInv
<1>5. CASE ~Plain(e, i) /\ ~Plain(f, j)
  <2>1. Prefixed(e, k) = Prefixed(f, l)
    BY <1>3, <1>5
  <2>2. e = f /\ k = l
    <3> HIDE DEF k, l, Names
    <3> QED
      BY <1>3, <2>1, OnePart
  <2>3. e \in Model.types
    BY DEF Of
  <2> QED
    BY <1>2, <1>f, <2>2, <2>3 DEF WellFormed
<1>6. CASE ~(Plain(e, i) <=> Plain(f, j))
  <2>1. Prefixed(e, k) = l \/ Prefixed(f, l) = k
    BY <1>3, <1>6
  <2> HIDE DEF k, l, Names
  <2> QED
    BY <1>3, <2>1, OnePart
<1> QED
  BY <1>4, <1>5, <1>6

\* Names that fit among all the types of a model fit among some of them.
LEMMA FewerNames ==
    ASSUME NEW types \in SUBSET Model.types
    PROVE  /\ ClassNames(types) \subseteq ClassNames(Model.types)
           /\ Creators(types) \subseteq Creators(Model.types)
           /\ \A n : Free(n, Model.types) => Free(n, types)
           /\ \A l : EnumeratorFits(l, Model.types) => EnumeratorFits(l, types)
           /\ NamespaceFits(Model.types) => NamespaceFits(types)
<1>1. ClassNames(types) \subseteq ClassNames(Model.types)
  BY DEF ClassNames
<1>2. Creators(types) \subseteq Creators(Model.types)
  BY DEF Creators
<1>3. \A n : Free(n, Model.types) => Free(n, types)
  BY <1>1 DEF Free
<1>4. \A l : EnumeratorFits(l, Model.types) => EnumeratorFits(l, types)
  BY <1>1, <1>2 DEF EnumeratorFits
<1>5. NamespaceFits(Model.types) => NamespaceFits(types)
  BY <1>1 DEF NamespaceFits
<1> QED
  BY <1>1, <1>2, <1>3, <1>4, <1>5

LEMMA FewerMembers ==
    ASSUME NEW types \in SUBSET Model.types
    PROVE  /\ \A p : PropertyFits(p, Model.types) => PropertyFits(p, types)
           /\ \A o : OperationFits(o, Model.types) => OperationFits(o, types)
           /\ \A c : ContainerFits(c, Model.types) => ContainerFits(c, types)
<1>1. \A n : Free(n, Model.types) => Free(n, types)
  BY FewerNames
<1> QED
  BY <1>1 DEF PropertyFits, OperationFits, ContainerFits

\* Of a supported model, the names of enumerators are left to them.
LEMMA SupportedEnumeratorsDiffer ==
    ASSUME GeneratorIInv, NamesInv, Supported
    PROVE  EnumeratorsDiffer
<1>f. WellFormed(Model) /\ names \in [Of(Model, "enum") -> Seq(Seq(STRING))]
  BY ModelFacts DEF GeneratorIInv, GeneratorTypeOK
<1>g. total \in Seq(Model.types)
  BY DEF GeneratorIInv, GeneratorTypeOK
<1>1. Listed(total) \in SUBSET Model.types
  BY <1>g DEF Listed
<1>2. ASSUME NEW e \in DOMAIN names, NEW i \in DOMAIN names[e]
      PROVE  EnumeratorFits(names[e][i], Listed(total))
  <2>1. e \in Of(Model, "enum") /\ e \in Model.types
    BY <1>f DEF Of
  <2>2. names[e] \in Seq(Seq(STRING)) /\ Len(names[e]) <= Len(Model.labels[e])
    BY <2>1, <1>f DEF NamesInv
  <2>3. Model.labels[e] \in Seq(Seq(STRING))
    BY <2>1, <1>f DEF WellFormed
  <2>4. i \in DOMAIN Model.labels[e]
    BY <2>2, <2>3
  <2>5. SupportedLabel(e, Model.labels[e][i])
    BY <2>1, <2>4 DEF Supported
  <2>6. names[e][i] = Model.labels[e][i] \/ names[e][i] = <<e>> \o Model.labels[e][i]
    BY <2>1 DEF NamesInv, Plain, Prefixed
  <2>7. EnumeratorFits(names[e][i], Model.types)
    BY <2>5, <2>6 DEF SupportedLabel
  <2> QED
    BY <1>1, <2>7, FewerNames
<1> QED
  BY <1>2, SupportedNamesDiffer DEF EnumeratorsDiffer

\* What is written of a supported model compiles.
LEMMA SupportedCompiles ==
    ASSUME GeneratorIInv, NamesInv, Supported, step = "written"
    PROVE  Compiles
<1>f. WellFormed(Model)
  BY ModelFacts DEF GeneratorIInv, GeneratorTypeOK
<1>1. Sound(Model, total, Model.schemas) /\ Closed(Model, total, Model.schemas)
  BY DEF GeneratorIInv, TotalInv
<1>2. \A t, u \in Model.types : Model.schema[t] \in Model.schemas /\ Model.schema[t] = Model.schema[u]
  BY <1>f DEF WellFormed, Supported
<1>3. Model.types \subseteq Listed(total)
  <2> DEFINE Left == Model.types \ Listed(total)
  <2> SUFFICES ASSUME Left # {} PROVE FALSE
    OBVIOUS
  <2>1. PICK t \in Left : Model.base[t] \notin Left
    BY DEF Supported
  <2>2. Model.base[t] \in Model.types \cup {NoType}
    BY <1>f DEF WellFormed
  <2>3. BaseIn(Model, total, t)
    BY <1>2, <2>1, <2>2 DEF BaseIn
  <2> QED
    BY <1>1, <1>2, <2>3 DEF Closed
<1>4. \A s \in Model.schemas, c \in Model.types \cup {Primitive, Void} : Declared(ClassName(s, c))
  <2> SUFFICES ASSUME NEW s \in Model.schemas, NEW c \in Model.types \cup {Primitive, Void}
               PROVE  ClassName(s, c) \in Listed(total) \cup {Primitive, Void}
    BY DEF Declared
  <2>1. CASE c \in Model.types
    <3>1. Model.schema[c] = s
      BY <1>2, <2>1 DEF Supported
    <3> QED
      BY <1>3, <2>1, <3>1 DEF ClassName
  <2>2. CASE c \in {Primitive, Void}
    BY <2>2 DEF ClassName, Basic
  <2> QED
    BY <2>1, <2>2
<1>9. Listed(total) \in SUBSET Model.types
  BY <1>1 DEF Sound, Listed
<1>5. ASSUME NEW t \in Listed(total), NEW p \in Members(t)
      PROVE  /\ Declared(MemberClass(Prop(p))) /\ HasMacro(Prop(p))
             /\ PropertyFits(p, Listed(total))
  <2>1. p \in DOMAIN Model.properties /\ Prop(p).on = t /\ Prop(p).type # Unknown
    BY DEF Members
  <2>2. SupportedProperty(p)
    BY <2>1 DEF Supported
  <2>3. Prop(p).on \in Model.types /\ Prop(p).type \in Model.types \cup Basic
    BY <2>1, <1>f DEF Prop, WellFormed
  <2>4. Prop(p).type \in Model.types \cup {Primitive}
    BY <2>1, <2>2, <2>3 DEF SupportedProperty, Basic
  <2>5. Model.schema[Prop(p).on] \in Model.schemas
    BY <1>2, <2>3
  <2>6. Declared(MemberClass(Prop(p)))
    BY <1>3, <1>4, <2>4, <2>5 DEF MemberClass, Declared, Of
  <2>7. PropertyFits(p, Listed(total))
    BY <1>9, <2>2, FewerMembers DEF SupportedProperty
  <2> QED
    BY <2>2, <2>6, <2>7 DEF SupportedProperty
<1>6. ASSUME NEW o \in Model.operations, NEW s \in Model.schemas, NEW limit \in {2, 3, 5}
      PROVE  OperationCompiles(o, s, limit)
  <2>1. SupportedOperation(o)
    BY DEF Supported
  <2>2. o.params \in Seq([name : Seq(STRING), type : Model.types \cup Basic, collection : BOOLEAN])
    BY <1>f DEF WellFormed
  <2>3. Len(o.params) <= limit
    BY <2>1, <2>2 DEF SupportedOperation, ImportLimit
  <2>4. OperationFits(o, Listed(total))
    BY <1>9, <2>1, FewerMembers DEF SupportedOperation
  <2> QED
    BY <1>4, <2>1, <2>3, <2>4 DEF SupportedOperation, OperationCompiles
<1>7. \A o \in Bound : OperationCompiles(o, o.schema, IF o.action THEN ActionLimit ELSE FunctionLimit)
  BY <1>6, <1>f DEF Bound, WellFormed, ActionLimit, FunctionLimit
<1>8. ASSUME NEW c \in Model.containers PROVE ContainerCompiles(c)
  <2>1. c.sets \subseteq Listed(total) /\ c.schema \in Model.schemas
    BY <1>3, <1>f DEF WellFormed
  <2>2. ASSUME NEW o \in Imported(c)
        PROVE  /\ OperationCompiles(o, c.schema, ImportLimit)
               /\ Cardinality({i \in c.imports : i.operation = o.name}) = 1
    <3>1. OperationCompiles(o, c.schema, ImportLimit)
      BY <1>6, <2>1 DEF Imported, ImportLimit
    <3>2. PICK i \in c.imports : i.operation = o.name
      BY DEF Imported
    <3>3. {k \in c.imports : k.operation = o.name} = {i}
      BY <3>2 DEF Supported
    <3> QED
      BY <3>1, <3>3, FS_Singleton
  <2>3. ContainerFits(c, Listed(total))
    BY <1>9, FewerMembers DEF Supported
  <2> QED
    BY <2>1, <2>2, <2>3 DEF ContainerCompiles
<1>10. NamespaceFits(Listed(total))
  BY <1>9, FewerNames DEF Supported
<1> QED
  BY <1>5, <1>7, <1>8, <1>10, ListedIsWritten, SupportedEnumeratorsDiffer DEF Compiles

\* Whether a model is supported does not change.
LEMMA SupportStays ==
    ASSUME model' = model, Model' = Model
    PROVE  Supported' = Supported
BY DEF Supported, SupportedProperty, SupportedLabel, SupportedOperation, HasMacro, Prop, Of, Keys,
       Members, NamespaceFits, EnumeratorFits, PropertyFits, OperationFits, ContainerFits, Free,
       ClassNames, Creators

\* The tool writes files for every model it supports, and they compile: whatever
\* the order in which its maps are iterated, bases come first, no two enumerators
\* get one name, and no name the tool gives is one that is taken.
THEOREM SupportedModelsDoCompile == GeneratorSpec => []SupportedModelsCompile
<1> DEFINE Inv == GeneratorIInv /\ NamesInv /\ SupportedModelsCompile
<1>1. GeneratorInit => Inv
  BY InitGeneratorIInv, InitNamesInv DEF GeneratorInit, SupportedModelsCompile
<1>2. Inv /\ [GeneratorNext]_generator_vars => Inv'
  <2> SUFFICES ASSUME Inv, [GeneratorNext]_generator_vars PROVE SupportedModelsCompile'
    BY NextGeneratorIInv, NextNamesInv
  <2>1. Supported' = Supported
    BY ModelStays, SupportStays
  <2> SUFFICES ASSUME Supported PROVE step' \notin {"gave up", "broken"}
    BY <2>1 DEF SupportedModelsCompile
  <2>2. step \notin {"gave up", "broken"}
    BY DEF SupportedModelsCompile
  <2>3. ~GiveUp
    <3>1. PICK c \in Model.containers : Model.containers = {c}
      BY DEF Supported
    <3>2. \A s : Containers(s) = {} \/ Containers(s) = {c}
      BY <3>1 DEF Containers
    <3>3. Cardinality({}) = 0 /\ Cardinality({c}) = 1
      BY FS_EmptySet, FS_Singleton
    <3>4. \A s : Cardinality(Containers(s)) = 0 \/ Cardinality(Containers(s)) = 1
      BY <3>2, <3>3
    <3>5. \A s : ~(Cardinality(Containers(s)) > 1)
      BY <3>4
    <3> QED
      BY <3>1, <3>5 DEF GiveUp
  <2>4. CASE Write
    <3>1. \A t \in Model.types : Cardinality(Keys(t)) <= KeyLimit
      BY DEF Supported
    <3> QED
      BY <2>4, <3>1 DEF Write, Of
  <2>5. CASE Compile
    <3>1. Compiles
      BY <2>5, SupportedCompiles DEF Compile
    <3> QED
      BY <2>5, <3>1 DEF Compile
  <2>6. CASE ~Write /\ ~Compile
    BY <2>2, <2>3, <2>6
       DEF GeneratorNext, Generate, BeginSchema, Merge, AddEnum, AddClass, NameEnumerator,
           EndClasses, EndSchema, Quit, GeneratorDone, generator_vars
  <2> QED
    BY <2>4, <2>5, <2>6
<1>3. Inv => SupportedModelsCompile
  OBVIOUS
<1> QED
  BY <1>1, <1>2, <1>3, PTL DEF GeneratorSpec

-----------------------------------------------------------------------------
(* The program *)

\* The program runs with all the classes there can be, over the entities its service
\* began with, whose types stay.
ProgramInv ==
    /\ program \in {"none", "running", "crashed"}
    /\ program = "none" => tasks = [t \in Tasks |-> Idle] /\ objects = [t \in Tasks |-> NoObject]
    /\ program # "none" =>
          /\ step = "quit" /\ model \in DOMAIN Stores
          /\ classes \subseteq Model.types
          /\ \A t \in Model.types :
                Model.base[t] \in classes /\ Model.schema[Model.base[t]] = Model.schema[t] => t \in classes
          /\ DOMAIN store = DOMAIN Stores[model].entities
          /\ \A e \in DOMAIN store :
                /\ store[e] = [type |-> store[e].type, fields |-> store[e].fields, links |-> store[e].links]
                /\ store[e].type \in Of(Model, "entity")
                /\ \A n \in DOMAIN store[e].links : Listed(store[e].links[n]) \subseteq DOMAIN store

\* What a call in flight is, and one that has ended.
Flying(t) == tasks[t].step \in {"sent", "answered", "inserting"}
IsQuery(t) ==
    /\ Flying(t) /\ tasks[t].kind = "query"
    /\ tasks[t] = [step |-> tasks[t].step, kind |-> "query", entity |-> tasks[t].entity,
                   class |-> tasks[t].class, selected |-> tasks[t].selected,
                   expand |-> tasks[t].expand, answer |-> tasks[t].answer]
    /\ tasks[t].entity \in DOMAIN store /\ tasks[t].class \in classes
    /\ tasks[t].step # "sent" =>
          \A n \in DOMAIN tasks[t].answer.links : Listed(tasks[t].answer.links[n]) \subseteq DOMAIN store
IsLoad(t) ==
    /\ Flying(t) /\ tasks[t].kind = "load"
    /\ tasks[t] = [step |-> tasks[t].step, kind |-> "load", object |-> tasks[t].object,
                   nav |-> tasks[t].nav, entity |-> tasks[t].entity, answer |-> tasks[t].answer]
    /\ tasks[t].object \in Tasks /\ objects[tasks[t].object] # NoObject
    /\ tasks[t].entity \in DOMAIN store
    /\ Alive(tasks[t].object) =>
          /\ tasks[t].entity = objects[tasks[t].object].entity
          /\ tasks[t].nav \in Navigations(objects[tasks[t].object].class)
    /\ tasks[t].step # "sent" => Listed(tasks[t].answer) \subseteq DOMAIN store
IsUpdate(t) == tasks[t].step = "sent" /\ tasks[t].kind = "update"
IsAnswered(t) ==
    /\ tasks[t].step = "done" /\ tasks[t].kind = "query"
    /\ tasks[t].entity \in DOMAIN store /\ tasks[t].class \in classes
IsDone(t) == tasks[t].step = "done" /\ tasks[t].kind \in {"load", "update", "failed"}
TaskInv(t) == tasks[t] = Idle \/ IsQuery(t) \/ IsLoad(t) \/ IsUpdate(t) \/ IsAnswered(t) \/ IsDone(t)
TasksInv ==
    /\ tasks = [t \in Tasks |-> tasks[t]]
    /\ \A t \in Tasks : TaskInv(t)

\* An object is one of the type of its entity, made by a query that has ended.
MayHold(n, e) == e = Null \/ (e \in DOMAIN store /\ Prop(n).type \in Lineage(Type(e)))
IsObject(o) ==
    /\ objects[o] = [class |-> objects[o].class, members |-> objects[o].members,
                     entity |-> objects[o].entity, read |-> objects[o].read,
                     selected |-> objects[o].selected, edited |-> objects[o].edited,
                     navs |-> objects[o].navs, fresh |-> objects[o].fresh]
    /\ objects[o].entity \in DOMAIN store
    /\ objects[o].class = Type(objects[o].entity)
    /\ DOMAIN objects[o].navs = Navigations(objects[o].class)
    /\ \A n \in DOMAIN objects[o].navs : \A i \in DOMAIN objects[o].navs[n] :
          MayHold(n, objects[o].navs[n][i])
ObjectInv(o) ==
    /\ objects[o] \in {NoObject, Released} \/ IsObject(o)
    /\ objects[o] # NoObject => IsAnswered(o)
    /\ IsAnswered(o) /\ objects[o] = NoObject => ~Creates(tasks[o].class, Type(tasks[o].entity))
ObjectsInv == objects = [o \in Tasks |-> objects[o]] /\ \A o \in Tasks : ObjectInv(o)

\* One load of a fresh property is under way at most, and what it was answered is
\* what the service links.
LinkedFrom(o, n) == LinksOf(store[objects[o].entity], n)
Current(o, n) ==
    /\ \A t, u \in Loads(o, n) : t = u
    /\ \A t \in Loads(o, n) : tasks[t].step # "sent" => tasks[t].answer = LinkedFrom(o, n)
    /\ Loads(o, n) = {} => objects[o].navs[n] = Readable(n, LinkedFrom(o, n))
CurrentInv == \A o \in Tasks : Alive(o) => \A n \in objects[o].fresh : Current(o, n)

\* One call is in flight, and its object is there, as long as the program waits.
WaitsInv ==
    /\ program = "crashed" => hurried
    /\ ~hurried => /\ \A t, u \in InFlight : t = u
                   /\ \A t \in InFlight : tasks[t].kind = "load" => Alive(tasks[t].object)

IInv == ProgramInv /\ TasksInv /\ ObjectsInv /\ CurrentInv /\ WaitsInv

-----------------------------------------------------------------------------
(* What types, classes and links are *)

\* A program is made of a model the assumptions are about.
LEMMA RunningFacts ==
    ASSUME ProgramInv, program # "none"
    PROVE  /\ WellFormed(Model)
           /\ \A e \in DOMAIN store : Type(e) \in Model.types /\ Type(e) \notin Basic
           /\ classes \subseteq Model.types
<1>1. model \in DOMAIN Models
  BY StoresAssumption DEF ProgramInv
<1>2. WellFormed(Model)
  BY <1>1, ModelFacts
<1>3. \A e \in DOMAIN store : Type(e) \in Model.types
  BY DEF ProgramInv, Type, Of
<1>4. Model.types \cap Basic = {}
  BY <1>2 DEF WellFormed
<1> QED
  BY <1>2, <1>3, <1>4 DEF ProgramInv

\* A class and those above it, as a solution of the equation of Lineage.
IsLineage(up) ==
    up = [t \in Model.types |-> {t} \cup IF Model.base[t] = NoType THEN {} ELSE up[Model.base[t]]]

LEMMA LineagesExist ==
    ASSUME WellFormed(Model)
    PROVE  \E up : IsLineage(up)
<1> DEFINE closed(S) == \A t \in S : Model.base[t] # NoType => Model.base[t] \in S
           above(t) == {u \in Model.types : \A S \in SUBSET Model.types : t \in S /\ closed(S) => u \in S}
           up == [t \in Model.types |-> above(t)]
<1>1. \A t \in Model.types : Model.base[t] \in Model.types \cup {NoType}
  BY DEF WellFormed
<1>2. ASSUME NEW t \in Model.types
      PROVE  above(t) = {t} \cup IF Model.base[t] = NoType THEN {} ELSE up[Model.base[t]]
  <2> DEFINE rest == IF Model.base[t] = NoType THEN {} ELSE above(Model.base[t])
  <2>1. {t} \cup rest \subseteq above(t)
    <3>1. t \in above(t)
      OBVIOUS
    <3>2. ASSUME Model.base[t] # NoType, NEW u \in above(Model.base[t]) PROVE u \in above(t)
      <4>1. ASSUME NEW S \in SUBSET Model.types, t \in S, closed(S) PROVE u \in S
        <5>1. Model.base[t] \in S
          BY <4>1, <3>2
        <5> QED
          BY <3>2, <4>1, <5>1
      <4> QED
        BY <3>2, <4>1
    <3> QED
      BY <3>1, <3>2
  <2>2. {t} \cup rest \in SUBSET Model.types /\ t \in {t} \cup rest
    OBVIOUS
  <2>3. closed({t} \cup rest)
    <3>1. Model.base[t] # NoType => Model.base[t] \in rest
      BY <1>1
    <3>2. ASSUME NEW u \in rest, Model.base[u] # NoType PROVE Model.base[u] \in rest
      <4>1. Model.base[t] # NoType /\ u \in above(Model.base[t]) /\ Model.base[u] \in Model.types
        BY <1>1, <3>2
      <4>2. ASSUME NEW S \in SUBSET Model.types, Model.base[t] \in S, closed(S)
            PROVE  Model.base[u] \in S
        BY <3>2, <4>1, <4>2
      <4> QED
        BY <4>1, <4>2
    <3> HIDE DEF rest
    <3> QED
      BY <3>1, <3>2
  <2>4. above(t) \subseteq {t} \cup rest
    <3> HIDE DEF rest, closed
    <3> QED
      BY <2>2, <2>3
  <2>5. rest = IF Model.base[t] = NoType THEN {} ELSE up[Model.base[t]]
    BY <1>1
  <2> HIDE DEF rest, above, up
  <2> QED
    BY <2>1, <2>4, <2>5
<1>3. IsLineage(up)
  <2> HIDE DEF above
  <2> QED
    BY <1>2 DEF IsLineage
<1> QED
  BY <1>3

\* A type derives from itself and from its base.
LEMMA LineageUp ==
    ASSUME WellFormed(Model), NEW t \in Model.types
    PROVE  t \in Lineage(t) /\ (Model.base[t] # NoType => Model.base[t] \in Lineage(t))
<1> DEFINE up == CHOOSE f : IsLineage(f)
<1>1. IsLineage(up)
  BY LineagesExist
<1>2. \A c : Lineage(c) = up[c]
  BY DEF Lineage, IsLineage
<1>3. Model.base[t] \in Model.types \cup {NoType}
  BY DEF WellFormed
<1> HIDE DEF up
<1>4. up[t] = {t} \cup IF Model.base[t] = NoType THEN {} ELSE up[Model.base[t]]
  BY <1>1 DEF IsLineage
<1>5. Model.base[t] # NoType => Model.base[t] \in up[Model.base[t]]
  BY <1>1, <1>3 DEF IsLineage
<1> QED
  BY <1>2, <1>4, <1>5

\* What is read where a class is expected derives from it.
LEMMA CreatedDerives ==
    ASSUME ProgramInv, program # "none", NEW c \in Model.types, NEW type, Creates(c, type)
    PROVE  c \in Lineage(type)
<1>1. WellFormed(Model) /\ classes \subseteq Model.types
  BY RunningFacts
<1>2. c # NoType
  BY <1>1 DEF WellFormed, Basic
<1>3. CASE type = c
  BY <1>1, <1>3, LineageUp
<1>4. CASE type \in classes /\ Model.base[type] = c
  BY <1>1, <1>2, <1>4, LineageUp
<1> QED
  BY <1>3, <1>4 DEF Creates

\* The types of the entities stay.
SameWorld ==
    /\ program # "none" /\ model' = model /\ classes' = classes
    /\ DOMAIN store' = DOMAIN store
    /\ \A e \in DOMAIN store : store'[e].type = store[e].type

LEMMA WorldStays ==
    ASSUME SameWorld
    PROVE  /\ Model' = Model
           /\ \A n : Prop(n)' = Prop(n)
           /\ \A c : Lineage(c)' = Lineage(c)
           /\ \A c : Navigations(c)' = Navigations(c)
           /\ \A c, t : Creates(c, t)' <=> Creates(c, t)
           /\ \A e \in DOMAIN store : Type(e)' = Type(e)
           /\ \A n, es : Listed(es) \subseteq DOMAIN store => Readable(n, es)' = Readable(n, es)
<1>1. Model' = Model
  BY DEF SameWorld, Model
<1>2. \A n : Prop(n)' = Prop(n)
  BY <1>1 DEF Prop
<1>3. \A c : Lineage(c)' = Lineage(c)
  BY <1>1 DEF Lineage
<1>4. \A c : AllMembers(c)' = AllMembers(c)
  BY <1>1, <1>2, <1>3 DEF AllMembers, Members
<1>5. \A c : Navigations(c)' = Navigations(c)
  BY <1>1, <1>2, <1>4 DEF Navigations, Of
<1>7. \A c, t : Creates(c, t)' <=> Creates(c, t)
  BY <1>1 DEF Creates, SameWorld
<1>8. \A e \in DOMAIN store : Type(e)' = Type(e)
  BY DEF Type, SameWorld
<1>9. ASSUME NEW n, NEW es, Listed(es) \subseteq DOMAIN store PROVE Readable(n, es)' = Readable(n, es)
  <2>1. \A i \in DOMAIN es : es[i] \in DOMAIN store
    BY <1>9 DEF Listed
  <2>2. \A i \in DOMAIN es : Creates(Prop(n).type, Type(es[i]))' <=> Creates(Prop(n).type, Type(es[i]))
    BY <1>2, <1>7, <1>8, <2>1
  <2> QED
    BY <2>2 DEF Readable
<1> QED
  BY <1>1, <1>2, <1>3, <1>5, <1>7, <1>8, <1>9

-----------------------------------------------------------------------------
(* What a step leaves as it is *)

\* Before the program starts there is nothing to say of it.
Quiet == tasks = [t \in Tasks |-> Idle] /\ objects = [o \in Tasks |-> NoObject] /\ program # "crashed"

LEMMA QuietInv == Quiet => TasksInv /\ ObjectsInv /\ CurrentInv /\ WaitsInv
<1> SUFFICES ASSUME Quiet PROVE TasksInv /\ ObjectsInv /\ CurrentInv /\ WaitsInv
  OBVIOUS
<1>1. \A t \in Tasks : tasks[t] = Idle /\ tasks[t].step = "idle" /\ objects[t] = NoObject
  BY DEF Quiet, Idle
<1>2. \A t \in Tasks : ~IsAnswered(t) /\ ~Alive(t) /\ ~Flying(t)
  BY <1>1 DEF IsAnswered, Alive, NoObject, Flying
<1>3. TasksInv
  BY <1>1 DEF TasksInv, TaskInv, Quiet
<1>4. ObjectsInv
  BY <1>1, <1>2 DEF ObjectsInv, ObjectInv, Quiet
<1>5. CurrentInv
  BY <1>2 DEF CurrentInv
<1>6. InFlight = {}
  BY <1>2 DEF InFlight, Flying
<1>7. WaitsInv
  BY <1>6 DEF WaitsInv, Quiet
<1> QED
  BY <1>3, <1>4, <1>5, <1>7

LEMMA QuietInvNext == Quiet' => (TasksInv /\ ObjectsInv /\ CurrentInv /\ WaitsInv)'
BY QuietInv, PTL

\* The kinds of a call exclude each other.
LEMMA CallsInFlight ==
    ASSUME TasksInv, NEW t \in Tasks
    PROVE  /\ Flying(t) <=> t \in InFlight
           /\ Flying(t) /\ tasks[t].kind = "query" => IsQuery(t)
           /\ Flying(t) /\ tasks[t].kind = "load" => IsLoad(t)
           /\ tasks[t].step # "idle" => program # "none" \/ ~ProgramInv
BY DEF TasksInv, TaskInv, Flying, InFlight, Idle, IsQuery, IsLoad, IsUpdate, IsAnswered, IsDone, ProgramInv

\* What may be in a navigation property still may.
LEMMA MayHoldStays ==
    ASSUME SameWorld, NEW n, NEW e, MayHold(n, e)
    PROVE  MayHold(n, e)'
<1>1. CASE e = Null
  BY <1>1 DEF MayHold
<1>2. CASE e # Null
  <2>1. e \in DOMAIN store /\ Prop(n).type \in Lineage(Type(e))
    BY <1>2 DEF MayHold
  <2>2. Type(e)' = Type(e) /\ Prop(n)' = Prop(n) /\ \A c : Lineage(c)' = Lineage(c)
    BY <2>1, WorldStays
  <2> QED
    BY <2>1, <2>2 DEF MayHold, SameWorld
<1> QED
  BY <1>1, <1>2

\* What the program holds is an object of a query that has ended.
LEMMA Held ==
    ASSUME ObjectsInv, NEW o \in Tasks, Alive(o)
    PROVE  IsObject(o) /\ IsAnswered(o) /\ objects[o] # NoObject
BY DEF ObjectsInv, ObjectInv, Alive, NoObject, Released

\* An object stays one of its entity whatever is done to it.
LEMMA ObjectChanges ==
    ASSUME IInv, SameWorld, NEW o \in Tasks, IsObject(o), NEW navs,
           objects'[o] = [class |-> objects[o].class, members |-> objects'[o].members,
                          entity |-> objects[o].entity, read |-> objects'[o].read,
                          selected |-> objects'[o].selected, edited |-> objects'[o].edited,
                          navs |-> navs, fresh |-> objects'[o].fresh],
           DOMAIN navs = DOMAIN objects[o].navs,
           \A n \in DOMAIN navs : \A i \in DOMAIN navs[n] : MayHold(n, navs[n][i])
    PROVE  IsObject(o)'
<1>1. /\ objects'[o].class = objects[o].class /\ objects'[o].entity = objects[o].entity
      /\ objects'[o].navs = navs
  OBVIOUS
<1>2. objects[o].entity \in DOMAIN store /\ Type(objects[o].entity)' = Type(objects[o].entity)
  BY WorldStays DEF IsObject
<1>3. DOMAIN navs = Navigations(objects[o].class)'
  BY <1>1, WorldStays DEF IsObject
<1>4. \A n \in DOMAIN navs : \A i \in DOMAIN navs[n] : MayHold(n, navs[n][i])'
  BY <1>1, MayHoldStays
<1> QED
  BY <1>1, <1>2, <1>3, <1>4 DEF IsObject, SameWorld

LEMMA ObjectStays ==
    ASSUME IInv, SameWorld, NEW o \in Tasks, IsObject(o), objects'[o] = objects[o]
    PROVE  IsObject(o)'
BY ObjectChanges DEF IsObject

\* The objects there are stay those of their entities, or are released.
ObjectsLast ==
    \A o \in Tasks : objects[o] # NoObject =>
        /\ objects'[o] # NoObject
        /\ Alive(o)' => /\ Alive(o)
                        /\ objects'[o].entity = objects[o].entity
                        /\ objects'[o].class = objects[o].class

\* A call that is left alone stays what it is.
LEMMA TaskStays ==
    ASSUME IInv, SameWorld, NEW t \in Tasks, tasks'[t] = tasks[t], ObjectsLast
    PROVE  TaskInv(t)'
<1>1. DOMAIN store' = DOMAIN store /\ classes' = classes
  BY DEF SameWorld
<1>2. TaskInv(t)
  BY DEF IInv, TasksInv
<1>3. CASE IsQuery(t)
  BY <1>1, <1>3 DEF IsQuery, Flying, TaskInv
<1>4. CASE IsLoad(t)
  <2>1. \A c : Navigations(c)' = Navigations(c)
    BY WorldStays
  <2> DEFINE o == tasks[t].object
  <2>2. o \in Tasks /\ objects[o] # NoObject
    BY <1>4 DEF IsLoad
  <2>3. ASSUME Alive(o)'
        PROVE  tasks[t].entity = objects'[o].entity /\ tasks[t].nav \in Navigations(objects[o].class)'
    BY <1>4, <2>1, <2>2, <2>3 DEF IsLoad, ObjectsLast
  <2>4. objects'[o] # NoObject
    BY <2>2 DEF ObjectsLast
  <2> QED
    BY <1>1, <1>4, <2>2, <2>3, <2>4 DEF IsLoad, Flying, TaskInv
<1>5. CASE IsAnswered(t)
  BY <1>1, <1>5 DEF IsAnswered, TaskInv
<1> QED
  BY <1>2, <1>3, <1>4, <1>5 DEF TaskInv, IsUpdate, IsDone

\* What was said of a fresh property stays true as long as no load of it begins,
\* ends or is answered, and the service links the same.
LEMMA CurrentStays ==
    ASSUME IInv, SameWorld, NEW o \in Tasks, Alive(o), NEW n, Current(o, n),
           objects'[o].navs[n] = objects[o].navs[n], LinkedFrom(o, n)' = LinkedFrom(o, n),
           \A t \in Tasks : t \in Loads(o, n)' <=> t \in Loads(o, n),
           \A t \in Loads(o, n) : tasks'[t] = tasks[t] \/ tasks'[t].answer = LinkedFrom(o, n)
                                  \/ (tasks'[t].answer = tasks[t].answer /\ tasks[t].step # "sent")
    PROVE  Current(o, n)'
<1>1. Loads(o, n) \subseteq Tasks /\ Loads(o, n)' \subseteq Tasks
  BY DEF Loads, InFlight
<1>2. Loads(o, n)' = Loads(o, n)
  BY <1>1
<1>3. Listed(LinkedFrom(o, n)) \subseteq DOMAIN store
  <2>1. IsObject(o)
    BY Held DEF IInv
  <2>2. objects[o].entity \in DOMAIN store
    BY <2>1 DEF IsObject
  <2>3. Listed(<<>>) = {}
    BY DEF Listed
  <2> QED
    BY <2>2, <2>3 DEF LinkedFrom, LinksOf, IInv, ProgramInv, SameWorld
<1>4. Readable(n, LinkedFrom(o, n))' = Readable(n, LinkedFrom(o, n))
  BY <1>3, WorldStays
<1> QED
  BY <1>2, <1>4 DEF Current

\* What is known of a query and its object stays true while neither changes.
LEMMA ObjectInvStays ==
    ASSUME IInv, SameWorld, NEW o \in Tasks, objects'[o] = objects[o],
           tasks'[o] = tasks[o] \/ (~IsAnswered(o) /\ ~IsAnswered(o)')
    PROVE  ObjectInv(o)'
<1>1. ObjectInv(o)
  BY DEF IInv, ObjectsInv
<1>2. IsAnswered(o)' <=> IsAnswered(o)
  BY DEF IsAnswered, SameWorld
<1>3. IsObject(o) => IsObject(o)'
  BY ObjectStays
<1>4. ASSUME IsAnswered(o), objects[o] = NoObject
      PROVE  ~Creates(tasks[o].class, Type(tasks[o].entity))'
  <2>1. tasks'[o] = tasks[o] /\ tasks[o].entity \in DOMAIN store
    BY <1>4 DEF IsAnswered
  <2>2. ~Creates(tasks[o].class, Type(tasks[o].entity))
    BY <1>1, <1>4 DEF ObjectInv
  <2> QED
    BY <2>1, <2>2 DEF Creates, Type, SameWorld, Model
<1> QED
  BY <1>1, <1>2, <1>3, <1>4 DEF ObjectInv, NoObject, Released

\* The program goes on, over entities that have the same types and links to others.
LEMMA ProgramStays ==
    ASSUME IInv, SameWorld, step' = step, program' \in {"running", "crashed"},
           \A e \in DOMAIN store :
               /\ store'[e] = [type |-> store'[e].type, fields |-> store'[e].fields, links |-> store'[e].links]
               /\ \A n \in DOMAIN store'[e].links : Listed(store'[e].links[n]) \subseteq DOMAIN store
    PROVE  ProgramInv'
<1>1. Model' = Model
  BY WorldStays
<1>2. ProgramInv /\ program # "none"
  BY DEF IInv, SameWorld
<1> QED
  BY <1>1, <1>2 DEF ProgramInv, SameWorld, Of

LEMMA ProgramGoesOn ==
    ASSUME IInv, SameWorld, step' = step, program' \in {"running", "crashed"}, store' = store
    PROVE  ProgramInv'
<1>1. \A e \in DOMAIN store :
          /\ store'[e] = [type |-> store'[e].type, fields |-> store'[e].fields, links |-> store'[e].links]
          /\ \A n \in DOMAIN store'[e].links : Listed(store'[e].links[n]) \subseteq DOMAIN store
  BY DEF IInv, ProgramInv, SameWorld
<1> QED
  BY <1>1, ProgramStays

-----------------------------------------------------------------------------
(* The steps *)

LEMMA InitIInv == Init => IInv
<1> SUFFICES ASSUME Init PROVE IInv
  OBVIOUS
<1>1. ProgramInv
  BY DEF Init, ProgramInv
<1>2. Quiet
  BY DEF Init, Quiet
<1> QED
  BY <1>1, <1>2, QuietInv DEF IInv

\* The tool runs before the program does.
LEMMA GenerateIInv == IInv /\ Generate /\ UNCHANGED program_vars => IInv'
<1> SUFFICES ASSUME IInv, Generate, UNCHANGED program_vars PROVE IInv'
  OBVIOUS
<1>1. step # "quit"
  BY DEF Generate, GiveUp, BeginSchema, Merge, AddEnum, AddClass, NameEnumerator, EndClasses,
         EndSchema, Write, Compile
<1>2. program = "none" /\ program' = "none"
  BY <1>1 DEF IInv, ProgramInv, program_vars
<1>3. tasks = [t \in Tasks |-> Idle] /\ objects = [t \in Tasks |-> NoObject]
  BY <1>2 DEF IInv, ProgramInv
<1>4. tasks' = tasks /\ objects' = objects
  BY DEF program_vars
<1>5. ProgramInv'
  BY <1>2, <1>3, <1>4 DEF ProgramInv
<1>6. Quiet'
  BY <1>2, <1>3, <1>4 DEF Quiet
<1> QED
  BY <1>5, <1>6, QuietInvNext DEF IInv

\* The program starts with the classes of a list that is complete.
LEMMA StartIInv == IInv /\ GeneratorIInv /\ Start => IInv'
<1> SUFFICES ASSUME IInv, GeneratorIInv, Start PROVE IInv'
  OBVIOUS
<1>1. step = "compiled" /\ step' = "quit" /\ model' = model /\ Model' = Model
  BY DEF Start, Quit, Model
<1>2. program = "none"
  BY <1>1 DEF IInv, ProgramInv
<1>3. tasks = [t \in Tasks |-> Idle] /\ objects = [t \in Tasks |-> NoObject]
  BY <1>2 DEF IInv, ProgramInv
<1>4. tasks' = tasks /\ objects' = objects /\ program' = "running"
  BY DEF Start
<1>5. Sound(Model, total, Model.schemas) /\ Closed(Model, total, Model.schemas)
  BY <1>1 DEF GeneratorIInv, TotalInv
<1>6. model \in DOMAIN Stores /\ WellStored(model, Stores[model]) /\ WellFormed(Model)
  BY StoresAssumption, ModelFacts DEF Start
<1>7. /\ classes' \subseteq Model.types
      /\ \A t \in Model.types :
            Model.base[t] \in classes' /\ Model.schema[Model.base[t]] = Model.schema[t] => t \in classes'
  <2>1. \A t \in Model.types : Model.schema[t] \in Model.schemas
    BY <1>6 DEF WellFormed
  <2>2. classes' = Listed(total)
    BY DEF Start
  <2> QED
    BY <1>5, <2>1, <2>2 DEF Sound, Closed, BaseIn, Listed
<1>8. /\ DOMAIN store' = DOMAIN Stores[model].entities
      /\ \A e \in DOMAIN store' :
            /\ store'[e] = [type |-> store'[e].type, fields |-> store'[e].fields, links |-> store'[e].links]
            /\ store'[e].type \in Of(Model, "entity")
            /\ \A n \in DOMAIN store'[e].links : Listed(store'[e].links[n]) \subseteq DOMAIN store'
  <2>1. store' = Stores[model].entities
    BY DEF Start
  <2> QED
    BY <1>6, <2>1 DEF WellStored, Model
<1>9. ProgramInv'
  BY <1>1, <1>4, <1>6, <1>7, <1>8 DEF ProgramInv
<1>10. Quiet'
  BY <1>3, <1>4 DEF Quiet
<1> QED
  BY <1>9, <1>10, QuietInvNext DEF IInv

\* A call that is made: a query or an update changes no object.
LEMMA CallIInv ==
    ASSUME IInv, NEW t \in Tasks, NEW call, Call(t, call), UNCHANGED objects,
           call.step = "sent", call.kind # "load", (IsQuery(t) \/ IsUpdate(t))'
    PROVE  IInv'
<1>1. /\ program = "running" /\ program' = program /\ tasks[t] = Idle
      /\ tasks' = [tasks EXCEPT ![t] = call] /\ hurried' = (hurried \/ InFlight # {})
      /\ store' = store /\ classes' = classes /\ model' = model /\ step' = step
  BY DEF Call, generator_vars
<1>2. SameWorld
  BY <1>1 DEF SameWorld
<1>3. ProgramInv'
  BY <1>1, <1>2, ProgramGoesOn
<1>4. tasks'[t] = call /\ \A u \in Tasks \ {t} : tasks'[u] = tasks[u]
  BY <1>1 DEF IInv, TasksInv
<1>5. TasksInv'
  <2>1. \A u \in Tasks \ {t} : TaskInv(u)'
    BY <1>2, <1>4, TaskStays DEF Alive, ObjectsLast
  <2>2. TaskInv(t)'
    BY DEF TaskInv
  <2>3. tasks' = [u \in Tasks |-> tasks'[u]]
    BY <1>1 DEF IInv, TasksInv
  <2> QED
    BY <2>1, <2>2, <2>3 DEF TasksInv
<1>6. tasks[t].step = "idle"
  BY <1>1 DEF Idle
<1>7. ObjectsInv'
  <2>1. ~IsAnswered(t) /\ ~IsAnswered(t)'
    BY <1>4, <1>6 DEF IsAnswered
  <2>2. \A o \in Tasks : ObjectInv(o)'
    BY <1>2, <1>4, <2>1, ObjectInvStays
  <2> QED
    BY <2>2 DEF IInv, ObjectsInv
<1>8. CurrentInv'
  <2> SUFFICES ASSUME NEW o \in Tasks, Alive(o)', NEW n \in objects'[o].fresh PROVE Current(o, n)'
    BY DEF CurrentInv
  <2>1. Alive(o) /\ Current(o, n)
    BY DEF IInv, CurrentInv, Alive
  <2>2. \A u \in Tasks : u \in Loads(o, n)' <=> u \in Loads(o, n)
    BY <1>4, <1>6 DEF Loads, InFlight
  <2>3. t \notin Loads(o, n) /\ Loads(o, n) \subseteq Tasks
    BY <1>6 DEF Loads, InFlight
  <2>4. LinkedFrom(o, n)' = LinkedFrom(o, n)
    BY <1>1 DEF LinkedFrom, LinksOf
  <2> QED
    BY <1>2, <1>4, <2>1, <2>2, <2>3, <2>4, CurrentStays
<1>9. WaitsInv'
  <2>1. InFlight' \subseteq InFlight \cup {t}
    BY <1>4 DEF InFlight
  <2>2. \A u \in InFlight' : u = t => tasks'[u].kind # "load"
    BY <1>4
  <2> QED
    BY <1>1, <2>1, <2>2 DEF IInv, WaitsInv
<1> QED
  BY <1>3, <1>5, <1>7, <1>8, <1>9 DEF IInv

LEMMA QueryIInv ==
    ASSUME IInv, NEW t \in Tasks, program = "running", NEW q \in Stores[model].queries, Query(t, q)
    PROVE  IInv'
<1> DEFINE call == [step |-> "sent", kind |-> "query", entity |-> q.entity, class |-> q.class,
                    selected |-> q.selected, expand |-> q.expand, answer |-> Null]
<1>1. Call(t, call) /\ UNCHANGED objects /\ q.class \in classes
  BY DEF Query
<1>2. tasks'[t] = call /\ classes' = classes /\ store' = store
  BY <1>1 DEF Call, IInv, TasksInv
<1>3. q.entity \in DOMAIN store
  BY StoresAssumption DEF WellStored, IInv, ProgramInv
<1>4. IsQuery(t)'
  BY <1>1, <1>2, <1>3 DEF IsQuery, Flying
<1>5. call.step = "sent" /\ call.kind # "load"
  OBVIOUS
<1> HIDE DEF call
<1> QED
  BY <1>1, <1>4, <1>5, CallIInv

LEMMA UpdateIInv ==
    ASSUME IInv, NEW t \in Tasks, NEW o, NEW memory, Update(t, o, memory)
    PROVE  IInv'
<1> DEFINE call == [step |-> "sent", kind |-> "update", of |-> Said(objects[o]),
                    payload |-> ToValue(objects[o], memory)]
<1>1. Call(t, call) /\ UNCHANGED objects
  BY DEF Update
<1>2. call.step = "sent" /\ call.kind = "update"
  OBVIOUS
<1> HIDE DEF call
<1>3. tasks'[t] = call
  BY <1>1 DEF Call, IInv, TasksInv
<1>4. IsUpdate(t)'
  BY <1>2, <1>3 DEF IsUpdate
<1> QED
  BY <1>1, <1>2, <1>4, CallIInv

LEMMA LoadIInv ==
    ASSUME IInv, NEW t \in Tasks, NEW o \in Tasks, NEW n, Load(t, o, n)
    PROVE  IInv'
<1> DEFINE call == [step |-> "sent", kind |-> "load", object |-> o, nav |-> n,
                    entity |-> objects[o].entity, answer |-> Null]
<1>1. /\ Alive(o) /\ n \in Navigations(objects[o].class) /\ Call(t, call)
      /\ objects' = [objects EXCEPT ![o].fresh = IF Loads(o, n) = {} THEN @ \cup {n} ELSE @ \ {n}]
  BY DEF Load
<1>2. call.step = "sent" /\ call.kind = "load" /\ call.object = o /\ call.nav = n
      /\ call.entity = objects[o].entity
  OBVIOUS
<1>3. call = [step |-> call.step, kind |-> "load", object |-> call.object, nav |-> call.nav,
              entity |-> call.entity, answer |-> call.answer]
  OBVIOUS
<1> HIDE DEF call
<1>4. /\ program = "running" /\ program' = program /\ tasks[t] = Idle
      /\ tasks' = [tasks EXCEPT ![t] = call] /\ hurried' = (hurried \/ InFlight # {})
      /\ store' = store /\ classes' = classes /\ model' = model /\ step' = step
  BY <1>1 DEF Call, generator_vars
<1>5. SameWorld
  BY <1>4 DEF SameWorld
<1>6. ProgramInv'
  BY <1>4, <1>5, ProgramGoesOn
<1>7. tasks'[t] = call /\ tasks[t].step = "idle" /\ \A u \in Tasks \ {t} : tasks'[u] = tasks[u]
  BY <1>4 DEF IInv, TasksInv, Idle
<1>8. IsObject(o) /\ IsAnswered(o) /\ objects[o] # NoObject /\ o # t
  BY <1>1, <1>7, Held DEF IInv, IsAnswered
<1>9. /\ objects' = [u \in Tasks |-> objects'[u]]
      /\ \A u \in Tasks \ {o} : objects'[u] = objects[u]
      /\ objects'[o] = [objects[o] EXCEPT !.fresh = IF Loads(o, n) = {} THEN @ \cup {n} ELSE @ \ {n}]
  BY <1>1 DEF IInv, ObjectsInv
<1>10. /\ objects'[o] = [class |-> objects[o].class, members |-> objects'[o].members,
                         entity |-> objects[o].entity, read |-> objects'[o].read,
                         selected |-> objects'[o].selected, edited |-> objects'[o].edited,
                         navs |-> objects[o].navs, fresh |-> objects'[o].fresh]
       /\ objects'[o].fresh = IF Loads(o, n) = {} THEN objects[o].fresh \cup {n} ELSE objects[o].fresh \ {n}
       /\ objects'[o].class = objects[o].class /\ objects'[o].entity = objects[o].entity
       /\ objects'[o].navs = objects[o].navs
  BY <1>8, <1>9 DEF IsObject
<1>11. IsObject(o)' /\ (Alive(o)' <=> Alive(o)) /\ objects'[o] # NoObject
  <2>1. IsObject(o)'
    BY <1>5, <1>8, <1>10, ObjectChanges DEF IsObject
  <2> QED
    BY <1>1, <1>10, <2>1 DEF Alive, NoObject
<1>12. \A u \in Tasks : Alive(u)' <=> Alive(u)
  BY <1>9, <1>11 DEF Alive
<1>13. TasksInv'
  <2>1. \A u \in Tasks \ {t} : TaskInv(u)'
    <3>1. ObjectsLast
      BY <1>9, <1>10, <1>11, <1>12 DEF ObjectsLast
    <3> QED
      BY <1>5, <1>7, <3>1, TaskStays
  <2>2. IsLoad(t)'
    <3>1. objects[o].entity \in DOMAIN store
      BY <1>8 DEF IsObject
    <3>2. n \in Navigations(objects[o].class)'
      BY <1>1, <1>5, <1>10, WorldStays
    <3> QED
      BY <1>2, <1>3, <1>4, <1>7, <1>10, <1>11, <3>1, <3>2 DEF IsLoad, Flying
  <2>3. tasks' = [u \in Tasks |-> tasks'[u]]
    BY <1>4 DEF IInv, TasksInv
  <2> QED
    BY <2>1, <2>2, <2>3 DEF TasksInv, TaskInv
<1>14. ObjectsInv'
  <2>1. ~IsAnswered(t) /\ ~IsAnswered(t)'
    BY <1>2, <1>7 DEF IsAnswered
  <2>2. \A u \in Tasks \ {o} : ObjectInv(u)'
    BY <1>5, <1>7, <1>9, <2>1, ObjectInvStays
  <2>3. IsAnswered(o)'
    BY <1>4, <1>7, <1>8 DEF IsAnswered
  <2>4. ObjectInv(o)'
    BY <1>11, <2>3 DEF ObjectInv, NoObject
  <2> QED
    BY <1>9, <2>2, <2>4 DEF ObjectsInv
<1>15. CurrentInv'
  <2> SUFFICES ASSUME NEW u \in Tasks, Alive(u)', NEW p \in objects'[u].fresh PROVE Current(u, p)'
    BY DEF CurrentInv
  <2>1. CASE u = o /\ p = n
    <3>1. Loads(o, n) = {}
      BY <1>10, <2>1
    <3>2. Loads(o, n)' = {t}
      <4>1. \A v \in Tasks \ {t} : v \notin Loads(o, n)'
        BY <1>7, <3>1 DEF Loads, InFlight
      <4>2. t \in Loads(o, n)'
        BY <1>2, <1>7 DEF Loads, InFlight
      <4>3. Loads(o, n)' \subseteq Tasks
        BY DEF Loads, InFlight
      <4> QED
        BY <4>1, <4>2, <4>3
    <3> QED
      BY <1>2, <1>7, <2>1, <3>2 DEF Current
  <2>2. CASE u # o \/ p # n
    <3>1. /\ Alive(u) /\ p \in objects[u].fresh
          /\ objects'[u].navs = objects[u].navs /\ objects'[u].entity = objects[u].entity
      BY <1>9, <1>10, <1>12, <2>2
    <3>2. Current(u, p)
      BY <3>1 DEF IInv, CurrentInv
    <3>3. \A v \in Tasks : v \in Loads(u, p)' <=> v \in Loads(u, p)
      BY <1>2, <1>7, <2>2 DEF Loads, InFlight
    <3>4. t \notin Loads(u, p) /\ Loads(u, p) \subseteq Tasks
      BY <1>7 DEF Loads, InFlight
    <3>5. LinkedFrom(u, p)' = LinkedFrom(u, p)
      BY <1>4, <3>1 DEF LinkedFrom, LinksOf
    <3> QED
      BY <1>5, <1>7, <3>1, <3>2, <3>3, <3>4, <3>5, CurrentStays
  <2> QED
    BY <2>1, <2>2
<1>16. WaitsInv'
  <2>1. InFlight' \subseteq InFlight \cup {t}
    BY <1>7 DEF InFlight
  <2>2. \A u \in InFlight' : u = t => Alive(tasks[u].object)'
    BY <1>1, <1>2, <1>7, <1>12
  <2> QED
    BY <1>1, <1>2, <1>4, <1>7, <1>12, <2>1, <2>2 DEF IInv, WaitsInv
<1> QED
  BY <1>6, <1>13, <1>14, <1>15, <1>16 DEF IInv

\* What is said of objects stays as it was, or is said no more.
SaidLasts ==
    \A o \in Tasks : Alive(o)' =>
        /\ Alive(o)
        /\ \A n \in objects'[o].fresh :
              /\ n \in objects[o].fresh /\ objects'[o].navs[n] = objects[o].navs[n]
              /\ LinkedFrom(o, n)' = LinkedFrom(o, n)

\* A step that makes no call, ends none and answers none.
LEMMA CallsStay ==
    ASSUME IInv, SameWorld, tasks' = tasks, ObjectsLast, SaidLasts
    PROVE  TasksInv' /\ CurrentInv'
<1>1. \A t \in Tasks : TaskInv(t)'
  BY TaskStays
<1>2. TasksInv'
  BY <1>1 DEF IInv, TasksInv
<1>3. CurrentInv'
  <2> SUFFICES ASSUME NEW o \in Tasks, Alive(o)', NEW n \in objects'[o].fresh PROVE Current(o, n)'
    BY DEF CurrentInv
  <2>1. /\ Alive(o) /\ n \in objects[o].fresh /\ objects'[o].navs[n] = objects[o].navs[n]
        /\ LinkedFrom(o, n)' = LinkedFrom(o, n)
    BY DEF SaidLasts
  <2>4. Current(o, n)
    BY <2>1 DEF IInv, CurrentInv
  <2>2. \A t \in Tasks : t \in Loads(o, n)' <=> t \in Loads(o, n)
    BY DEF Loads, InFlight
  <2>3. Loads(o, n) \subseteq Tasks
    BY DEF Loads, InFlight
  <2> QED
    BY <2>1, <2>2, <2>3, <2>4, CurrentStays
<1> QED
  BY <1>2, <1>3

\* Such a step keeps waiting what it was, if it says when an object that is loaded
\* to is released.
LEMMA WaitingStays ==
    ASSUME IInv, tasks' = tasks, program' = program, hurried => hurried',
           \A o \in Tasks : Alive(o) => Alive(o)' \/ (\A t \in InFlight :
               tasks[t].kind = "load" /\ tasks[t].object = o => hurried')
    PROVE  WaitsInv'
<1>1. InFlight' = InFlight
  BY DEF InFlight
<1>2. ASSUME NEW t \in InFlight, tasks[t].kind = "load", ~hurried' PROVE Alive(tasks[t].object)'
  <2>1. t \in Tasks
    BY DEF InFlight
  <2>2. IsLoad(t)
    BY <1>2, <2>1, CallsInFlight DEF IInv
  <2> QED
    BY <1>2, <2>2 DEF IsLoad, IInv, WaitsInv
<1> QED
  BY <1>1, <1>2 DEF IInv, WaitsInv

LEMMA EditIInv ==
    ASSUME IInv, NEW o \in Tasks, NEW p, NEW m, Edit(o, p, m)
    PROVE  IInv'
<1>1. /\ program = "running" /\ program' = program /\ Alive(o) /\ hurried' = hurried
      /\ store' = store /\ classes' = classes /\ model' = model /\ step' = step /\ tasks' = tasks
      /\ objects' = [objects EXCEPT ![o].members[p] = m, ![o].edited = @ \cup {p}]
  BY DEF Edit, generator_vars
<1>2. SameWorld
  BY <1>1 DEF SameWorld
<1>3. ProgramInv'
  BY <1>1, <1>2, ProgramGoesOn
<1>4. IsObject(o) /\ IsAnswered(o) /\ objects[o] # NoObject
  BY <1>1, Held DEF IInv
<1>5. /\ objects' = [u \in Tasks |-> objects'[u]]
      /\ \A u \in Tasks \ {o} : objects'[u] = objects[u]
      /\ objects'[o] = [objects[o] EXCEPT !.members = [@ EXCEPT ![p] = m], !.edited = @ \cup {p}]
  BY <1>1 DEF IInv, ObjectsInv
<1>6. /\ objects'[o] = [class |-> objects[o].class, members |-> objects'[o].members,
                        entity |-> objects[o].entity, read |-> objects'[o].read,
                        selected |-> objects'[o].selected, edited |-> objects'[o].edited,
                        navs |-> objects[o].navs, fresh |-> objects'[o].fresh]
      /\ objects'[o].fresh = objects[o].fresh /\ objects'[o].navs = objects[o].navs
      /\ objects'[o].class = objects[o].class /\ objects'[o].entity = objects[o].entity
  BY <1>4, <1>5 DEF IsObject
<1>7. IsObject(o)' /\ objects'[o] # NoObject
  <2>1. IsObject(o)'
    BY <1>2, <1>4, <1>6, ObjectChanges DEF IsObject
  <2> QED
    BY <1>1, <1>6, <2>1 DEF Alive, NoObject
<1>8. \A u \in Tasks : Alive(u)' <=> Alive(u)
  BY <1>5, <1>6 DEF Alive
<1>9. TasksInv' /\ CurrentInv'
  <2>1. \A u \in Tasks : \A n : LinkedFrom(u, n)' = LinkedFrom(u, n)
    BY <1>1, <1>5, <1>6 DEF LinkedFrom, LinksOf
  <2>2. ObjectsLast
    BY <1>5, <1>6, <1>7, <1>8 DEF ObjectsLast
  <2>3. SaidLasts
    BY <1>5, <1>6, <1>8, <2>1 DEF SaidLasts
  <2> QED
    BY <1>1, <1>2, <2>2, <2>3, CallsStay
<1>10. ObjectsInv'
  <2>1. \A u \in Tasks \ {o} : ObjectInv(u)'
    BY <1>1, <1>2, <1>5, ObjectInvStays
  <2>2. IsAnswered(o)'
    BY <1>1, <1>4 DEF IsAnswered
  <2>3. ObjectInv(o)'
    BY <1>7, <2>2 DEF ObjectInv
  <2> QED
    BY <1>5, <2>1, <2>3 DEF ObjectsInv
<1>11. WaitsInv'
  BY <1>1, <1>8, WaitingStays
<1> QED
  BY <1>3, <1>9, <1>10, <1>11 DEF IInv

LEMMA ReleaseIInv ==
    ASSUME IInv, NEW o \in Tasks, Release(o)
    PROVE  IInv'
<1>1. /\ program = "running" /\ program' = program /\ Alive(o)
      /\ store' = store /\ classes' = classes /\ model' = model /\ step' = step /\ tasks' = tasks
      /\ objects' = [objects EXCEPT ![o] = Released]
      /\ hurried' = (hurried \/ \E t \in InFlight : tasks[t].kind = "load" /\ tasks[t].object = o)
  BY DEF Release, generator_vars
<1>2. SameWorld
  BY <1>1 DEF SameWorld
<1>3. ProgramInv'
  BY <1>1, <1>2, ProgramGoesOn
<1>4. /\ objects' = [u \in Tasks |-> objects'[u]]
      /\ \A u \in Tasks \ {o} : objects'[u] = objects[u]
      /\ objects'[o] = Released
  BY <1>1 DEF IInv, ObjectsInv
<1>5. Released # NoObject /\ ~Alive(o)'
  <2>1. Released.class = Void /\ NoObject.class = NoType /\ Void # NoType
    BY DEF Released, NoObject, Void, NoType
  <2> QED
    BY <1>4, <2>1 DEF Alive
<1>6. \A u \in Tasks \ {o} : Alive(u)' <=> Alive(u)
  BY <1>4 DEF Alive
<1>7. TasksInv' /\ CurrentInv'
  <2>1. \A u \in Tasks \ {o} : \A n : LinkedFrom(u, n)' = LinkedFrom(u, n)
    BY <1>1, <1>4 DEF LinkedFrom, LinksOf
  <2>2. ObjectsLast
    BY <1>4, <1>5, <1>6 DEF ObjectsLast
  <2>3. SaidLasts
    BY <1>4, <1>5, <1>6, <2>1 DEF SaidLasts
  <2> QED
    BY <1>1, <1>2, <2>2, <2>3, CallsStay
<1>8. ObjectsInv'
  <2>1. \A u \in Tasks \ {o} : ObjectInv(u)'
    BY <1>1, <1>2, <1>4, ObjectInvStays
  <2>2. IsAnswered(o)'
    BY <1>1, Held DEF IsAnswered, IInv
  <2>3. ObjectInv(o)'
    BY <1>4, <1>5, <2>2 DEF ObjectInv, Released
  <2> QED
    BY <1>4, <2>1, <2>3 DEF ObjectsInv
<1>9. WaitsInv'
  BY <1>1, <1>6, WaitingStays
<1> QED
  BY <1>3, <1>7, <1>8, <1>9 DEF IInv

\* Other clients change values and links: an object is said to be current no more
\* in what was relinked.
LEMMA ChangeIInv ==
    ASSUME IInv, NEW e \in DOMAIN store, NEW p, NEW v, Change(e, p, v)
    PROVE  IInv'
<1>1. /\ program = "running" /\ program' = program /\ hurried' = hurried
      /\ classes' = classes /\ model' = model /\ step' = step /\ tasks' = tasks /\ objects' = objects
      /\ store' = [store EXCEPT ![e].fields[p] = v]
  BY DEF Change, generator_vars
<1>2. /\ DOMAIN store' = DOMAIN store
      /\ \A f \in DOMAIN store :
            /\ store'[f] = [type |-> store'[f].type, fields |-> store'[f].fields, links |-> store'[f].links]
            /\ store'[f].type = store[f].type /\ store'[f].links = store[f].links
            /\ \A n \in DOMAIN store'[f].links : Listed(store'[f].links[n]) \subseteq DOMAIN store
  <2>1. \A f \in DOMAIN store :
            /\ store[f] = [type |-> store[f].type, fields |-> store[f].fields, links |-> store[f].links]
            /\ \A n \in DOMAIN store[f].links : Listed(store[f].links[n]) \subseteq DOMAIN store
    BY <1>1 DEF IInv, ProgramInv
  <2>2. /\ DOMAIN store' = DOMAIN store
        /\ \A f \in DOMAIN store \ {e} : store'[f] = store[f]
        /\ store'[e] = [store[e] EXCEPT !.fields = [@ EXCEPT ![p] = v]]
    BY <1>1
  <2>3. /\ store'[e] = [type |-> store'[e].type, fields |-> store'[e].fields, links |-> store'[e].links]
        /\ store'[e].type = store[e].type /\ store'[e].links = store[e].links
    BY <2>1, <2>2
  <2> QED
    BY <2>1, <2>2, <2>3
<1>3. SameWorld
  BY <1>1, <1>2 DEF SameWorld
<1>4. ProgramInv'
  BY <1>1, <1>2, <1>3, ProgramStays
<1>5. \A o \in Tasks : Alive(o)' <=> Alive(o)
  BY <1>1 DEF Alive
<1>6. TasksInv' /\ CurrentInv'
  <2>1. \A o \in Tasks : Alive(o) => \A n : LinkedFrom(o, n)' = LinkedFrom(o, n)
    BY <1>1, <1>2, Held DEF LinkedFrom, LinksOf, IsObject, IInv
  <2>2. ObjectsLast /\ SaidLasts
    BY <1>1, <1>5, <2>1 DEF ObjectsLast, SaidLasts
  <2> QED
    BY <1>1, <1>3, <2>2, CallsStay
<1>7. ObjectsInv'
  BY <1>1, <1>3, ObjectInvStays DEF IInv, ObjectsInv
<1>8. WaitsInv'
  BY <1>1, <1>5, WaitingStays
<1> QED
  BY <1>4, <1>6, <1>7, <1>8 DEF IInv

LEMMA RelinkIInv ==
    ASSUME IInv, NEW e \in DOMAIN store, NEW n, NEW f \in DOMAIN store, Relink(e, n, f)
    PROVE  IInv'
<1>1. /\ program = "running" /\ program' = program /\ hurried' = hurried /\ n \in DOMAIN store[e].links
      /\ classes' = classes /\ model' = model /\ step' = step /\ tasks' = tasks
      /\ store' = [store EXCEPT ![e].links[n] = <<f>>]
      /\ objects' = [o \in Tasks |-> IF Alive(o) /\ objects[o].entity = e
                                     THEN [objects[o] EXCEPT !.fresh = @ \ {n}]
                                     ELSE objects[o]]
  BY DEF Relink, generator_vars
<1>2. /\ DOMAIN store' = DOMAIN store
      /\ \A g \in DOMAIN store :
            /\ store'[g] = [type |-> store'[g].type, fields |-> store'[g].fields, links |-> store'[g].links]
            /\ store'[g].type = store[g].type
            /\ \A m \in DOMAIN store'[g].links : Listed(store'[g].links[m]) \subseteq DOMAIN store
      /\ \A g \in DOMAIN store \ {e} : store'[g] = store[g]
      /\ \A m : m # n => LinksOf(store'[e], m) = LinksOf(store[e], m)
  <2>1. \A g \in DOMAIN store :
            /\ store[g] = [type |-> store[g].type, fields |-> store[g].fields, links |-> store[g].links]
            /\ \A m \in DOMAIN store[g].links : Listed(store[g].links[m]) \subseteq DOMAIN store
    BY <1>1 DEF IInv, ProgramInv
  <2>2. /\ DOMAIN store' = DOMAIN store
        /\ \A g \in DOMAIN store \ {e} : store'[g] = store[g]
        /\ store'[e] = [store[e] EXCEPT !.links = [@ EXCEPT ![n] = <<f>>]]
    BY <1>1
  <2>3. /\ store'[e] = [type |-> store'[e].type, fields |-> store'[e].fields, links |-> store'[e].links]
        /\ store'[e].type = store[e].type /\ store'[e].links = [store[e].links EXCEPT ![n] = <<f>>]
    BY <2>1, <2>2
  <2>4. Listed(<<f>>) = {f}
    BY DEF Listed
  <2>5. /\ DOMAIN store'[e].links = DOMAIN store[e].links /\ store'[e].links[n] = <<f>>
        /\ \A m \in DOMAIN store[e].links \ {n} : store'[e].links[m] = store[e].links[m]
    BY <1>1, <2>3
  <2>6. \A m : m # n => LinksOf(store'[e], m) = LinksOf(store[e], m)
    BY <2>5 DEF LinksOf
  <2>7. \A m \in DOMAIN store'[e].links : Listed(store'[e].links[m]) \subseteq DOMAIN store
    BY <2>1, <2>4, <2>5
  <2> QED
    BY <2>1, <2>2, <2>3, <2>6, <2>7
<1>3. SameWorld
  BY <1>1, <1>2 DEF SameWorld
<1>4. ProgramInv'
  BY <1>1, <1>2, <1>3, ProgramStays
<1>5. ASSUME NEW o \in Tasks, Alive(o), objects[o].entity = e
      PROVE  /\ IsObject(o)' /\ objects'[o] # NoObject /\ Alive(o)'
             /\ objects'[o].fresh = objects[o].fresh \ {n} /\ objects'[o].navs = objects[o].navs
             /\ objects'[o].class = objects[o].class /\ objects'[o].entity = objects[o].entity
  <2>1. IsObject(o)
    BY <1>5, Held DEF IInv
  <2>2. objects'[o] = [objects[o] EXCEPT !.fresh = @ \ {n}]
    BY <1>1, <1>5
  <2>3. /\ objects'[o] = [class |-> objects[o].class, members |-> objects'[o].members,
                          entity |-> objects[o].entity, read |-> objects'[o].read,
                          selected |-> objects'[o].selected, edited |-> objects'[o].edited,
                          navs |-> objects[o].navs, fresh |-> objects'[o].fresh]
        /\ objects'[o].fresh = objects[o].fresh \ {n} /\ objects'[o].navs = objects[o].navs
        /\ objects'[o].class = objects[o].class /\ objects'[o].entity = objects[o].entity
    BY <2>1, <2>2 DEF IsObject
  <2>4. IsObject(o)'
    BY <1>3, <2>1, <2>3, ObjectChanges DEF IsObject
  <2> QED
    BY <1>5, <2>3, <2>4 DEF Alive, NoObject
<1>6. \A o \in Tasks : ~(Alive(o) /\ objects[o].entity = e) => objects'[o] = objects[o]
  BY <1>1
<1>7. \A o \in Tasks : Alive(o)' <=> Alive(o)
  BY <1>5, <1>6 DEF Alive
<1>8. ASSUME NEW o \in Tasks, Alive(o), NEW m \in objects'[o].fresh
      PROVE  m \in objects[o].fresh /\ LinkedFrom(o, m)' = LinkedFrom(o, m)
  <2>1. CASE objects[o].entity = e
    BY <1>2, <1>5, <1>8, <2>1 DEF LinkedFrom
  <2>2. CASE objects[o].entity # e
    <3>1. objects[o].entity \in DOMAIN store
      BY <1>8, Held DEF IInv, IsObject
    <3>2. objects'[o] = objects[o] /\ store'[objects[o].entity] = store[objects[o].entity]
      BY <1>2, <1>6, <2>2, <3>1
    <3> QED
      BY <1>8, <3>2 DEF LinkedFrom, LinksOf
  <2> QED
    BY <2>1, <2>2
<1>9. TasksInv' /\ CurrentInv'
  <2>1. \A o \in Tasks : objects[o] # NoObject => objects'[o] # NoObject
    BY <1>5, <1>6
  <2>2. \A o \in Tasks : Alive(o) => /\ objects'[o].entity = objects[o].entity
                                     /\ objects'[o].class = objects[o].class
                                     /\ objects'[o].navs = objects[o].navs
    BY <1>5, <1>6
  <2>3. ObjectsLast /\ SaidLasts
    BY <1>7, <1>8, <2>1, <2>2 DEF ObjectsLast, SaidLasts
  <2> QED
    BY <1>1, <1>3, <2>3, CallsStay
<1>10. ObjectsInv'
  <2>1. ASSUME NEW o \in Tasks PROVE ObjectInv(o)'
    <3>1. CASE Alive(o) /\ objects[o].entity = e
      <4>1. IsAnswered(o)'
        BY <1>1, <1>2, <3>1, Held DEF IsAnswered, IInv
      <4> QED
        BY <1>5, <3>1, <4>1 DEF ObjectInv
    <3>2. CASE ~(Alive(o) /\ objects[o].entity = e)
      BY <1>1, <1>3, <1>6, <3>2, ObjectInvStays
    <3> QED
      BY <3>1, <3>2
  <2>2. objects' = [o \in Tasks |-> objects'[o]]
    BY <1>1
  <2> QED
    BY <2>1, <2>2 DEF ObjectsInv
<1>11. WaitsInv'
  BY <1>1, <1>7, WaitingStays
<1> QED
  BY <1>4, <1>9, <1>10, <1>11 DEF IInv

\* What the service links is there.
LEMMA LinksAreThere ==
    ASSUME ProgramInv, program # "none", NEW e \in DOMAIN store
    PROVE  /\ \A n \in DOMAIN store[e].links : Listed(store[e].links[n]) \subseteq DOMAIN store
           /\ \A n : Listed(LinksOf(store[e], n)) \subseteq DOMAIN store
<1>1. Listed(<<>>) = {}
  BY DEF Listed
<1> QED
  BY <1>1 DEF ProgramInv, LinksOf

\* A query or a load that was answered, or looks for a type that is not there.
LEMMA MovesOn ==
    ASSUME IInv, program # "none", NEW t \in InFlight, tasks[t].kind \in {"query", "load"},
           NEW s \in {"answered", "inserting"}, NEW answer,
           tasks' = [tasks EXCEPT ![t] = [@ EXCEPT !.step = s, !.answer = answer]],
           answer = IF tasks[t].step = "sent" THEN AnswerTo(tasks[t]) ELSE tasks[t].answer,
           UNCHANGED <<step, model, program, classes, store, objects, hurried>>
    PROVE  IInv'
<1>1. SameWorld
  BY DEF SameWorld
<1>0. program \in {"running", "crashed"}
  BY DEF IInv, ProgramInv
<1>2. ProgramInv'
  BY <1>0, <1>1, ProgramGoesOn
<1>3. t \in Tasks /\ Flying(t) /\ (IsQuery(t) \/ IsLoad(t))
  BY CallsInFlight DEF InFlight, IInv
<1>4. /\ \A u \in Tasks \ {t} : tasks'[u] = tasks[u]
      /\ tasks'[t] = [tasks[t] EXCEPT !.step = s, !.answer = answer]
      /\ tasks' = [u \in Tasks |-> tasks'[u]]
  BY <1>3 DEF IInv, TasksInv
<1>5. \A o \in Tasks : (Alive(o)' <=> Alive(o)) /\ objects'[o] = objects[o]
  BY DEF Alive
<1>6. \A e \in DOMAIN store : /\ \A n \in DOMAIN store[e].links : Listed(store[e].links[n]) \subseteq DOMAIN store
                              /\ \A n : Listed(LinksOf(store[e], n)) \subseteq DOMAIN store
  BY LinksAreThere DEF IInv
<1>7. ASSUME IsQuery(t) PROVE IsQuery(t)'
  <2>1. /\ tasks'[t] = [step |-> s, kind |-> "query", entity |-> tasks[t].entity,
                         class |-> tasks[t].class, selected |-> tasks[t].selected, expand |-> tasks[t].expand,
                        answer |-> answer]
        /\ tasks[t].kind = "query" /\ tasks[t].entity \in DOMAIN store /\ tasks[t].class \in classes
    <3>1. /\ tasks[t] = [step |-> tasks[t].step, kind |-> "query", entity |-> tasks[t].entity,
                         class |-> tasks[t].class, selected |-> tasks[t].selected, expand |-> tasks[t].expand,
                         answer |-> tasks[t].answer]
          /\ tasks[t].kind = "query" /\ tasks[t].entity \in DOMAIN store /\ tasks[t].class \in classes
      BY <1>7 DEF IsQuery
    <3>2. tasks'[t] = [tasks[t] EXCEPT !.step = s, !.answer = answer]
      BY <1>4
    <3> QED
      BY ONLY <3>1, <3>2
  <2>2. \A n \in DOMAIN answer.links : Listed(answer.links[n]) \subseteq DOMAIN store
    <3>1. CASE tasks[t].step = "sent"
      BY <1>6, <2>1, <3>1 DEF AnswerTo
    <3>2. CASE tasks[t].step # "sent"
      BY <1>7, <3>2 DEF IsQuery
    <3> QED
      BY <3>1, <3>2
  <2> QED
    BY <2>1, <2>2 DEF IsQuery, Flying
<1>8. ASSUME IsLoad(t)
      PROVE  /\ IsLoad(t)'
             /\ tasks[t].step = "sent" => answer = LinksOf(store[tasks[t].entity], tasks[t].nav)
  <2>1. /\ tasks'[t] = [step |-> s, kind |-> "load", object |-> tasks[t].object,
                         nav |-> tasks[t].nav, entity |-> tasks[t].entity,
                        answer |-> answer]
        /\ tasks[t].kind = "load" /\ tasks[t].entity \in DOMAIN store
    <3>1. /\ tasks[t] = [step |-> tasks[t].step, kind |-> "load", object |-> tasks[t].object,
                         nav |-> tasks[t].nav, entity |-> tasks[t].entity,
                         answer |-> tasks[t].answer]
          /\ tasks[t].kind = "load" /\ tasks[t].entity \in DOMAIN store
      BY <1>8 DEF IsLoad
    <3>2. tasks'[t] = [tasks[t] EXCEPT !.step = s, !.answer = answer]
      BY <1>4
    <3> QED
      BY ONLY <3>1, <3>2
  <2>2. tasks[t].step = "sent" => answer = LinksOf(store[tasks[t].entity], tasks[t].nav)
    BY <2>1 DEF AnswerTo
  <2>3. Listed(answer) \subseteq DOMAIN store
    <3>1. CASE tasks[t].step = "sent"
      BY <1>6, <2>1, <2>2, <3>1
    <3>2. CASE tasks[t].step # "sent"
      BY <1>8, <3>2 DEF IsLoad
    <3> QED
      BY <3>1, <3>2
  <2>4. \A c : Navigations(c)' = Navigations(c)
    BY <1>1, WorldStays
  <2>5. /\ tasks[t].object \in Tasks /\ objects[tasks[t].object] # NoObject
        /\ Alive(tasks[t].object) =>
              /\ tasks[t].entity = objects[tasks[t].object].entity
              /\ tasks[t].nav \in Navigations(objects[tasks[t].object].class)
    BY <1>8 DEF IsLoad
  <2>6. IsLoad(t)'
    BY <1>5, <2>1, <2>3, <2>4, <2>5 DEF IsLoad, Flying
  <2> QED
    BY <2>2, <2>6
<1>9. /\ tasks'[t].step = s /\ tasks'[t].kind = tasks[t].kind /\ tasks'[t].answer = answer
      /\ tasks[t].kind = "load" => tasks'[t].object = tasks[t].object /\ tasks'[t].nav = tasks[t].nav
  BY <1>3, <1>4 DEF IsQuery, IsLoad
<1>10. TasksInv'
  <2>1. \A u \in Tasks \ {t} : TaskInv(u)'
    BY <1>1, <1>4, <1>5, TaskStays DEF ObjectsLast
  <2> QED
    BY <1>3, <1>4, <1>7, <1>8, <2>1 DEF TasksInv, TaskInv
<1>11. ObjectsInv'
  <2>1. ~IsAnswered(t) /\ ~IsAnswered(t)'
    BY <1>3, <1>9 DEF IsAnswered, Flying
  <2> QED
    BY <1>1, <1>4, <1>5, <2>1, ObjectInvStays DEF IInv, ObjectsInv
<1>12. \A u \in Tasks : /\ u \in InFlight' <=> u \in InFlight
                        /\ tasks'[u].kind = tasks[u].kind
                        /\ tasks[u].kind = "load" =>
                              tasks'[u].object = tasks[u].object /\ tasks'[u].nav = tasks[u].nav
  BY <1>4, <1>9 DEF InFlight
<1>13. CurrentInv'
  <2> SUFFICES ASSUME NEW o \in Tasks, Alive(o)', NEW n \in objects'[o].fresh PROVE Current(o, n)'
    BY DEF CurrentInv
  <2>1. Alive(o) /\ Current(o, n)
    BY <1>5 DEF IInv, CurrentInv
  <2>2. Loads(o, n) \subseteq Tasks /\ \A u \in Tasks : u \in Loads(o, n)' <=> u \in Loads(o, n)
    BY <1>12 DEF Loads, InFlight
  <2>3. LinkedFrom(o, n)' = LinkedFrom(o, n)
    BY DEF LinkedFrom, LinksOf
  <2>4. ASSUME t \in Loads(o, n)
        PROVE  answer = LinkedFrom(o, n) \/ (answer = tasks[t].answer /\ tasks[t].step # "sent")
    <3>1. IsLoad(t) /\ tasks[t].object = o /\ tasks[t].nav = n
      BY <1>3, <2>4 DEF Loads, IsQuery
    <3>2. tasks[t].entity = objects[o].entity
      BY <2>1, <3>1 DEF IsLoad
    <3> QED
      BY <1>8, <3>1, <3>2 DEF LinkedFrom
  <2> QED
    BY <1>1, <1>4, <1>5, <1>9, <2>1, <2>2, <2>3, <2>4, CurrentStays
<1>14. WaitsInv'
  <2>1. \A u \in InFlight : tasks[u].kind = "load" => tasks[u].object \in Tasks
    BY CallsInFlight DEF InFlight, IsLoad, IInv
  <2>2. InFlight \subseteq Tasks /\ InFlight' \subseteq Tasks
    BY DEF InFlight
  <2> QED
    BY <1>5, <1>12, <2>1, <2>2 DEF IInv, WaitsInv
<1> QED
  BY <1>2, <1>10, <1>11, <1>13, <1>14 DEF IInv

LEMMA AnswerIInv ==
    ASSUME IInv, NEW t \in Tasks, Answer(t)
    PROVE  IInv'
<1>1. t \in InFlight /\ program # "none"
  BY DEF Answer, InFlight, IInv, ProgramInv, Idle
<1> QED
  BY <1>1, MovesOn DEF Answer, generator_vars

\* What the record of a load becomes.
LEMMA LoadRecord ==
    ASSUME NEW c, NEW k, NEW s, NEW answer,
           c = [step |-> c.step, kind |-> "load", object |-> c.object, nav |-> c.nav,
                entity |-> c.entity, answer |-> c.answer],
           c.kind = "load", k = [c EXCEPT !.step = s, !.answer = answer]
    PROVE  k = [step |-> s, kind |-> "load", object |-> c.object, nav |-> c.nav,
                entity |-> c.entity, answer |-> answer]
OBVIOUS

\* A call that fails or is answered in no JSON makes and sets no object; a load that
\* does so is no longer said to be current.
LEMMA ComesToNothing ==
    ASSUME IInv, program # "none", NEW t \in Tasks, tasks[t].step = "sent", objects' = Unsure(t),
           NEW call, tasks' = [tasks EXCEPT ![t] = call],
           \/ call = [step |-> "done", kind |-> "failed"]
           \/ /\ tasks[t].kind = "load"
              /\ call = [tasks[t] EXCEPT !.step = "answered", !.answer = <<>>],
           UNCHANGED <<step, model, program, classes, store, hurried>>
    PROVE  IInv'
<1>0. program \in {"running", "crashed"}
  BY DEF IInv, ProgramInv
<1>1. SameWorld
  BY DEF SameWorld
<1>2. ProgramInv'
  BY <1>0, <1>1, ProgramGoesOn
<1>3. /\ \A u \in Tasks \ {t} : tasks'[u] = tasks[u]
      /\ tasks'[t] = call
      /\ tasks' = [u \in Tasks |-> tasks'[u]]
  BY DEF IInv, TasksInv
<1>4. /\ t \in InFlight /\ ~IsAnswered(t)
      /\ tasks[t].kind = "load" => IsLoad(t)
  BY CallsInFlight DEF InFlight, Flying, IInv, IsAnswered
<1>5. /\ objects' = [o \in Tasks |-> objects'[o]]
      /\ \A o \in Tasks : ~(tasks[t].kind = "load" /\ Alive(o) /\ o = tasks[t].object) => objects'[o] = objects[o]
  BY DEF Unsure, IInv, ObjectsInv
<1>6. ASSUME NEW o \in Tasks, tasks[t].kind = "load", Alive(o), o = tasks[t].object
      PROVE  /\ IsObject(o)' /\ IsAnswered(o)' /\ Alive(o)' /\ objects'[o] # NoObject
             /\ objects'[o].class = objects[o].class /\ objects'[o].entity = objects[o].entity
             /\ objects'[o].navs = objects[o].navs
             /\ objects'[o].fresh = objects[o].fresh \ {tasks[t].nav}
  <2>1. IsObject(o) /\ IsAnswered(o)
    BY <1>6, Held DEF IInv
  <2>2. objects'[o] = [objects[o] EXCEPT !.fresh = @ \ {tasks[t].nav}]
    BY <1>6 DEF Unsure
  <2>3. /\ objects'[o] = [class |-> objects[o].class, members |-> objects'[o].members,
                          entity |-> objects[o].entity, read |-> objects'[o].read,
                          selected |-> objects'[o].selected, edited |-> objects'[o].edited,
                          navs |-> objects[o].navs, fresh |-> objects'[o].fresh]
        /\ objects'[o].fresh = objects[o].fresh \ {tasks[t].nav} /\ objects'[o].navs = objects[o].navs
        /\ objects'[o].class = objects[o].class /\ objects'[o].entity = objects[o].entity
    BY <2>1, <2>2 DEF IsObject
  <2>4. IsObject(o)'
    BY <1>1, <2>1, <2>3, ObjectChanges DEF IsObject
  <2>5. o # t
    BY <1>4, <2>1
  <2>6. IsAnswered(o)'
    BY <1>3, <2>1, <2>5 DEF IsAnswered
  <2> QED
    BY <1>6, <2>3, <2>4, <2>6 DEF Alive, NoObject
<1>7. \A o \in Tasks : (Alive(o)' <=> Alive(o)) /\ (objects[o] # NoObject => objects'[o] # NoObject)
  BY <1>5, <1>6 DEF Alive
<1>8. ObjectsLast
  BY <1>5, <1>6, <1>7 DEF ObjectsLast
<1>9. ~IsAnswered(t)' /\ TaskInv(t)' /\ tasks'[t].step # "sent"
      /\ (tasks'[t].step # "done" => /\ tasks[t].kind = "load" /\ tasks'[t].kind = "load"
                                     /\ tasks'[t].object = tasks[t].object /\ tasks'[t].nav = tasks[t].nav)
  <2>1. CASE call = [step |-> "done", kind |-> "failed"]
    BY <1>3, <2>1 DEF TaskInv, IsDone, IsAnswered
  <2>2. CASE tasks[t].kind = "load" /\ call = [tasks[t] EXCEPT !.step = "answered", !.answer = <<>>]
    <3>1. /\ tasks[t] = [step |-> tasks[t].step, kind |-> "load", object |-> tasks[t].object,
                         nav |-> tasks[t].nav, entity |-> tasks[t].entity, answer |-> tasks[t].answer]
          /\ tasks[t].object \in Tasks /\ objects[tasks[t].object] # NoObject
          /\ tasks[t].entity \in DOMAIN store
          /\ Alive(tasks[t].object) =>
                /\ tasks[t].entity = objects[tasks[t].object].entity
                /\ tasks[t].nav \in Navigations(objects[tasks[t].object].class)
      BY <1>4, <2>2 DEF IsLoad
    <3>a. PICK nothing : nothing = <<>>
      OBVIOUS
    <3>2. PICK s : s = "answered"
      OBVIOUS
    <3>8. tasks'[t] = [tasks[t] EXCEPT !.step = s, !.answer = nothing]
      BY <1>3, <2>2, <3>a, <3>2
    <3>4. Listed(nothing) = {}
      BY <3>a DEF Listed
    <3>3. tasks'[t] = [step |-> s, kind |-> "load", object |-> tasks[t].object,
                       nav |-> tasks[t].nav, entity |-> tasks[t].entity, answer |-> nothing]
      <4>1. PICK c, k : c = tasks[t] /\ k = tasks'[t]
        OBVIOUS
      <4>2. k = [c EXCEPT !.step = s, !.answer = nothing]
        BY <3>8, <4>1
      <4>3. /\ c = [step |-> c.step, kind |-> "load", object |-> c.object, nav |-> c.nav,
                    entity |-> c.entity, answer |-> c.answer]
            /\ c.kind = "load"
        BY <2>2, <3>1, <4>1
      <4>4. k = [step |-> s, kind |-> "load", object |-> c.object, nav |-> c.nav,
                 entity |-> c.entity, answer |-> nothing]
        BY <4>2, <4>3, LoadRecord
      <4> QED
        BY <4>1, <4>4
    <3>5. \A c : Navigations(c)' = Navigations(c)
      BY <1>1, WorldStays
    <3>6. Flying(t)' /\ ~IsAnswered(t)'
      BY <3>2, <3>3 DEF Flying, IsAnswered
    <3>7. IsLoad(t)'
      BY <1>5, <1>6, <1>7, <3>1, <3>3, <3>4, <3>5, <3>6 DEF IsLoad
    <3> QED
      BY <2>2, <3>2, <3>3, <3>6, <3>7 DEF TaskInv
  <2> QED
    BY <2>1, <2>2
<1>10. TasksInv'
  <2>1. \A u \in Tasks \ {t} : TaskInv(u)'
    BY <1>1, <1>3, <1>8, TaskStays
  <2> QED
    BY <1>3, <1>9, <2>1 DEF TasksInv
<1>11. ObjectsInv'
  <2>1. ASSUME NEW o \in Tasks PROVE ObjectInv(o)'
    <3>1. CASE tasks[t].kind = "load" /\ Alive(o) /\ o = tasks[t].object
      BY <1>6, <3>1 DEF ObjectInv
    <3>2. CASE ~(tasks[t].kind = "load" /\ Alive(o) /\ o = tasks[t].object)
      BY <1>1, <1>3, <1>4, <1>5, <1>9, <3>2, ObjectInvStays
    <3> QED
      BY <3>1, <3>2
  <2> QED
    BY <1>5, <2>1 DEF ObjectsInv
<1>12. \A u \in Tasks : u \in InFlight' =>
          /\ u \in InFlight /\ tasks'[u].kind = tasks[u].kind
          /\ tasks[u].kind = "load" => tasks'[u].object = tasks[u].object /\ tasks'[u].nav = tasks[u].nav
  BY <1>3, <1>4, <1>9 DEF InFlight
<1>13. CurrentInv'
  <2> SUFFICES ASSUME NEW o \in Tasks, Alive(o)', NEW n \in objects'[o].fresh PROVE Current(o, n)'
    BY DEF CurrentInv
  <2>1. /\ Alive(o) /\ n \in objects[o].fresh /\ objects'[o].navs = objects[o].navs
        /\ objects'[o].entity = objects[o].entity
        /\ ~(tasks[t].kind = "load" /\ o = tasks[t].object /\ n = tasks[t].nav)
    BY <1>5, <1>6, <1>7
  <2>2. Current(o, n)
    BY <2>1 DEF IInv, CurrentInv
  <2>3. LinkedFrom(o, n)' = LinkedFrom(o, n)
    BY <2>1 DEF LinkedFrom, LinksOf
  <2>4. t \notin Loads(o, n) /\ t \notin Loads(o, n)' /\ Loads(o, n) \subseteq Tasks
    BY <1>9, <2>1 DEF Loads, InFlight
  <2>5. \A u \in Tasks : u \in Loads(o, n)' <=> u \in Loads(o, n)
    BY <1>3, <2>4 DEF Loads, InFlight
  <2> QED
    BY <1>1, <1>3, <2>1, <2>2, <2>3, <2>4, <2>5, CurrentStays
<1>14. WaitsInv'
  <2>1. \A u \in InFlight : tasks[u].kind = "load" => tasks[u].object \in Tasks
    BY CallsInFlight DEF InFlight, IsLoad, IInv
  <2>2. InFlight \subseteq Tasks /\ InFlight' \subseteq Tasks
    BY DEF InFlight
  <2> QED
    BY <1>7, <1>12, <2>1, <2>2 DEF IInv, WaitsInv
<1> QED
  BY <1>2, <1>10, <1>11, <1>13, <1>14 DEF IInv

LEMMA FailIInv ==
    ASSUME IInv, NEW t \in Tasks, Fail(t) \/ AnswerNothing(t)
    PROVE  IInv'
<1>1. /\ program # "none" /\ tasks[t].step = "sent" /\ objects' = Unsure(t)
      /\ UNCHANGED <<step, model, program, classes, store, hurried>>
  BY DEF Fail, AnswerNothing, generator_vars, IInv, ProgramInv, Idle
<1>2. CASE Fail(t)
  BY <1>1, <1>2, ComesToNothing DEF Fail
<1>3. CASE AnswerNothing(t)
  <2>1. /\ tasks[t].kind = "load"
        /\ tasks' = [tasks EXCEPT ![t] = [tasks[t] EXCEPT !.step = "answered", !.answer = <<>>]]
    BY <1>3 DEF AnswerNothing
  <2> QED
    BY <1>1, <2>1, ComesToNothing
<1> QED
  BY <1>2, <1>3

\* An update changes values of an entity, and ends.
LEMMA ApplyIInv ==
    ASSUME IInv, NEW t \in Tasks, Apply(t)
    PROVE  IInv'
<1>1. /\ tasks[t].step = "sent" /\ tasks[t].kind = "update"
      /\ tasks' = [tasks EXCEPT ![t] = [step |-> "done", kind |-> "update"]]
      /\ UNCHANGED <<step, model, program, classes, objects, hurried>>
  BY DEF Apply, generator_vars
<1>0. program \in {"running", "crashed"}
  BY <1>1 DEF IInv, ProgramInv, Idle
<1>2. /\ DOMAIN store' = DOMAIN store
      /\ \A f \in DOMAIN store :
            /\ store'[f] = [type |-> store'[f].type, fields |-> store'[f].fields, links |-> store'[f].links]
            /\ store'[f].type = store[f].type /\ store'[f].links = store[f].links
  <2> DEFINE e == tasks[t].of.entity
  <2>1. \A f \in DOMAIN store :
            store[f] = [type |-> store[f].type, fields |-> store[f].fields, links |-> store[f].links]
    BY <1>0 DEF IInv, ProgramInv
  <2>2. CASE store' = [store EXCEPT ![e].fields = Updated(@, tasks[t].payload)]
    <3>1. /\ DOMAIN store' = DOMAIN store
          /\ \A f \in DOMAIN store \ {e} : store'[f] = store[f]
          /\ e \in DOMAIN store => store'[e] = [store[e] EXCEPT !.fields = Updated(@, tasks[t].payload)]
      BY <2>2
    <3> HIDE DEF e
    <3>2. e \in DOMAIN store =>
             /\ store'[e] = [type |-> store'[e].type, fields |-> store'[e].fields, links |-> store'[e].links]
             /\ store'[e].type = store[e].type /\ store'[e].links = store[e].links
      BY <2>1, <3>1
    <3> QED
      BY <2>1, <3>1, <3>2
  <2>3. CASE store' = store
    BY <2>1, <2>3
  <2> QED
    BY <2>2, <2>3 DEF Apply
<1>3. SameWorld
  BY <1>0, <1>1, <1>2 DEF SameWorld
<1>4. ProgramInv'
  <2>1. \A e \in DOMAIN store : \A n \in DOMAIN store'[e].links : Listed(store'[e].links[n]) \subseteq DOMAIN store
    BY <1>0, <1>2, LinksAreThere DEF IInv
  <2> QED
    BY <1>0, <1>1, <1>2, <1>3, <2>1, ProgramStays
<1>5. /\ \A u \in Tasks \ {t} : tasks'[u] = tasks[u]
      /\ tasks'[t] = [step |-> "done", kind |-> "update"]
      /\ tasks' = [u \in Tasks |-> tasks'[u]]
  BY <1>1 DEF IInv, TasksInv
<1>6. \A o \in Tasks : (Alive(o)' <=> Alive(o)) /\ objects'[o] = objects[o]
  BY <1>1 DEF Alive
<1>7. TasksInv'
  <2>1. \A u \in Tasks \ {t} : TaskInv(u)'
    BY <1>3, <1>5, <1>6, TaskStays DEF ObjectsLast
  <2>2. IsDone(t)'
    BY <1>5 DEF IsDone
  <2> QED
    BY <1>5, <2>1, <2>2 DEF TasksInv, TaskInv
<1>8. ObjectsInv'
  <2>1. ~IsAnswered(t) /\ ~IsAnswered(t)'
    BY <1>1, <1>5 DEF IsAnswered
  <2> QED
    BY <1>1, <1>3, <1>5, <1>6, <2>1, ObjectInvStays DEF IInv, ObjectsInv
<1>9. CurrentInv'
  <2> SUFFICES ASSUME NEW o \in Tasks, Alive(o)', NEW n \in objects'[o].fresh PROVE Current(o, n)'
    BY DEF CurrentInv
  <2>1. Alive(o) /\ Current(o, n) /\ objects[o].entity \in DOMAIN store
    BY <1>1, <1>6, Held DEF IInv, CurrentInv, IsObject
  <2>2. \A u \in Tasks : u \in Loads(o, n)' <=> u \in Loads(o, n)
    BY <1>1, <1>5 DEF Loads, InFlight
  <2>3. t \notin Loads(o, n) /\ Loads(o, n) \subseteq Tasks
    BY <1>1 DEF Loads, InFlight
  <2>4. LinkedFrom(o, n)' = LinkedFrom(o, n)
    BY <1>1, <1>2, <2>1 DEF LinkedFrom, LinksOf
  <2> QED
    BY <1>1, <1>3, <1>5, <1>6, <2>1, <2>2, <2>3, <2>4, CurrentStays
<1>10. WaitsInv'
  <2>1. InFlight' \subseteq InFlight \ {t} /\ InFlight \subseteq Tasks
    BY <1>5 DEF InFlight
  <2>2. \A u \in InFlight : tasks[u].kind = "load" => tasks[u].object \in Tasks
    BY CallsInFlight DEF InFlight, IsLoad, IInv
  <2> QED
    BY <1>1, <1>5, <1>6, <2>1, <2>2 DEF IInv, WaitsInv
<1> QED
  BY <1>4, <1>7, <1>8, <1>9, <1>10 DEF IInv

\* What is read of links may be held.
LEMMA ReadableMayBeHeld ==
    ASSUME ProgramInv, program # "none", NEW c, NEW n \in Navigations(c), NEW es,
           Listed(es) \subseteq DOMAIN store
    PROVE  \A i \in DOMAIN Readable(n, es) : MayHold(n, Readable(n, es)[i])
<1>1. Prop(n).type \in Model.types
  BY DEF Navigations, Of
<1> SUFFICES ASSUME NEW i \in DOMAIN es, Creates(Prop(n).type, Type(es[i]))
             PROVE  MayHold(n, es[i])
  BY DEF Readable, MayHold
<1>2. es[i] \in DOMAIN store
  BY DEF Listed
<1> QED
  BY <1>1, <1>2, CreatedDerives DEF MayHold

\* The object of a query is one of its entity, and there is none of a type whose
\* base is not the class that is expected.
LEMMA NewObjectIsObject ==
    ASSUME IInv, NEW t \in Tasks, IsQuery(t), tasks[t].step # "sent", program # "none",
           objects'[t] = NewObject(tasks[t]), SameWorld
    PROVE  /\ Creates(tasks[t].class, Type(tasks[t].entity)) => IsObject(t)' /\ objects'[t].fresh = {}
           /\ ~Creates(tasks[t].class, Type(tasks[t].entity)) => objects'[t] = NoObject
<1> SUFFICES ASSUME NEW call, call = tasks[t], NEW type, type = Type(call.entity),
                    NEW navs, navs = [n \in Navigations(type) |->
                                         IF n \in DOMAIN call.answer.links
                                         THEN Readable(n, call.answer.links[n]) ELSE <<>>]
             PROVE  /\ Creates(call.class, type) => IsObject(t)' /\ objects'[t].fresh = {}
                    /\ ~Creates(call.class, type) => objects'[t] = NoObject
  OBVIOUS
<1>1. /\ call.entity \in DOMAIN store
      /\ \A n \in DOMAIN call.answer.links : Listed(call.answer.links[n]) \subseteq DOMAIN store
  BY DEF IsQuery
<1>2. CASE Creates(call.class, type)
  <2>1. objects'[t] = [class |-> type, members |-> FromValue(type, call.answer.fields),
                       entity |-> call.entity, read |-> call.answer.fields,
                       selected |-> call.selected, edited |-> {}, navs |-> navs, fresh |-> {}]
    BY <1>2 DEF NewObject
  <2>2. \A n \in DOMAIN navs : \A i \in DOMAIN navs[n] : MayHold(n, navs[n][i])
    <3> SUFFICES ASSUME NEW n \in Navigations(type), NEW i \in DOMAIN navs[n] PROVE MayHold(n, navs[n][i])
      OBVIOUS
    <3>1. n \in DOMAIN call.answer.links /\ navs[n] = Readable(n, call.answer.links[n])
      OBVIOUS
    <3> QED
      BY <1>1, <3>1, ReadableMayBeHeld DEF IInv
  <2>3. DOMAIN navs = Navigations(type)
    OBVIOUS
  <2>4. DOMAIN navs = Navigations(type)'
    BY <2>3, WorldStays
  <2>5. /\ objects'[t].class = type /\ objects'[t].entity = call.entity
        /\ objects'[t].navs = navs /\ objects'[t].fresh = {}
    BY <2>1
  <2>6. \A n \in DOMAIN navs : \A i \in DOMAIN navs[n] : MayHold(n, navs[n][i])'
    BY <2>2, MayHoldStays
  <2>7. Type(call.entity)' = type
    BY <1>1, WorldStays
  <2>8. objects'[t] = [class |-> objects'[t].class, members |-> objects'[t].members,
                       entity |-> objects'[t].entity, read |-> objects'[t].read,
                       selected |-> objects'[t].selected, edited |-> objects'[t].edited,
                       navs |-> objects'[t].navs, fresh |-> objects'[t].fresh]
    BY <2>1
  <2>9. IsObject(t)'
    BY <1>1, <2>4, <2>5, <2>6, <2>7, <2>8 DEF IsObject, SameWorld
  <2> QED
    BY <1>2, <2>5, <2>9
<1>3. CASE ~Creates(call.class, type)
  BY <1>3 DEF NewObject
<1> QED
  BY <1>2, <1>3

\* A query ends, with an object or without.
LEMMA QueryEnds ==
    ASSUME IInv, program = "running", NEW t \in Tasks, tasks[t].step \in {"answered", "inserting"},
           tasks[t].kind = "query", Complete(t), UNCHANGED <<step, model, classes, store, hurried>>
    PROVE  IInv'
<1>1. /\ objects' = [objects EXCEPT ![t] = NewObject(tasks[t])]
      /\ tasks' = [tasks EXCEPT ![t] = [step |-> "done", kind |-> "query", entity |-> tasks[t].entity,
                                        class |-> tasks[t].class]]
      /\ program' = "running"
  BY DEF Complete
<1>2. SameWorld
  BY DEF SameWorld
<1>3. ProgramInv'
  BY <1>1, <1>2, ProgramGoesOn
<1>4. /\ \A u \in Tasks \ {t} : tasks'[u] = tasks[u]
      /\ tasks'[t] = [step |-> "done", kind |-> "query", entity |-> tasks[t].entity, class |-> tasks[t].class]
      /\ tasks' = [u \in Tasks |-> tasks'[u]]
  BY <1>1 DEF IInv, TasksInv
<1>5. /\ \A o \in Tasks \ {t} : objects'[o] = objects[o] /\ (Alive(o)' <=> Alive(o))
      /\ objects'[t] = NewObject(tasks[t])
      /\ objects' = [o \in Tasks |-> objects'[o]]
  BY <1>1 DEF IInv, ObjectsInv, Alive
<1>6. t \in InFlight /\ IsQuery(t) /\ ~IsAnswered(t)
  BY CallsInFlight DEF InFlight, IInv, IsAnswered
<1>7. objects[t] = NoObject /\ ~Alive(t)
  BY <1>6, Held DEF IInv, ObjectsInv, ObjectInv
<1>8. IsAnswered(t)'
  BY <1>4, <1>6 DEF IsAnswered, IsQuery
<1>9. /\ Creates(tasks[t].class, Type(tasks[t].entity)) => IsObject(t)' /\ objects'[t].fresh = {}
      /\ ~Creates(tasks[t].class, Type(tasks[t].entity)) => objects'[t] = NoObject
  BY <1>2, <1>5, <1>6, NewObjectIsObject
<1>10. TasksInv'
  <2>1. \A u \in Tasks \ {t} : TaskInv(u)'
    BY <1>2, <1>4, <1>5, <1>7, TaskStays DEF ObjectsLast
  <2> QED
    BY <1>4, <1>8, <2>1 DEF TasksInv, TaskInv
<1>11. ObjectsInv'
  <2>1. \A o \in Tasks \ {t} : ObjectInv(o)'
    BY <1>2, <1>4, <1>5, ObjectInvStays
  <2>2. ASSUME objects'[t] = NoObject PROVE ~Creates(tasks[t].class, Type(tasks[t].entity))'
    <3>1. NoObject.class = NoType
      BY DEF NoObject
    <3>2. ~Creates(tasks[t].class, Type(tasks[t].entity))
      <4>1. tasks[t].entity \in DOMAIN store
        BY <1>6 DEF IsQuery
      <4>2. Type(tasks[t].entity) # NoType
        BY <4>1, RunningFacts DEF IInv, Basic
      <4> QED
        BY <1>5, <2>2, <3>1, <4>2 DEF NewObject
    <3>3. tasks'[t].class = tasks[t].class /\ tasks'[t].entity = tasks[t].entity
      BY <1>4
    <3> QED
      BY <3>2, <3>3 DEF Creates, Type, Model
  <2>3. ObjectInv(t)'
    BY <1>8, <1>9, <2>2 DEF ObjectInv
  <2> QED
    BY <1>5, <2>1, <2>3 DEF ObjectsInv
<1>12. CurrentInv'
  <2> SUFFICES ASSUME NEW o \in Tasks, Alive(o)', NEW n \in objects'[o].fresh PROVE Current(o, n)'
    BY DEF CurrentInv
  <2>1. o # t
    BY <1>9 DEF Alive, NoObject
  <2>2. Alive(o) /\ Current(o, n) /\ objects'[o] = objects[o]
    BY <1>5, <2>1 DEF IInv, CurrentInv
  <2>3. \A u \in Tasks : u \in Loads(o, n)' <=> u \in Loads(o, n)
    BY <1>4 DEF Loads, InFlight
  <2>4. t \notin Loads(o, n) /\ Loads(o, n) \subseteq Tasks
    BY DEF Loads, InFlight
  <2>5. LinkedFrom(o, n)' = LinkedFrom(o, n)
    BY <2>2 DEF LinkedFrom, LinksOf
  <2> QED
    BY <1>2, <1>4, <2>2, <2>3, <2>4, <2>5, CurrentStays
<1>13. WaitsInv'
  <2>1. InFlight' \subseteq InFlight \ {t}
    BY <1>4 DEF InFlight
  <2> QED
    BY <1>1, <1>6, <2>1 DEF IInv, WaitsInv
<1> QED
  BY <1>3, <1>10, <1>11, <1>12, <1>13 DEF IInv

\* A load ends: it writes to its object, or to one that was released.
LEMMA LoadEnds ==
    ASSUME IInv, program = "running", NEW t \in Tasks, tasks[t].step \in {"answered", "inserting"},
           tasks[t].kind = "load", Complete(t), UNCHANGED <<step, model, classes, store, hurried>>
    PROVE  IInv'
<1> SUFFICES ASSUME NEW o, o = tasks[t].object, NEW n, n = tasks[t].nav, NEW answer, answer = tasks[t].answer
             PROVE  IInv'
  OBVIOUS
<1>1. /\ objects' = IF Alive(o) THEN [objects EXCEPT ![o] = Loaded(o, n, answer)] ELSE objects
      /\ tasks' = [tasks EXCEPT ![t] = [step |-> "done", kind |-> "load"]]
      /\ program' \in {"running", "crashed"}
      /\ program' = "crashed" => ~Alive(o)
  BY DEF Complete
<1>2. SameWorld
  BY DEF SameWorld
<1>3. ProgramInv'
  BY <1>1, <1>2, ProgramGoesOn
<1>4. /\ \A u \in Tasks \ {t} : tasks'[u] = tasks[u]
      /\ tasks'[t] = [step |-> "done", kind |-> "load"]
      /\ tasks' = [u \in Tasks |-> tasks'[u]]
  BY <1>1 DEF IInv, TasksInv
<1>5. t \in InFlight /\ IsLoad(t) /\ ~IsAnswered(t) /\ ~IsAnswered(t)'
  BY <1>4, CallsInFlight DEF InFlight, IInv, IsAnswered
<1>6. /\ o \in Tasks /\ Listed(answer) \subseteq DOMAIN store
      /\ Alive(o) => tasks[t].entity = objects[o].entity /\ n \in Navigations(objects[o].class)
  BY <1>5 DEF IsLoad
<1>7. /\ \A u \in Tasks \ {o} : objects'[u] = objects[u]
      /\ ~Alive(o) => objects'[o] = objects[o]
      /\ objects' = [u \in Tasks |-> objects'[u]]
  BY <1>1, <1>6 DEF IInv, ObjectsInv
<1>8. ASSUME Alive(o)
      PROVE  /\ IsObject(o)' /\ IsAnswered(o)' /\ Alive(o)' /\ objects'[o] # NoObject
             /\ objects'[o].class = objects[o].class /\ objects'[o].entity = objects[o].entity
             /\ objects'[o].fresh = objects[o].fresh
             /\ objects'[o].navs[n] = Readable(n, answer)
             /\ \A m : m # n /\ m \in objects[o].fresh => objects'[o].navs[m] = objects[o].navs[m]
  <2> DEFINE navs == [objects[o].navs EXCEPT ![n] = Readable(n, answer)]
  <2>1. IsObject(o) /\ IsAnswered(o)
    BY <1>6, <1>8, Held DEF IInv
  <2>2. n \in DOMAIN objects[o].navs
    BY <1>6, <1>8, <2>1 DEF IsObject
  <2>3. objects'[o] = [objects[o] EXCEPT !.navs = navs]
    BY <1>1, <1>6, <1>8 DEF IInv, ObjectsInv, Loaded
  <2>4. /\ DOMAIN navs = DOMAIN objects[o].navs /\ navs[n] = Readable(n, answer)
        /\ \A m : m # n => navs[m] = objects[o].navs[m]
    BY <2>2
  <2>5. \A m \in DOMAIN navs : \A i \in DOMAIN navs[m] : MayHold(m, navs[m][i])
    <3>1. \A i \in DOMAIN navs[n] : MayHold(n, navs[n][i])
      BY <1>6, <1>8, <2>4, ReadableMayBeHeld DEF IInv
    <3>2. \A m \in DOMAIN objects[o].navs : \A i \in DOMAIN objects[o].navs[m] : MayHold(m, objects[o].navs[m][i])
      BY <2>1 DEF IsObject
    <3> HIDE DEF navs
    <3> QED
      BY <2>4, <3>1, <3>2
  <2> HIDE DEF navs
  <2>6. /\ objects'[o] = [class |-> objects[o].class, members |-> objects'[o].members,
                          entity |-> objects[o].entity, read |-> objects'[o].read,
                          selected |-> objects'[o].selected, edited |-> objects'[o].edited,
                          navs |-> navs, fresh |-> objects'[o].fresh]
        /\ objects'[o].fresh = objects[o].fresh /\ objects'[o].navs = navs
        /\ objects'[o].class = objects[o].class /\ objects'[o].entity = objects[o].entity
    BY <2>1, <2>3 DEF IsObject
  <2>7. IsObject(o)'
    BY <1>2, <1>6, <2>1, <2>4, <2>5, <2>6, ObjectChanges
  <2>8. IsAnswered(o)'
    BY <1>4, <1>5, <1>6, <2>1 DEF IsAnswered
  <2>9. Alive(o)' /\ objects'[o] # NoObject
    BY <1>8, <2>6 DEF Alive, NoObject
  <2> QED
    BY <2>4, <2>6, <2>7, <2>8, <2>9
<1>9. \A u \in Tasks : Alive(u)' <=> Alive(u)
  BY <1>7, <1>8 DEF Alive
<1>10. TasksInv'
  <2>1. ObjectsLast
    BY <1>7, <1>8, <1>9 DEF ObjectsLast
  <2>2. \A u \in Tasks \ {t} : TaskInv(u)'
    BY <1>2, <1>4, <2>1, TaskStays
  <2>3. IsDone(t)'
    BY <1>4 DEF IsDone
  <2> QED
    BY <1>4, <2>2, <2>3 DEF TasksInv, TaskInv
<1>11. ObjectsInv'
  <2>1. \A u \in Tasks : objects'[u] = objects[u] => ObjectInv(u)'
    BY <1>2, <1>4, <1>5, ObjectInvStays
  <2>2. Alive(o) => ObjectInv(o)'
    BY <1>8 DEF ObjectInv
  <2> QED
    BY <1>7, <2>1, <2>2 DEF ObjectsInv
<1>12. CurrentInv'
  <2> SUFFICES ASSUME NEW u \in Tasks, Alive(u)', NEW p \in objects'[u].fresh PROVE Current(u, p)'
    BY DEF CurrentInv
  <2>1. /\ Alive(u) /\ p \in objects[u].fresh /\ objects'[u].entity = objects[u].entity
        /\ (u # o \/ p # n) => objects'[u].navs[p] = objects[u].navs[p]
    BY <1>7, <1>8, <1>9
  <2>2. Current(u, p)
    BY <2>1 DEF IInv, CurrentInv
  <2>3. LinkedFrom(u, p)' = LinkedFrom(u, p)
    BY <2>1 DEF LinkedFrom, LinksOf
  <2>4. CASE u = o /\ p = n
    <3>1. t \in Loads(u, p)
      BY <1>5, <2>4 DEF Loads
    <3>2. answer = LinkedFrom(u, p) /\ \A v \in Loads(u, p) : v = t
      BY <2>2, <3>1 DEF Current
    <3>3. Loads(u, p)' = {}
      <4>1. \A v \in Tasks : v \in Loads(u, p)' => v \in Loads(u, p) /\ v # t
        BY <1>4 DEF Loads, InFlight
      <4>2. Loads(u, p)' \subseteq Tasks
        BY DEF Loads, InFlight
      <4> QED
        BY <3>2, <4>1, <4>2
    <3> QED
      BY <1>2, <1>6, <1>8, <2>1, <2>3, <2>4, <3>2, <3>3, WorldStays DEF Current
  <2>5. CASE u # o \/ p # n
    <3>1. \A v \in Tasks : v \in Loads(u, p)' <=> v \in Loads(u, p)
      BY <1>4, <2>5 DEF Loads, InFlight
    <3>2. t \notin Loads(u, p) /\ Loads(u, p) \subseteq Tasks
      BY <2>5 DEF Loads, InFlight
    <3> QED
      BY <1>2, <1>4, <2>1, <2>2, <2>3, <2>5, <3>1, <3>2, CurrentStays
  <2> QED
    BY <2>4, <2>5
<1>13. WaitsInv'
  <2>1. InFlight' \subseteq InFlight \ {t}
    BY <1>4 DEF InFlight
  <2>2. ~hurried => Alive(o)
    BY <1>5 DEF IInv, WaitsInv
  <2> QED
    BY <1>1, <1>5, <2>1, <2>2 DEF IInv, WaitsInv
<1> QED
  BY <1>3, <1>10, <1>11, <1>12, <1>13 DEF IInv

\* A query or a load ends.
LEMMA CompleteIInv ==
    ASSUME IInv, program = "running", NEW t \in Tasks, tasks[t].step \in {"answered", "inserting"},
           Complete(t), UNCHANGED <<step, model, classes, store, hurried>>
    PROVE  IInv'
<1>1. TaskInv(t)
  BY DEF IInv, TasksInv
<1>2. tasks[t].kind \in {"query", "load"}
  BY <1>1 DEF TaskInv, Idle, IsQuery, IsLoad, IsUpdate, IsAnswered, IsDone
<1> QED
  BY <1>2, QueryEnds, LoadEnds

LEMMA ContinueIInv ==
    ASSUME IInv, NEW t \in Tasks, Continue(t)
    PROVE  IInv'
<1>1. /\ program = "running" /\ tasks[t].step = "answered"
      /\ UNCHANGED <<step, model, classes, store, hurried>>
  BY DEF Continue, generator_vars
<1>2. CASE Missing(tasks[t]) = {} /\ Complete(t)
  BY <1>1, <1>2, CompleteIInv
<1>3. CASE tasks' = [tasks EXCEPT ![t].step = "inserting"] /\ UNCHANGED <<program, objects>>
  <2>1. t \in InFlight /\ (IsQuery(t) \/ IsLoad(t))
    <3>1. TaskInv(t)
      BY DEF IInv, TasksInv
    <3> QED
      BY <1>1, <3>1 DEF TaskInv, InFlight, Idle, IsUpdate, IsAnswered, IsDone
  <2>2. tasks[t].kind \in {"query", "load"} /\ [tasks[t] EXCEPT !.step = "inserting"] =
            [tasks[t] EXCEPT !.step = "inserting", !.answer = tasks[t].answer]
    <3>1. CASE IsQuery(t)
      BY <3>1 DEF IsQuery
    <3>2. CASE IsLoad(t)
      BY <3>2 DEF IsLoad
    <3> QED
      BY <2>1, <3>1, <3>2
  <2>3. tasks' = [tasks EXCEPT ![t] = [@ EXCEPT !.step = "inserting", !.answer = tasks[t].answer]]
    BY <1>3, <2>2
  <2> QED
    BY <1>1, <1>3, <2>1, <2>2, <2>3, MovesOn
<1>4. CASE Racing(t) /\ program' = "crashed" /\ UNCHANGED <<objects, tasks>>
  <2>1. SameWorld
    BY <1>1 DEF SameWorld
  <2>2. ProgramInv'
    BY <1>1, <1>4, <2>1, ProgramGoesOn
  <2>3. \A o \in Tasks : (Alive(o)' <=> Alive(o)) /\ objects'[o] = objects[o]
    BY <1>4 DEF Alive
  <2>4. TasksInv' /\ CurrentInv'
    <3>1. ObjectsLast
      BY <2>3 DEF ObjectsLast
    <3>2. \A o \in Tasks : \A n : LinkedFrom(o, n)' = LinkedFrom(o, n)
      BY <1>1, <1>4 DEF LinkedFrom, LinksOf
    <3>3. SaidLasts
      BY <2>3, <3>2 DEF SaidLasts
    <3> QED
      BY <1>4, <2>1, <3>1, <3>3, CallsStay
  <2>5. ObjectsInv'
    BY <1>4, <2>1, ObjectInvStays DEF IInv, ObjectsInv
  <2>6. hurried
    <3>1. PICK u \in Tasks \ {t} : tasks[u].step = "inserting"
      BY <1>4 DEF Racing
    <3>2. t \in InFlight /\ u \in InFlight /\ t # u
      BY <1>1, <3>1 DEF InFlight
    <3> QED
      BY <3>2 DEF IInv, WaitsInv
  <2>7. WaitsInv'
    BY <1>1, <2>6 DEF WaitsInv
  <2> QED
    BY <2>2, <2>4, <2>5, <2>7 DEF IInv
<1> QED
  BY <1>2, <1>3, <1>4 DEF Continue

LEMMA InsertIInv ==
    ASSUME IInv, NEW t \in Tasks, Insert(t)
    PROVE  IInv'
BY CompleteIInv DEF Insert, generator_vars

\* All that is not the tool's work is done after it.
LEMMA GeneratorGoesOn == [Next]_vars => [GeneratorNext]_generator_vars
<1> SUFFICES ASSUME Next PROVE [GeneratorNext]_generator_vars
  BY DEF vars, generator_vars
<1>1. CASE Generate
  BY <1>1 DEF GeneratorNext
<1>2. CASE Start
  BY <1>2 DEF Start, GeneratorNext
<1>3. CASE Use
  <2>2. ASSUME NEW t \in Tasks, NEW q, Query(t, q) PROVE UNCHANGED generator_vars
    BY <2>2 DEF Query, Call
  <2>3. ASSUME NEW t \in Tasks, NEW o, NEW memory, Update(t, o, memory) PROVE UNCHANGED generator_vars
    BY <2>3 DEF Update, Call
  <2>4. ASSUME NEW t \in Tasks, NEW o, NEW n, Load(t, o, n) PROVE UNCHANGED generator_vars
    BY <2>4 DEF Load, Call
  <2>5. ASSUME NEW o, NEW p, NEW m, Edit(o, p, m) PROVE UNCHANGED generator_vars
    BY <2>5 DEF Edit
  <2>6. ASSUME NEW o, Release(o) PROVE UNCHANGED generator_vars
    BY <2>6 DEF Release
  <2> QED
    BY <1>3, <2>2, <2>3, <2>4, <2>5, <2>6 DEF Use
<1>4. CASE Serve
  <2>1. ASSUME NEW t \in Tasks,
               Answer(t) \/ Fail(t) \/ AnswerNothing(t) \/ Apply(t) \/ Continue(t) \/ Insert(t)
        PROVE  UNCHANGED generator_vars
    BY <2>1 DEF Answer, Fail, AnswerNothing, Apply, Continue, Insert
  <2>2. ASSUME NEW e, NEW p, NEW v, Change(e, p, v) PROVE UNCHANGED generator_vars
    BY <2>2 DEF Change
  <2>3. ASSUME NEW e, NEW p, NEW f, Relink(e, p, f) PROVE UNCHANGED generator_vars
    BY <2>3 DEF Relink
  <2> QED
    BY <1>4, <2>1, <2>2, <2>3 DEF Serve
<1> QED
  BY <1>1, <1>2, <1>3, <1>4 DEF Next

\* The invariant speaks of nothing but the variables.
LEMMA StutterIInv == IInv /\ UNCHANGED vars => IInv'
<1> SUFFICES ASSUME IInv, UNCHANGED vars PROVE IInv'
  OBVIOUS
<1>1. /\ UNCHANGED <<step, model, program, classes, store, objects, tasks, hurried>>
  BY DEF vars, generator_vars, program_vars
<1>2. CASE program = "none"
  <2>1. tasks = [t \in Tasks |-> Idle] /\ objects = [t \in Tasks |-> NoObject]
    BY <1>2 DEF IInv, ProgramInv
  <2>2. ProgramInv'
    BY <1>1, <1>2, <2>1 DEF ProgramInv
  <2>3. Quiet'
    BY <1>1, <1>2, <2>1 DEF Quiet
  <2> QED
    BY <2>2, <2>3, QuietInvNext DEF IInv
<1>3. CASE program # "none"
  <2>1. SameWorld
    BY <1>1, <1>3 DEF SameWorld
  <2>2. program \in {"running", "crashed"}
    BY <1>3 DEF IInv, ProgramInv
  <2>3. ProgramInv'
    BY <1>1, <2>1, <2>2, ProgramGoesOn
  <2>4. \A o \in Tasks : (Alive(o)' <=> Alive(o)) /\ objects'[o] = objects[o]
    BY <1>1 DEF Alive
  <2>5. TasksInv' /\ CurrentInv'
    <3>1. ObjectsLast
      BY <2>4 DEF ObjectsLast
    <3>2. \A o \in Tasks : \A n : LinkedFrom(o, n)' = LinkedFrom(o, n)
      BY <1>1 DEF LinkedFrom, LinksOf
    <3>3. SaidLasts
      BY <2>4, <3>2 DEF SaidLasts
    <3> QED
      BY <1>1, <2>1, <3>1, <3>3, CallsStay
  <2>6. ObjectsInv'
    BY <1>1, <2>1, ObjectInvStays DEF IInv, ObjectsInv
  <2>7. WaitsInv'
    BY <1>1, <2>4, WaitingStays
  <2> QED
    BY <2>3, <2>5, <2>6, <2>7 DEF IInv
<1> QED
  BY <1>2, <1>3

LEMMA NextIInv == IInv /\ GeneratorIInv /\ [Next]_vars => IInv'
<1> SUFFICES ASSUME IInv, GeneratorIInv, [Next]_vars PROVE IInv'
  OBVIOUS
<1>1. CASE Generate /\ UNCHANGED program_vars
  BY <1>1, GenerateIInv
<1>2. CASE Start
  BY <1>2, StartIInv
<1>3. CASE Use
  <2>1. ASSUME NEW t \in Tasks, program = "running", NEW q \in Stores[model].queries, Query(t, q)
        PROVE  IInv'
    BY <2>1, QueryIInv
  <2>2. ASSUME NEW t \in Tasks, NEW o \in Tasks, NEW memory \in {0, 1}, Update(t, o, memory) PROVE IInv'
    BY <2>2, UpdateIInv
  <2>3. ASSUME NEW t \in Tasks, NEW o \in Tasks, NEW n, Load(t, o, n) PROVE IInv'
    BY <2>3, LoadIInv
  <2>4. ASSUME NEW o \in Tasks, NEW p, NEW m, Edit(o, p, m) PROVE IInv'
    BY <2>4, EditIInv
  <2>5. ASSUME NEW o \in Tasks, Release(o) PROVE IInv'
    BY <2>5, ReleaseIInv
  <2> QED
    BY <1>3, <2>1, <2>2, <2>3, <2>4, <2>5 DEF Use
<1>4. CASE Serve
  <2>1. ASSUME NEW t \in Tasks,
               Answer(t) \/ Fail(t) \/ AnswerNothing(t) \/ Apply(t) \/ Continue(t) \/ Insert(t)
        PROVE  IInv'
    BY <2>1, AnswerIInv, FailIInv, ApplyIInv, ContinueIInv, InsertIInv
  <2>2. ASSUME NEW e \in DOMAIN store, NEW p, NEW v, Change(e, p, v) PROVE IInv'
    BY <2>2, ChangeIInv
  <2>3. ASSUME NEW e \in DOMAIN store, NEW p, NEW f \in DOMAIN store, Relink(e, p, f) PROVE IInv'
    BY <2>3, RelinkIInv
  <2> QED
    BY <1>4, <2>1, <2>2, <2>3 DEF Serve
<1>5. CASE UNCHANGED vars
  BY <1>5, StutterIInv
<1> QED
  BY <1>1, <1>2, <1>3, <1>4, <1>5 DEF Next

-----------------------------------------------------------------------------
(* What is proved *)

\* The program that is made is one of the classes of the tool: what is proved of the
\* tool holds while the program runs.
THEOREM ProgramsAreGenerated == Spec => GeneratorSpec
<1>1. Init => GeneratorInit
  BY DEF Init
<1> QED
  BY <1>1, GeneratorGoesOn, PTL DEF Spec, GeneratorSpec

\* The invariant of the program: objects are of the types of their entities, calls in
\* flight are for objects that were made, and fresh properties are current.
THEOREM ObjectsAreSound == Spec => []IInv
<1>1. Spec => []GeneratorIInv
  BY ProgramsAreGenerated, ListsAreSound, PTL
<1> QED
  BY <1>1, InitIInv, NextIInv, PTL DEF Spec

\* create_instance_from_entity makes an object of the type of the entity, or none, and
\* then the type is neither the class that is expected nor one of the same schema that
\* has it as its base; links hold what derives from the type of their property.
THEOREM EveryReadKeepsTheType == Spec => []ReadsKeepTheType
<1>1. IInv => ReadsKeepTheType
  <2> SUFFICES ASSUME IInv, NEW t \in Tasks
               PROVE  /\ tasks[t].step = "done" /\ tasks[t].kind = "query" /\ objects[t] = NoObject =>
                            /\ Type(tasks[t].entity) # tasks[t].class
                            /\ Model.base[Type(tasks[t].entity)] = tasks[t].class =>
                                  Model.schema[Type(tasks[t].entity)] # Model.schema[tasks[t].class]
                      /\ Alive(t) =>
                            /\ objects[t].class = Type(objects[t].entity)
                            /\ \A n \in DOMAIN objects[t].navs : \A i \in DOMAIN objects[t].navs[n] :
                                  objects[t].navs[n][i] # Null =>
                                      Prop(n).type \in Lineage(Type(objects[t].navs[n][i]))
    BY DEF ReadsKeepTheType
  <2>1. ASSUME tasks[t].step = "done", tasks[t].kind = "query", objects[t] = NoObject,
               NEW type, type = Type(tasks[t].entity), NEW class, class = tasks[t].class
        PROVE  type # class /\ (Model.base[type] = class => Model.schema[type] # Model.schema[class])
    <3>1. IsAnswered(t) /\ program # "none"
      <4>1. TaskInv(t)
        BY DEF IInv, TasksInv
      <4> QED
        BY <2>1, <4>1 DEF IInv, ProgramInv, TaskInv, Idle, IsQuery, IsLoad, IsUpdate, IsDone, Flying
    <3>2. ~Creates(class, type) /\ class \in classes /\ type \in Model.types
      <4>1. ~Creates(class, type)
        BY <2>1, <3>1 DEF IInv, ObjectsInv, ObjectInv
      <4> QED
        BY <2>1, <3>1, <4>1, RunningFacts DEF IInv, IsAnswered
    <3>3. \A u \in Model.types :
             Model.base[u] \in classes /\ Model.schema[Model.base[u]] = Model.schema[u] => u \in classes
      BY <3>1 DEF IInv, ProgramInv
    <3> QED
      BY <3>2, <3>3 DEF Creates
  <2>2. ASSUME Alive(t), NEW n \in DOMAIN objects[t].navs, NEW i \in DOMAIN objects[t].navs[n],
               objects[t].navs[n][i] # Null
        PROVE  Prop(n).type \in Lineage(Type(objects[t].navs[n][i]))
    BY <2>2, Held DEF IInv, IsObject, MayHold
  <2>3. Alive(t) => objects[t].class = Type(objects[t].entity)
    BY Held DEF IInv, IsObject
  <2> QED
    BY <2>1, <2>2, <2>3
<1> QED
  BY <1>1, ObjectsAreSound, PTL

\* A program that waits for each call and keeps its objects does not crash, and a
\* property that was loaded once at a time says what the service links.
THEOREM EveryLoadIsCurrent == Spec => []LoadsAreCurrent
<1>1. IInv => LoadsAreCurrent
  BY DEF IInv, WaitsInv, CurrentInv, Current, LinkedFrom, LoadsAreCurrent
<1> QED
  BY <1>1, ObjectsAreSound, PTL
===============================================================================
