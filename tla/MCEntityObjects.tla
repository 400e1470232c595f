--------------------------- MODULE MCEntityObjects ----------------------------
(***************************************************************************)
(* The generated classes in use: services for two of the models the code   *)
(* generator supports.                                                     *)
(***************************************************************************)
EXTENDS EntityObjects, TLC

Property(on, name, type) ==
    [on |-> on, name |-> <<name>>, takes |-> {<<name>>, <<"get", name>>, <<"set", name>>},
     type |-> type, collection |-> FALSE, nullable |-> FALSE, key |-> FALSE]
Operation(name, schema_, on, params) ==
    [name |-> <<name>>, takes |-> {<<name>>}, schema |-> schema_, on |-> on, action |-> FALSE,
     params |-> params, returns |-> Void]
Container(schema_, sets, imports) ==
    [name |-> "Fruits", schema |-> schema_, sets |-> sets,
     queries |-> {<<"create", "people", "query">>}, imports |-> imports]
Single(name) == [name |-> <<name>>, type |-> Primitive, collection |-> FALSE]

\* Some of the names that are taken.
MCReserved == {<<"class">>, <<"from", "value">>, <<"parameters">>, <<"enum", "type", "resolver">>}

\* Two enumerations that share an enumerator, complex types that derive from each
\* other, and three entity types that do.
Kinds == "Color" :> "enum" @@ "Fruit" :> "enum"
         @@ "Address" :> "complex" @@ "Home" :> "complex"
         @@ "Person" :> "entity" @@ "Customer" :> "entity" @@ "Vip" :> "entity"
Properties ==
    "id" :> [Property("Person", "id", Primitive) EXCEPT !.key = TRUE]
    @@ "note" :> [Property("Person", "note", Primitive) EXCEPT !.nullable = TRUE]
    @@ "addresses" :> [Property("Person", "addresses", "Address") EXCEPT !.collection = TRUE]
    @@ "fruit" :> Property("Customer", "fruit", "Fruit")
    @@ "next" :> [Property("Person", "next", "Person") EXCEPT !.nullable = TRUE]
    @@ "color" :> Property("Address", "color", "Color")
    @@ "inner" :> [Property("Home", "inner", "Address") EXCEPT !.nullable = TRUE]
Whole ==
    [types |-> DOMAIN Kinds,
     kind |-> Kinds,
     schemas |-> {"one"},
     schema |-> [t \in DOMAIN Kinds |-> "one"],
     base |-> [t \in DOMAIN Kinds |->
                  CASE t = "Customer" -> "Person" [] t = "Vip" -> "Customer"
                    [] t = "Home" -> "Address" [] OTHER -> NoType],
     lower |-> [t \in DOMAIN Kinds |->
                   CASE t = "Vip" -> "vip" [] t = "Customer" -> "customer" [] t = "Home" -> "home"
                     [] OTHER -> "other"],
     labels |-> [t \in DOMAIN Kinds |->
                    CASE t = "Color" -> <<<<"Red">>, <<"Orange">>>>
                      [] t = "Fruit" -> <<<<"Apple">>, <<"Orange">>>>
                      [] OTHER -> <<>>],
     properties |-> Properties,
     operations |-> {Operation("Rename", "one", "Person", <<Single("first"), Single("last")>>),
                     Operation("Reset", "one", NoType, <<>>)},
     containers |-> {Container("one", {"Person", "Vip"},
                               {[name |-> "ResetAll", operation |-> <<"Reset">>]})}]

\* The same, with the types of a set in a second schema.
Apart(m, types) ==
    [m EXCEPT !.schemas = {"one", "two"},
              !.schema = [t \in m.types |-> IF t \in types THEN "two" ELSE "one"]]
\* The same, with more than is supported of one thing.
WithProperty(m, name, p) == [m EXCEPT !.properties = name :> p @@ @]
WithOperation(m, o) == [m EXCEPT !.operations = @ \cup {o}]
WithContainer(m, c) == [m EXCEPT !.containers = @ \cup {c}]
FiveKeys(m) ==
    [m EXCEPT !.properties =
        [k \in {"a", "b", "c", "d", "e"} |-> [Property("Vip", k, Primitive) EXCEPT !.key = TRUE]] @@ @]

\* A type of another schema than its base, and in no set: it has no class.
Derived(m) == [Apart(m, {"Vip"}) EXCEPT !.containers = {Container("one", {"Person"}, {})}]

\* A function, and no operator: what is whole is one value in it.
Variants ==
  [m \in {Whole} |->
    "whole" :> m @@ "five keys" :> FiveKeys(m)
    @@ "entities apart" :> Apart(m, {"Person", "Customer", "Vip"}) @@ "base apart" :> Apart(m, {"Vip"})
    @@ "enumeration apart" :> Apart(m, {"Fruit"}) @@ "complex apart" :> Apart(m, {"Address"})
    @@ "navigation in complex" :> WithProperty(m, "owner", Property("Address", "owner", "Person"))
    @@ "collection in complex" :>
          WithProperty(m, "parts", [Property("Address", "parts", "Address") EXCEPT !.collection = TRUE])
    @@ "equal members" :> WithProperty(m, "ID", Property("Person", "id", Primitive))
    @@ "unknown type" :> WithProperty(m, "what", Property("Person", "what", Unknown))
    @@ "four parameters" :>
          WithOperation(m, Operation("Move", "one", "Person",
                                  <<Single("a"), Single("b"), Single("c"), Single("d")>>))
    @@ "equal names" :>
          [m EXCEPT !.labels["Color"] = <<<<"Fruit", "Orange">>, <<"Orange">>>>]
    @@ "keyword" :> WithProperty(m, "class", Property("Person", "class", Primitive))
    @@ "enumerator and class" :> [m EXCEPT !.labels["Color"] = <<<<"Home">>>>]
    @@ "operation and member" :> WithOperation(m, Operation("note", "one", "Person", <<>>))
    @@ "equal creators" :> [m EXCEPT !.lower["Customer"] = "vip"]
    @@ "class apart" :> Derived(m)
    @@ "circle" :> [m EXCEPT !.base["Person"] = "Vip"]
    @@ "two containers" :> WithContainer(m, Container("one", {}, {}))
    @@ "no container" :> [m EXCEPT !.containers = {}]]
ModelsByName == Variants[Whole]

\* A customer with two addresses, linked to a very important one, whose fruit the
\* classes do not know.
All == DOMAIN Properties \ {"color", "inner"}
Asked(entity, class, selected, expand) ==
    [entity |-> entity, class |-> class, selected |-> selected, expand |-> expand]
Red == "color" :> <<"Red">>
RedHome == [type |-> "Home", fields |-> Red @@ "inner" :> [type |-> "Address", fields |-> Red]]
WholeStore ==
     [queries |-> {Asked("c", "Customer", All, TRUE), Asked("c", "Person", {"id"}, FALSE),
                   Asked("v", "Person", All, FALSE), Asked("v", "Vip", All, FALSE)},
      labels |-> "Color" :> {<<"Red">>, <<"Orange">>}
                 @@ "Fruit" :> {<<"Apple">>, <<"Orange">>, <<"Plum">>},
      entities |->
        "c" :> [type |-> "Customer",
                fields |-> "id" :> 1 @@ "note" :> 1 @@ "fruit" :> <<"Orange">>
                           @@ "addresses" :> <<[type |-> "Address", fields |-> "color" :> <<"Orange">>],
                                               RedHome>>,
                links |-> "next" :> <<"v">>]
        @@ "v" :> [type |-> "Vip",
                   fields |-> "id" :> 1 @@ "fruit" :> <<"Plum">> @@ "addresses" :> <<>>,
                   links |-> "next" :> <<>>]]
StoresByName ==
    "whole" :> WholeStore
    @@ "class apart" :> [WholeStore EXCEPT !.queries = {Asked("v", "Customer", {"id"}, FALSE)}]

\* TLC evaluates a definition of its own once, one that a constant stands for each
\* time.
MCModels == ModelsByName
MCStores == StoresByName

\* Calls are alike.
Symmetry == Permutations(Tasks)
=============================================================================
