----------------------------- MODULE MCJsonWire ------------------------------
\* People, of whom some are customers, with properties of every kind.
EXTENDS JsonWire

Address == [Street |-> Scalar("string")]
Person == [Name |-> Scalar("string"), Age |-> Scalar("number"), Level |-> Scalar("enum"),
           Home |-> ComplexOf("Address"), Places |-> CollectionOf(ComplexOf("Address")),
           Tags |-> CollectionOf(Scalar("string")), Where |-> Scalar("unknown"),
           Days |-> CollectionOf(Scalar("unknown"))]

MCProperties == [Address |-> Address,
                 HomeAddress |-> Address @@ [Family |-> Scalar("string")],
                 Person |-> Person,
                 Customer |-> Person @@ [City |-> Scalar("string")]]

\* Trees: a leaf, and what stands at the entries of a function, as the
\* members of an object or the items of an array.
Leaf(j) == <<>> :> j
Branch(j, parts) ==
    LET paths == UNION {{<<n>> \o p : p \in DOMAIN parts[n]} : n \in DOMAIN parts}
    IN (<<>> :> j) @@ [p \in paths |-> parts[p[1]][Tail(p)]]

Object(members) == Branch(JObject, members)
Array(items) == Branch(JArray, items)
String(t) == Leaf(JText(t))

Street(s) == [Street |-> String(s)]
AtHome(s) == Street(s) @@ [Family |-> String(Plain("a"))] @@ ("@type" :> Leaf(JType("HomeAddress", TRUE)))

Documented(name, age, home, places, tags, days) ==
    [Name |-> name, Age |-> age, Level |-> String(Plain("high")), Home |-> home, Places |-> places,
     Tags |-> tags, Where |-> Object([at |-> Leaf(JNumber(Plain("1")))]), Days |-> Array(days)]

MCPeople ==
    {Documented(name, age, home, places, tags, <<>>) :
        name \in {String(Text(Special, 0)), Leaf(JNull)},
        age \in {Leaf(JNumber(Plain("1"))), String(Infinity)},
        home \in {Leaf(JNull), Object(Street(Plain("a"))), Object(AtHome(Text(Special, 1)))},
        places \in {Array(<<Object(Street(Plain("b"))), Object(AtHome(Plain("a")))>>)},
        tags \in {Array(<<>>), Array(<<String(Text(Special, 0)), Leaf(JNull)>>)}}

Customer(p) == p @@ [City |-> String(Plain("c"))] @@ ("@type" :> Leaf(JType("Customer", TRUE)))

MCDocuments ==
    {Object(p) : p \in MCPeople}
    \cup {Object(Customer(p)) : p \in MCPeople}
    \cup {Object(Documented(String(Plain("a")), Leaf(JNull), Leaf(JNull), Array(<<>>), Array(<<>>),
                            <<String(Plain("d"))>>))}

\* The two a race needs: a derived type at the top and one below it.
MCFewDocuments ==
    {Object(Documented(String(Text(Special, 0)), Leaf(JNumber(Plain("1"))), Object(AtHome(Text(Special, 1))),
                       Array(<<>>), Array(<<Leaf(JNull)>>), <<>>)),
     Object(Customer(Documented(String(Plain("a")), String(Infinity), Object(Street(Plain("a"))),
                                Array(<<Object(AtHome(Plain("a")))>>), Array(<<>>), <<>>)))}

MCTexts == [Name |-> {Plain("b"), Text(Special, 0), Text(Special, 1)}, Age |-> {Plain("2")}]

At(n, part) == [p \in {<<n>> \o q : q \in DOMAIN part} |-> part[Tail(p)]]
Set(t) == Leaf(Primitive("string", t))
MCSettings ==
    [Home |-> {At("Home", part) : part \in
                  {Leaf(Null), Leaf(Complex("complex")),
                   Branch(Complex("complex"), [Street |-> Set(Plain("b"))]),
                   Branch(Complex("complex"), [Street |-> Set(Plain("b")), Family |-> Set(Text(Special, 1))]
                                              @@ ("@type" :> Leaf(TypeName("HomeAddress", FALSE))))}},
     Tags |-> {At("Tags", Branch(Collection, <<Set(Plain("b")), Set(Text(Special, 1))>>))}]
MCOperations == {<<p>> : p \in DOMAIN Person} \cup {<<p, q>> : p, q \in {"Name", "Age", "Home"}}
==============================================================================
