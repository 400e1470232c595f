--------------------------- MODULE MCEdmResolver -----------------------------
(* Instances of EdmResolver for TLC. *)
EXTENDS EdmResolver, TLC

CONSTANTS Person, Employee, Address, Color, Hire, Friends, Boss, Home, Tint, Who, Return,
          People, Staff, Me

Decl(nav, coll, of, contained) ==
    [nav |-> nav, coll |-> coll, of |-> of, contained |-> contained]

Unused == Decl(FALSE, FALSE, Missing, FALSE)

Bindings ==
    {x \in [set : {People, Staff}, on : {Nothing, Employee}, label : {Friends, Boss},
            target : {People, Me, Nothing}] :
        x.on = Nothing \/ x.label = Boss}

\* An Employee is a Person; k spreads types and container over two schemas, f
\* is how friends are declared, h what a home and a parameter are.
Model(k, f, boss, h, b) ==
    [schemas |-> 2,
     schema |-> (Person :> k[1]) @@ (Employee :> k[2]) @@ (Address :> k[3]) @@ (Color :> 2)
                @@ (Hire :> 1),
     kind |-> (Person :> "Entity") @@ (Employee :> "Entity") @@ (Address :> "Complex")
              @@ (Color :> "Enum") @@ (Hire :> "Operation"),
     base |-> (Person :> Nothing) @@ (Employee :> Person) @@ (Address :> Nothing)
              @@ (Color :> Nothing) @@ (Hire :> Nothing),
     slots |-> {<<Person, Friends>>, <<Employee, Boss>>, <<Employee, Home>>, <<Address, Tint>>,
                <<Hire, Who>>, <<Hire, Return>>},
     declared |-> [p \in Slot |->
         CASE p = <<Person, Friends>> -> Decl(TRUE, f[1], Employee, f[2])
           [] p = <<Employee, Boss>>  -> Decl(TRUE, FALSE, boss, FALSE)
           [] p = <<Employee, Home>>  -> Decl(FALSE, h[1], h[2], FALSE)
           [] p = <<Address, Tint>>   -> Decl(FALSE, FALSE, Color, FALSE)
           [] p = <<Hire, Who>>       -> Decl(FALSE, h[1], h[2], FALSE)
           [] p = <<Hire, Return>>    -> Decl(FALSE, FALSE, Employee, FALSE)
           [] OTHER -> Unused],
     home |-> k[4],
     setType |-> (People :> Person) @@ (Staff :> Employee) @@ (Me :> Person), imports |-> {Hire, Missing},
     bindings |-> b]

Schemas == [1 .. 4 -> 1 .. 2]

\* All kinds of types, with no bindings, and at most two bindings of any kind.
MCDocuments ==
    {Model(k, f, boss, h, {}) :
        k \in Schemas, f \in BOOLEAN \X BOOLEAN, boss \in {Person, Missing},
        h \in BOOLEAN \X {Address, Edm, Missing}}
    \cup {Model(k, <<TRUE, c>>, Person, <<TRUE, Address>>, {x, y}) :
        k \in Schemas, c \in BOOLEAN, x \in Bindings, y \in Bindings}
==============================================================================
