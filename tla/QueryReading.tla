----------------------------- MODULE QueryReading -----------------------------
(***************************************************************************)
(* How a service reads the expressions of queries, token after token: the  *)
(* grammar of the query options, independent of how an expression was      *)
(* made.  It takes keys within an item of $expand too, which OData does    *)
(* not: the builder writes the keys of a path wherever the path stands,    *)
(* and a caller that gives keys to a path it expands is refused.           *)
(***************************************************************************)
EXTENDS QueryPath

Segments == Paths \cup {"key"}
Signs == {"?", "&", "(", ")", ";", ",", "$expand"}

\* A token is one of these only.
ASSUME TokensAssumption ==
    /\ "key" \notin Paths \cup DOMAIN Options /\ Paths \cap DOMAIN Options = {}
    /\ Signs \cap (Segments \cup DOMAIN Options) = {}

\* A query, or an item of its $expand, that has been begun: what was read of
\* it, what it is at, and the one it is within.
Begun(is, resource, within) ==
    [is |-> is, resource |-> resource, options |-> <<>>, expands |-> <<>>, at |-> "resource", within |-> within]

What(q) == [resource |-> q.resource, options |-> q.options, expands |-> q.expands]

\* The item q has ended.
EndedItem(q) == [q.within EXCEPT !.expands = Append(@, What(q)), !.at = "item"]

\* An item without clauses ends when anything but a name follows.
Left(q) == IF q.at = "resource" /\ q.is = "item" THEN EndedItem(q) ELSE q

Refused == [at |-> "refused"]

\* One token more.
Then(q, token) ==
    LET left == Left(q)
        clause == left.at \in {"option", "item"}
    IN CASE token \in Segments /\ q.at = "resource"        -> [q EXCEPT !.resource = Append(@, token)]
         [] token \in Paths /\ q.at = "items"           -> Begun("item", <<token>>, q)
         [] token = "?" /\ q.at = "resource" /\ q.is = "query" -> [q EXCEPT !.at = "clause"]
         [] token = "(" /\ q.at = "resource" /\ q.is = "item"  -> [q EXCEPT !.at = "clause"]
         [] token \in DOMAIN Options /\ q.at = "clause" -> [q EXCEPT !.options = Append(@, token), !.at = "option"]
         [] token = "$expand" /\ q.at = "clause"        -> [q EXCEPT !.at = "items"]
         [] token = "," /\ left.at = "item"             -> [left EXCEPT !.at = "items"]
         [] token = "&" /\ clause /\ left.is = "query"  -> [left EXCEPT !.at = "clause"]
         [] token = ";" /\ clause /\ left.is = "item"   -> [left EXCEPT !.at = "clause"]
         [] token = ")" /\ clause /\ left.is = "item"   -> EndedItem(left)
         [] OTHER                                       -> Refused

\* All tokens of s, from q on.
Run(q, s) ==
    LET run[n \in 0..Len(s)] == IF n = 0 THEN q ELSE Then(run[n - 1], s[n])
    IN  run[Len(s)]

ReadQuery(s) ==
    LET last == Left(Run(Begun("query", <<>>, None), s))
    IN  IF last.at \in {"resource", "option", "item"} /\ last.is = "query" THEN What(last) ELSE Refused

\* Every expression, of a query that is still being built or was evaluated
\* before, is read by the service as the tree of paths and options asked for
\* by then, each list of options in the order of their types whatever the
\* order of the calls, and the paths expanded last first.
ExpressionSaysWhatWasAsked ==
    \A r \in Roots : expression[r] # None /\ expression[r].asked # None =>
        ReadQuery(expression[r].text) = expression[r].asked
===============================================================================
