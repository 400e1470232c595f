------------------------------ MODULE QueryPath ------------------------------
(***************************************************************************)
(* The query of a builder: a tree of paths with options, held together by  *)
(* raw pointers, and the URL made of it                                    *)
(* (include/odata/codegen/odata_query_path.h, odata_query_builder.h,       *)
(* odata_service_query.h and src/codegen/odata_query_path.cpp).            *)
(*                                                                         *)
(* A path owns its first child and its next sibling.  Expanding puts a     *)
(* path before the children its parent has, by overwriting the pointer to  *)
(* its sibling, whatever it was; nothing keeps an application from         *)
(* expanding a path twice, or from evaluating a query, adding to it and    *)
(* evaluating it again.                                                    *)
(***************************************************************************)
EXTENDS Naturals, Sequences, FiniteSets, SequencesExt, FiniteSetsExt

CONSTANTS
    Roots,       \* the paths of builders
    Branches,    \* the paths the application makes to expand
    Options,     \* option -> its ODATA_QUERY_OPTION_TYPE
    MaxDetails,  \* options and keys the paths are given
    MaxExpands,  \* calls of expand
    None

Paths == Roots \cup Branches

\* What there is of a path: its own members and those of odata_query_path it has.
Nodes == [resource : Seq(Paths \cup {"key"}), options : Seq(DOMAIN Options),
          child : Branches \cup {None}, sibling : Branches \cup {None}]

ASSUME PathsAssumption == IsFiniteSet(Paths) /\ Roots \cap Branches = {}
ASSUME OptionsAssumption == \A o \in DOMAIN Options : Options[o] \in Nat
ASSUME NoneAssumption == None \notin Paths /\ None \notin Nodes

VARIABLES
    path,        \* path -> its members, or None once it is deleted
    asked,       \* path -> what the calls asked of it: its options, its keys
                 \* and the paths expanded from it, the latest first
    expression,  \* root -> the last expression made of it, and what had been
                 \* asked by then, or None
    outcome      \* "ok", "endless" or "crashed", which end the program

query_vars == <<path, asked, expression, outcome>>

\* The pointers a path owns.
Owned(p) == IF path[p] = None THEN {} ELSE {path[p].child, path[p].sibling} \ {None}

\* All that S leads to.
Reach(S) ==
    LET closed == {T \in SUBSET Paths : \A p \in T : Owned(p) \subseteq T}
    IN  {q \in Paths : \A T \in closed : S \subseteq T => q \in T}

Beneath(p) == Reach(Owned(p))

\* odata_query_option_comparator compares types, and std::sort may leave
\* options of one type in any order.
Ordered(options) ==
    {[i \in DOMAIN options |-> options[f[i]]] :
        f \in {f \in [DOMAIN options -> DOMAIN options] :
                  \A i, j \in DOMAIN options :
                     /\ i # j => f[i] # f[j]
                     /\ i < j => Options[options[f[i]]] <= Options[options[f[j]]]}}

\* Parts with a separator between them.
Joined(parts, separator) ==
    LET joined[n \in 0..Len(parts)] ==
            CASE n = 0 -> <<>>
              [] n = 1 -> parts[1]
              [] OTHER -> joined[n - 1] \o <<separator>> \o parts[n]
    IN  joined[Len(parts)]

\* A mutant: nested clauses end with the clauses around them.
EnclosedOpen(clauses, root) ==
    CASE clauses = <<>> -> <<>>
      [] clauses # <<>> /\ root -> <<"?">> \o clauses
      [] OTHER -> <<"(">> \o clauses

Enclosed(clauses, root) ==
    CASE clauses = <<>> -> <<>>
      [] clauses # <<>> /\ root -> <<"?">> \o clauses
      [] OTHER -> <<"(">> \o clauses \o <<")">>

\* The clauses of a path: its options, and what is expanded from it.
Clauses(options, texts) ==
    [i \in DOMAIN options |-> <<options[i]>>]
    \o IF texts = <<>> THEN <<>> ELSE <<<<"$expand">> \o Joined(texts, ",")>>

\* evaluate_query_path, of the paths it visits, whose options are in order
Evaluated(r, paths, visited) ==
    LET siblings[p \in visited \cup {None}] ==
            IF p = None THEN <<>> ELSE <<p>> \o siblings[paths[p].sibling]
        text[p \in visited] ==
            LET root == p \in Roots
                children == siblings[paths[p].child]
                clauses == Clauses(paths[p].options, [i \in DOMAIN children |-> text[children[i]]])
            IN  paths[p].resource \o Enclosed(Joined(clauses, IF root THEN "&" ELSE ";"), root)
    IN  text[r]

(***************************************************************************)
(* What was asked.                                                         *)
(***************************************************************************)
Expands == UNION {{<<p, i>> : i \in DOMAIN asked[p].expands} : p \in Paths}

\* No path was expanded twice, and no path given two options of one type.
WellUsed ==
    /\ \A e, f \in Expands : asked[e[1]].expands[e[2]] = asked[f[1]].expands[f[2]] => e = f
    /\ \A p \in Paths : \A i, j \in DOMAIN asked[p].options :
          Options[asked[p].options[i]] = Options[asked[p].options[j]] => i = j

\* The options in the order of their types.
InOrder(options) ==
    CHOOSE s \in [DOMAIN options -> Range(options)] :
        /\ Range(s) = Range(options)
        /\ \A i, j \in DOMAIN s : i < j => Options[s[i]] < Options[s[j]]

\* The paths expanded from r, and from those in turn.
Asked(r) ==
    LET tree[p \in {r} \cup Beneath(r)] ==
            [resource |-> <<p>> \o [k \in 1..asked[p].keys |-> "key"],
             options |-> InOrder(asked[p].options),
             expands |-> [i \in DOMAIN asked[p].expands |-> tree[asked[p].expands[i]]]]
    IN  tree[r]

(***************************************************************************)
(* Actions.                                                                *)
(***************************************************************************)
Runs(p) == outcome = "ok" /\ path[p] # None

Details == MapThenSumSet(LAMBDA p : Len(asked[p].options) + asked[p].keys, Paths)

\* top, skip, orderby, filter and select
Option(p, o) ==
    /\ Runs(p) /\ Details < MaxDetails
    /\ path' = [path EXCEPT ![p].options = Append(@, o)]
    /\ asked' = [asked EXCEPT ![p].options = Append(@, o)]
    /\ UNCHANGED <<expression, outcome>>

Key(p) ==
    /\ Runs(p) /\ Details < MaxDetails
    /\ path' = [path EXCEPT ![p].resource = Append(@, "key")]
    /\ asked' = [asked EXCEPT ![p].keys = @ + 1]
    /\ UNCHANGED <<expression, outcome>>

MayExpand(p, q) ==
    /\ Runs(p) /\ Runs(q) /\ Cardinality(Expands) < MaxExpands
    /\ asked' = [asked EXCEPT ![p].expands = <<q>> \o @]
    /\ UNCHANGED <<expression, outcome>>

\* A mutant: the assignments are in the wrong order.
ExpandSwapped(p, q) ==
    /\ MayExpand(p, q)
    /\ path' = [path EXCEPT ![p].child = q, ![q].sibling = q]

Expand(p, q) ==
    /\ MayExpand(p, q)
    /\ path' = [path EXCEPT ![q].sibling = path[p].child, ![p].child = q]

\* get_query_expression: it leaves the options of every path it visits in
\* order.  It never returns from a path it is in the middle of.
Evaluate(r) ==
    /\ Runs(r)
    /\ CASE \E p \in Beneath(r) : path[p] = None -> outcome' = "crashed" /\ UNCHANGED <<path, expression>>
         [] \E p \in Beneath(r) : p \in Beneath(p) -> outcome' = "endless" /\ UNCHANGED <<path, expression>>
         [] OTHER -> LET visited == {r} \cup Beneath(r)
                     IN \E orders \in [visited -> UNION {Ordered(path[p].options) : p \in visited}] :
                           /\ \A p \in visited : orders[p] \in Ordered(path[p].options)
                           /\ path' = [p \in Paths |-> IF p \in visited THEN [path[p] EXCEPT !.options = orders[p]]
                                                                        ELSE path[p]]
                           /\ expression' = [expression EXCEPT ![r] =
                                                 [text |-> Evaluated(r, path', visited),
                                                  asked |-> IF WellUsed THEN Asked(r) ELSE None]]
                           /\ UNCHANGED outcome
    /\ UNCHANGED asked

PointersTo(q, S) == {e \in S \X {"child", "sibling"} : path[e[1]] # None /\ path[e[1]][e[2]] = q}

Freed(r) == {r} \cup Beneath(r)

\* ~odata_query_path: it deletes what its pointers point to, deleted or not.
Delete(r) ==
    /\ Runs(r)
    /\ IF \E q \in Beneath(r) : path[q] = None \/ Cardinality(PointersTo(q, Freed(r))) > 1
       THEN outcome' = "crashed" /\ UNCHANGED path
       ELSE path' = [p \in Paths |-> IF p \in Freed(r) THEN None ELSE path[p]] /\ UNCHANGED outcome
    /\ UNCHANGED <<asked, expression>>

QueryInit ==
    /\ path = [p \in Paths |-> [resource |-> <<p>>, options |-> <<>>, child |-> None, sibling |-> None]]
    /\ asked = [p \in Paths |-> [options |-> <<>>, keys |-> 0, expands |-> <<>>]]
    /\ expression = [r \in Roots |-> None]
    /\ outcome = "ok"

QueryNext ==
    \/ \E p \in Paths, o \in DOMAIN Options : Option(p, o)
    \/ \E p \in Paths : Key(p)
    \/ \E p \in Paths, q \in Branches : Expand(p, q)
    \/ \E r \in Roots : Evaluate(r)
    \/ \E r \in Roots : Delete(r)

QuerySpec == QueryInit /\ [][QueryNext]_query_vars

(***************************************************************************)
(* Properties.                                                             *)
(***************************************************************************)
\* Where no path is expanded twice, evaluating a query ends, and deleting
\* builders deletes nothing twice, leaves no pointer to what is deleted, and
\* deletes all that was expanded from what it deletes, even if paths were
\* expanded from one another in a circle: no builder reaches that.
TreeIsSafe ==
    WellUsed =>
        /\ outcome = "ok"
        /\ \A e \in Expands : path[e[1]] = None => path[asked[e[1]].expands[e[2]]] = None
==============================================================================
