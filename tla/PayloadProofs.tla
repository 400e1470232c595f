---------------------------- MODULE PayloadProofs -----------------------------
(***************************************************************************)
(* What is proved of payloads.                                             *)
(*                                                                         *)
(* Of their pages (Paging): that reading page after page loses nothing and *)
(* is one read of all pages (PagedRead), for any number of reads, pages    *)
(* and threads.                                                            *)
(*                                                                         *)
(* Of their values (JsonWire): that what clients read, send back and pass  *)
(* to operations arrives as it was, for any types, entities, clients and   *)
(* updates that overtake one another.  The invariant, WInv, says that what *)
(* is stored has the shape its types say, and that what a client holds is  *)
(* what it read but for what it has set.  On the way to it stand what the  *)
(* reader (ReadEntity) and the writer (Written) make of a tree of values,  *)
(* one after the other, and what the service makes of an update.           *)
(***************************************************************************)
EXTENDS Paging, JsonWire, SequenceTheorems, WellFoundedInduction, TLAPS

-----------------------------------------------------------------------------
(* The concatenation of sequences *)

\* A set of numbers has a least one.
LEMMA Least ==
    ASSUME NEW S \in SUBSET Nat, S # {}
    PROVE  \E n \in S : \A k \in S : n <= k
<1>1. PICK x \in S : \A y \in S : ~(<<y, x>> \in OpToRel(<, Nat))
  BY NatLessThanWellFounded, WFMin
<1>2. \A y \in S : ~(y < x)
  BY <1>1 DEF OpToRel
<1> QED
  BY <1>2

\* The concatenations of the first 1, 2 .. n sequences of s.
Joins(g, s, n) == g = [i \in 1 .. n |-> IF i = 1 THEN s[i] ELSE g[i - 1] \o s[i]]

\* There are such concatenations, up to any n.
LEMMA JoinsExist ==
    ASSUME NEW s, NEW n \in Nat
    PROVE  \E g : Joins(g, s, n)
<1> DEFINE Bad == {k \in Nat : ~ \E g : Joins(g, s, k)}
<1> SUFFICES Bad = {}
  OBVIOUS
<1> SUFFICES ASSUME Bad # {} PROVE FALSE
  OBVIOUS
<1>1. PICK k \in Bad : \A j \in Bad : k <= j
  BY Least
<1>2. k # 0
  <2>1. Joins([i \in 1 .. 0 |-> {}], s, 0)
    BY DEF Joins
  <2> QED
    BY <2>1
<1>3. k - 1 \in Nat /\ k - 1 \notin Bad
  BY <1>1, <1>2
<1>4. PICK g : Joins(g, s, k - 1)
  BY <1>3
<1> DEFINE h == [i \in 1 .. k |-> IF i = k THEN IF i = 1 THEN s[i] ELSE g[i - 1] \o s[i] ELSE g[i]]
<1>5. ASSUME NEW i \in 1 .. k PROVE h[i] = IF i = 1 THEN s[i] ELSE h[i - 1] \o s[i]
  <2>1. CASE i = k
    <3>1. i # 1 => i - 1 \in 1 .. k /\ i - 1 # k
      BY <2>1
    <3> QED
      BY <2>1, <3>1
  <2>2. CASE i # k
    <3>1. i \in 1 .. k - 1 /\ (i # 1 => i - 1 \in 1 .. k /\ i - 1 # k)
      BY <2>2
    <3>2. g[i] = IF i = 1 THEN s[i] ELSE g[i - 1] \o s[i]
      BY <1>4, <3>1 DEF Joins
    <3> QED
      BY <2>2, <3>1, <3>2
  <2> QED
    BY <2>1, <2>2
<1>6. h = [i \in 1 .. k |-> IF i = 1 THEN s[i] ELSE h[i - 1] \o s[i]]
  <2> HIDE DEF h
  <2>1. h = [i \in 1 .. k |-> h[i]]
    BY DEF h
  <2> QED
    BY <2>1, <1>5
<1>7. Joins(h, s, k)
  BY <1>6 DEF Joins
<1> QED
  BY <1>7

\* s and t begin with the same m elements.
BeginAlike(s, t, m) == \A i \in 1 .. m : s[i] = t[i]

\* They are the same for sequences that begin alike.
LEMMA JoinsAgree ==
    ASSUME NEW s, NEW t, NEW m \in Nat, NEW n \in Nat, m <= n,
           BeginAlike(s, t, m),
           NEW g, Joins(g, s, m), NEW h, Joins(h, t, n)
    PROVE  BeginAlike(g, h, m)
<1> DEFINE Bad == {i \in 1 .. m : g[i] # h[i]}
<1> SUFFICES ASSUME Bad # {} PROVE FALSE
  BY DEF BeginAlike
<1>0. Bad \in SUBSET Nat
  OBVIOUS
<1>1. PICK k \in Bad : \A j \in Bad : k <= j
  <2> HIDE DEF Bad
  <2> QED
    BY <1>0, Least
<1>2. g[k] = IF k = 1 THEN s[k] ELSE g[k - 1] \o s[k]
  BY DEF Joins
<1>3. k \in 1 .. n
  OBVIOUS
<1>4. h[k] = IF k = 1 THEN t[k] ELSE h[k - 1] \o t[k]
  BY <1>3 DEF Joins
<1>5. k # 1 => k - 1 \in 1 .. m /\ k - 1 \notin Bad
  BY <1>1
<1>6. k # 1 => g[k - 1] = h[k - 1]
  BY <1>5
<1>7. s[k] = t[k]
  BY DEF BeginAlike
<1> QED
  BY <1>2, <1>4, <1>6, <1>7

\* FlattenSeq is the last of them.
LEMMA FlattenIsLast ==
    ASSUME NEW s, Len(s) \in Nat, Len(s) # 0, NEW g, Joins(g, s, Len(s))
    PROVE  FlattenSeq(s) = g[Len(s)]
<1> DEFINE f == CHOOSE x : x = [i \in 1 .. Len(s) |-> IF i = 1 THEN s[i] ELSE x[i - 1] \o s[i]]
<1>1. FlattenSeq(s) = f[Len(s)]
  BY DEF FlattenSeq
<1>2. f = CHOOSE x : Joins(x, s, Len(s))
  BY DEF Joins
<1> HIDE DEF f
<1>3. Joins(f, s, Len(s))
  BY <1>2
<1>4. BeginAlike(s, s, Len(s))
  BY DEF BeginAlike
<1>5. BeginAlike(g, f, Len(s))
  BY <1>3, <1>4, JoinsAgree
<1> QED
  BY <1>1, <1>5 DEF BeginAlike

\* A sequence that begins like s and has one more is s with that one at the end.
LEMMA FlattenNext ==
    ASSUME NEW s, NEW t, NEW n \in Nat, n # 0, Len(s) = n, NEW p \in Nat, p = n + 1,
           Len(t) = p, BeginAlike(s, t, n)
    PROVE  FlattenSeq(t) = FlattenSeq(s) \o t[p]
<1>1. PICK g : Joins(g, s, n)
  BY JoinsExist
<1>2. PICK h : Joins(h, t, p)
  BY JoinsExist
<1>3. FlattenSeq(t) = h[p] /\ FlattenSeq(s) = g[n]
  BY <1>1, <1>2, FlattenIsLast
<1>4. h[p] = h[n] \o t[p]
  <2>1. p \in 1 .. p /\ p # 1 /\ p - 1 = n
    OBVIOUS
  <2>2. h[p] = IF p = 1 THEN t[p] ELSE h[p - 1] \o t[p]
    BY <1>2, <2>1 DEF Joins
  <2> QED
    BY <2>1, <2>2
<1>5. n <= p
  OBVIOUS
<1>6. BeginAlike(g, h, n)
  BY <1>1, <1>2, <1>5, JoinsAgree
<1>7. g[n] = h[n]
  BY <1>6 DEF BeginAlike
<1> QED
  BY <1>3, <1>4, <1>7

\* What is appended to the pages comes last in their values.
LEMMA FlattenAppend ==
    ASSUME NEW V, NEW s \in Seq(Seq(V)), NEW x \in Seq(V)
    PROVE  FlattenSeq(Append(s, x)) = FlattenSeq(s) \o x
<1>1. PICK t : t = Append(s, x)
  OBVIOUS
<1>2. /\ Len(s) \in Nat /\ Len(t) = Len(s) + 1
      /\ BeginAlike(s, t, Len(s))
      /\ t[Len(s) + 1] = x
  BY <1>1 DEF BeginAlike
<1>3. CASE Len(s) # 0
  <2>1. PICK n \in Nat, p \in Nat : n = Len(s) /\ p = n + 1
    BY <1>2
  <2>2. FlattenSeq(t) = FlattenSeq(s) \o t[p]
    BY <1>2, <1>3, <2>1, FlattenNext
  <2> QED
    BY <1>1, <1>2, <2>1, <2>2
<1>4. CASE Len(s) = 0
  <2>1. PICK h : Joins(h, t, 1)
    BY JoinsExist
  <2>2. h[1] = x
    BY <1>2, <1>4, <2>1 DEF Joins
  <2>3. Len(t) = 1
    BY <1>2, <1>4
  <2>4. FlattenSeq(t) = h[1]
    <3>1. Joins(h, t, Len(t)) /\ Len(t) \in Nat /\ Len(t) # 0
      BY <2>1, <2>3
    <3> QED
      BY <2>3, <3>1, FlattenIsLast
  <2>5. FlattenSeq(s) = <<>>
    BY <1>4 DEF FlattenSeq
  <2>6. <<>> \o x = x
    BY ConcatEmptySeq
  <2> QED
    BY <1>1, <2>2, <2>4, <2>5, <2>6
<1> QED
  BY <1>2, <1>3, <1>4

\* The values of pages are values.
LEMMA FlattenType ==
    ASSUME NEW V, NEW s \in Seq(Seq(V))
    PROVE  FlattenSeq(s) \in Seq(V)
<1>1. CASE Len(s) = 0
  BY <1>1 DEF FlattenSeq
<1>2. CASE Len(s) # 0
  <2>1. Len(s) \in Nat
    OBVIOUS
  <2>2. PICK g : Joins(g, s, Len(s))
    BY <2>1, JoinsExist
  <2> DEFINE Bad == {i \in 1 .. Len(s) : g[i] \notin Seq(V)}
  <2>3. Bad = {}
    <3> SUFFICES ASSUME Bad # {} PROVE FALSE
      OBVIOUS
    <3>1. Bad \in SUBSET Nat
      OBVIOUS
    <3>2. PICK k \in Bad : \A j \in Bad : k <= j
      <4> HIDE DEF Bad
      <4> QED
        BY <3>1, Least
    <3>3. g[k] = IF k = 1 THEN s[k] ELSE g[k - 1] \o s[k]
      BY <2>2 DEF Joins
    <3>4. s[k] \in Seq(V)
      OBVIOUS
    <3>5. k # 1 => g[k - 1] \in Seq(V)
      BY <3>2
    <3>6. k # 1 => g[k - 1] \o s[k] \in Seq(V)
      BY <3>4, <3>5, ConcatProperties
    <3>7. g[k] \in Seq(V)
      BY <3>3, <3>4, <3>6
    <3> QED
      BY <3>7
  <2>4. g[Len(s)] \in Seq(V)
    BY <1>2, <2>1, <2>3
  <2> QED
    BY <1>2, <2>1, <2>2, <2>4, FlattenIsLast
<1> QED
  BY <1>1, <1>2

\* The page on top of the stack and those below it.
LEMMA TopOfStack ==
    ASSUME NEW S, NEW s \in Seq(S), s # <<>>
    PROVE  /\ Front(s) \in Seq(S)
           /\ Last(s) \in S
           /\ s = Append(Front(s), Last(s))
BY DEF Front, Last

-----------------------------------------------------------------------------
(* The invariant *)

\* NothingLost of one read, with what the phases say of the other variables.
Accounted(r) ==
    LET below == FlattenSeq(payloads[r])
        all == FlattenSeq(served[r])
    IN /\ phase[r] = "returned" =>
            result[r] = Failed \/ (result[r] \in Seq(Values) /\ below \o result[r] = all)
       /\ IsPage(reply[r]) => phase[r] = "answered" /\ below \o reply[r].values = all
       /\ ~IsPage(reply[r]) /\ phase[r] \notin {"returned", "done"} => below = all
       /\ phase[r] # "done" => outcome[r] = Unknown

IInv == TypeOK /\ \A r \in Reads : Accounted(r)

USE ValuesAssumption

LEMMA InitInvariant == Init => IInv
<1> SUFFICES ASSUME Init PROVE IInv
  OBVIOUS
<1>1. [bad |-> "none"] \notin Page
  BY DEF Page
<1>2. FlattenSeq(<<>>) = <<>>
  BY DEF FlattenSeq
<1>3. TypeOK
  BY DEF Init, TypeOK
<1>4. ASSUME NEW r \in Reads PROVE Accounted(r)
  BY <1>1, <1>2 DEF Init, Accounted, IsPage
<1> QED
  BY <1>3, <1>4 DEF IInv

\* The sequences of a state are sequences.
LEMMA Flat ==
    ASSUME TypeOK, NEW r \in Reads
    PROVE  FlattenSeq(payloads[r]) \in Seq(Values) /\ FlattenSeq(served[r]) \in Seq(Values)
<1>1. payloads[r] \in Seq(Seq(Values)) /\ served[r] \in Seq(Seq(Values))
  BY DEF TypeOK
<1> QED
  BY <1>1, FlattenType

\* A step of read r is one of r alone.
Others(r) ==
    \A q \in Reads \ {r} :
        /\ phase'[q] = phase[q] /\ reply'[q] = reply[q] /\ payloads'[q] = payloads[q]
        /\ result'[q] = result[q] /\ served'[q] = served[q] /\ outcome'[q] = outcome[q]

\* What is left alone stays accounted for.
LEMMA OthersAccounted ==
    ASSUME IInv, NEW r \in Reads, Others(r), Accounted(r)'
    PROVE  \A q \in Reads : Accounted(q)'
<1>1. ASSUME NEW q \in Reads \ {r} PROVE Accounted(q)'
  BY DEF Others, IInv, Accounted, IsPage
<1> QED
  BY <1>1

LEMMA StartInvariant ==
    ASSUME IInv, NEW r \in Reads, Start(r) PROVE TypeOK' /\ Others(r) /\ Accounted(r)'
<1>1. TypeOK' /\ Others(r)
  BY DEF IInv, TypeOK, Start, Others
<1>2. Accounted(r)'
  BY DEF IInv, TypeOK, Start, Accounted, IsPage
<1> QED
  BY <1>1, <1>2

LEMMA RefuseInvariant ==
    ASSUME IInv, NEW r \in Reads, NEW why \in {"empty", "bad"}, RefusePage(r, why)
    PROVE  TypeOK' /\ Others(r) /\ Accounted(r)'
<1>1. TypeOK' /\ Others(r)
  BY DEF IInv, TypeOK, RefusePage, Others
<1>2. [bad |-> why] \notin Page
  BY DEF Page
<1>3. reply'[r] = [bad |-> why] /\ phase'[r] = "answered"
  BY DEF IInv, TypeOK, RefusePage
<1>4. Accounted(r)'
  BY <1>2, <1>3 DEF IInv, RefusePage, Accounted, IsPage
<1> QED
  BY <1>1, <1>4

LEMMA ServeInvariant ==
    ASSUME IInv, NEW r \in Reads, NEW page \in Page, ServePage(r, page)
    PROVE  TypeOK' /\ Others(r) /\ Accounted(r)'
<1>1. page.values \in Seq(Values)
  BY DEF Page
<1>2. served[r] \in Seq(Seq(Values))
  BY DEF IInv, TypeOK
<1>3. TypeOK' /\ Others(r)
  BY <1>1, <1>2 DEF IInv, TypeOK, ServePage, Others
<1>4. /\ served'[r] = Append(served[r], page.values) /\ phase'[r] = "answered"
      /\ reply'[r] = page /\ payloads'[r] = payloads[r] /\ outcome'[r] = Unknown
  BY DEF IInv, TypeOK, ServePage, Accounted
<1>5. FlattenSeq(served'[r]) = FlattenSeq(served[r]) \o page.values
  BY <1>1, <1>2, <1>4, FlattenAppend
<1>6. FlattenSeq(payloads[r]) = FlattenSeq(served[r])
  BY DEF IInv, ServePage, Accounted
<1>7. Accounted(r)'
  BY <1>4, <1>5, <1>6 DEF Accounted, IsPage
<1> QED
  BY <1>3, <1>7

LEMMA ReturnInvariant ==
    ASSUME IInv, NEW r \in Reads, NEW x \in Seq(Values) \cup {Failed}, Return(r, x),
           x = Failed \/ FlattenSeq(payloads[r]) \o x = FlattenSeq(served[r]),
           phase[r] = "answered"
    PROVE  TypeOK' /\ Others(r) /\ Accounted(r)'
<1>1. TypeOK' /\ Others(r)
  BY DEF IInv, TypeOK, Return, Others
<1>2. [bad |-> "none"] \notin Page
  BY DEF Page
<1>3. /\ reply'[r] = [bad |-> "none"] /\ phase'[r] = "returned" /\ result'[r] = x
      /\ payloads'[r] = payloads[r] /\ served'[r] = served[r] /\ outcome'[r] = Unknown
  BY DEF IInv, TypeOK, Return, Accounted
<1>4. Accounted(r)'
  BY <1>2, <1>3 DEF Accounted, IsPage
<1> QED
  BY <1>1, <1>4

LEMMA ReturnLastInvariant ==
    ASSUME IInv, NEW r \in Reads, ReturnLast(r) PROVE TypeOK' /\ Others(r) /\ Accounted(r)'
<1>1. CASE IsPage(reply[r]) /\ Return(r, reply[r].values)
  <2>1. reply[r].values \in Seq(Values)
    BY <1>1 DEF Page, IsPage
  <2>2. FlattenSeq(payloads[r]) \o reply[r].values = FlattenSeq(served[r])
    BY <1>1 DEF IInv, Accounted
  <2> QED
    BY <1>1, <2>1, <2>2, ReturnInvariant DEF ReturnLast
<1>2. CASE reply[r] = [bad |-> "empty"] /\ Return(r, <<>>)
  <2>1. ~IsPage(reply[r])
    BY <1>2 DEF IsPage, Page
  <2>2. FlattenSeq(payloads[r]) = FlattenSeq(served[r])
    BY <2>1 DEF ReturnLast, IInv, Accounted
  <2>3. FlattenSeq(payloads[r]) \o <<>> = FlattenSeq(payloads[r])
    BY Flat, ConcatEmptySeq DEF IInv
  <2>4. <<>> \in Seq(Values)
    OBVIOUS
  <2> QED
    BY <1>2, <2>2, <2>3, <2>4, ReturnInvariant DEF ReturnLast
<1> QED
  BY <1>1, <1>2 DEF ReturnLast

LEMMA ThrowInvariant ==
    ASSUME IInv, NEW r \in Reads, Throw(r) PROVE TypeOK' /\ Others(r) /\ Accounted(r)'
BY ReturnInvariant DEF Throw

LEMMA FollowInvariant ==
    ASSUME IInv, NEW r \in Reads, FollowLink(r) PROVE TypeOK' /\ Others(r) /\ Accounted(r)'
<1>1. reply[r].values \in Seq(Values)
  BY DEF FollowLink, Page, IsPage
<1>2. payloads[r] \in Seq(Seq(Values))
  BY DEF IInv, TypeOK
<1>3. TypeOK' /\ Others(r)
  BY <1>1, <1>2 DEF IInv, TypeOK, FollowLink, Others
<1>4. /\ payloads'[r] = Append(payloads[r], reply[r].values) /\ phase'[r] = "sent"
      /\ reply'[r] = [bad |-> "none"] /\ served'[r] = served[r] /\ outcome'[r] = Unknown
  BY DEF IInv, TypeOK, FollowLink, Accounted
<1>5. FlattenSeq(payloads'[r]) = FlattenSeq(payloads[r]) \o reply[r].values
  BY <1>1, <1>2, <1>4, FlattenAppend
<1>6. FlattenSeq(payloads[r]) \o reply[r].values = FlattenSeq(served[r])
  BY DEF IInv, FollowLink, Accounted
<1>7. [bad |-> "none"] \notin Page
  BY DEF Page
<1>8. Accounted(r)'
  BY <1>4, <1>5, <1>6, <1>7 DEF Accounted, IsPage
<1> QED
  BY <1>3, <1>8

LEMMA ResumeInvariant ==
    ASSUME IInv, NEW r \in Reads, Resume(r) PROVE TypeOK' /\ Others(r) /\ Accounted(r)'
<1> DEFINE rest == Front(payloads[r])
           top == Last(payloads[r])
<1>1. payloads[r] \in Seq(Seq(Values)) /\ payloads[r] # <<>>
  BY DEF IInv, TypeOK, Resume
<1>2. rest \in Seq(Seq(Values)) /\ top \in Seq(Values) /\ payloads[r] = Append(rest, top)
  BY <1>1, TopOfStack
<1>3. FlattenSeq(payloads[r]) = FlattenSeq(rest) \o top /\ FlattenSeq(rest) \in Seq(Values)
  BY <1>2, FlattenAppend, FlattenType
<1>4. /\ payloads'[r] = rest /\ phase'[r] = "returned" /\ phase[r] = "returned"
      /\ result'[r] = IF result[r] = Failed THEN Failed ELSE top \o result[r]
      /\ reply'[r] = reply[r] /\ served'[r] = served[r] /\ outcome'[r] = Unknown
  BY DEF IInv, TypeOK, Resume, Accounted
<1>5. result[r] = Failed \/ (/\ result[r] \in Seq(Values)
                             /\ FlattenSeq(payloads[r]) \o result[r] = FlattenSeq(served[r]))
  BY <1>4 DEF IInv, Accounted
<1>6. ~IsPage(reply[r])
  BY <1>4 DEF IInv, Accounted
<1> HIDE DEF rest, top
<1>7. result[r] # Failed =>
         /\ top \o result[r] \in Seq(Values)
         /\ FlattenSeq(rest) \o (top \o result[r]) = FlattenSeq(served[r])
  <2> SUFFICES ASSUME result[r] # Failed
               PROVE  /\ top \o result[r] \in Seq(Values)
                      /\ FlattenSeq(rest) \o (top \o result[r]) = FlattenSeq(served[r])
    OBVIOUS
  <2>1. result[r] \in Seq(Values)
    BY <1>5
  <2>2. (FlattenSeq(rest) \o top) \o result[r] = FlattenSeq(rest) \o (top \o result[r])
    <3>1. FlattenSeq(rest) \in Seq(Values)
      BY <1>3
    <3>2. top \in Seq(Values)
      BY <1>2
    <3>3. \A f, t, x \in Seq(Values) : (f \o t) \o x = f \o (t \o x)
      BY ConcatAssociative
    <3> QED
      BY <2>1, <3>1, <3>2, <3>3, Zenon
  <2>3. top \o result[r] \in Seq(Values)
    BY <1>2, <2>1
  <2>4. FlattenSeq(payloads[r]) \o result[r] = FlattenSeq(served[r])
    BY <1>5
  <2>5. FlattenSeq(payloads[r]) = FlattenSeq(rest) \o top
    BY <1>3
  <2>6. FlattenSeq(rest) \o (top \o result[r]) = FlattenSeq(served[r])
    BY <2>2, <2>4, <2>5
  <2> QED
    BY <2>3, <2>6
<1>8. TypeOK'
  <2>1. result'[r] \in Seq(Values) \cup {Failed}
    BY <1>4, <1>7
  <2> QED
    BY <1>2, <1>4, <2>1 DEF IInv, TypeOK, Resume, rest
<1>9. Others(r)
  BY DEF IInv, TypeOK, Resume, Others
<1>10. Accounted(r)'
  BY <1>4, <1>5, <1>6, <1>7 DEF Accounted, IsPage
<1> QED
  BY <1>8, <1>9, <1>10

LEMMA CompleteInvariant ==
    ASSUME IInv, NEW r \in Reads, Complete(r) PROVE TypeOK' /\ Others(r) /\ Accounted(r)'
<1>1. TypeOK' /\ Others(r)
  BY DEF IInv, TypeOK, Complete, Others
<1>2. phase'[r] = "done" /\ reply'[r] = reply[r] /\ ~IsPage(reply[r])
  BY DEF IInv, TypeOK, Complete, Accounted
<1>3. Accounted(r)'
  BY <1>2 DEF Accounted, IsPage
<1> QED
  BY <1>1, <1>3

LEMMA NextInvariant == IInv /\ [Next]_vars => IInv'
<1> SUFFICES ASSUME IInv, [Next]_vars PROVE IInv'
  OBVIOUS
<1>1. CASE UNCHANGED vars
  BY <1>1 DEF vars, IInv, TypeOK, Accounted, IsPage
<1>2. ASSUME NEW r \in Reads, Start(r) \/ Step(r) \/ Network(r) PROVE IInv'
  <2>1. TypeOK' /\ Others(r) /\ Accounted(r)'
    BY <1>2, StartInvariant, ThrowInvariant, ReturnLastInvariant, FollowInvariant,
       ResumeInvariant, CompleteInvariant, ServeInvariant, RefuseInvariant DEF Step, Network
  <2> QED
    BY <2>1, OthersAccounted DEF IInv
<1> QED
  BY <1>1, <1>2 DEF Next, Finished

LEMMA Invariance == Spec => []IInv
BY InitInvariant, NextInvariant, PTL DEF Spec

-----------------------------------------------------------------------------
(* The results *)

\* Whatever answers arrive and fail, and however many threads there are, no
\* value of a page is lost, repeated or put in another's place.
THEOREM NoValueIsLost == Spec => []NothingLost
<1>1. IInv => NothingLost
  BY DEF IInv, Accounted, NothingLost
<1> QED
  BY <1>1, Invariance, PTL

\* A read through nested calls is a read of all pages at once.
THEOREM ReadsAllPages == Spec => ImplementsPagedRead
<1>1. Init => Abstract!Init
  BY DEF Init, Abstract!Init
<1>2. ASSUME IInv, [Next]_vars PROVE [Abstract!Next]_<<served, outcome>>
  <2>1. ASSUME NEW r \in Reads, NEW page \in Page, ServePage(r, page)
        PROVE  Abstract!Serve(r, page.values) /\ page.values \in PageSet
    BY <1>2, <2>1 DEF IInv, Accounted, ServePage, Page, Abstract!Serve
  <2>2. ASSUME NEW r \in Reads, Complete(r)
        PROVE  Abstract!Deliver(r) \/ Abstract!Fail(r)
    <3>1. FlattenSeq(payloads[r]) = <<>>
      BY <2>2 DEF Complete, FlattenSeq
    <3>2. result[r] = Failed \/ result[r] = FlattenSeq(served[r])
      <4>1. CASE result[r] # Failed
        <5>1. result[r] \in Seq(Values) /\ <<>> \o result[r] = FlattenSeq(served[r])
          BY <1>2, <2>2, <3>1, <4>1 DEF IInv, Accounted, Complete
        <5>2. <<>> \o result[r] = result[r]
          BY <5>1, ConcatEmptySeq
        <5> QED
          BY <5>1, <5>2
      <4> QED
        BY <4>1
    <3>3. Abstract!FlattenSeq(served[r]) = FlattenSeq(served[r])
      BY DEF FlattenSeq, Abstract!FlattenSeq
    <3> QED
      BY <1>2, <2>2, <3>2, <3>3 DEF IInv, Accounted, Complete, Abstract!Deliver, Abstract!Fail
  <2>3. ASSUME NEW r \in Reads,
               Start(r) \/ Throw(r) \/ ReturnLast(r) \/ FollowLink(r) \/ Resume(r)
        PROVE  UNCHANGED <<served, outcome>>
    BY <2>3 DEF Start, Throw, ReturnLast, FollowLink, Resume, Return
  <2>4. ASSUME NEW r \in Reads, NEW why \in {"empty", "bad"}, RefusePage(r, why)
        PROVE  UNCHANGED <<served, outcome>>
    BY <2>4 DEF RefusePage
  <2>5. CASE UNCHANGED vars
    BY <2>5 DEF vars
  <2> QED
    BY <1>2, <2>1, <2>2, <2>3, <2>4, <2>5 DEF Next, Step, Network, Finished, Abstract!Next
<1> QED
  BY <1>1, <1>2, Invariance, PTL DEF Spec, ImplementsPagedRead, Abstract!Spec

-----------------------------------------------------------------------------
(* Paths *)

\* A path is a sequence of steps.
IsPath(p) == Len(p) \in Nat /\ p = [i \in 1 .. Len(p) |-> p[i]]

\* A path is a sequence.
LEMMA PathIsSequence ==
    ASSUME NEW p, IsPath(p), NEW x
    PROVE  \E S : p \in Seq(S) /\ x \in S
<1> DEFINE S == {p[i] : i \in 1 .. Len(p)} \cup {x}
<1>1. p \in [1 .. Len(p) -> S]
  BY DEF IsPath
<1>2. p \in Seq(S)
  BY <1>1 DEF IsPath
<1> QED
  BY <1>2

\* Every sequence of steps is a path.
LEMMA SequenceIsPath ==
    ASSUME NEW S, NEW p \in Seq(S)
    PROVE  IsPath(p)
<1>1. Len(p) \in Nat /\ p \in [1 .. Len(p) -> S]
  OBVIOUS
<1> QED
  BY <1>1 DEF IsPath

\* The first n steps of a path.
LEMMA Beginning ==
    ASSUME NEW S, NEW p \in Seq(S), NEW n \in 0 .. Len(p)
    PROVE  /\ SubSeq(p, 1, n) \in Seq(S) /\ Len(SubSeq(p, 1, n)) = n
           /\ \A i \in 1 .. n : SubSeq(p, 1, n)[i] = p[i]
<1>1. SubSeq(p, 1, n) \in Seq(S)
  OBVIOUS
<1>2. Len(SubSeq(p, 1, n)) = n
  OBVIOUS
<1>3. ASSUME NEW i \in 1 .. n PROVE SubSeq(p, 1, n)[i] = p[i]
  OBVIOUS
<1> QED
  BY <1>1, <1>2, <1>3

\* A step more makes another path.
LEMMA StepDown ==
    ASSUME NEW p, IsPath(p), NEW x
    PROVE  /\ IsPath(Append(p, x)) /\ Append(p, x) # <<>> /\ Len(Append(p, x)) = Len(p) + 1
           /\ Front(Append(p, x)) = p /\ Last(Append(p, x)) = x
<1>1. PICK S : p \in Seq(S) /\ x \in S
  BY PathIsSequence
<1>2. /\ Append(p, x) \in Seq(S) /\ Len(Append(p, x)) = Len(p) + 1
      /\ \A i \in 1 .. Len(p) : Append(p, x)[i] = p[i]
      /\ Append(p, x)[Len(p) + 1] = x /\ Len(p) \in Nat
  BY <1>1
<1>3. IsPath(Append(p, x)) /\ Append(p, x) # <<>>
  <2>1. IsPath(Append(p, x))
    BY <1>2, SequenceIsPath
  <2>2. ASSUME Append(p, x) = <<>> PROVE FALSE
    <3>1. Len(Append(p, x)) = 0
      BY <2>2
    <3> QED
      BY <1>2, <3>1
  <2> QED
    BY <2>1, <2>2
<1>4. Front(Append(p, x)) = p
  <2>1. Front(Append(p, x)) = SubSeq(Append(p, x), 1, Len(p)) /\ Len(p) \in 0 .. Len(Append(p, x))
    BY <1>2 DEF Front
  <2>2. Front(Append(p, x)) \in Seq(S) /\ Len(Front(Append(p, x))) = Len(p)
        /\ \A i \in 1 .. Len(p) : Front(Append(p, x))[i] = Append(p, x)[i]
    BY <1>2, <2>1, Beginning
  <2> QED
    BY <1>1, <1>2, <2>2
<1> QED
  BY <1>2, <1>3, <1>4 DEF Last

\* A path that is not empty has a last step.
LEMMA LastStep ==
    ASSUME NEW p, IsPath(p), p # <<>>
    PROVE  /\ IsPath(Front(p)) /\ Len(Front(p)) = Len(p) - 1 /\ Len(p) > 0
           /\ p = Append(Front(p), Last(p))
           /\ \A i \in 1 .. Len(Front(p)) : Front(p)[i] = p[i]
<1>1. PICK S : p \in Seq(S) /\ 0 \in S
  BY PathIsSequence
<1>2. Len(p) \in Nat /\ Len(p) > 0 /\ Last(p) \in S
  BY <1>1 DEF Last
<1>3. Front(p) \in Seq(S) /\ Len(Front(p)) = Len(p) - 1
      /\ \A i \in 1 .. Len(p) - 1 : Front(p)[i] = p[i]
  BY <1>1, <1>2, Beginning, Len(p) - 1 \in 0 .. Len(p) DEF Front
<1>4. p = Append(Front(p), Last(p))
  <2>1. Append(Front(p), Last(p)) \in Seq(S) /\ Len(Append(Front(p), Last(p))) = Len(p)
    BY <1>2, <1>3
  <2>2. \A i \in 1 .. Len(p) : Append(Front(p), Last(p))[i] = p[i]
    BY <1>2, <1>3 DEF Last
  <2> QED
    BY <1>1, <2>1, <2>2
<1>5. IsPath(Front(p))
  BY <1>3, SequenceIsPath
<1> QED
  BY <1>2, <1>3, <1>4, <1>5

\* The root is the path of no steps; one step below it is a member.
LEMMA Root == IsPath(<<>>) /\ Len(<<>>) = 0 /\ Prefixes(<<>>) = {<<>>}
              /\ \A n : IsPath(<<n>>) /\ <<n>> # <<>> /\ Front(<<n>>) = <<>> /\ Len(<<n>>) = 1 /\ <<n>>[1] = n
                        /\ Last(<<n>>) = n /\ <<n>> = Append(<<>>, n)
<1>1. <<>> \in Seq({}) /\ Len(<<>>) = 0
  OBVIOUS
<1>a. IsPath(<<>>)
  BY <1>1, SequenceIsPath
<1>2. Prefixes(<<>>) = {<<>>}
  <2>1. Len(<<>>) = 0 /\ 0 .. 0 = {0}
    OBVIOUS
  <2>2. SubSeq(<<>>, 1, 0) = <<>>
    BY SubSeqEmpty
  <2>3. Prefixes(<<>>) = {SubSeq(<<>>, 1, l) : l \in {0}}
    BY <2>1 DEF Prefixes
  <2> QED
    BY <2>2, <2>3
<1>3. ASSUME NEW n PROVE <<n>> = Append(<<>>, n) /\ <<n>>[1] = n
  BY DEF IsPath
<1> QED
  BY <1>1, <1>a, <1>2, <1>3, StepDown

\* The prefixes of a path are those of its front, and itself.
LEMMA PrefixesOfStep ==
    ASSUME NEW p, IsPath(p), p # <<>>
    PROVE  Prefixes(p) = Prefixes(Front(p)) \cup {p}
<1>1. PICK S : p \in Seq(S) /\ 0 \in S
  BY PathIsSequence
<1>2. Len(p) \in Nat /\ Len(p) > 0
  BY <1>1
<1>3. Front(p) \in Seq(S) /\ Len(Front(p)) = Len(p) - 1
  BY <1>1, <1>2, Beginning, Len(p) - 1 \in 0 .. Len(p) DEF Front
<1>4. \A i \in 0 .. Len(p) - 1 : SubSeq(Front(p), 1, i) = SubSeq(p, 1, i)
  <2> SUFFICES ASSUME NEW i \in 0 .. Len(p) - 1 PROVE SubSeq(Front(p), 1, i) = SubSeq(p, 1, i)
    OBVIOUS
  <2>1. i \in 0 .. Len(p) /\ i \in 0 .. Len(Front(p)) /\ Len(p) - 1 \in 0 .. Len(p)
    BY <1>2, <1>3
  <2>2. \A j \in 1 .. Len(p) - 1 : Front(p)[j] = p[j]
    BY <1>1, <2>1, Beginning DEF Front
  <2>3. SubSeq(p, 1, i) \in Seq(S) /\ Len(SubSeq(p, 1, i)) = i /\ \A j \in 1 .. i : SubSeq(p, 1, i)[j] = p[j]
    BY <1>1, <2>1, Beginning
  <2>4. SubSeq(Front(p), 1, i) \in Seq(S) /\ Len(SubSeq(Front(p), 1, i)) = i
        /\ \A j \in 1 .. i : SubSeq(Front(p), 1, i)[j] = Front(p)[j]
    BY <1>3, <2>1, Beginning
  <2> QED
    BY <1>2, <2>2, <2>3, <2>4, SeqEqual
<1>5. SubSeq(p, 1, Len(p)) = p
  BY <1>1, SubSeqFull
<1>6. 0 .. Len(p) = (0 .. Len(p) - 1) \cup {Len(p)}
  BY <1>2
<1> QED
  BY <1>3, <1>4, <1>5, <1>6 DEF Prefixes

\* A path is one of its own prefixes; the shortest is empty.
LEMMA OwnPrefix ==
    ASSUME NEW p, IsPath(p)
    PROVE  p \in Prefixes(p) /\ <<>> \in Prefixes(p)
<1>1. PICK S : p \in Seq(S) /\ 0 \in S
  BY PathIsSequence
<1>2. Len(p) \in Nat /\ SubSeq(p, 1, Len(p)) = p /\ SubSeq(p, 1, 0) = <<>>
  BY <1>1, SubSeqFull, SubSeqEmpty
<1>3. Len(p) \in 0 .. Len(p) /\ 0 \in 0 .. Len(p)
  BY <1>2
<1> QED
  BY <1>2, <1>3 DEF Prefixes

\* A set of paths with all that they lead through.
Closed(D) == \A p \in D : IsPath(p) /\ (p # <<>> => Front(p) \in D)

\* A tree has, with every path, the paths that lead to it.
LEMMA TreesAreClosed == ASSUME NEW T, IsTree(T) PROVE Closed(DOMAIN T) /\ <<>> \in DOMAIN T
BY DEF IsTree, Closed, IsPath

\* Induction over paths: what does not hold of all of them fails first at one
\* that is empty or whose front it holds of.
LEMMA Shortest ==
    ASSUME NEW D, Closed(D), NEW Bad, Bad \subseteq D, Bad # {}
    PROVE  \E p \in Bad : IsPath(p) /\ (p # <<>> => Front(p) \in D \ Bad)
<1> DEFINE lengths == {Len(p) : p \in Bad}
<1>1. lengths \in SUBSET Nat /\ lengths # {}
  BY DEF Closed, IsPath
<1>2. PICK n \in lengths : \A k \in lengths : n <= k
  BY <1>1, Least
<1>3. PICK p \in Bad : Len(p) = n
  BY <1>2
<1>4. IsPath(p) /\ (p # <<>> => Front(p) \in D)
  BY DEF Closed
<1>5. ASSUME p # <<>>, Front(p) \in Bad PROVE FALSE
  <2>1. Len(Front(p)) = Len(p) - 1 /\ Len(p) \in Nat
    BY <1>4, <1>5, LastStep DEF IsPath
  <2>2. n <= Len(Front(p))
    BY <1>2, <1>5
  <2> QED
    BY <1>3, <2>1, <2>2
<1> QED
  BY <1>4, <1>5

-----------------------------------------------------------------------------
(* The kinds of a tree *)

\* K gives the paths in D the kinds they have in T.
Walk(K, T, D) ==
    K = [p \in D |-> IF p = <<>> THEN ComplexOf(Entity) ELSE Inner(K[Front(p)], T, Front(p), Last(p))]

\* The paths of a tree of at most n steps.
Upto(T, n) == {p \in DOMAIN T : Len(p) <= n}

\* They too have the paths that lead to them.
LEMMA UptoClosed ==
    ASSUME NEW T, IsTree(T), NEW n \in Nat
    PROVE  Closed(Upto(T, n))
<1> SUFFICES ASSUME NEW p \in Upto(T, n) PROVE IsPath(p) /\ (p # <<>> => Front(p) \in Upto(T, n))
  BY DEF Closed
<1>1. IsPath(p) /\ (p # <<>> => Front(p) \in DOMAIN T) /\ Len(p) \in Nat /\ Len(p) <= n
  BY TreesAreClosed DEF Closed, Upto, IsPath
<1>2. p # <<>> => Len(Front(p)) = Len(p) - 1
  BY <1>1, LastStep
<1> QED
  BY <1>1, <1>2 DEF Upto

\* What a walk says of a path, from what it says of the path above it.
LEMMA WalkUnfolds ==
    ASSUME NEW K, NEW T, NEW D, Walk(K, T, D), NEW p \in D
    PROVE  K[p] = IF p = <<>> THEN ComplexOf(Entity) ELSE Inner(K[Front(p)], T, Front(p), Last(p))
<1> HIDE DEF ComplexOf, Inner
<1> QED
BY DEF Walk

\* Kinds are the same as far as two walks go.
LEMMA WalksAgree ==
    ASSUME NEW T, NEW D, Closed(D), NEW E, D \subseteq E,
           NEW K, Walk(K, T, D), NEW L, Walk(L, T, E), NEW p \in D
    PROVE  K[p] = L[p]
<1> DEFINE Bad == {q \in D : K[q] # L[q]}
<1> SUFFICES ASSUME Bad # {} PROVE FALSE
  OBVIOUS
<1>1. PICK q \in Bad : q # <<>> => Front(q) \in D \ Bad
  BY Shortest
<1>2. K[q] = IF q = <<>> THEN ComplexOf(Entity) ELSE Inner(K[Front(q)], T, Front(q), Last(q))
  BY WalkUnfolds
<1>3. L[q] = IF q = <<>> THEN ComplexOf(Entity) ELSE Inner(L[Front(q)], T, Front(q), Last(q))
  BY WalkUnfolds
<1>4. q # <<>> => K[Front(q)] = L[Front(q)]
  BY <1>1
<1> QED
  BY <1>2, <1>3, <1>4

\* There is a walk to any depth of a tree.
LEMMA WalksUpto ==
    ASSUME NEW T, IsTree(T), NEW n \in Nat
    PROVE  \E K : Walk(K, T, Upto(T, n))
<1> DEFINE Bad == {k \in Nat : ~ \E K : Walk(K, T, Upto(T, k))}
<1> SUFFICES ASSUME Bad # {} PROVE FALSE
  OBVIOUS
<1>1. PICK k \in Bad : \A j \in Bad : k <= j
  BY Least
<1>2. k # 0
  <2> DEFINE K == [p \in Upto(T, 0) |-> ComplexOf(Entity)]
  <2>1. \A p \in Upto(T, 0) : p = <<>>
    <3> SUFFICES ASSUME NEW p \in Upto(T, 0), p # <<>> PROVE FALSE
      OBVIOUS
    <3>1. IsPath(p) /\ Len(p) <= 0
      BY UptoClosed DEF Closed, Upto
    <3> QED
      BY <3>1, LastStep DEF IsPath
  <2>2. Walk(K, T, Upto(T, 0))
    BY <2>1 DEF Walk
  <2> QED
    BY <2>2
<1>3. k - 1 \in Nat /\ k - 1 \notin Bad
  BY <1>1, <1>2
<1>4. PICK g : Walk(g, T, Upto(T, k - 1))
  BY <1>3
<1> DEFINE K == [p \in Upto(T, k) |-> IF p = <<>> THEN ComplexOf(Entity) ELSE Inner(g[Front(p)], T, Front(p), Last(p))]
<1>5. ASSUME NEW p \in Upto(T, k), p # <<>> PROVE Front(p) \in Upto(T, k - 1) /\ K[Front(p)] = g[Front(p)]
  <2>1. Front(p) \in Upto(T, k) /\ IsPath(p) /\ Len(p) <= k /\ Len(p) \in Nat
    BY <1>5, UptoClosed DEF Closed, Upto, IsPath
  <2>2. Front(p) \in Upto(T, k - 1)
    BY <1>5, <2>1, LastStep DEF Upto
  <2>3. g[Front(p)] = IF Front(p) = <<>> THEN ComplexOf(Entity)
                      ELSE Inner(g[Front(Front(p))], T, Front(Front(p)), Last(Front(p)))
    BY <1>4, <2>2, WalkUnfolds
  <2> QED
    BY <2>1, <2>2, <2>3
<1>6. K = [p \in Upto(T, k) |-> IF p = <<>> THEN ComplexOf(Entity) ELSE Inner(K[Front(p)], T, Front(p), Last(p))]
  <2> DEFINE new(p) == IF p = <<>> THEN ComplexOf(Entity) ELSE Inner(g[Front(p)], T, Front(p), Last(p))
  <2> DEFINE again(p) == IF p = <<>> THEN ComplexOf(Entity) ELSE Inner(K[Front(p)], T, Front(p), Last(p))
  <2>1. \A p \in Upto(T, k) : new(p) = again(p)
    BY <1>5
  <2>2. K = [p \in Upto(T, k) |-> new(p)]
    OBVIOUS
  <2> HIDE DEF K, new, again
  <2>3. K = [p \in Upto(T, k) |-> again(p)]
    BY <2>1, <2>2
  <2> QED
    BY <2>3 DEF again
<1>7. Walk(K, T, Upto(T, k))
  <2> HIDE DEF K
  <2> QED
    BY <1>6 DEF Walk
<1> QED
  BY <1>7

\* There is a walk of the whole tree.
LEMMA WalkExists ==
    ASSUME NEW T, IsTree(T)
    PROVE  \E K : Walk(K, T, DOMAIN T)
<1> DEFINE G(n) == CHOOSE K : Walk(K, T, Upto(T, n))
<1>1. \A n \in Nat : Walk(G(n), T, Upto(T, n))
  BY WalksUpto
<1> DEFINE K == [p \in DOMAIN T |-> G(Len(p))[p]]
<1> DEFINE again(p) == IF p = <<>> THEN ComplexOf(Entity) ELSE Inner(K[Front(p)], T, Front(p), Last(p))
<1>2. ASSUME NEW p \in DOMAIN T PROVE G(Len(p))[p] = again(p)
  <2>1. IsPath(p) /\ Len(p) \in Nat /\ (p # <<>> => Front(p) \in DOMAIN T /\ Len(Front(p)) = Len(p) - 1 /\ Len(p) - 1 \in Nat)
    BY TreesAreClosed, LastStep DEF Closed, IsPath
  <2>2. p \in Upto(T, Len(p)) /\ (p # <<>> => Front(p) \in Upto(T, Len(p) - 1) /\ Upto(T, Len(p) - 1) \subseteq Upto(T, Len(p)))
    <3>1. p \in Upto(T, Len(p))
      BY <2>1 DEF Upto
    <3>2. p # <<>> => Front(p) \in Upto(T, Len(p) - 1)
      BY <2>1 DEF Upto
    <3>3. p # <<>> => Upto(T, Len(p) - 1) \subseteq Upto(T, Len(p))
      <4>1. \A q \in DOMAIN T : Len(q) \in Nat
        BY TreesAreClosed DEF Closed, IsPath
      <4> QED
        BY <4>1, <2>1 DEF Upto
    <3> QED
      BY <3>1, <3>2, <3>3
  <2> HIDE DEF G
  <2>3. G(Len(p))[p] = IF p = <<>> THEN ComplexOf(Entity) ELSE Inner(G(Len(p))[Front(p)], T, Front(p), Last(p))
    BY <1>1, <2>1, <2>2, WalkUnfolds
  <2>4. p # <<>> => G(Len(p) - 1)[Front(p)] = G(Len(p))[Front(p)]
    BY <1>1, <2>1, <2>2, UptoClosed, WalksAgree
  <2>5. p # <<>> => K[Front(p)] = G(Len(p) - 1)[Front(p)]
    BY <2>1
  <2> QED
    BY <2>3, <2>4, <2>5
<1>3. K = [p \in DOMAIN T |-> again(p)]
  <2> DEFINE own(p) == G(Len(p))[p]
  <2>1. \A p \in DOMAIN T : own(p) = again(p)
    BY <1>2
  <2>2. K = [p \in DOMAIN T |-> own(p)]
    OBVIOUS
  <2> HIDE DEF own, again, K
  <2> QED
    BY <2>1, <2>2
<1>4. Walk(K, T, DOMAIN T)
  <2> HIDE DEF K
  <2> QED
    BY <1>3 DEF Walk
<1> QED
  BY <1>4

\* The kinds of a tree unfold from its root.
LEMMA KindOf ==
    ASSUME NEW T, IsTree(T), NEW p \in DOMAIN T
    PROVE  Kinds(T)[p] = IF p = <<>> THEN ComplexOf(Entity)
                         ELSE Inner(Kinds(T)[Front(p)], T, Front(p), Last(p))
<1> DEFINE K == CHOOSE K : Walk(K, T, DOMAIN T)
<1>1. Walk(K, T, DOMAIN T)
  BY WalkExists
<1>2. Kinds(T) = K
  BY DEF Kinds, Walk
<1> HIDE DEF K
<1> QED
  BY <1>1, <1>2, WalkUnfolds

\* The root of a tree is a value of the type of the entity.
LEMMA KindOfRoot ==
    ASSUME NEW T, IsTree(T)
    PROVE  <<>> \in DOMAIN T /\ Kinds(T)[<<>>] = ComplexOf(Entity) /\ Kinds(T)[<<>>].kind = "complex"
           /\ Kinds(T)[<<>>].type = Entity
<1>1. <<>> \in DOMAIN T
  BY TreesAreClosed
<1>2. Kinds(T)[<<>>] = ComplexOf(Entity)
  BY <1>1, KindOf
<1> QED
  BY <1>1, <1>2 DEF ComplexOf

\* The kinds of what is in a collection; and all kinds.
IsSimple(k) ==
    k.kind \in {"string", "enum", "number", "unknown", "complex"} /\ (k.kind = "complex" => k.type \in DOMAIN Properties)

\* What a path can hold.
IsKind(k) ==
    \/ IsSimple(k)
    \/ k.kind = "collection" /\ IsSimple(k.of)
    \/ k.kind \in {"annotation", "unread"}

\* The kinds of the properties are such kinds.
LEMMA KindOfProperty ==
    ASSUME NEW type \in DOMAIN Properties, NEW n \in DOMAIN Properties[type]
    PROVE  /\ n # "@type"
           /\ \/ IsSimple(Properties[type][n])
              \/ Properties[type][n].kind = "collection" /\ IsSimple(Properties[type][n].of)
<1> DEFINE simple == {Scalar(kind) : kind \in {"string", "enum", "number", "unknown"}}
                     \cup {ComplexOf(t) : t \in DOMAIN Properties}
<1>1. n # "@type" /\ Properties[type][n] \in simple \cup {CollectionOf(k) : k \in simple}
  BY PropertiesAssumption DEF PropertyKinds
<1>2. \A k \in simple : IsSimple(k)
  BY DEF IsSimple, Scalar, ComplexOf
<1>3. \A k \in {CollectionOf(x) : x \in simple} : k.kind = "collection" /\ k.of \in simple
  BY DEF CollectionOf
<1> HIDE DEF simple
<1> QED
  BY <1>1, <1>2, <1>3

\* The type of an object is one of the types of the model.
LEMMA ActualTypeExists ==
    ASSUME NEW type \in DOMAIN Properties, NEW T, NEW p
    PROVE  ActualType(type, T, p) \in DOMAIN Properties
BY DEF ActualType

\* What is inside a value has a kind.
LEMMA InnerIsKind ==
    ASSUME NEW k, IsKind(k), NEW T, NEW p, NEW s
    PROVE  IsKind(Inner(k, T, p, s))
<1>1. IsKind(Scalar("annotation")) /\ IsKind(Scalar("unread"))
  BY DEF IsKind, Scalar
<1>2. CASE k.kind = "complex" /\ T[p].node = "object"
  <2>1. ActualType(k.type, T, p) \in DOMAIN Properties
    BY <1>2, ActualTypeExists DEF IsKind, IsSimple
  <2>2. \A n \in DOMAIN Properties[ActualType(k.type, T, p)] : IsKind(Properties[ActualType(k.type, T, p)][n])
    BY <2>1, KindOfProperty DEF IsKind
  <2> QED
    BY <1>1, <1>2, <2>2 DEF Inner
<1>3. CASE k.kind = "collection" /\ T[p].node = "array"
  BY <1>3 DEF Inner, IsKind, IsSimple
<1>4. CASE ~(k.kind = "complex" /\ T[p].node = "object") /\ ~(k.kind = "collection" /\ T[p].node = "array")
  BY <1>1, <1>4 DEF Inner
<1> QED
  BY <1>2, <1>3, <1>4

\* All that is in a tree has a kind.
LEMMA KindsAreKinds ==
    ASSUME NEW T, IsTree(T), NEW p \in DOMAIN T
    PROVE  IsKind(Kinds(T)[p])
<1> DEFINE Bad == {q \in DOMAIN T : ~IsKind(Kinds(T)[q])}
<1> SUFFICES ASSUME Bad # {} PROVE FALSE
  OBVIOUS
<1>1. PICK q \in Bad : q # <<>> => Front(q) \in DOMAIN T \ Bad
  BY Shortest, TreesAreClosed
<1>2. q # <<>>
  <2>1. IsKind(ComplexOf(Entity))
    BY PropertiesAssumption DEF IsKind, IsSimple, ComplexOf
  <2> QED
    BY <2>1, KindOf
<1>3. Kinds(T)[q] = Inner(Kinds(T)[Front(q)], T, Front(q), Last(q))
  BY <1>2, KindOf
<1>4. IsKind(Kinds(T)[Front(q)])
  BY <1>1, <1>2
<1> QED
  BY <1>3, <1>4, InnerIsKind

\* What is known is a member of an object or an item of an array, of the kind
\* that its place says.
LEMMA Known ==
    ASSUME NEW T, IsTree(T), NEW p \in DOMAIN T, p # <<>>, Kinds(T)[p].kind # "unread"
    PROVE  /\ Front(p) \in DOMAIN T /\ IsPath(p) /\ Kinds(T)[Front(p)].kind # "unread"
           /\ LET k == Kinds(T)[Front(p)]
                  type == ActualType(k.type, T, Front(p))
              IN \/ /\ k.kind = "complex" /\ T[Front(p)].node = "object" /\ ~IsItem(T, p)
                    /\ type \in DOMAIN Properties /\ k.type \in DOMAIN Properties
                    /\ \/ Last(p) = "@type" /\ Kinds(T)[p].kind = "annotation"
                       \/ Last(p) # "@type" /\ Last(p) \in DOMAIN Properties[type] /\ Kinds(T)[p] = Properties[type][Last(p)]
                          /\ Kinds(T)[p].kind # "annotation"
                 \/ k.kind = "collection" /\ T[Front(p)].node = "array" /\ IsItem(T, p)
                    /\ Kinds(T)[p] = k.of /\ IsSimple(k.of)
<1> DEFINE k == Kinds(T)[Front(p)]
           type == ActualType(k.type, T, Front(p))
<1>1. Front(p) \in DOMAIN T /\ IsPath(p)
  BY TreesAreClosed DEF Closed
<1>2. Kinds(T)[p] = Inner(k, T, Front(p), Last(p))
  BY KindOf
<1>3. IsKind(k)
  BY <1>1, KindsAreKinds
<1> HIDE DEF k
<1>4. CASE k.kind = "complex" /\ T[Front(p)].node = "object"
  <2>1. type \in DOMAIN Properties /\ k.type \in DOMAIN Properties
    BY <1>3, <1>4, ActualTypeExists DEF IsKind, IsSimple
  <2>2. ~IsItem(T, p)
    BY <1>4 DEF IsItem
  <2>3. \/ Last(p) = "@type" /\ Kinds(T)[p] = Scalar("annotation")
        \/ Last(p) # "@type" /\ Last(p) \in DOMAIN Properties[type] /\ Kinds(T)[p] = Properties[type][Last(p)]
        \/ Kinds(T)[p] = Scalar("unread")
    BY <1>2, <1>4 DEF Inner
  <2>4. Last(p) \in DOMAIN Properties[type] => Properties[type][Last(p)].kind # "annotation"
    BY <2>1, KindOfProperty DEF IsSimple
  <2> QED
    BY <1>1, <1>4, <2>1, <2>2, <2>3, <2>4 DEF Scalar, k
<1>5. CASE k.kind = "collection" /\ T[Front(p)].node = "array"
  <2>1. Kinds(T)[p] = k.of
    BY <1>2, <1>5 DEF Inner
  <2>2. IsSimple(k.of)
    BY <1>3, <1>5 DEF IsKind, IsSimple
  <2> QED
    BY <1>1, <1>5, <2>1, <2>2 DEF IsItem, k
<1>6. CASE ~(k.kind = "complex" /\ T[Front(p)].node = "object") /\ ~(k.kind = "collection" /\ T[Front(p)].node = "array")
  BY <1>2, <1>6 DEF Inner, Scalar
<1> QED
  BY <1>4, <1>5, <1>6

\* Two trees that lead from q to the same kinds.
Alike(T, U, q) ==
    /\ T[q].node = U[q].node
    /\ T[q].node = "object" => \A type : ActualType(type, T, q) = ActualType(type, U, q)

\* Objects that name the same type, or none, have the same type.
LEMMA TypesAlike ==
    ASSUME NEW T, NEW U, NEW q,
           Append(q, "@type") \in DOMAIN T <=> Append(q, "@type") \in DOMAIN U,
           Append(q, "@type") \in DOMAIN T => T[Append(q, "@type")].type = U[Append(q, "@type")].type
    PROVE  \A type : ActualType(type, T, q) = ActualType(type, U, q)
BY DEF ActualType

\* Values that are alike have the same inside.
LEMMA InnerAlike ==
    ASSUME NEW T, NEW U, NEW q, Alike(T, U, q), NEW k, NEW s
    PROVE  Inner(k, T, q, s) = Inner(k, U, q, s)
BY DEF Inner, Alike

\* Kinds are the same where each step to them is.
LEMMA KindsFollow ==
    ASSUME NEW T, IsTree(T), NEW U, IsTree(U), NEW D, Closed(D), D \subseteq DOMAIN T, D \subseteq DOMAIN U,
           \A p \in D : p # <<>> =>
               Inner(Kinds(T)[Front(p)], T, Front(p), Last(p)) = Inner(Kinds(T)[Front(p)], U, Front(p), Last(p)),
           NEW p \in D
    PROVE  Kinds(T)[p] = Kinds(U)[p]
<1> DEFINE Bad == {q \in D : Kinds(T)[q] # Kinds(U)[q]}
<1> SUFFICES ASSUME Bad # {} PROVE FALSE
  OBVIOUS
<1>1. PICK q \in Bad : q # <<>> => Front(q) \in D \ Bad
  BY Shortest
<1>2. q # <<>>
  BY KindOf
<1>3. /\ Kinds(T)[q] = Inner(Kinds(T)[Front(q)], T, Front(q), Last(q))
      /\ Kinds(U)[q] = Inner(Kinds(U)[Front(q)], U, Front(q), Last(q))
  BY <1>2, KindOf
<1>4. Kinds(T)[Front(q)] = Kinds(U)[Front(q)]
  BY <1>1, <1>2
<1>5. Inner(Kinds(T)[Front(q)], T, Front(q), Last(q)) = Inner(Kinds(T)[Front(q)], U, Front(q), Last(q))
  BY <1>2
<1> QED
  BY <1>3, <1>4, <1>5

\* Trees that are alike on the way to a path give it the same kind.
LEMMA SameKinds ==
    ASSUME NEW T, IsTree(T), NEW U, IsTree(U), NEW D, Closed(D), D \subseteq DOMAIN T, D \subseteq DOMAIN U,
           \A p \in D : p # <<>> => Alike(T, U, Front(p)), NEW p \in D
    PROVE  Kinds(T)[p] = Kinds(U)[p]
<1>1. \A q \in D : q # <<>> =>
          Inner(Kinds(T)[Front(q)], T, Front(q), Last(q)) = Inner(Kinds(T)[Front(q)], U, Front(q), Last(q))
  BY InnerAlike
<1> QED
  BY <1>1, KindsFollow

-----------------------------------------------------------------------------
(* What is read *)

\* The domain of what is read, and what is read at a path.
LEMMA ReadAt ==
    ASSUME NEW T, NEW U, U = ReadEntity(T)
    PROVE  /\ DOMAIN U = {p \in DOMAIN T : Kinds(T)[p].kind # "unread"}
           /\ \A p \in DOMAIN U :
                 U[p] = IF IsItem(T, p) THEN ReadElement(Kinds(T)[p], T[p]) ELSE ReadMember(Kinds(T)[p], T[p])
BY DEF ReadEntity

\* An object is read as one, of the kind it has.
LEMMA ObjectIsRead ==
    ASSUME NEW k, NEW j, j.node = "object", k.kind # "annotation"
    PROVE  ReadMember(k, j) = Complex(k.kind)
BY DEF ReadMember

\* What is above a path that is read is read too, and is what it was.
LEMMA ParentIsRead ==
    ASSUME NEW T, IsTree(T), NEW U, U = ReadEntity(T), NEW p \in DOMAIN U, p # <<>>
    PROVE  /\ Front(p) \in DOMAIN U /\ U[Front(p)].node = T[Front(p)].node
           /\ IsItem(U, p) <=> IsItem(T, p)
<1> DEFINE q == Front(p)
           k == Kinds(T)[q]
<1>1. p \in DOMAIN T /\ Kinds(T)[p].kind # "unread"
  BY ReadAt
<1>2. q \in DOMAIN T /\ k.kind # "unread"
  BY <1>1, Known
<1>3. q \in DOMAIN U
  BY <1>2, ReadAt
<1>4. U[q] = IF IsItem(T, q) THEN ReadElement(k, T[q]) ELSE ReadMember(k, T[q])
  BY <1>3, ReadAt
<1>5. ASSUME k.kind = "complex", T[q].node = "object" PROVE U[q].node = T[q].node
  <2> HIDE DEF k
  <2>1. U[q] = Complex("complex")
    BY <1>4, <1>5, ObjectIsRead DEF ReadElement
  <2> QED
    BY <1>5, <2>1 DEF Complex
<1>6. ASSUME k.kind = "collection", T[q].node = "array" PROVE U[q].node = T[q].node
  <2>1. ~IsItem(T, q)
    <3>1. q # <<>>
      BY <1>6, KindOfRoot
    <3>2. IsItem(T, q) => IsSimple(k)
      BY <1>2, <3>1, Known
    <3> QED
      BY <1>6, <3>2 DEF IsSimple
  <2> HIDE DEF k
  <2>2. U[q] = Collection
    BY <1>4, <1>6, <2>1 DEF ReadMember
  <2> QED
    BY <1>6, <2>2 DEF Collection
<1>7. U[q].node = T[q].node
  BY <1>1, <1>5, <1>6, Known
<1> QED
  BY <1>3, <1>7 DEF IsItem

\* What is read of a tree is a tree.
LEMMA ReadIsTree ==
    ASSUME NEW T, IsTree(T), NEW U, U = ReadEntity(T)
    PROVE  IsTree(U)
<1>1. <<>> \in DOMAIN U
  BY KindOfRoot, ReadAt
<1> SUFFICES ASSUME NEW p \in DOMAIN U
             PROVE  /\ Len(p) \in Nat /\ p = [i \in 1..Len(p) |-> p[i]]
                    /\ p # <<>> => Front(p) \in DOMAIN U /\ U[Front(p)].node \in {"object", "array"}
                    /\ IsItem(U, p) => Last(p) \in Nat \ {0} /\ \A i \in 1..Last(p) : Append(Front(p), i) \in DOMAIN U
  BY <1>1 DEF IsTree
<1>2. p \in DOMAIN T /\ Kinds(T)[p].kind # "unread" /\ IsPath(p)
  BY ReadAt, TreesAreClosed DEF Closed
<1>3. p # <<>> => Front(p) \in DOMAIN U /\ U[Front(p)].node \in {"object", "array"}
  BY <1>2, ParentIsRead DEF IsTree
<1>4. ASSUME IsItem(U, p) PROVE Last(p) \in Nat \ {0} /\ \A i \in 1..Last(p) : Append(Front(p), i) \in DOMAIN U
  <2>1. IsItem(T, p) /\ p # <<>>
    BY <1>4, ParentIsRead DEF IsItem
  <2>2. Last(p) \in Nat \ {0} /\ \A i \in 1..Last(p) : Append(Front(p), i) \in DOMAIN T
    BY <1>2, <2>1 DEF IsTree
  <2>3. ASSUME NEW i \in 1..Last(p) PROVE Append(Front(p), i) \in DOMAIN U
    <3> DEFINE o == Append(Front(p), i)
    <3>1. IsPath(Front(p)) /\ Front(p) \in DOMAIN T
      BY <1>2, <2>1, LastStep, Known
    <3>2. o \in DOMAIN T /\ o # <<>> /\ Front(o) = Front(p)
      BY <2>2, <2>3, <3>1, StepDown
    <3>3. Kinds(T)[p] = Inner(Kinds(T)[Front(p)], T, Front(p), Last(p))
          /\ Kinds(T)[o] = Inner(Kinds(T)[Front(p)], T, Front(p), Last(o))
      BY <1>2, <2>1, <3>2, KindOf
    <3>4. Kinds(T)[Front(p)].kind = "collection" /\ T[Front(p)].node = "array"
      BY <1>2, <2>1, Known
    <3>5. Kinds(T)[p] = Kinds(T)[o]
      BY <3>3, <3>4 DEF Inner
    <3> QED
      BY <1>2, <3>2, <3>5, ReadAt
  <2> QED
    BY <2>2, <2>3
<1> QED
  BY <1>2, <1>3, <1>4 DEF IsPath

\* The name of the type of an object is an annotation.
LEMMA AnnotationIsKnown ==
    ASSUME NEW T, IsTree(T), NEW q \in DOMAIN T, Kinds(T)[q].kind = "complex", T[q].node = "object",
           Append(q, "@type") \in DOMAIN T
    PROVE  /\ Kinds(T)[Append(q, "@type")].kind = "annotation" /\ ~IsItem(T, Append(q, "@type"))
           /\ Append(q, "@type") # <<>> /\ Front(Append(q, "@type")) = q
<1> DEFINE t == Append(q, "@type")
<1>1. IsPath(q)
  BY TreesAreClosed DEF Closed
<1>2. t # <<>> /\ Front(t) = q /\ Last(t) = "@type"
  BY <1>1, StepDown
<1>3. Kinds(T)[t] = Inner(Kinds(T)[q], T, q, "@type")
  BY <1>2, KindOf
<1>4. Kinds(T)[t] = Scalar("annotation")
  BY <1>3 DEF Inner
<1> QED
  BY <1>2, <1>4 DEF Scalar, IsItem

\* The name of a type, as it is read.
Name(type) == TypeName(type, TRUE)

\* It is read, as the name it is.
LEMMA AnnotationIsRead ==
    ASSUME NEW T, IsTree(T), NEW U, U = ReadEntity(T), NEW q \in DOMAIN T,
           Kinds(T)[q].kind = "complex", T[q].node = "object", Append(q, "@type") \in DOMAIN T
    PROVE  Append(q, "@type") \in DOMAIN U /\ U[Append(q, "@type")] = Name(T[Append(q, "@type")].type)
<1> DEFINE t == Append(q, "@type")
<1>0. \A p \in DOMAIN U :
         U[p] = IF IsItem(T, p) THEN ReadElement(Kinds(T)[p], T[p]) ELSE ReadMember(Kinds(T)[p], T[p])
  BY DEF ReadEntity
<1>1. Kinds(T)[t].kind = "annotation" /\ ~IsItem(T, t)
  BY AnnotationIsKnown
<1>2. t \in DOMAIN U
  BY <1>1, ReadAt
<1>3. U[t] = ReadMember(Kinds(T)[t], T[t])
  BY <1>0, <1>1, <1>2
<1>4. ReadMember(Kinds(T)[t], T[t]) = Name(T[t].type)
  BY <1>1 DEF ReadMember, Name
<1> QED
  BY <1>2, <1>3, <1>4

\* An object that is read keeps its type.
LEMMA TypeIsRead ==
    ASSUME NEW T, IsTree(T), NEW U, U = ReadEntity(T), NEW q \in DOMAIN T,
           Kinds(T)[q].kind = "complex", T[q].node = "object"
    PROVE  \A type : ActualType(type, T, q) = ActualType(type, U, q)
<1> DEFINE t == Append(q, "@type")
<1>1. t \in DOMAIN U => t \in DOMAIN T
  BY ReadAt
<1>2. CASE t \in DOMAIN T
  <2>1. t \in DOMAIN U /\ U[t] = Name(T[t].type)
    BY <1>2, AnnotationIsRead
  <2>2. Name(T[t].type).type = T[t].type
    BY DEF TypeName, Name
  <2> QED
    BY <1>2, <2>1, <2>2, TypesAlike
<1>3. CASE t \notin DOMAIN T
  <2>1. t \notin DOMAIN U
    BY <1>1, <1>3
  <2> QED
    BY <1>3, <2>1 DEF ActualType
<1> QED
  BY <1>2, <1>3

\* What is read has the kinds it had in JSON.
LEMMA ReadKinds ==
    ASSUME NEW T, IsTree(T), NEW U, U = ReadEntity(T), NEW p \in DOMAIN U
    PROVE  Kinds(U)[p] = Kinds(T)[p]
<1>1. IsTree(U) /\ Closed(DOMAIN U) /\ DOMAIN U \subseteq DOMAIN T
  BY ReadIsTree, TreesAreClosed, ReadAt
<1>2. ASSUME NEW o \in DOMAIN U, o # <<>> PROVE Alike(T, U, Front(o))
  <2> DEFINE q == Front(o)
  <2>1. q \in DOMAIN U /\ U[q].node = T[q].node /\ q \in DOMAIN T
    BY <1>1, <1>2, ParentIsRead
  <2>a. o \in DOMAIN T /\ Kinds(T)[o].kind # "unread"
    BY ReadAt
  <2>2. \/ Kinds(T)[q].kind = "complex" /\ T[q].node = "object"
        \/ Kinds(T)[q].kind = "collection" /\ T[q].node = "array"
    BY <1>2, <2>a, Known
  <2>3. CASE Kinds(T)[q].kind = "complex" /\ T[q].node = "object"
    <3>1. \A type : ActualType(type, T, q) = ActualType(type, U, q)
      BY <2>1, <2>3, TypeIsRead
    <3> QED
      BY <2>1, <3>1 DEF Alike
  <2>4. CASE Kinds(T)[q].kind = "collection" /\ T[q].node = "array"
    BY <2>1, <2>4 DEF Alike
  <2> QED
    BY <2>2, <2>3, <2>4
<1> QED
  BY <1>1, <1>2, SameKinds

\* The fields of a text.
LEMMA Texting ==
    ASSUME NEW n, NEW e
    PROVE  Text(n, e).text = n /\ Text(n, e).escapes = e
BY DEF Text

\* A plain text is a text, and has no escapes.
LEMMA PlainIsText == ASSUME NEW n PROVE IsText(Plain(n)) /\ Plain(n).text = n /\ Plain(n).escapes = 0
BY DEF IsText, Plain, Text

\* The fields of JSON and of what is held.
LEMMA NodesDiffer ==
    ASSUME NEW t
    PROVE  /\ JNull.node = "null" /\ JText(t).node = "text" /\ JNumber(t).node = "number"
           /\ JObject.node = "object" /\ JArray.node = "array" /\ Malformed.node = "malformed"
           /\ JText(t).content = t /\ JNumber(t).content = t
           /\ Null.node = "null" /\ Null.kind = "none"
           /\ Collection.node = "array" /\ Collection.kind = "collection"
           /\ Complex(t).node = "object" /\ Complex(t).kind = t
BY DEF JNull, JText, JNumber, JObject, JArray, Malformed, Null, Collection, Complex

\* The fields of a primitive value.
LEMMA PrimitiveFields ==
    ASSUME NEW k, NEW t
    PROVE  Primitive(k, t).node = "primitive" /\ Primitive(k, t).kind = k /\ Primitive(k, t).text = t
BY DEF Primitive

\* The fields of the name of a type.
LEMMA TypeFields ==
    ASSUME NEW t, NEW m
    PROVE  /\ TypeName(t, m).node = "type" /\ TypeName(t, m).kind = "annotation" /\ TypeName(t, m).type = t
           /\ TypeName(t, m).marked = m
           /\ JType(t, m).node = "type" /\ JType(t, m).type = t /\ JType(t, m).marked = m
BY DEF TypeName, JType

\* strip_string leaves a text.
LEMMA StrippedIsText ==
    ASSUME NEW j, IsJson(j), j.node \in {"null", "text", "number"}
    PROVE  IsText(Stripped(j))
<1>1. CASE j.node = "null"
  BY <1>1, PlainIsText DEF Stripped
<1>2. CASE j.node = "text" /\ j.content.text = Special
  <2>1. IsText(j.content)
    BY <1>2 DEF IsJson
  <2>2. Stripped(j) = Text(Special, j.content.escapes + 1)
    BY <1>2 DEF Stripped
  <2>3. j.content.escapes + 1 \in Nat
    BY <2>1 DEF IsText
  <2> QED
    BY <2>2, <2>3, Texting DEF IsText
<1>3. CASE j.node = "text" /\ j.content.text # Special
  BY <1>3 DEF Stripped, IsJson
<1>4. CASE j.node = "number"
  BY <1>4 DEF Stripped, IsJson
<1> QED
  BY <1>1, <1>2, <1>3, <1>4

\* A member that is read suits the kind it has.
LEMMA MemberFits ==
    ASSUME NEW k, IsKind(k), k.kind # "unread", NEW j, IsJson(j), Suits(k, j)
    PROVE  \/ SuitsHeld(k, ReadMember(k, j))
           \/ ReadMember(k, j) = Null /\ k.kind # "annotation" /\ j # JObject
<1> DEFINE v == ReadMember(k, j)
<1>1. CASE k.kind = "annotation"
  <2>1. v = Name(j.type)
    BY <1>1 DEF ReadMember, Name
  <2> QED
    BY <1>1, <2>1 DEF SuitsHeld, TypeName, Name
<1>2. CASE k.kind # "annotation" /\ j.node = "null"
  <2>1. v = Null
    BY <1>2 DEF ReadMember
  <2> QED
    BY <1>2, <2>1, NodesDiffer
<1>3. CASE k.kind # "annotation" /\ j.node = "array"
  <2>1. k.kind \in {"collection", "unknown"}
    BY <1>3, NodesDiffer DEF Suits, IsKind, IsSimple
  <2>2. k.kind = "collection" => v = Collection
    BY <1>3 DEF ReadMember
  <2>3. k.kind = "unknown" => v = Null
    BY <1>3 DEF ReadMember
  <2> QED
    BY <1>3, <2>1, <2>2, <2>3, NodesDiffer DEF SuitsHeld
<1>4. CASE k.kind # "annotation" /\ j.node = "object"
  <2>1. k.kind \in {"complex", "unknown"}
    BY <1>4, NodesDiffer DEF Suits, IsKind, IsSimple
  <2>2. v = Complex(k.kind)
    BY <1>4 DEF ReadMember
  <2> QED
    BY <1>4, <2>1, <2>2, NodesDiffer DEF SuitsHeld
<1>5. CASE k.kind # "annotation" /\ j.node \notin {"null", "array", "object"}
  <2>1. v = Primitive(k.kind, Stripped(j))
    BY <1>5 DEF ReadMember
  <2>2. k.kind \in {"string", "enum", "number", "unknown"}
    BY <1>5, NodesDiffer DEF Suits, IsKind, IsSimple
  <2>3. k.kind \in {"string", "enum", "number"} => j.node \in {"text", "number"}
    BY <1>5, NodesDiffer DEF Suits
  <2>4. k.kind \in {"string", "enum", "number"} => IsText(Stripped(j))
    BY <2>3, StrippedIsText
  <2>5. v.kind = k.kind /\ v.node = "primitive" /\ v.text = Stripped(j)
    BY <2>1, PrimitiveFields
  <2> HIDE DEF v
  <2>6. v = Primitive(k.kind, v.text) /\ (k.kind \in {"string", "enum", "number"} => IsText(v.text))
    BY <2>1, <2>4, <2>5
  <2>7. SuitsHeld(k, v)
    BY <2>2, <2>5, <2>6 DEF SuitsHeld
  <2> QED
    BY <2>7 DEF v
<1> QED
  BY <1>1, <1>2, <1>3, <1>4, <1>5

\* The reader makes of an element of a collection a value of its kind.
LEMMA ElementFits ==
    ASSUME NEW k, IsSimple(k), k.kind # "unknown", NEW j, IsJson(j), Suits(k, j)
    PROVE  SuitsHeld(k, ReadElement(k, j))
<1> DEFINE v == ReadElement(k, j)
<1>1. CASE k.kind = "complex"
  <2>1. v = Complex("complex")
    BY <1>1 DEF ReadElement
  <2> QED
    BY <1>1, <2>1 DEF SuitsHeld
<1>2. CASE k.kind # "complex"
  <2>1. v = Primitive(k.kind, Stripped(j))
    BY <1>2 DEF ReadElement
  <2>2. k.kind \in {"string", "enum", "number"}
    BY <1>2 DEF IsSimple
  <2>3. j.node \in {"null", "text", "number"}
    BY <2>2, NodesDiffer DEF Suits
  <2>4. IsText(Stripped(j))
    BY <2>3, StrippedIsText
  <2>5. v.kind = k.kind /\ v.node = "primitive" /\ v.text = Stripped(j)
    BY <2>1, PrimitiveFields
  <2> HIDE DEF v
  <2>6. v = Primitive(k.kind, v.text) /\ IsText(v.text)
    BY <2>1, <2>4, <2>5
  <2>7. SuitsHeld(k, v)
    BY <2>2, <2>5, <2>6 DEF SuitsHeld
  <2> QED
    BY <2>7 DEF v
<1> QED
  BY <1>1, <1>2

\* What is named below anything but an object is not read.
LEMMA NothingNamed ==
    ASSUME NEW T, IsTree(T), NEW q \in DOMAIN T, T[q].node # "object", Append(q, "@type") \in DOMAIN T
    PROVE  \/ Kinds(T)[Append(q, "@type")].kind = "unread"
           \/ T[q].node = "array" /\ Kinds(T)[q].kind = "collection"
<1>1. IsPath(q)
  BY TreesAreClosed DEF Closed
<1>2. Append(q, "@type") # <<>> /\ Front(Append(q, "@type")) = q
  BY <1>1, StepDown
<1>3. Kinds(T)[Append(q, "@type")] = Inner(Kinds(T)[q], T, q, Last(Append(q, "@type")))
  BY <1>2, KindOf
<1>4. CASE Kinds(T)[q].kind = "collection" /\ T[q].node = "array"
  BY <1>4
<1>5. CASE ~(Kinds(T)[q].kind = "collection" /\ T[q].node = "array")
  <2>1. Kinds(T)[Append(q, "@type")] = Scalar("unread")
    BY <1>3, <1>5 DEF Inner
  <2>2. Scalar("unread").kind = "unread"
    BY DEF Scalar
  <2> QED
    BY <2>1, <2>2
<1> QED
  BY <1>4, <1>5

\* What is read of a well-formed document is well-formed.
LEMMA ReadFits ==
    ASSUME NEW T, Conforms(T), T[<<>>] = JObject, ~CannotRead(T)
    PROVE  Fits(ReadEntity(T))
<1> SUFFICES ASSUME NEW U, U = ReadEntity(T) PROVE Fits(U)
  OBVIOUS
<1>1. IsTree(T) /\ IsTree(U)
  BY ReadIsTree DEF Conforms
<1>2. \A p \in DOMAIN U : p \in DOMAIN T /\ Kinds(T)[p].kind # "unread" /\ Kinds(U)[p] = Kinds(T)[p]
  BY <1>1, ReadAt, ReadKinds
<1>3. NamesDerivedTypes(U)
  <2> SUFFICES ASSUME NEW p \in DOMAIN U, Kinds(U)[p].kind = "complex"
               PROVE  Extends(ActualType(Kinds(U)[p].type, U, p), Kinds(U)[p].type)
    BY DEF NamesDerivedTypes
  <2> DEFINE k == Kinds(T)[p]
  <2>1. p \in DOMAIN T /\ k.kind = "complex" /\ Kinds(U)[p] = k
    BY <1>2
  <2>2. Extends(ActualType(k.type, T, p), k.type)
    BY <2>1 DEF Conforms, NamesDerivedTypes
  <2>3. CASE T[p].node = "object"
    <3>1. ActualType(k.type, T, p) = ActualType(k.type, U, p)
      BY <1>1, <2>1, <2>3, TypeIsRead
    <3> QED
      BY <2>1, <2>2, <3>1
  <2>4. CASE T[p].node # "object"
    <3>1. ASSUME Append(p, "@type") \in DOMAIN U PROVE FALSE
      <4>1. Append(p, "@type") \in DOMAIN T /\ Kinds(T)[Append(p, "@type")].kind # "unread"
        BY <1>2, <3>1
      <4> QED
        BY <1>1, <2>1, <2>4, <4>1, NothingNamed
    <3>2. ActualType(k.type, U, p) = k.type
      BY <3>1 DEF ActualType
    <3>3. Extends(k.type, k.type)
      BY DEF Extends
    <3> QED
      BY <2>1, <3>2, <3>3
  <2> QED
    BY <2>3, <2>4
<1>4. ASSUME NEW p \in DOMAIN U
      PROVE  \/ SuitsHeld(Kinds(U)[p], U[p])
             \/ U[p] = Null /\ p # <<>> /\ ~IsItem(U, p) /\ Kinds(U)[p].kind \notin {"annotation", "unread"}
  <2> DEFINE k == Kinds(T)[p]
  <2>1. p \in DOMAIN T /\ k.kind # "unread" /\ Kinds(U)[p] = k /\ IsKind(k)
    BY <1>1, <1>2, KindsAreKinds
  <2>2. IsJson(T[p]) /\ Suits(k, T[p])
    BY <2>1 DEF Conforms
  <2>3. IsItem(U, p) <=> IsItem(T, p)
    <3>1. CASE p = <<>>
      BY <3>1 DEF IsItem
    <3>2. CASE p # <<>>
      BY <1>1, <3>2, ParentIsRead
    <3> QED
      BY <3>1, <3>2
  <2>4. U[p] = IF IsItem(T, p) THEN ReadElement(k, T[p]) ELSE ReadMember(k, T[p])
    BY ReadAt
  <2> HIDE DEF k
  <2>5. CASE IsItem(T, p)
    <3>1. p # <<>>
      BY <2>5 DEF IsItem
    <3>2. IsSimple(k)
      BY <1>1, <2>1, <2>5, <3>1, Known DEF k
    <3>3. k.kind # "unknown"
      BY <2>1, <2>5 DEF CannotRead, k
    <3> QED
      BY <2>1, <2>2, <2>4, <2>5, <3>2, <3>3, ElementFits
  <2>6. CASE ~IsItem(T, p)
    <3>1. SuitsHeld(k, U[p]) \/ (U[p] = Null /\ k.kind # "annotation" /\ T[p] # JObject)
      BY <2>1, <2>2, <2>4, <2>6, MemberFits
    <3> QED
      BY <2>1, <2>3, <2>6, <3>1
  <2> QED
    BY <2>5, <2>6
<1> QED
  BY <1>1, <1>3, <1>4 DEF Fits

-----------------------------------------------------------------------------
(* What is written *)

\* The paths above a path of a closed set are in it.
LEMMA PrefixesInside ==
    ASSUME NEW D, Closed(D), NEW p \in D
    PROVE  Prefixes(p) \subseteq D
<1> DEFINE Bad == {q \in D : ~(Prefixes(q) \subseteq D)}
<1> SUFFICES ASSUME Bad # {} PROVE FALSE
  OBVIOUS
<1>1. PICK q \in Bad : IsPath(q) /\ (q # <<>> => Front(q) \in D \ Bad)
  BY Shortest
<1>2. CASE q = <<>>
  BY <1>2, Root
<1>3. CASE q # <<>>
  BY <1>1, <1>3, PrefixesOfStep
<1> QED
  BY <1>2, <1>3

\* What a held tree has at p, by the kind of p.
LEMMA HeldAt ==
    ASSUME NEW v, Fits(v), NEW p \in DOMAIN v
    PROVE  /\ IsKind(Kinds(v)[p]) /\ Kinds(v)[p].kind # "unread"
           /\ \/ SuitsHeld(Kinds(v)[p], v[p]) /\ v[p] # Null
              \/ v[p] = Null /\ p # <<>> /\ ~IsItem(v, p) /\ Kinds(v)[p].kind # "annotation"
<1>1. IsTree(v)
  BY DEF Fits
<1>2. IsKind(Kinds(v)[p])
  BY <1>1, KindsAreKinds
<1>3. \/ SuitsHeld(Kinds(v)[p], v[p])
      \/ v[p] = Null /\ p # <<>> /\ ~IsItem(v, p) /\ Kinds(v)[p].kind \notin {"annotation", "unread"}
  BY DEF Fits
<1> DEFINE k == Kinds(v)[p]
<1> HIDE DEF k
<1>4. ASSUME SuitsHeld(k, v[p]) PROVE v[p] # Null /\ k.kind # "unread"
  <2>1. k.kind \in {"string", "enum", "number", "complex", "collection", "annotation", "unknown"}
    BY <1>4 DEF SuitsHeld
  <2>2. v[p].node \in {"primitive", "object", "array", "type"}
    BY <1>4, NodesDiffer, PrimitiveFields, TypeFields DEF SuitsHeld
  <2> QED
    BY <2>1, <2>2, NodesDiffer
<1> QED
  BY <1>2, <1>3, <1>4 DEF k

\* The kind a held value has is that of its place.
LEMMA HeldKind ==
    ASSUME NEW k, NEW v, SuitsHeld(k, v)
    PROVE  /\ k.kind \in {"string", "enum", "number", "complex", "collection", "annotation", "unknown"}
           /\ k.kind = "enum" => v.kind \in {"string", "enum"}
           /\ k.kind # "enum" => v.kind = k.kind
           /\ k.kind \in {"string", "enum", "number"} =>
                 v = Primitive(v.kind, v.text) /\ IsText(v.text) /\ v.node = "primitive"
           /\ k.kind = "complex" => v = Complex("complex") /\ v.node = "object"
           /\ k.kind = "collection" => v = Collection /\ v.node = "array"
           /\ k.kind = "annotation" => v = TypeName(v.type, v.marked) /\ v.node = "type"
           /\ k.kind = "unknown" => v.node \in {"object", "primitive"}
<1>1. CASE k.kind = "string" /\ v = Primitive("string", v.text) /\ IsText(v.text)
  BY <1>1, PrimitiveFields
<1>2. CASE k.kind = "enum" /\ v = Primitive(v.kind, v.text) /\ v.kind \in {"string", "enum"} /\ IsText(v.text)
  BY <1>2, PrimitiveFields
<1>3. CASE k.kind = "number" /\ v = Primitive("number", v.text) /\ IsText(v.text)
  BY <1>3, PrimitiveFields
<1>4. CASE k.kind = "complex" /\ v = Complex("complex")
  BY <1>4, NodesDiffer
<1>5. CASE k.kind = "collection" /\ v = Collection
  BY <1>5, NodesDiffer
<1>6. CASE k.kind = "annotation" /\ v = TypeName(v.type, v.marked)
  BY <1>6, TypeFields
<1>7. CASE k.kind = "unknown" /\ v.kind = "unknown" /\ v.node \in {"object", "primitive"}
  BY <1>7
<1> QED
  BY <1>1, <1>2, <1>3, <1>4, <1>5, <1>6, <1>7 DEF SuitsHeld

\* A collection with an element has a first one, of the same kind: its kind is
\* the one the writer takes for all of them.
LEMMA FirstItem ==
    ASSUME NEW v, IsTree(v), NEW p \in DOMAIN v, IsItem(v, p), Kinds(v)[p].kind # "unread"
    PROVE  LET first == Append(Front(p), 1)
           IN first \in DOMAIN v /\ IsItem(v, first) /\ Kinds(v)[first] = Kinds(v)[p]
<1> DEFINE first == Append(Front(p), 1)
<1>0. p # <<>>
  BY DEF IsItem
<1>1. Last(p) \in Nat \ {0} /\ \A i \in 1..Last(p) : Append(Front(p), i) \in DOMAIN v
  BY DEF IsTree
<1>2. first \in DOMAIN v
  BY <1>1
<1>3. IsPath(Front(p)) /\ Front(p) \in DOMAIN v
  BY <1>0, Known, LastStep
<1>4. first # <<>> /\ Front(first) = Front(p)
  BY <1>3, StepDown
<1>5. Kinds(v)[Front(p)].kind = "collection" /\ v[Front(p)].node = "array"
  BY <1>0, Known
<1>6. Kinds(v)[p] = Inner(Kinds(v)[Front(p)], v, Front(p), Last(p))
      /\ Kinds(v)[first] = Inner(Kinds(v)[Front(p)], v, Front(p), Last(first))
  BY <1>0, <1>2, <1>4, KindOf
<1>7. Kinds(v)[first] = Kinds(v)[p]
  BY <1>5, <1>6 DEF Inner
<1>8. IsItem(v, first)
  BY <1>4, <1>5 DEF IsItem
<1> QED
  BY <1>2, <1>7, <1>8

\* The kind a value is written as is that of its place.
LEMMA WrittenAsKind ==
    ASSUME NEW v, Fits(v), NEW p \in DOMAIN v
    PROVE  /\ v[p] = Null => WrittenAs(v, p) = "none"
           /\ v[p] # Null =>
                 IF Kinds(v)[p].kind = "enum" THEN WrittenAs(v, p) \in {"string", "enum"}
                                              ELSE WrittenAs(v, p) = Kinds(v)[p].kind
<1> DEFINE k == Kinds(v)[p]
<1>1. k.kind # "unread" /\ IsTree(v)
  BY HeldAt DEF Fits
<1>2. CASE v[p] = Null
  <2>1. ~IsItem(v, p)
    BY <1>2, HeldAt
  <2> QED
    BY <1>2, <2>1, NodesDiffer DEF WrittenAs
<1>3. CASE v[p] # Null /\ ~IsItem(v, p)
  <2>1. SuitsHeld(k, v[p])
    BY <1>3, HeldAt
  <2>2. WrittenAs(v, p) = v[p].kind
    BY <1>3 DEF WrittenAs
  <2> QED
    BY <1>3, <2>1, <2>2, HeldKind
<1>4. CASE v[p] # Null /\ IsItem(v, p)
  <2> DEFINE first == Append(Front(p), 1)
  <2>1. first \in DOMAIN v /\ IsItem(v, first) /\ Kinds(v)[first] = k
    BY <1>1, <1>4, FirstItem
  <2>2. SuitsHeld(k, v[first])
    BY <2>1, HeldAt
  <2>3. WrittenAs(v, p) = v[first].kind
    BY <1>4 DEF WrittenAs
  <2> HIDE DEF first
  <2> QED
    BY <1>4, <2>2, <2>3, HeldKind
<1> QED
  BY <1>2, <1>3, <1>4

\* What is written, and how.
LEMMA WrittenAt ==
    ASSUME NEW v, NEW W, W = Written(v)
    PROVE  /\ DOMAIN W = {p \in DOMAIN v : \A q \in Prefixes(p) : Serializable(WrittenAs(v, q))}
           /\ \A p \in DOMAIN W : W[p] = WriteNode(v, p)
BY DEF Written

\* What is written is what has no unknown type, nor stands below such.
LEMMA WrittenWhere ==
    ASSUME NEW v, Fits(v), NEW p \in DOMAIN v
    PROVE  p \in DOMAIN Written(v) <=>
           /\ v[p] # Null => Kinds(v)[p].kind # "unknown"
           /\ p # <<>> => Front(p) \in DOMAIN Written(v)
<1> SUFFICES ASSUME NEW W, W = Written(v)
             PROVE  p \in DOMAIN W <=> /\ v[p] # Null => Kinds(v)[p].kind # "unknown"
                                       /\ p # <<>> => Front(p) \in DOMAIN W
  OBVIOUS
<1>1. DOMAIN W = {x \in DOMAIN v : \A q \in Prefixes(x) : Serializable(WrittenAs(v, q))}
  BY WrittenAt
<1>2. Serializable(WrittenAs(v, p)) <=> (v[p] # Null => Kinds(v)[p].kind # "unknown")
  BY WrittenAsKind DEF Serializable
<1>3. IsPath(p) /\ (p # <<>> => Front(p) \in DOMAIN v)
  BY TreesAreClosed DEF Fits, Closed
<1>4. CASE p = <<>>
  <2>1. Prefixes(p) = {p}
    BY <1>4, Root
  <2> QED
    BY <1>1, <1>2, <1>4, <2>1
<1>5. CASE p # <<>>
  <2>1. Prefixes(p) = Prefixes(Front(p)) \cup {p}
    BY <1>3, <1>5, PrefixesOfStep
  <2> QED
    BY <1>1, <1>2, <1>3, <1>5, <2>1
<1> QED
  BY <1>4, <1>5

\* What is written at p, by the kind of p.
LEMMA WrittenNode ==
    ASSUME NEW v, Fits(v), NEW p \in DOMAIN v, NEW W, W = Written(v), p \in DOMAIN W, NEW k, k = Kinds(v)[p]
    PROVE  \/ v[p] = Null /\ W[p] = JNull
           \/ /\ v[p] # Null /\ SuitsHeld(k, v[p]) /\ k.kind # "unknown"
              /\ k.kind \in {"string", "enum"} => W[p] = Quoted(v[p].text)
              /\ k.kind = "number" => W[p] = Literal(v[p].text)
              /\ k.kind = "complex" => W[p] = (IF IsBare(v, p) THEN JNull ELSE JObject)
              /\ k.kind = "collection" => W[p] = JArray
              /\ k.kind = "annotation" => W[p] = JType(v[p].type, v[p].marked)
<1>1. W[p] = WriteNode(v, p)
  BY WrittenAt
<1> DEFINE kind == WrittenAs(v, p)
<1>2. /\ v[p] = Null => kind = "none"
      /\ v[p] # Null => IF k.kind = "enum" THEN kind \in {"string", "enum"} ELSE kind = k.kind
  BY WrittenAsKind
<1>3. v[p] # Null => k.kind # "unknown"
  BY WrittenWhere
<1>4. v[p] # Null => SuitsHeld(k, v[p])
  BY HeldAt
<1>5. W[p] = CASE v[p] = Null -> JNull
               [] kind = "annotation" -> JType(v[p].type, v[p].marked)
               [] kind \in {"string", "enum"} -> Quoted(v[p].text)
               [] kind = "number" -> Literal(v[p].text)
               [] kind = "complex" -> IF IsBare(v, p) THEN JNull ELSE JObject
               [] kind = "collection" -> JArray
  BY <1>1 DEF WriteNode
<1> HIDE DEF kind
<1>6. CASE v[p] = Null
  <2>1. W[p] = JNull
    BY <1>2, <1>5, <1>6
  <2> QED
    BY <1>6, <2>1
<1>7. CASE v[p] # Null
  <2>1. k.kind \in {"string", "enum"} => W[p] = Quoted(v[p].text)
    BY <1>2, <1>5, <1>7
  <2>2. k.kind = "number" => W[p] = Literal(v[p].text)
    BY <1>2, <1>5, <1>7
  <2>3. k.kind = "complex" => W[p] = (IF IsBare(v, p) THEN JNull ELSE JObject)
    BY <1>2, <1>5, <1>7
  <2>4. k.kind = "collection" => W[p] = JArray
    BY <1>2, <1>5, <1>7
  <2>5. k.kind = "annotation" => W[p] = JType(v[p].type, v[p].marked)
    BY <1>2, <1>5, <1>7
  <2> QED
    BY <1>3, <1>4, <1>7, <2>1, <2>2, <2>3, <2>4, <2>5
<1> QED
  BY <1>6, <1>7

\* A value that has parts is written as an object or an array.
LEMMA ParentIsWritten ==
    ASSUME NEW v, Fits(v), NEW W, W = Written(v), NEW p \in DOMAIN v, p # <<>>, Front(p) \in DOMAIN W
    PROVE  /\ W[Front(p)].node = v[Front(p)].node /\ W[Front(p)] \in {JObject, JArray}
           /\ v[Front(p)] \in {Complex("complex"), Collection}
           /\ p \in DOMAIN W => (IsItem(W, p) <=> IsItem(v, p))
<1> DEFINE q == Front(p)
           k == Kinds(v)[q]
<1>1. IsTree(v) /\ Kinds(v)[p].kind # "unread"
  BY HeldAt DEF Fits
<1>2. q \in DOMAIN v
  BY WrittenAt
<1>3. \/ k.kind = "complex" /\ v[q].node = "object"
      \/ k.kind = "collection" /\ v[q].node = "array"
  BY <1>1, Known
<1>4. v[q] # Null
  BY <1>3, NodesDiffer
<1>5. /\ SuitsHeld(k, v[q])
      /\ k.kind = "complex" => W[q] = (IF IsBare(v, q) THEN JNull ELSE JObject)
      /\ k.kind = "collection" => W[q] = JArray
  BY <1>2, <1>4, WrittenNode
<1>6. ~IsBare(v, q)
  BY DEF IsBare
<1>7. /\ k.kind = "complex" => v[q] = Complex("complex") /\ W[q] = JObject
      /\ k.kind = "collection" => v[q] = Collection /\ W[q] = JArray
  BY <1>5, <1>6, HeldKind
<1>8. W[q].node = v[q].node
  BY <1>3, <1>7, NodesDiffer
<1> QED
  BY <1>3, <1>7, <1>8 DEF IsItem

\* What is written of a value is a tree, and part of the value.
LEMMA WrittenIsTree ==
    ASSUME NEW v, Fits(v), NEW W, W = Written(v)
    PROVE  IsTree(W) /\ DOMAIN W \subseteq DOMAIN v
<1>0. DOMAIN W \subseteq DOMAIN v /\ IsTree(v)
  BY WrittenAt DEF Fits
<1>1. <<>> \in DOMAIN W
  BY <1>0, KindOfRoot, WrittenWhere
<1> SUFFICES ASSUME NEW p \in DOMAIN W
             PROVE  /\ Len(p) \in Nat /\ p = [i \in 1..Len(p) |-> p[i]]
                    /\ p # <<>> => Front(p) \in DOMAIN W /\ W[Front(p)].node \in {"object", "array"}
                    /\ IsItem(W, p) => Last(p) \in Nat \ {0} /\ \A i \in 1..Last(p) : Append(Front(p), i) \in DOMAIN W
  BY <1>0, <1>1 DEF IsTree
<1>2. p \in DOMAIN v /\ IsPath(p)
  BY <1>0, TreesAreClosed DEF Closed
<1>3. p # <<>> => Front(p) \in DOMAIN W
  BY <1>2, WrittenWhere
<1>a. p # <<>> => W[Front(p)].node \in {"object", "array"}
  BY <1>0, <1>2, <1>3, ParentIsWritten DEF IsTree
<1>4. ASSUME IsItem(W, p) PROVE Last(p) \in Nat \ {0} /\ \A i \in 1..Last(p) : Append(Front(p), i) \in DOMAIN W
  <2>0. p # <<>>
    BY <1>4 DEF IsItem
  <2>1. IsItem(v, p)
    BY <1>2, <1>3, <1>4, <2>0, ParentIsWritten
  <2>2. Last(p) \in Nat \ {0} /\ \A i \in 1..Last(p) : Append(Front(p), i) \in DOMAIN v
    BY <1>0, <1>2, <2>1 DEF IsTree
  <2>3. ASSUME NEW i \in 1..Last(p) PROVE Append(Front(p), i) \in DOMAIN W
    <3> DEFINE o == Append(Front(p), i)
    <3>1. IsPath(Front(p))
      BY <1>2, <2>0, LastStep
    <3>2. o \in DOMAIN v /\ o # <<>> /\ Front(o) = Front(p)
      BY <2>2, <2>3, <3>1, StepDown
    <3>3. IsItem(v, o)
      BY <2>1, <3>2 DEF IsItem
    <3>4. WrittenAs(v, o) = WrittenAs(v, p)
      BY <2>1, <3>2, <3>3 DEF WrittenAs
    <3>5. v[p] # Null /\ v[o] # Null
      BY <1>2, <2>1, <3>2, <3>3, HeldAt
    <3>6. Kinds(v)[p].kind # "unknown"
      BY <1>2, <3>5, WrittenWhere
    <3>7. WrittenAs(v, o) # "unknown"
      BY <1>2, <3>4, <3>5, <3>6, WrittenAsKind
    <3>8. Kinds(v)[o].kind # "unknown"
      BY <3>2, <3>5, <3>7, WrittenAsKind
    <3> QED
      BY <1>3, <2>0, <3>2, <3>8, WrittenWhere
  <2> QED
    BY <2>2, <2>3
<1> QED
  BY <1>2, <1>3, <1>4, <1>a DEF IsPath

\* The type annotation of what is held is an annotation, and is written.
LEMMA AnnotationIsHeld ==
    ASSUME NEW v, Fits(v), NEW q \in DOMAIN v, Kinds(v)[q].kind = "complex", Append(q, "@type") \in DOMAIN v
    PROVE  /\ Kinds(v)[Append(q, "@type")].kind = "annotation" /\ v[q].node = "object"
           /\ Append(q, "@type") # <<>> /\ Front(Append(q, "@type")) = q
           /\ v[Append(q, "@type")] # Null /\ SuitsHeld(Kinds(v)[Append(q, "@type")], v[Append(q, "@type")])
<1> DEFINE t == Append(q, "@type")
<1>1. IsTree(v) /\ Kinds(v)[t].kind # "unread"
  BY HeldAt DEF Fits
<1>2. IsPath(q)
  BY <1>1, TreesAreClosed DEF Closed
<1>3. t # <<>> /\ Front(t) = q /\ Last(t) = "@type"
  BY <1>2, StepDown
<1>4. Kinds(v)[t].kind = "annotation" /\ v[q].node = "object"
  <2>1. t \in DOMAIN v
    OBVIOUS
  <2> HIDE DEF t
  <2> QED
    BY <1>1, <1>3, <2>1, Known
<1>5. v[t] # Null /\ SuitsHeld(Kinds(v)[t], v[t])
  BY <1>4, HeldAt
<1> QED
  BY <1>3, <1>4, <1>5

\* An object that is written keeps its type.
LEMMA TypeIsWritten ==
    ASSUME NEW v, Fits(v), NEW W, W = Written(v), NEW q \in DOMAIN W, Kinds(v)[q].kind = "complex"
    PROVE  \A type : ActualType(type, v, q) = ActualType(type, W, q)
<1> DEFINE t == Append(q, "@type")
<1>0. q \in DOMAIN v
  BY WrittenAt
<1>1. t \in DOMAIN W => t \in DOMAIN v
  BY WrittenAt
<1>2. CASE t \in DOMAIN v
  <2>1. Kinds(v)[t].kind = "annotation" /\ t # <<>> /\ Front(t) = q /\ v[t] # Null
    BY <1>0, <1>2, AnnotationIsHeld
  <2>2. t \in DOMAIN W
    BY <1>2, <2>1, WrittenWhere
  <2>3. W[t] = JType(v[t].type, v[t].marked)
    BY <1>2, <2>1, <2>2, WrittenNode
  <2>4. W[t].type = v[t].type
    BY <2>3, TypeFields
  <2> QED
    BY <1>2, <2>2, <2>4, TypesAlike
<1>3. CASE t \notin DOMAIN v
  BY <1>1, <1>3 DEF ActualType
<1> QED
  BY <1>2, <1>3

\* What is written has the kind it had.
LEMMA WrittenKinds ==
    ASSUME NEW v, Fits(v), NEW W, W = Written(v), NEW p \in DOMAIN W
    PROVE  Kinds(W)[p] = Kinds(v)[p]
<1>1. IsTree(v) /\ IsTree(W) /\ DOMAIN W \subseteq DOMAIN v /\ Closed(DOMAIN W)
  BY WrittenIsTree, TreesAreClosed DEF Fits
<1>2. ASSUME NEW o \in DOMAIN W, o # <<>> PROVE Alike(v, W, Front(o))
  <2> DEFINE q == Front(o)
  <2>1. q \in DOMAIN W /\ o \in DOMAIN v /\ q \in DOMAIN v
    BY <1>1, <1>2 DEF Closed
  <2>2. W[q].node = v[q].node
    BY <1>2, <2>1, ParentIsWritten
  <2>3. ASSUME v[q].node = "object" PROVE \A type : ActualType(type, v, q) = ActualType(type, W, q)
    <3>1. Kinds(v)[o].kind # "unread"
      BY <2>1, HeldAt
    <3>2. Kinds(v)[q].kind = "complex"
      BY <1>1, <1>2, <2>1, <2>3, <3>1, Known
    <3> QED
      BY <2>1, <3>2, TypeIsWritten
  <2> QED
    BY <2>2, <2>3 DEF Alike
<1> QED
  BY <1>1, <1>2, SameKinds

\* Text between quotation marks, and a number, where they parse.
LEMMA QuotedIsText ==
    ASSUME NEW t, IsText(t), Quoted(t) # Malformed
    PROVE  Quoted(t) = JText(Quoted(t).content) /\ IsText(Quoted(t).content) /\ Quoted(t).node = "text"
<1>1. CASE t.text # Special
  <2>1. Quoted(t) = JText(t)
    BY <1>1 DEF Quoted
  <2> QED
    BY <2>1, NodesDiffer
<1>2. CASE t.text = Special /\ t.escapes > 0
  <2>1. Quoted(t) = JText(Text(Special, t.escapes - 1))
    BY <1>2 DEF Quoted
  <2>2. t.escapes - 1 \in Nat
    BY <1>2 DEF IsText
  <2>3. IsText(Text(Special, t.escapes - 1))
    BY <2>2, Texting DEF IsText
  <2> QED
    BY <2>1, <2>3, NodesDiffer
<1>3. CASE t.text = Special /\ ~(t.escapes > 0)
  BY <1>3 DEF Quoted
<1> QED
  BY <1>1, <1>2, <1>3

\* A text that parses where it stands alone is null or a numeral.
LEMMA LiteralIsNumber ==
    ASSUME NEW t, IsText(t), Literal(t) # Malformed
    PROVE  \/ t.text = "null" /\ t = Plain("null") /\ Literal(t) = JNull
           \/ t.text \in Numerals /\ t = Plain(t.text) /\ Literal(t) = JNumber(t)
<1>1. t.text = "null" \/ t.text \in Numerals
  BY DEF Literal
<1>2. t.text # Special
  BY <1>1 DEF Numerals, Special
<1>3. t = Plain(t.text)
  BY <1>2 DEF IsText, Plain
<1>4. t.text \in Numerals => t.text # "null"
  BY DEF Numerals
<1> QED
  BY <1>1, <1>3, <1>4 DEF Literal

\* The types named in a tree are marked as names.
AllMarked(v) == \A p \in DOMAIN v : v[p].node = "type" => v[p].marked = TRUE

\* JSON the client has written, if it parses, is as its type says.
LEMMA WrittenSuits ==
    ASSUME NEW v, Fits(v), AllMarked(v), NEW W, W = Written(v), Parses(W), NEW p \in DOMAIN W
    PROVE  IsJson(W[p]) /\ Suits(Kinds(v)[p], W[p])
<1> DEFINE k == Kinds(v)[p]
<1>1. p \in DOMAIN v /\ W[p] # Malformed
  BY WrittenAt DEF Parses
<1>2. IsKind(k) /\ k.kind # "unread"
  BY <1>1, HeldAt
<1>3. CASE v[p] = Null /\ W[p] = JNull
  <2>1. k.kind # "annotation"
    BY <1>1, <1>3, HeldAt
  <2> HIDE DEF k
  <2>2. IsJson(W[p]) /\ Suits(k, W[p])
    BY <1>2, <1>3, <2>1, NodesDiffer DEF IsJson, Suits
  <2> QED
    BY <2>2 DEF k
<1>4. CASE /\ v[p] # Null /\ SuitsHeld(k, v[p]) /\ k.kind # "unknown"
           /\ k.kind \in {"string", "enum"} => W[p] = Quoted(v[p].text)
           /\ k.kind = "number" => W[p] = Literal(v[p].text)
           /\ k.kind = "complex" => W[p] = (IF IsBare(v, p) THEN JNull ELSE JObject)
           /\ k.kind = "collection" => W[p] = JArray
           /\ k.kind = "annotation" => W[p] = JType(v[p].type, v[p].marked)
  <2> SUFFICES ASSUME NEW j, j = W[p] PROVE IsJson(j) /\ Suits(k, j)
    OBVIOUS
  <2>1. k.kind \in {"string", "enum", "number", "complex", "collection", "annotation"}
    BY <1>4, HeldKind
  <2> HIDE DEF k
  <2>2. CASE k.kind \in {"string", "enum"}
    <3>1. IsText(v[p].text) /\ j = Quoted(v[p].text)
      BY <1>4, <2>2, HeldKind
    <3>2. j = JText(j.content) /\ IsText(j.content) /\ j.node = "text"
      BY <1>1, <3>1, QuotedIsText
    <3> QED
      BY <2>2, <3>2 DEF IsJson, Suits
  <2>3. CASE k.kind = "number"
    <3>1. IsText(v[p].text) /\ j = Literal(v[p].text) /\ j # Malformed
      BY <1>1, <1>4, <2>3, HeldKind
    <3>2. CASE j = JNull
      BY <2>3, <3>2, NodesDiffer DEF IsJson, Suits
    <3>3. CASE v[p].text.text \in Numerals /\ v[p].text = Plain(v[p].text.text) /\ j = JNumber(v[p].text)
      <4>1. j.node = "number" /\ j.content = v[p].text
        BY <3>3, NodesDiffer
      <4>2. IsJson(j)
        BY <3>1, <3>3, <4>1 DEF IsJson
      <4>3. Suits(k, j)
        BY <2>3, <3>3 DEF Suits
      <4> QED
        BY <4>2, <4>3
    <3> QED
      BY <3>1, <3>2, <3>3, LiteralIsNumber
  <2>4. CASE k.kind = "complex"
    <3>1. j \in {JNull, JObject}
      BY <1>4, <2>4
    <3> QED
      BY <2>4, <3>1, NodesDiffer DEF IsJson, Suits
  <2>5. CASE k.kind = "collection"
    <3>1. j = JArray
      BY <1>4, <2>5
    <3> QED
      BY <2>5, <3>1, NodesDiffer DEF IsJson, Suits
  <2>6. CASE k.kind = "annotation"
    <3>1. j = JType(v[p].type, v[p].marked) /\ v[p].node = "type"
      BY <1>4, <2>6, HeldKind
    <3>2. v[p].marked = TRUE
      BY <1>1, <3>1 DEF AllMarked
    <3>3. j.node = "type" /\ j.type = v[p].type /\ j.marked = v[p].marked
      BY <3>1, TypeFields
    <3> QED
      BY <2>6, <3>1, <3>2, <3>3 DEF IsJson, Suits
  <2> QED
    BY <2>1, <2>2, <2>3, <2>4, <2>5, <2>6
<1> QED
  BY <1>1, <1>3, <1>4, WrittenNode

\* What is written, if it parses, is of the shape its types say.
LEMMA WrittenConforms ==
    ASSUME NEW v, Fits(v), AllMarked(v), Parses(Written(v))
    PROVE  Conforms(Written(v))
<1> SUFFICES ASSUME NEW W, W = Written(v) PROVE Conforms(W)
  OBVIOUS
<1>1. IsTree(W) /\ DOMAIN W \subseteq DOMAIN v
  BY WrittenIsTree
<1>2. \A p \in DOMAIN W : Kinds(W)[p] = Kinds(v)[p]
  BY WrittenKinds
<1>3. NamesDerivedTypes(W)
  <2> SUFFICES ASSUME NEW p \in DOMAIN W, Kinds(W)[p].kind = "complex"
               PROVE  Extends(ActualType(Kinds(W)[p].type, W, p), Kinds(W)[p].type)
    BY DEF NamesDerivedTypes
  <2>1. p \in DOMAIN v /\ Kinds(v)[p].kind = "complex" /\ Kinds(W)[p] = Kinds(v)[p]
    BY <1>1, <1>2
  <2>2. Extends(ActualType(Kinds(v)[p].type, v, p), Kinds(v)[p].type)
    BY <2>1 DEF Fits, NamesDerivedTypes
  <2>3. ActualType(Kinds(v)[p].type, v, p) = ActualType(Kinds(v)[p].type, W, p)
    BY <2>1, TypeIsWritten
  <2> QED
    BY <2>1, <2>2, <2>3
<1>4. \A p \in DOMAIN W : IsJson(W[p]) /\ Suits(Kinds(W)[p], W[p])
  BY <1>2, WrittenSuits
<1> QED
  BY <1>1, <1>3, <1>4 DEF Conforms

-----------------------------------------------------------------------------
(* The names of types are given their # *)

\* Only the names of types change, and they only get their #.
LEMMA MarkedAt ==
    ASSUME NEW v, Fits(v), NEW M, M = Marked(v)
    PROVE  /\ DOMAIN M = DOMAIN v
           /\ \A p \in DOMAIN v : /\ M[p].node = v[p].node
                                  /\ v[p].node # "type" => M[p] = v[p]
                                  /\ v[p].node = "type" => M[p] = Name(v[p].type) /\ M[p].type = v[p].type
<1>1. DOMAIN M = DOMAIN v
      /\ \A p \in DOMAIN v : M[p] = IF v[p].node = "type" THEN Name(v[p].type) ELSE v[p]
  BY DEF Marked, Name
<1>2. \A type : Name(type).node = "type" /\ Name(type).type = type
  BY DEF Name, TypeName
<1> QED
  BY <1>1, <1>2

\* The values stay values of their kinds.
LEMMA MarkedFits ==
    ASSUME NEW v, Fits(v), NEW M, M = Marked(v)
    PROVE  Fits(M) /\ AllMarked(M) /\ \A p \in DOMAIN v : Kinds(M)[p] = Kinds(v)[p]
<1>0. IsTree(v)
  BY DEF Fits
<1>1. DOMAIN M = DOMAIN v /\ \A p \in DOMAIN v : M[p].node = v[p].node
  BY MarkedAt
<1>2. \A p \in DOMAIN v : p # <<>> => Front(p) \in DOMAIN v /\ (IsItem(M, p) <=> IsItem(v, p))
  BY <1>0, <1>1 DEF IsTree, IsItem
<1>3. \A p \in DOMAIN v : IsItem(M, p) <=> IsItem(v, p)
  BY <1>2 DEF IsItem
<1>4. IsTree(M)
  BY <1>0, <1>1, <1>3 DEF IsTree
<1>5. ASSUME NEW q \in DOMAIN v, Kinds(v)[q].kind = "complex"
      PROVE  \A type : ActualType(type, v, q) = ActualType(type, M, q)
  <2>1. CASE Append(q, "@type") \in DOMAIN v
    <3>1. v[Append(q, "@type")].node = "type"
      BY <1>5, <2>1, AnnotationIsHeld, HeldKind
    <3>2. M[Append(q, "@type")].type = v[Append(q, "@type")].type
      BY <2>1, <3>1, MarkedAt
    <3> QED
      BY <1>1, <3>2 DEF ActualType
  <2>2. CASE Append(q, "@type") \notin DOMAIN v
    BY <1>1, <2>2 DEF ActualType
  <2> QED
    BY <2>1, <2>2
<1>6. ASSUME NEW p \in DOMAIN v PROVE Kinds(M)[p] = Kinds(v)[p]
  <2>1. ASSUME NEW o \in DOMAIN v, o # <<>> PROVE Alike(v, M, Front(o))
    <3>1. Front(o) \in DOMAIN v /\ M[Front(o)].node = v[Front(o)].node
      BY <1>1, <1>2, <2>1
    <3>2. Kinds(v)[o].kind # "unread"
      BY HeldAt
    <3>3. v[Front(o)].node = "object" => Kinds(v)[Front(o)].kind = "complex"
      BY <1>0, <2>1, <3>2, Known
    <3> QED
      BY <1>5, <3>1, <3>3 DEF Alike
  <2>2. Closed(DOMAIN v)
    BY <1>0, TreesAreClosed
  <2> QED
    BY <1>0, <1>1, <1>4, <2>1, <2>2, SameKinds
<1>7. NamesDerivedTypes(M)
  <2> SUFFICES ASSUME NEW p \in DOMAIN M, Kinds(M)[p].kind = "complex"
               PROVE  Extends(ActualType(Kinds(M)[p].type, M, p), Kinds(M)[p].type)
    BY DEF NamesDerivedTypes
  <2>1. p \in DOMAIN v /\ Kinds(v)[p].kind = "complex" /\ Kinds(M)[p] = Kinds(v)[p]
    BY <1>1, <1>6
  <2>2. Extends(ActualType(Kinds(v)[p].type, v, p), Kinds(v)[p].type)
    BY <2>1 DEF Fits, NamesDerivedTypes
  <2>3. ActualType(Kinds(v)[p].type, v, p) = ActualType(Kinds(v)[p].type, M, p)
    BY <1>5, <2>1
  <2> QED
    BY <2>1, <2>2, <2>3
<1>8. ASSUME NEW p \in DOMAIN M
      PROVE  \/ SuitsHeld(Kinds(M)[p], M[p])
             \/ M[p] = Null /\ p # <<>> /\ ~IsItem(M, p) /\ Kinds(M)[p].kind \notin {"annotation", "unread"}
  <2> DEFINE k == Kinds(v)[p]
  <2>1. p \in DOMAIN v /\ Kinds(M)[p] = k
    BY <1>1, <1>6
  <2>2. \/ SuitsHeld(k, v[p]) /\ v[p] # Null
        \/ v[p] = Null /\ p # <<>> /\ ~IsItem(v, p) /\ k.kind # "annotation"
    BY <2>1, HeldAt
  <2>3. k.kind # "unread"
    BY <2>1, HeldAt
  <2>4. CASE v[p].node # "type"
    <3>1. M[p] = v[p]
      BY <2>1, <2>4, MarkedAt
    <3> QED
      BY <1>3, <2>1, <2>2, <2>3, <3>1
  <2>5. CASE v[p].node = "type"
    <3>1. SuitsHeld(k, v[p])
      BY <2>2, <2>5, NodesDiffer
    <3>2. k.kind = "annotation"
      <4> HIDE DEF k
      <4> QED
        BY <2>5, <3>1, HeldKind
    <3>3. M[p] = Name(v[p].type)
      BY <2>1, <2>5, MarkedAt
    <3>4. SuitsHeld(k, Name(v[p].type))
      <4>1. \A type : Name(type) = TypeName(Name(type).type, Name(type).marked)
        BY DEF Name, TypeName
      <4> QED
        BY <3>2, <4>1 DEF SuitsHeld
    <3> QED
      BY <2>1, <3>3, <3>4
  <2> QED
    BY <2>4, <2>5
<1>9. AllMarked(M)
  <2> SUFFICES ASSUME NEW p \in DOMAIN M, M[p].node = "type" PROVE M[p].marked = TRUE
    BY DEF AllMarked
  <2>1. M[p] = Name(v[p].type)
    BY <1>1, MarkedAt
  <2> QED
    BY <2>1 DEF Name, TypeName
<1> QED
  BY <1>1, <1>4, <1>6, <1>7, <1>8, <1>9 DEF Fits

-----------------------------------------------------------------------------
(* A property is set *)

\* The first step of a path is that of the path above it.
LEMMA FirstStep ==
    ASSUME NEW p, IsPath(p)
    PROVE  /\ p # <<>> /\ Front(p) # <<>> => Front(p)[1] = p[1]
           /\ \A x : Append(p, x)[1] = IF p = <<>> THEN x ELSE p[1]
<1>1. ASSUME p # <<>>, Front(p) # <<>> PROVE Front(p)[1] = p[1]
  <2>1. IsPath(Front(p)) /\ \A i \in 1 .. Len(Front(p)) : Front(p)[i] = p[i]
    BY <1>1, LastStep
  <2>2. Len(Front(p)) > 0 /\ Len(Front(p)) \in Nat
    BY <1>1, <2>1, LastStep DEF IsPath
  <2> QED
    BY <2>1, <2>2
<1>2. ASSUME NEW x PROVE Append(p, x)[1] = IF p = <<>> THEN x ELSE p[1]
  <2>1. CASE p = <<>>
    BY <2>1, Root
  <2>2. CASE p # <<>>
    <3>1. Len(p) > 0 /\ Len(p) \in Nat
      BY <2>2, LastStep DEF IsPath
    <3>2. PICK S : p \in Seq(S) /\ x \in S
      BY PathIsSequence
    <3> QED
      BY <2>2, <3>1, <3>2
  <2> QED
    BY <2>1, <2>2
<1> QED
  BY <1>1, <1>2

\* U is v, but S at the member n.
Glued(U, v, S, n) ==
    /\ \A p : p = <<>> \/ p[1] # n => (p \in DOMAIN U <=> p \in DOMAIN v) /\ (p \in DOMAIN v => U[p] = v[p])
    /\ \A p : p # <<>> /\ p[1] = n => (p \in DOMAIN U <=> p \in DOMAIN S) /\ (p \in DOMAIN S => U[p] = S[p])

\* The root of what is held is a complex value of the type of the entity.
LEMMA RootIsHeld ==
    ASSUME NEW v, Fits(v)
    PROVE  <<>> \in DOMAIN v /\ v[<<>>] = Complex("complex") /\ v[<<>>].node = "object"
           /\ Kinds(v)[<<>>].kind = "complex" /\ Kinds(v)[<<>>].type = Entity
<1>1. <<>> \in DOMAIN v /\ Kinds(v)[<<>>].kind = "complex" /\ Kinds(v)[<<>>].type = Entity
  BY KindOfRoot DEF Fits
<1>2. SuitsHeld(Kinds(v)[<<>>], v[<<>>])
  BY <1>1, HeldAt
<1> QED
  BY <1>1, <1>2, HeldKind

\* As far as v goes.
LEMMA GluedHere ==
    ASSUME NEW v, Fits(v), NEW S, Fits(S), NEW U, NEW n, n # "@type", Glued(U, v, S, n),
           NEW q \in DOMAIN v, q = <<>> \/ q[1] # n
    PROVE  /\ q \in DOMAIN U /\ U[q] = v[q]
           /\ \A type : ActualType(type, v, q) = ActualType(type, U, q)
           /\ q # <<>> => Front(q) \in DOMAIN v /\ U[Front(q)] = v[Front(q)] /\ (Front(q) = <<>> \/ Front(q)[1] # n)
<1>1. IsPath(q) /\ (q # <<>> => Front(q) \in DOMAIN v)
  BY TreesAreClosed DEF Fits, Closed
<1>2. Append(q, "@type")[1] # n
  BY <1>1, FirstStep
<1>3. \A type : ActualType(type, v, q) = ActualType(type, U, q)
  BY <1>2 DEF Glued, ActualType
<1>4. q # <<>> => Front(q) = <<>> \/ Front(q)[1] # n
  BY <1>1, FirstStep
<1> QED
  BY <1>1, <1>3, <1>4 DEF Glued

\* As far as S goes.
LEMMA GluedThere ==
    ASSUME NEW v, Fits(v), NEW S, Fits(S), NEW U, NEW n, Glued(U, v, S, n),
           NEW q \in DOMAIN S, q # <<>>, q[1] = n
    PROVE  /\ q \in DOMAIN U /\ U[q] = S[q] /\ Front(q) \in DOMAIN S
           /\ \A type : ActualType(type, S, q) = ActualType(type, U, q)
           /\ U[Front(q)] = S[Front(q)] /\ (Front(q) = <<>> \/ Front(q)[1] = n)
<1>1. IsPath(q) /\ Front(q) \in DOMAIN S
  BY TreesAreClosed DEF Fits, Closed
<1>2. Append(q, "@type")[1] = n /\ Append(q, "@type") # <<>>
  BY <1>1, FirstStep, StepDown
<1>3. \A type : ActualType(type, S, q) = ActualType(type, U, q)
  BY <1>2 DEF Glued, ActualType
<1>4. Front(q) = <<>> \/ Front(q)[1] = n
  BY <1>1, FirstStep
<1>5. U[<<>>] = S[<<>>]
  BY RootIsHeld DEF Glued
<1>6. U[Front(q)] = S[Front(q)]
  BY <1>1, <1>4, <1>5 DEF Glued
<1> QED
  BY <1>1, <1>3, <1>4, <1>6 DEF Glued

\* A tree with another in the place of a member is a tree.
LEMMA GluedIsTree ==
    ASSUME NEW v, Fits(v), NEW S, Fits(S), NEW U, NEW n, n # "@type", Glued(U, v, S, n)
    PROVE  IsTree(U)
<1>0. IsTree(v) /\ IsTree(S) /\ <<>> \in DOMAIN U
  BY RootIsHeld DEF Fits, Glued
<1> SUFFICES ASSUME NEW p \in DOMAIN U
             PROVE  /\ Len(p) \in Nat /\ p = [i \in 1..Len(p) |-> p[i]]
                    /\ p # <<>> => Front(p) \in DOMAIN U /\ U[Front(p)].node \in {"object", "array"}
                    /\ IsItem(U, p) => Last(p) \in Nat \ {0} /\ \A i \in 1..Last(p) : Append(Front(p), i) \in DOMAIN U
  BY <1>0 DEF IsTree
<1>1. CASE p = <<>> \/ p[1] # n
  <2>1. p \in DOMAIN v /\ IsPath(p)
    BY <1>0, <1>1, TreesAreClosed DEF Glued, Closed
  <2>a. p # <<>> => /\ Front(p) \in DOMAIN v /\ U[Front(p)] = v[Front(p)]
                    /\ Front(p) = <<>> \/ Front(p)[1] # n
    BY <1>1, <2>1, GluedHere
  <2>2. p # <<>> => /\ Front(p) \in DOMAIN U /\ Front(p) \in DOMAIN v /\ U[Front(p)] = v[Front(p)]
                    /\ Front(p) = <<>> \/ Front(p)[1] # n
    BY <2>a DEF Glued
  <2>b. p # <<>> => U[Front(p)].node \in {"object", "array"}
    BY <1>0, <2>1, <2>2 DEF IsTree
  <2>3. ASSUME IsItem(U, p) PROVE Last(p) \in Nat \ {0} /\ \A i \in 1..Last(p) : Append(Front(p), i) \in DOMAIN U
    <3>1. p # <<>> /\ IsItem(v, p) /\ v[Front(p)].node = "array"
      BY <2>2, <2>3 DEF IsItem
    <3>2. Front(p) # <<>> /\ IsPath(Front(p))
      BY <2>1, <3>1, LastStep, RootIsHeld
    <3>3. \A i : Append(Front(p), i)[1] # n
      BY <2>2, <3>1, <3>2, FirstStep
    <3>4. Last(p) \in Nat \ {0} /\ \A i \in 1..Last(p) : Append(Front(p), i) \in DOMAIN v
      BY <1>0, <2>1, <3>1 DEF IsTree
    <3> QED
      BY <3>3, <3>4 DEF Glued
  <2> QED
    BY <2>1, <2>2, <2>3, <2>b DEF IsPath
<1>2. CASE p # <<>> /\ p[1] = n
  <2>1. p \in DOMAIN S /\ IsPath(p)
    BY <1>0, <1>2, TreesAreClosed DEF Glued, Closed
  <2>2. Front(p) \in DOMAIN S /\ U[Front(p)] = S[Front(p)] /\ (Front(p) = <<>> \/ Front(p)[1] = n)
    BY <1>2, <2>1, GluedThere
  <2>3. Front(p) \in DOMAIN U
    BY <1>0, <2>2 DEF Glued
  <2>a. U[Front(p)].node \in {"object", "array"}
    BY <1>0, <1>2, <2>1, <2>2 DEF IsTree
  <2>4. ASSUME IsItem(U, p) PROVE Last(p) \in Nat \ {0} /\ \A i \in 1..Last(p) : Append(Front(p), i) \in DOMAIN U
    <3>1. IsItem(S, p) /\ S[Front(p)].node = "array"
      BY <2>2, <2>4 DEF IsItem
    <3>2. Front(p) # <<>> /\ IsPath(Front(p))
      BY <1>2, <2>1, <3>1, LastStep, RootIsHeld
    <3>3. \A i : Append(Front(p), i)[1] = n /\ Append(Front(p), i) # <<>>
      BY <2>2, <3>2, FirstStep, StepDown
    <3>4. Last(p) \in Nat \ {0} /\ \A i \in 1..Last(p) : Append(Front(p), i) \in DOMAIN S
      BY <1>0, <2>1, <3>1 DEF IsTree
    <3> QED
      BY <3>3, <3>4 DEF Glued
  <2> QED
    BY <2>1, <2>3, <2>4, <2>a DEF IsPath
<1> QED
  BY <1>1, <1>2

\* Where both roots have the same type, all that is in it keeps its kind.
LEMMA GluedKinds ==
    ASSUME NEW v, Fits(v), NEW S, Fits(S), NEW U, NEW n, n # "@type", Glued(U, v, S, n),
           ActualType(Entity, v, <<>>) = ActualType(Entity, S, <<>>)
    PROVE  /\ \A p \in DOMAIN v : p = <<>> \/ p[1] # n => Kinds(U)[p] = Kinds(v)[p]
           /\ \A p \in DOMAIN S : p # <<>> /\ p[1] = n => Kinds(U)[p] = Kinds(S)[p]
<1>0. IsTree(v) /\ IsTree(S) /\ IsTree(U)
  BY GluedIsTree DEF Fits
<1>1. ASSUME NEW p \in DOMAIN v, p = <<>> \/ p[1] # n PROVE Kinds(U)[p] = Kinds(v)[p]
  <2> DEFINE D == {q \in DOMAIN v : q = <<>> \/ q[1] # n}
  <2>1. D \subseteq DOMAIN v /\ D \subseteq DOMAIN U /\ p \in D
    BY <1>1, GluedHere
  <2>2. Closed(D)
    <3>1. \A q \in D : IsPath(q)
      BY <1>0, TreesAreClosed DEF Closed
    <3>2. \A q \in D : q # <<>> => Front(q) \in D
      BY GluedHere
    <3> QED
      BY <3>1, <3>2 DEF Closed
  <2>3. ASSUME NEW q \in D, q # <<>> PROVE Alike(v, U, Front(q))
    <3>1. Front(q) \in D
      BY <2>2, <2>3 DEF Closed
    <3> QED
      BY <3>1, GluedHere DEF Alike
  <2> HIDE DEF D
  <2> QED
    BY <1>0, <2>1, <2>2, <2>3, SameKinds
<1>2. ASSUME NEW p \in DOMAIN S, p # <<>>, p[1] = n PROVE Kinds(U)[p] = Kinds(S)[p]
  <2> DEFINE D == {<<>>} \cup {q \in DOMAIN S : q # <<>> /\ q[1] = n}
  <2>1. D \subseteq DOMAIN S /\ D \subseteq DOMAIN U /\ p \in D
    BY <1>0, <1>2, GluedThere, KindOfRoot
  <2>2. Closed(D)
    <3>1. \A q \in D : IsPath(q)
      BY <1>0, TreesAreClosed, Root DEF Closed
    <3>2. \A q \in D : q # <<>> => Front(q) \in D
      BY GluedThere
    <3> QED
      BY <3>1, <3>2 DEF Closed
  <2>3. ASSUME NEW q \in D, q # <<>>
        PROVE  Inner(Kinds(S)[Front(q)], S, Front(q), Last(q)) = Inner(Kinds(S)[Front(q)], U, Front(q), Last(q))
    <3>0. Front(q) \in D
      BY <2>2, <2>3 DEF Closed
    <3>1. CASE Front(q) # <<>>
      <4>1. Alike(S, U, Front(q))
        BY <3>0, <3>1, GluedThere DEF Alike
      <4> QED
        BY <4>1, InnerAlike
    <3>2. CASE Front(q) = <<>>
      <4>1. Kinds(S)[<<>>].kind = "complex" /\ Kinds(S)[<<>>].type = Entity /\ S[<<>>].node = "object"
            /\ U[<<>>].node = "object"
        BY RootIsHeld DEF Glued
      <4>2. ActualType(Entity, U, <<>>) = ActualType(Entity, S, <<>>)
        <5>1. <<>> \in DOMAIN v
          BY RootIsHeld
        <5>2. \A type : ActualType(type, v, <<>>) = ActualType(type, U, <<>>)
          BY <5>1, GluedHere
        <5> QED
          BY <5>2
      <4> QED
        BY <3>2, <4>1, <4>2 DEF Inner
    <3> QED
      BY <3>1, <3>2
  <2> HIDE DEF D
  <2> QED
    BY <1>0, <2>1, <2>2, <2>3, KindsFollow
<1> QED
  BY <1>1, <1>2

\* A value with a part of another value of its type is a value.
LEMMA GluedFits ==
    ASSUME NEW v, Fits(v), NEW S, Fits(S), NEW U, NEW n, n # "@type", Glued(U, v, S, n),
           ActualType(Entity, v, <<>>) = ActualType(Entity, S, <<>>)
    PROVE  Fits(U)
<1>1. IsTree(U)
  BY GluedIsTree
<1>2. /\ \A p \in DOMAIN v : p = <<>> \/ p[1] # n => Kinds(U)[p] = Kinds(v)[p]
      /\ \A p \in DOMAIN S : p # <<>> /\ p[1] = n => Kinds(U)[p] = Kinds(S)[p]
  BY GluedKinds
<1>3. NamesDerivedTypes(U)
  <2> SUFFICES ASSUME NEW p \in DOMAIN U, Kinds(U)[p].kind = "complex"
               PROVE  Extends(ActualType(Kinds(U)[p].type, U, p), Kinds(U)[p].type)
    BY DEF NamesDerivedTypes
  <2>1. CASE p = <<>> \/ p[1] # n
    <3>1. p \in DOMAIN v /\ Kinds(U)[p] = Kinds(v)[p]
      BY <1>2, <2>1 DEF Glued
    <3>2. Extends(ActualType(Kinds(v)[p].type, v, p), Kinds(v)[p].type)
      BY <3>1 DEF Fits, NamesDerivedTypes
    <3>3. \A type : ActualType(type, v, p) = ActualType(type, U, p)
      BY <2>1, <3>1, GluedHere
    <3> QED
      BY <3>1, <3>2, <3>3
  <2>2. CASE p # <<>> /\ p[1] = n
    <3>1. p \in DOMAIN S /\ Kinds(U)[p] = Kinds(S)[p]
      BY <1>2, <2>2 DEF Glued
    <3>2. Extends(ActualType(Kinds(S)[p].type, S, p), Kinds(S)[p].type)
      BY <3>1 DEF Fits, NamesDerivedTypes
    <3> QED
      BY <2>2, <3>1, <3>2, GluedThere
  <2> QED
    BY <2>1, <2>2
<1>4. ASSUME NEW p \in DOMAIN U
      PROVE  \/ SuitsHeld(Kinds(U)[p], U[p])
             \/ U[p] = Null /\ p # <<>> /\ ~IsItem(U, p) /\ Kinds(U)[p].kind \notin {"annotation", "unread"}
  <2>1. CASE p = <<>> \/ p[1] # n
    <3>1. p \in DOMAIN v /\ Kinds(U)[p] = Kinds(v)[p] /\ U[p] = v[p]
      BY <1>2, <2>1 DEF Glued
    <3>2. IsItem(U, p) <=> IsItem(v, p)
      BY <2>1, <3>1, GluedHere DEF IsItem
    <3>3. Kinds(v)[p].kind # "unread"
      BY <3>1, HeldAt
    <3> QED
      BY <3>1, <3>2, <3>3, HeldAt
  <2>2. CASE p # <<>> /\ p[1] = n
    <3>1. p \in DOMAIN S /\ Kinds(U)[p] = Kinds(S)[p] /\ U[p] = S[p]
      BY <1>2, <2>2 DEF Glued
    <3>2. IsItem(U, p) <=> IsItem(S, p)
      BY <2>2, <3>1, GluedThere DEF IsItem
    <3>3. Kinds(S)[p].kind # "unread"
      BY <3>1, HeldAt
    <3> QED
      BY <3>1, <3>2, <3>3, HeldAt
  <2> QED
    BY <2>1, <2>2
<1> QED
  BY <1>1, <1>3, <1>4 DEF Fits

\* An entity of a type, with nothing but the name of its type.
Stub(type) ==
    [p \in {<<>>, <<"@type">>} |-> IF p = <<>> THEN Complex("complex") ELSE TypeName(type, TRUE)]

\* A stub has its root and the name of its type.
LEMMA StubAt ==
    ASSUME NEW type
    PROVE  /\ DOMAIN Stub(type) = {<<>>, <<"@type">>} /\ Stub(type)[<<>>] = Complex("complex")
           /\ Stub(type)[<<"@type">>] = Name(type) /\ Name(type).type = type
<1>1. <<"@type">> # <<>>
  BY Root
<1>2. Name(type).type = type
  BY DEF Name, TypeName
<1> QED
  BY <1>1, <1>2 DEF Stub, Name

\* A part for the member n.
PartOf(part, n) == n # "@type" /\ \A p \in DOMAIN part : p # <<>> /\ p[1] = n

\* To put a part is to replace all that is below its member.
LEMMA PutAt ==
    ASSUME NEW T, NEW n, NEW part, PartOf(part, n), NEW U, U = Put(T, n, part)
    PROVE  /\ \A p : p = <<>> \/ p[1] # n => (p \in DOMAIN U <=> p \in DOMAIN T) /\ (p \in DOMAIN T => U[p] = T[p])
           /\ \A p : p # <<>> /\ p[1] = n => (p \in DOMAIN U <=> p \in DOMAIN part) /\ (p \in DOMAIN part => U[p] = part[p])
<1>1. DOMAIN U = (DOMAIN T \ Within(T, {n})) \cup DOMAIN part
  BY DEF Put
<1>2. \A p \in DOMAIN U : U[p] = IF p \in DOMAIN part THEN part[p] ELSE T[p]
  BY DEF Put
<1>3. \A p : p \in Within(T, {n}) <=> p \in DOMAIN T /\ p # <<>> /\ p[1] = n
  BY DEF Within
<1>4. \A p : p \in DOMAIN part => p # <<>> /\ p[1] = n
  BY DEF PartOf
<1> QED
  BY <1>1, <1>2, <1>3, <1>4

\* It is to take the member from a stub that has the part.
LEMMA PutGlues ==
    ASSUME NEW v, NEW n, NEW part, PartOf(part, n), NEW type
    PROVE  Glued(Put(v, n, part), v, Put(Stub(type), n, part), n)
<1> SUFFICES ASSUME NEW U, U = Put(v, n, part), NEW S, S = Put(Stub(type), n, part) PROVE Glued(U, v, S, n)
  OBVIOUS
<1>1. /\ \A p : p = <<>> \/ p[1] # n => (p \in DOMAIN U <=> p \in DOMAIN v) /\ (p \in DOMAIN v => U[p] = v[p])
      /\ \A p : p # <<>> /\ p[1] = n => (p \in DOMAIN U <=> p \in DOMAIN part) /\ (p \in DOMAIN part => U[p] = part[p])
  BY PutAt
<1>2. \A p : p # <<>> /\ p[1] = n => (p \in DOMAIN S <=> p \in DOMAIN part) /\ (p \in DOMAIN part => S[p] = part[p])
  BY PutAt
<1> QED
  BY <1>1, <1>2 DEF Glued

\* The type of an entity that has the member n.
LEMMA TypeOfEntity ==
    ASSUME NEW v, Fits(v), NEW n, n # "@type", <<n>> \in DOMAIN v
    PROVE  /\ ActualType(Entity, v, <<>>) \in TypesWith(n)
           /\ Kinds(v)[<<n>>] = Properties[ActualType(Entity, v, <<>>)][n]
<1> DEFINE type == ActualType(Entity, v, <<>>)
<1>1. type \in DOMAIN Properties
  BY PropertiesAssumption, ActualTypeExists
<1>2. Extends(type, Entity)
  BY RootIsHeld DEF Fits, NamesDerivedTypes
<1>3. <<n>> # <<>> /\ Front(<<n>>) = <<>> /\ Last(<<n>>) = n /\ Kinds(v)[<<n>>].kind # "unread"
  BY Root, HeldAt
<1>4. IsTree(v) /\ Kinds(v)[<<>>].kind = "complex" /\ Kinds(v)[<<>>].type = Entity
  BY RootIsHeld DEF Fits
<1>5. n \in DOMAIN Properties[type] /\ Kinds(v)[<<n>>] = Properties[type][n]
  BY <1>3, <1>4, Known
<1> QED
  BY <1>1, <1>2, <1>5 DEF TypesWith

\* The type of a stub is the one it names.
LEMMA TypeOfStub ==
    ASSUME NEW n, NEW part, PartOf(part, n), NEW type \in DOMAIN Properties
    PROVE  ActualType(Entity, Put(Stub(type), n, part), <<>>) = type
<1> SUFFICES ASSUME NEW S, S = Put(Stub(type), n, part) PROVE ActualType(Entity, S, <<>>) = type
  OBVIOUS
<1>1. <<"@type">> # <<>> /\ <<"@type">>[1] = "@type" /\ <<"@type">> = Append(<<>>, "@type")
  BY Root
<1>2. n # "@type" /\ <<"@type">> \in DOMAIN Stub(type) /\ Stub(type)[<<"@type">>].type = type
  BY StubAt DEF PartOf
<1>3. <<"@type">> \in DOMAIN S /\ S[<<"@type">>].type = type
  BY <1>1, <1>2, PutAt
<1> QED
  BY <1>1, <1>3 DEF ActualType

\* A value set to a part that suits it in an entity of its type stays well-formed.
LEMMA PutFits ==
    ASSUME NEW v, Fits(v), NEW n, <<n>> \in DOMAIN v, NEW part, PartOf(part, n),
           Fits(Put(Stub(ActualType(Entity, v, <<>>)), n, part))
    PROVE  Fits(Put(v, n, part))
<1> DEFINE type == ActualType(Entity, v, <<>>)
<1>0. n # "@type"
  BY DEF PartOf
<1>1. type \in DOMAIN Properties
  BY PropertiesAssumption, ActualTypeExists
<1>2. ActualType(Entity, Put(Stub(type), n, part), <<>>) = type
  BY <1>1, TypeOfStub
<1>3. Glued(Put(v, n, part), v, Put(Stub(type), n, part), n)
  BY PutGlues
<1> QED
  BY <1>0, <1>2, <1>3, GluedFits

\* A value the application sets leaves a value.
LEMMA SettingFits ==
    ASSUME NEW v, Fits(v), NEW n \in DOMAIN Settings, <<n>> \in DOMAIN v, NEW part \in Settings[n]
    PROVE  Fits(Put(v, n, part)) /\ PartOf(part, n) /\ <<n>> \in DOMAIN part
<1>1. PartOf(part, n) /\ <<n>> \in DOMAIN part /\ \A type \in TypesWith(n) : Fits(Put(Stub(type), n, part))
  BY SettingsAssumption DEF PartOf, Stub
<1>2. ActualType(Entity, v, <<>>) \in TypesWith(n)
  BY <1>1, TypeOfEntity DEF PartOf
<1> QED
  BY <1>1, <1>2, PutFits

\* A stub with one primitive value of the right kind is a value.
LEMMA StubFits ==
    ASSUME NEW n, n # "@type", NEW type \in TypesWith(n), NEW x, SuitsHeld(Properties[type][n], x),
           Properties[type][n].kind \in {"string", "enum", "number"}
    PROVE  Fits(Put(Stub(type), n, [p \in {<<n>>} |-> x]))
<1> DEFINE part == [p \in {<<n>>} |-> x]
           S == Put(Stub(type), n, part)
           a == <<"@type">>
<1>0. type \in DOMAIN Properties /\ Extends(type, Entity)
  BY DEF TypesWith
<1>1. /\ <<n>> # <<>> /\ <<n>>[1] = n /\ Front(<<n>>) = <<>> /\ Last(<<n>>) = n /\ IsPath(<<n>>)
      /\ a # <<>> /\ a[1] = "@type" /\ Front(a) = <<>> /\ Last(a) = "@type" /\ IsPath(a)
      /\ a = Append(<<>>, "@type") /\ IsPath(<<>>)
  BY Root
<1>2. PartOf(part, n)
  BY <1>1 DEF PartOf
<1>3. /\ \A p : p \in DOMAIN S <=> p \in {<<>>, a, <<n>>}
      /\ S[<<>>] = Complex("complex") /\ S[a] = Name(type) /\ S[<<n>>] = x
  <2>1. /\ \A p : p = <<>> \/ p[1] # n => (p \in DOMAIN S <=> p \in DOMAIN Stub(type))
                                        /\ (p \in DOMAIN Stub(type) => S[p] = Stub(type)[p])
        /\ \A p : p # <<>> /\ p[1] = n => (p \in DOMAIN S <=> p \in DOMAIN part) /\ (p \in DOMAIN part => S[p] = part[p])
    BY <1>2, PutAt
  <2>2. DOMAIN part = {<<n>>} /\ part[<<n>>] = x
    OBVIOUS
  <2> HIDE DEF part, S
  <2>3. DOMAIN Stub(type) = {<<>>, a} /\ Stub(type)[<<>>] = Complex("complex") /\ Stub(type)[a] = Name(type)
    BY StubAt
  <2>4. S[<<>>] = Complex("complex") /\ S[a] = Name(type) /\ S[<<n>>] = x
    BY <1>1, <2>1, <2>2, <2>3
  <2>5. ASSUME NEW p PROVE p \in DOMAIN S <=> p \in {<<>>, a, <<n>>}
    BY <1>1, <2>1, <2>2, <2>3
  <2> QED
    BY <2>4, <2>5
<1> HIDE DEF S
<1>4. S[<<>>].node = "object" /\ \A p \in DOMAIN S : ~IsItem(S, p)
  <2>1. S[<<>>].node = "object"
    BY <1>3, NodesDiffer
  <2>2. \A p \in DOMAIN S : p # <<>> => Front(p) = <<>>
    BY <1>1, <1>3
  <2> QED
    BY <2>1, <2>2 DEF IsItem
<1>5. IsTree(S)
  <2>1. \A p \in DOMAIN S : IsPath(p) /\ (p # <<>> => Front(p) \in DOMAIN S /\ S[Front(p)].node = "object")
    BY <1>1, <1>3, <1>4
  <2>2. <<>> \in DOMAIN S
    BY <1>3
  <2> QED
    BY <1>4, <2>1, <2>2 DEF IsTree, IsPath
<1>6. ActualType(Entity, S, <<>>) = type
  BY <1>0, <1>2, TypeOfStub DEF S
<1>7. /\ Kinds(S)[<<>>].kind = "complex" /\ Kinds(S)[<<>>].type = Entity
      /\ Kinds(S)[a].kind = "annotation" /\ Kinds(S)[<<n>>] = Properties[type][n]
  <2>1. Kinds(S)[<<>>].kind = "complex" /\ Kinds(S)[<<>>].type = Entity
    BY <1>5, KindOfRoot
  <2>2. Kinds(S)[a] = Inner(Kinds(S)[<<>>], S, <<>>, "@type") /\ Kinds(S)[<<n>>] = Inner(Kinds(S)[<<>>], S, <<>>, n)
    BY <1>1, <1>3, <1>5, KindOf
  <2>3. n \in DOMAIN Properties[type]
    BY DEF TypesWith
  <2>4. Kinds(S)[a] = Scalar("annotation")
    BY <1>4, <2>1, <2>2 DEF Inner
  <2>5. Kinds(S)[<<n>>] = Properties[type][n]
    BY <1>4, <1>6, <2>1, <2>2, <2>3 DEF Inner
  <2> QED
    BY <2>1, <2>4, <2>5 DEF Scalar
<1>8. NamesDerivedTypes(S)
  <2>1. \A p \in DOMAIN S : Kinds(S)[p].kind = "complex" => p = <<>>
    BY <1>3, <1>7
  <2> QED
    BY <1>0, <1>6, <1>7, <2>1 DEF NamesDerivedTypes
<1>9. ASSUME NEW p \in DOMAIN S PROVE SuitsHeld(Kinds(S)[p], S[p])
  <2>1. CASE p = <<>>
    BY <1>3, <1>7, <2>1 DEF SuitsHeld
  <2>2. CASE p = a
    <3>1. Name(type) = TypeName(Name(type).type, Name(type).marked)
      BY DEF Name, TypeName
    <3> QED
      BY <1>3, <1>7, <2>2, <3>1 DEF SuitsHeld
  <2>3. CASE p = <<n>>
    BY <1>3, <1>7, <2>3
  <2> QED
    BY <1>3, <2>1, <2>2, <2>3
<1>10. Fits(S)
  BY <1>5, <1>8, <1>9 DEF Fits
<1> QED
  BY <1>10 DEF S

\* A primitive that is set to a text stays one of its type.
LEMMA TextFits ==
    ASSUME NEW v, Fits(v), NEW n \in DOMAIN Texts, <<n>> \in DOMAIN v, v[<<n>>] # Null, NEW t \in Texts[n]
    PROVE  /\ Fits(Put(v, n, [p \in {<<n>>} |-> Primitive(TextKind(v[p]), t)]))
           /\ PartOf([p \in {<<n>>} |-> Primitive(TextKind(v[p]), t)], n)
<1> DEFINE type == ActualType(Entity, v, <<>>)
           k == Properties[type][n]
           x == Primitive(TextKind(v[<<n>>]), t)
<1>1. n # "@type" /\ IsText(t)
  BY TextsAssumption
<1>2. type \in TypesWith(n) /\ Kinds(v)[<<n>>] = k
  BY <1>1, TypeOfEntity
<1>3. k.kind \in {"string", "enum", "number"}
  BY <1>2, TextsAssumption
<1>4. SuitsHeld(k, v[<<n>>])
  BY <1>2, HeldAt
<1>5. SuitsHeld(k, x)
  <2> HIDE DEF k
  <2>1. v[<<n>>].node = "primitive" /\ (k.kind = "enum" => v[<<n>>].kind \in {"string", "enum"})
        /\ (k.kind # "enum" => v[<<n>>].kind = k.kind)
    BY <1>3, <1>4, HeldKind
  <2>2. TextKind(v[<<n>>]) = IF k.kind = "enum" THEN "string" ELSE k.kind
    BY <1>3, <2>1 DEF TextKind
  <2>3. x.kind = TextKind(v[<<n>>]) /\ x.text = t
    BY PrimitiveFields
  <2>4. x = Primitive(x.kind, x.text)
    BY <2>3
  <2> HIDE DEF x
  <2> QED
    BY <1>1, <1>3, <2>2, <2>3, <2>4 DEF SuitsHeld
<1>6. PartOf([p \in {<<n>>} |-> x], n)
  BY <1>1, Root DEF PartOf
<1>7. Fits(Put(Stub(type), n, [p \in {<<n>>} |-> x]))
  <2> HIDE DEF x, type
  <2> QED
    BY <1>1, <1>2, <1>3, <1>5, StubFits
<1>8. Fits(Put(v, n, [p \in {<<n>>} |-> x]))
  BY <1>6, <1>7, PutFits
<1>9. [p \in {<<n>>} |-> Primitive(TextKind(v[p]), t)] = [p \in {<<n>>} |-> x]
  OBVIOUS
<1> QED
  BY <1>6, <1>8, <1>9

-----------------------------------------------------------------------------
(* The service merges an update *)

\* Objects that are merged member by member.
Together(old, new, q) == old[q] = JObject /\ new[q] = JObject /\ SameType(old, new, q)

\* What is above a path does not take its place.
Stays(old, new, q) == q = <<>> \/ Together(old, new, q)

\* What an update leaves of what was there.
Kept(old, new) == {p \in DOMAIN old : \A q \in Prefixes(p) \cap DOMAIN new : Stays(old, new, q)}

\* What an update may be merged with.
Mergeable(old, new) ==
    /\ Conforms(old) /\ old[<<>>] = JObject
    /\ Conforms(new) /\ SameType(old, new, <<>>)
    /\ \A p \in DOMAIN new : Kinds(new)[p].kind # "unread"

\* M is what new makes of old.
IsMerge(M, old, new) ==
    /\ DOMAIN M = Kept(old, new) \cup DOMAIN new
    /\ \A p \in DOMAIN M : M[p] = IF p \in DOMAIN new \ {<<>>} THEN new[p] ELSE old[p]

\* That is what the service stores after a PATCH.
LEMMA MergedAt ==
    ASSUME NEW old, NEW new, NEW M, M = Merge(old, new)
    PROVE  IsMerge(M, old, new)
BY DEF IsMerge, Merge, Kept, Stays, Together

\* What is kept stands below what is kept, and is not replaced.
LEMMA KeptWhere ==
    ASSUME NEW old, IsTree(old), NEW new, NEW p \in DOMAIN old
    PROVE  p \in Kept(old, new) <=>
             /\ p # <<>> => Front(p) \in Kept(old, new)
             /\ p \in DOMAIN new => Stays(old, new, p)
<1>1. IsPath(p) /\ (p # <<>> => Front(p) \in DOMAIN old)
  BY TreesAreClosed DEF Closed
<1>2. CASE p = <<>>
  <2>1. Prefixes(p) = {<<>>}
    BY <1>2, Root
  <2> QED
    BY <1>2, <2>1 DEF Kept
<1>3. CASE p # <<>>
  <2>1. Prefixes(p) = Prefixes(Front(p)) \cup {p}
    BY <1>1, <1>3, PrefixesOfStep
  <2> QED
    BY <1>1, <1>3, <2>1 DEF Kept
<1> QED
  BY <1>2, <1>3

\* The root stays.
LEMMA RootIsKept ==
    ASSUME NEW old, IsTree(old), NEW new
    PROVE  <<>> \in Kept(old, new)
<1>1. <<>> \in DOMAIN old
  BY TreesAreClosed
<1> QED
  BY <1>1, KeptWhere DEF Stays

\* An update has no parts but of objects and arrays.
LEMMA UpdatesParents ==
    ASSUME NEW old, NEW new, Mergeable(old, new), NEW p \in DOMAIN new, p # <<>>
    PROVE  /\ Front(p) \in DOMAIN new
           /\ \/ Kinds(new)[Front(p)].kind = "complex" /\ new[Front(p)] = JObject /\ ~IsItem(new, p)
              \/ Kinds(new)[Front(p)].kind = "collection" /\ new[Front(p)] = JArray /\ IsItem(new, p) /\ Front(p) # <<>>
<1>1. IsTree(new) /\ Kinds(new)[p].kind # "unread"
  BY DEF Mergeable, Conforms
<1>2. Front(p) \in DOMAIN new
  BY <1>1, Known
<1>3. IsJson(new[Front(p)])
  BY <1>2 DEF Mergeable, Conforms
<1>4. /\ new[Front(p)].node = "object" => new[Front(p)] = JObject
      /\ new[Front(p)].node = "array" => new[Front(p)] = JArray
  BY <1>3 DEF IsJson
<1>5. Kinds(new)[Front(p)].kind = "collection" => Front(p) # <<>>
  BY <1>1, KindOfRoot
<1> QED
  BY <1>1, <1>2, <1>4, <1>5, Known

\* A merge of trees is a tree.
LEMMA MergedIsTree ==
    ASSUME NEW old, NEW new, Mergeable(old, new), NEW M, M = Merge(old, new)
    PROVE  IsTree(M)
<1>0. IsTree(old) /\ IsTree(new) /\ old[<<>>] = JObject
  BY DEF Mergeable, Conforms
<1>a. DOMAIN M = Kept(old, new) \cup DOMAIN new
      /\ \A p \in DOMAIN M : M[p] = IF p \in DOMAIN new \ {<<>>} THEN new[p] ELSE old[p]
  <2>1. IsMerge(M, old, new)
    BY MergedAt
  <2> QED
    BY <2>1 DEF IsMerge
<1>b. <<>> \in DOMAIN M
  BY <1>0, <1>a, RootIsKept
<1> SUFFICES ASSUME NEW p \in DOMAIN M
             PROVE  /\ Len(p) \in Nat /\ p = [i \in 1..Len(p) |-> p[i]]
                    /\ p # <<>> => Front(p) \in DOMAIN M /\ M[Front(p)].node \in {"object", "array"}
                    /\ IsItem(M, p) => Last(p) \in Nat \ {0} /\ \A i \in 1..Last(p) : Append(Front(p), i) \in DOMAIN M
  BY <1>b DEF IsTree
<1>1. /\ IsPath(p)
      /\ p \in DOMAIN new /\ p # <<>> => Front(p) \in DOMAIN new
      /\ p \in Kept(old, new) /\ p # <<>> => Front(p) \in Kept(old, new) /\ Front(p) \in DOMAIN old
  <2>1. p \in DOMAIN new => IsPath(p) /\ (p # <<>> => Front(p) \in DOMAIN new)
    BY <1>0, TreesAreClosed DEF Closed
  <2>2. p \in Kept(old, new) => p \in DOMAIN old
    BY DEF Kept
  <2>3. p \in Kept(old, new) => IsPath(p) /\ (p # <<>> => Front(p) \in Kept(old, new) /\ Front(p) \in DOMAIN old)
    BY <1>0, <2>2, TreesAreClosed, KeptWhere DEF Closed
  <2> QED
    BY <1>a, <2>1, <2>3
<1>2. p # <<>> => Front(p) \in DOMAIN M
  BY <1>a, <1>1
<1>c. p # <<>> => M[Front(p)].node \in {"object", "array"}
  <2> SUFFICES ASSUME p # <<>> PROVE M[Front(p)].node \in {"object", "array"}
    OBVIOUS
  <2>1. p \in DOMAIN new => new[Front(p)].node \in {"object", "array"}
    BY <1>0 DEF IsTree
  <2>2. p \in Kept(old, new) => old[Front(p)].node \in {"object", "array"}
    BY <1>0 DEF IsTree, Kept
  <2>3. p \in Kept(old, new) /\ Front(p) \in DOMAIN new => Front(p) = <<>> \/ new[Front(p)] = JObject
    BY <1>0, <1>1, KeptWhere DEF Stays, Together
  <2>4. CASE Front(p) = <<>>
    BY <1>0, <1>a, <1>b, <2>4, NodesDiffer
  <2>5. CASE Front(p) # <<>> /\ p \in DOMAIN new
    BY <1>1, <1>2, <1>a, <2>1, <2>5
  <2>6. CASE Front(p) # <<>> /\ p \notin DOMAIN new
    BY <1>2, <1>a, <2>2, <2>3, <2>6, NodesDiffer
  <2> QED
    BY <2>4, <2>5, <2>6
<1>3. ASSUME IsItem(M, p) PROVE Last(p) \in Nat \ {0} /\ \A i \in 1..Last(p) : Append(Front(p), i) \in DOMAIN M
  <2> DEFINE q == Front(p)
  <2>1. p # <<>> /\ q \in DOMAIN M /\ M[q].node = "array" /\ IsPath(q)
    BY <1>1, <1>2, <1>3, LastStep DEF IsItem
  <2>2. q # <<>>
    BY <1>0, <1>a, <1>b, <2>1, NodesDiffer
  <2>3. CASE q \in DOMAIN new
    <3>1. new[q].node = "array"
      BY <1>a, <2>1, <2>2, <2>3
    <3>2. p \in DOMAIN new
      <4>1. ASSUME p \in Kept(old, new) PROVE FALSE
        <5>1. q \in Kept(old, new) /\ q \in DOMAIN old
          BY <1>1, <2>1, <4>1
        <5>2. Together(old, new, q)
          BY <1>0, <2>2, <2>3, <5>1, KeptWhere DEF Stays
        <5> QED
          BY <3>1, <5>2, NodesDiffer DEF Together
      <4> QED
        BY <1>a, <4>1
    <3>3. IsItem(new, p)
      BY <2>1, <3>1 DEF IsItem
    <3>4. Last(p) \in Nat \ {0} /\ \A i \in 1..Last(p) : Append(Front(p), i) \in DOMAIN new
      BY <1>0, <3>2, <3>3 DEF IsTree
    <3> QED
      BY <1>a, <3>4
  <2>4. CASE q \notin DOMAIN new
    <3>1. p \in Kept(old, new) /\ q \in Kept(old, new) /\ p \in DOMAIN old
      BY <1>a, <1>1, <2>1, <2>4 DEF Kept
    <3>2. IsItem(old, p)
      BY <1>a, <2>1, <2>4 DEF IsItem
    <3>3. Last(p) \in Nat \ {0} /\ \A i \in 1..Last(p) : Append(q, i) \in DOMAIN old
      BY <1>0, <3>1, <3>2 DEF IsTree
    <3>4. ASSUME NEW i \in 1..Last(p) PROVE Append(q, i) \in Kept(old, new)
      <4>1. Append(q, i) \in DOMAIN old /\ Append(q, i) # <<>> /\ Front(Append(q, i)) = q
        BY <2>1, <3>3, StepDown
      <4>2. Append(q, i) \notin DOMAIN new
        BY <1>0, <2>4, <4>1, TreesAreClosed DEF Closed
      <4> QED
        BY <1>0, <3>1, <4>1, <4>2, KeptWhere
    <3> QED
      BY <1>a, <3>3, <3>4
  <2> QED
    BY <2>3, <2>4
<1> QED
  BY <1>1, <1>2, <1>3, <1>c DEF IsPath

\* What is kept has its type in the merged tree.
LEMMA TypeIsKept ==
    ASSUME NEW old, NEW new, Mergeable(old, new), NEW M, M = Merge(old, new), NEW q \in Kept(old, new)
    PROVE  M[q] = old[q] /\ \A type : ActualType(type, old, q) = ActualType(type, M, q)
<1> DEFINE t == Append(q, "@type")
<1>0. IsTree(old) /\ IsTree(new)
  BY DEF Mergeable, Conforms
<1>a. DOMAIN M = Kept(old, new) \cup DOMAIN new
      /\ \A p \in DOMAIN M : M[p] = IF p \in DOMAIN new \ {<<>>} THEN new[p] ELSE old[p]
  <2>1. IsMerge(M, old, new)
    BY MergedAt
  <2> QED
    BY <2>1 DEF IsMerge
<1>b. q \in DOMAIN old /\ IsPath(q) /\ (q \in DOMAIN new => q = <<>> \/ Together(old, new, q))
  <2>1. q \in DOMAIN old
    BY DEF Kept
  <2>2. IsPath(q)
    BY <1>0, <2>1, TreesAreClosed DEF Closed
  <2>3. q \in DOMAIN new => Stays(old, new, q)
    BY <1>0, <2>1, KeptWhere
  <2> QED
    BY <2>1, <2>2, <2>3 DEF Stays
<1>1. M[q] = old[q]
  BY <1>a, <1>b DEF Together
<1>2. t # <<>> /\ Front(t) = q
  BY <1>b, StepDown
<1>3. ASSUME t \in DOMAIN new PROVE t \in DOMAIN old /\ new[t] = old[t]
  <2>1. q \in DOMAIN new
    BY <1>0, <1>2, <1>3, TreesAreClosed DEF Closed
  <2>2. SameType(old, new, q)
    BY <1>b, <2>1 DEF Together, Mergeable
  <2> QED
    BY <1>3, <2>2 DEF SameType
<1>4. t \in DOMAIN M <=> t \in DOMAIN old
  <2>1. t \in Kept(old, new) => t \in DOMAIN old
    BY DEF Kept
  <2>2. t \in DOMAIN old /\ t \notin DOMAIN new => t \in Kept(old, new)
    BY <1>0, <1>2, KeptWhere
  <2> QED
    BY <1>a, <1>3, <2>1, <2>2
<1>5. t \in DOMAIN M => M[t] = old[t]
  BY <1>a, <1>3
<1> QED
  BY <1>1, <1>4, <1>5 DEF ActualType

\* The type of what an update has a part of, in the merged tree.
LEMMA TypeIsMerged ==
    ASSUME NEW old, NEW new, Mergeable(old, new), NEW M, M = Merge(old, new), NEW q \in DOMAIN new, NEW type,
           q \in Kept(old, new) => Extends(ActualType(type, old, q), type)
    PROVE  \/ ActualType(type, M, q) = ActualType(type, new, q)
           \/ ActualType(type, new, q) = type /\ Extends(ActualType(type, M, q), type)
<1> DEFINE t == Append(q, "@type")
<1>0. IsTree(old) /\ IsTree(new)
  BY DEF Mergeable, Conforms
<1>a. DOMAIN M = Kept(old, new) \cup DOMAIN new
      /\ \A p \in DOMAIN M : M[p] = IF p \in DOMAIN new \ {<<>>} THEN new[p] ELSE old[p]
  <2>1. IsMerge(M, old, new)
    BY MergedAt
  <2> QED
    BY <2>1 DEF IsMerge
<1>1. IsPath(q)
  BY <1>0, TreesAreClosed DEF Closed
<1>2. t # <<>> /\ Front(t) = q
  BY <1>1, StepDown
<1>3. CASE t \in DOMAIN new
  <2>1. t \in DOMAIN M /\ M[t] = new[t]
    BY <1>a, <1>2, <1>3
  <2> QED
    BY <1>3, <2>1 DEF ActualType
<1>4. CASE t \notin DOMAIN new /\ t \in DOMAIN M
  <2>1. t \in Kept(old, new) /\ t \in DOMAIN old
    BY <1>a, <1>4 DEF Kept
  <2>2. q \in Kept(old, new)
    BY <1>0, <1>2, <2>1, KeptWhere
  <2>3. ActualType(type, M, q) = ActualType(type, old, q)
    BY <2>2, TypeIsKept
  <2>4. ActualType(type, new, q) = type
    BY <1>4 DEF ActualType
  <2> QED
    BY <2>2, <2>3, <2>4
<1>5. CASE t \notin DOMAIN new /\ t \notin DOMAIN M
  BY <1>5 DEF ActualType
<1> QED
  BY <1>3, <1>4, <1>5

\* The kinds of a merged tree are those of the trees it is made of.
MergedAsWas(old, new, M, p) ==
    /\ p \in Kept(old, new) => Kinds(M)[p] = Kinds(old)[p]
    /\ p \in DOMAIN new => Kinds(M)[p] = Kinds(new)[p]

\* What comes from either tree has the kind it had there.
LEMMA MergedKinds ==
    ASSUME NEW old, NEW new, Mergeable(old, new), NEW M, M = Merge(old, new), NEW p \in DOMAIN M
    PROVE  MergedAsWas(old, new, M, p)
<1> DEFINE Bad == {q \in DOMAIN M : ~MergedAsWas(old, new, M, q)}
<1> SUFFICES ASSUME Bad # {} PROVE FALSE
  OBVIOUS
<1>0. IsTree(old) /\ IsTree(new) /\ IsTree(M) /\ old[<<>>] = JObject
  BY MergedIsTree DEF Mergeable, Conforms
<1>a. DOMAIN M = Kept(old, new) \cup DOMAIN new
      /\ \A x \in DOMAIN M : M[x] = IF x \in DOMAIN new \ {<<>>} THEN new[x] ELSE old[x]
  <2>1. IsMerge(M, old, new)
    BY MergedAt
  <2> QED
    BY <2>1 DEF IsMerge
<1>1. PICK x \in Bad : x # <<>> => Front(x) \in DOMAIN M \ Bad
  <2>1. Closed(DOMAIN M) /\ Bad \subseteq DOMAIN M
    BY <1>0, TreesAreClosed
  <2> HIDE DEF Bad
  <2> QED
    BY <2>1, Shortest
<1>2. x # <<>>
  <2>1. Kinds(M)[<<>>] = ComplexOf(Entity) /\ Kinds(old)[<<>>] = ComplexOf(Entity) /\ Kinds(new)[<<>>] = ComplexOf(Entity)
    BY <1>0, KindOfRoot
  <2>2. MergedAsWas(old, new, M, <<>>)
    BY <2>1 DEF MergedAsWas
  <2> QED
    BY <2>2
<1> DEFINE q == Front(x)
           k == Kinds(M)[q]
<1>3. Kinds(M)[x] = Inner(k, M, q, Last(x)) /\ MergedAsWas(old, new, M, q) /\ q \in DOMAIN M
  BY <1>0, <1>1, <1>2, KindOf
<1>4. x \in Kept(old, new) => Kinds(M)[x] = Kinds(old)[x]
  <2> SUFFICES ASSUME x \in Kept(old, new) PROVE Kinds(M)[x] = Kinds(old)[x]
    OBVIOUS
  <2>1. x \in DOMAIN old /\ q \in Kept(old, new)
    <3>1. x \in DOMAIN old
      BY DEF Kept
    <3> QED
      BY <1>0, <1>2, <3>1, KeptWhere
  <2>2. Kinds(old)[x] = Inner(Kinds(old)[q], old, q, Last(x)) /\ Kinds(old)[q] = k
    BY <1>0, <1>2, <1>3, <2>1, KindOf DEF MergedAsWas
  <2>3. Alike(old, M, q)
    BY <2>1, TypeIsKept DEF Alike
  <2>4. Inner(k, old, q, Last(x)) = Inner(k, M, q, Last(x))
    <3> HIDE DEF k, q
    <3> QED
      BY <2>3, InnerAlike
  <2> QED
    BY <1>3, <2>2, <2>4
<1>5. x \in DOMAIN new => Kinds(M)[x] = Kinds(new)[x]
  <2> SUFFICES ASSUME x \in DOMAIN new PROVE Kinds(M)[x] = Kinds(new)[x]
    OBVIOUS
  <2>1. q \in DOMAIN new /\ Kinds(new)[q] = k
    <3>1. q \in DOMAIN new
      BY <1>2, UpdatesParents
    <3> QED
      BY <1>3, <3>1 DEF MergedAsWas
  <2>2. M[q] = new[q]
    <3>1. CASE q # <<>>
      BY <1>a, <2>1, <3>1
    <3>2. CASE q = <<>>
      <4>1. new[<<>>] = JObject
        BY <1>2, <3>2, UpdatesParents
      <4> QED
        BY <1>0, <1>a, <1>3, <3>2, <4>1
    <3> QED
      BY <3>1, <3>2
  <2>3. Kinds(new)[x] = Inner(k, new, q, Last(x)) /\ Kinds(new)[x].kind # "unread"
    BY <1>0, <1>2, <2>1, KindOf DEF Mergeable
  <2>4. CASE k.kind = "complex" /\ new[q].node = "object"
    <3>1. q \in Kept(old, new) => Extends(ActualType(k.type, old, q), k.type)
      <4>1. q \in Kept(old, new) => q \in DOMAIN old /\ Kinds(old)[q] = k
        BY <1>3 DEF MergedAsWas, Kept
      <4> QED
        BY <2>4, <4>1 DEF Mergeable, Conforms, NamesDerivedTypes
    <3>2. \/ ActualType(k.type, M, q) = ActualType(k.type, new, q)
          \/ ActualType(k.type, new, q) = k.type /\ Extends(ActualType(k.type, M, q), k.type)
      <4> HIDE DEF q, k
      <4> QED
        BY <2>1, <3>1, TypeIsMerged
    <3>3. CASE ActualType(k.type, M, q) = ActualType(k.type, new, q)
      BY <1>3, <2>2, <2>3, <2>4, <3>3 DEF Inner
    <3>4. CASE ActualType(k.type, new, q) = k.type /\ Extends(ActualType(k.type, M, q), k.type)
      <4>1. CASE Last(x) = "@type"
        BY <1>3, <2>2, <2>3, <2>4, <4>1 DEF Inner
      <4>2. CASE Last(x) # "@type"
        <5>1. Last(x) \in DOMAIN Properties[k.type]
          <6>1. Last(x) \notin DOMAIN Properties[k.type] => Kinds(new)[x] = Scalar("unread")
            BY <2>3, <2>4, <3>4, <4>2 DEF Inner
          <6>2. Scalar("unread").kind = "unread"
            BY DEF Scalar
          <6> QED
            BY <2>3, <6>1, <6>2
        <5>2. Kinds(new)[x] = Properties[k.type][Last(x)]
          BY <2>3, <2>4, <3>4, <4>2, <5>1 DEF Inner
        <5>3. /\ Last(x) \in DOMAIN Properties[ActualType(k.type, M, q)]
              /\ Properties[ActualType(k.type, M, q)][Last(x)] = Properties[k.type][Last(x)]
          BY <3>4, <5>1 DEF Extends
        <5>4. Kinds(M)[x] = Properties[ActualType(k.type, M, q)][Last(x)]
          BY <1>3, <2>2, <2>4, <4>2, <5>3 DEF Inner
        <5> QED
          BY <5>2, <5>3, <5>4
      <4> QED
        BY <4>1, <4>2
    <3> QED
      BY <3>2, <3>3, <3>4
  <2>5. CASE ~(k.kind = "complex" /\ new[q].node = "object")
    <3>1. Inner(k, M, q, Last(x)) = Inner(k, new, q, Last(x))
      BY <2>2, <2>5 DEF Inner
    <3> QED
      BY <1>3, <2>3, <3>1
  <2> QED
    BY <2>4, <2>5
<1>6. MergedAsWas(old, new, M, x)
  BY <1>4, <1>5 DEF MergedAsWas
<1> QED
  BY <1>6

\* A merge of entities is an entity.
LEMMA MergedConforms ==
    ASSUME NEW old, NEW new, Mergeable(old, new), NEW M, M = Merge(old, new)
    PROVE  Conforms(M) /\ M[<<>>] = JObject
<1>0. IsTree(old) /\ IsTree(new) /\ IsTree(M) /\ old[<<>>] = JObject /\ Conforms(old) /\ Conforms(new)
  BY MergedIsTree DEF Mergeable, Conforms
<1>a. DOMAIN M = Kept(old, new) \cup DOMAIN new
      /\ \A x \in DOMAIN M : M[x] = IF x \in DOMAIN new \ {<<>>} THEN new[x] ELSE old[x]
  <2>1. IsMerge(M, old, new)
    BY MergedAt
  <2> QED
    BY <2>1 DEF IsMerge
<1>b. <<>> \in Kept(old, new) /\ Kept(old, new) \subseteq DOMAIN old
  BY <1>0, RootIsKept DEF Kept
<1>1. NamesDerivedTypes(M)
  <2> SUFFICES ASSUME NEW p \in DOMAIN M, Kinds(M)[p].kind = "complex"
               PROVE  Extends(ActualType(Kinds(M)[p].type, M, p), Kinds(M)[p].type)
    BY DEF NamesDerivedTypes
  <2>0. MergedAsWas(old, new, M, p)
    BY MergedKinds
  <2> DEFINE type == Kinds(M)[p].type
  <2>1. p \in Kept(old, new) => Extends(ActualType(type, old, p), type)
    <3>1. p \in Kept(old, new) => Kinds(old)[p] = Kinds(M)[p] /\ p \in DOMAIN old
      BY <1>b, <2>0 DEF MergedAsWas
    <3> QED
      BY <1>0, <3>1 DEF Conforms, NamesDerivedTypes
  <2>2. CASE p \in DOMAIN new
    <3>1. Extends(ActualType(type, new, p), type)
      <4>1. Kinds(new)[p] = Kinds(M)[p]
        BY <2>0, <2>2 DEF MergedAsWas
      <4> QED
        BY <1>0, <2>2, <4>1 DEF Conforms, NamesDerivedTypes
    <3> HIDE DEF type
    <3>2. \/ ActualType(type, M, p) = ActualType(type, new, p)
          \/ ActualType(type, new, p) = type /\ Extends(ActualType(type, M, p), type)
      BY <2>1, <2>2, TypeIsMerged
    <3>3. Extends(ActualType(type, M, p), type)
      BY <3>1, <3>2
    <3> QED
      BY <3>3 DEF type
  <2>3. CASE p \notin DOMAIN new
    <3>1. p \in Kept(old, new)
      BY <1>a, <2>3
    <3>2. ActualType(type, M, p) = ActualType(type, old, p)
      BY <3>1, TypeIsKept
    <3> QED
      BY <2>1, <3>1, <3>2
  <2> QED
    BY <2>2, <2>3
<1>2. ASSUME NEW p \in DOMAIN M PROVE IsJson(M[p]) /\ Suits(Kinds(M)[p], M[p])
  <2>0. MergedAsWas(old, new, M, p)
    BY MergedKinds
  <2>1. CASE p \in DOMAIN new \ {<<>>}
    <3>1. M[p] = new[p] /\ Kinds(M)[p] = Kinds(new)[p]
      BY <1>a, <2>0, <2>1 DEF MergedAsWas
    <3> QED
      BY <1>0, <2>1, <3>1 DEF Conforms
  <2>2. CASE p \notin DOMAIN new \ {<<>>}
    <3>1. p \in Kept(old, new) /\ M[p] = old[p]
      BY <1>a, <1>b, <2>2
    <3>2. Kinds(M)[p] = Kinds(old)[p] /\ p \in DOMAIN old
      BY <1>b, <2>0, <3>1 DEF MergedAsWas
    <3> QED
      BY <1>0, <3>1, <3>2 DEF Conforms
  <2> QED
    BY <2>1, <2>2
<1>3. M[<<>>] = JObject
  BY <1>0, <1>a, <1>b
<1> QED
  BY <1>0, <1>1, <1>2, <1>3 DEF Conforms

-----------------------------------------------------------------------------
(* The service replaces the entity *)

\* A path of one step.
LEMMA ShortPath ==
    ASSUME NEW p, IsPath(p), p # <<>>
    PROVE  /\ Len(p) <= 1 <=> Front(p) = <<>>
           /\ Front(p) = <<>> => p = <<p[1]>> /\ Last(p) = p[1]
<1>1. IsPath(Front(p)) /\ Len(Front(p)) = Len(p) - 1 /\ Len(p) > 0 /\ p = Append(Front(p), Last(p)) /\ Len(p) \in Nat
  BY LastStep DEF IsPath
<1>2. Front(p) # <<>> => Len(Front(p)) > 0
  BY <1>1, LastStep
<1>3. Front(p) = <<>> => Len(Front(p)) = 0
  BY Root
<1>4. Front(p) = <<>> => p = <<Last(p)>>
  BY <1>1, Root
<1>5. \A n : <<n>>[1] = n
  BY Root
<1>6. Front(p) = <<>> => Last(p) = p[1]
  BY <1>4, <1>5
<1> QED
  BY <1>1, <1>2, <1>3, <1>4, <1>6

\* The entity with null for its properties.
Blank(old) ==
    [p \in {p \in DOMAIN old : Len(p) <= 1} |-> IF p \in {<<>>, <<"@type">>} THEN old[p] ELSE JNull]

\* A blank has the members of the entity, and its type.
LEMMA BlankAt ==
    ASSUME NEW old, IsTree(old), NEW B, B = Blank(old)
    PROVE  /\ <<>> \in DOMAIN B /\ B[<<>>] = old[<<>>]
           /\ DOMAIN B \subseteq DOMAIN old
           /\ \A p \in DOMAIN B : IsPath(p) /\ (p # <<>> => Front(p) = <<>> /\ p = <<p[1]>> /\ Last(p) = p[1])
           /\ \A n : <<n>> \in DOMAIN B <=> <<n>> \in DOMAIN old
           /\ \A n : <<n>> \in DOMAIN B => B[<<n>>] = IF n = "@type" THEN old[<<n>>] ELSE JNull
<1>1. DOMAIN B = {p \in DOMAIN old : Len(p) <= 1}
      /\ \A p \in DOMAIN B : B[p] = IF p \in {<<>>, <<"@type">>} THEN old[p] ELSE JNull
  BY DEF Blank
<1>2. <<>> \in DOMAIN B /\ B[<<>>] = old[<<>>]
  BY <1>1, TreesAreClosed, Root
<1>3. \A p \in DOMAIN B : IsPath(p)
  BY <1>1, TreesAreClosed DEF Closed
<1>4. ASSUME NEW p \in DOMAIN B, p # <<>> PROVE Front(p) = <<>> /\ p = <<p[1]>> /\ Last(p) = p[1]
  BY <1>1, <1>3, <1>4, ShortPath
<1>5. \A n : <<n>> # <<>> /\ Len(<<n>>) <= 1 /\ <<n>>[1] = n
  BY Root
<1>6. ASSUME NEW n PROVE <<n>> \in DOMAIN B <=> <<n>> \in DOMAIN old
  BY <1>1, <1>5
<1>7. ASSUME NEW n, <<n>> \in DOMAIN B PROVE B[<<n>>] = IF n = "@type" THEN old[<<n>>] ELSE JNull
  <2>1. <<n>> \in {<<>>, <<"@type">>} <=> n = "@type"
    BY <1>5
  <2> QED
    BY <1>1, <1>7, <2>1
<1> QED
  BY <1>1, <1>2, <1>3, <1>4, <1>6, <1>7

\* It is an entity.
LEMMA BlankConforms ==
    ASSUME NEW old, Conforms(old), old[<<>>] = JObject, NEW B, B = Blank(old)
    PROVE  Conforms(B) /\ B[<<>>] = JObject
<1>0. IsTree(old)
  BY DEF Conforms
<1>1. /\ <<>> \in DOMAIN B /\ B[<<>>] = old[<<>>] /\ B[<<>>] = JObject /\ B[<<>>].node = "object"
      /\ DOMAIN B \subseteq DOMAIN old
      /\ \A p \in DOMAIN B : IsPath(p) /\ (p # <<>> => Front(p) = <<>> /\ p = <<p[1]>> /\ Last(p) = p[1])
  BY <1>0, BlankAt, NodesDiffer
<1>a. \A n : <<n>> \in DOMAIN B <=> <<n>> \in DOMAIN old
  BY <1>0, BlankAt
<1>b. \A n : <<n>> \in DOMAIN B => B[<<n>>] = IF n = "@type" THEN old[<<n>>] ELSE JNull
  BY <1>0, BlankAt
<1>2. \A p \in DOMAIN B : ~IsItem(B, p)
  BY <1>1 DEF IsItem
<1>3. IsTree(B)
  BY <1>1, <1>2 DEF IsTree, IsPath
<1>4. \A type : ActualType(type, old, <<>>) = ActualType(type, B, <<>>)
  <2>1. Append(<<>>, "@type") = <<"@type">>
    BY Root
  <2> QED
    BY <1>a, <1>b, <2>1 DEF ActualType
<1>5. ASSUME NEW p \in DOMAIN B PROVE Kinds(old)[p] = Kinds(B)[p]
  <2>1. Alike(old, B, <<>>)
    BY <1>1, <1>4 DEF Alike
  <2>2. \A q \in DOMAIN B : q # <<>> => Alike(old, B, Front(q))
    BY <1>1, <2>1
  <2>3. Closed(DOMAIN B)
    BY <1>3, TreesAreClosed
  <2> QED
    BY <1>0, <1>1, <1>3, <2>2, <2>3, SameKinds
<1>6. NamesDerivedTypes(B)
  <2> SUFFICES ASSUME NEW p \in DOMAIN B, Kinds(B)[p].kind = "complex"
               PROVE  Extends(ActualType(Kinds(B)[p].type, B, p), Kinds(B)[p].type)
    BY DEF NamesDerivedTypes
  <2>1. CASE p = <<>>
    <3>1. Kinds(old)[<<>>] = Kinds(B)[<<>>]
      BY <1>1, <1>5
    <3>2. Extends(ActualType(Kinds(old)[<<>>].type, old, <<>>), Kinds(old)[<<>>].type)
      BY <1>1, <2>1, <3>1 DEF Conforms, NamesDerivedTypes
    <3> QED
      BY <1>4, <2>1, <3>1, <3>2
  <2>2. CASE p # <<>>
    <3>1. Append(p, "@type") \notin DOMAIN B
      <4>1. Front(Append(p, "@type")) = p /\ Append(p, "@type") # <<>>
        BY <1>1, StepDown
      <4> QED
        BY <1>1, <2>2, <4>1
    <3>2. ActualType(Kinds(B)[p].type, B, p) = Kinds(B)[p].type
      BY <3>1 DEF ActualType
    <3>3. Extends(Kinds(B)[p].type, Kinds(B)[p].type)
      BY DEF Extends
    <3> QED
      BY <3>2, <3>3
  <2> QED
    BY <2>1, <2>2
<1>7. ASSUME NEW p \in DOMAIN B PROVE IsJson(B[p]) /\ Suits(Kinds(B)[p], B[p])
  <2>1. Kinds(B)[p] = Kinds(old)[p] /\ p \in DOMAIN old
    BY <1>1, <1>5
  <2>2. CASE B[p] = old[p]
    BY <2>1, <2>2 DEF Conforms
  <2>3. CASE B[p] # old[p]
    <3>1. p # <<>> /\ Last(p) # "@type" /\ B[p] = JNull
      BY <1>1, <1>b, <2>3
    <3>2. Kinds(old)[p].kind # "annotation"
      <4>1. CASE Kinds(old)[p].kind = "unread"
        BY <4>1
      <4>2. CASE Kinds(old)[p].kind # "unread"
        <5>1. Kinds(old)[Front(p)].kind = "complex"
          BY <1>0, <1>1, <3>1, KindOfRoot
        <5> QED
          BY <1>0, <2>1, <3>1, <4>2, <5>1, Known
      <4> QED
        BY <4>1, <4>2
    <3>3. \A k : k.kind # "annotation" => Suits(k, JNull)
      BY NodesDiffer DEF Suits
    <3>4. IsJson(JNull)
      BY NodesDiffer DEF IsJson
    <3> QED
      BY <2>1, <3>1, <3>2, <3>3, <3>4
  <2> QED
    BY <2>2, <2>3
<1> QED
  BY <1>1, <1>3, <1>6, <1>7 DEF Conforms

\* To replace an entity is to merge with one that has null for its properties.
LEMMA ReplaceIsMerge ==
    ASSUME NEW old, IsTree(old), NEW new, IsTree(new), \A p \in DOMAIN new : p # <<>> => <<p[1]>> \in DOMAIN old,
           old[<<>>] = JObject
    PROVE  Replace(old, new) = Merge(Blank(old), new)
<1> SUFFICES ASSUME NEW B, B = Blank(old), NEW M, M = Merge(B, new), NEW R, R = Replace(old, new) PROVE R = M
  OBVIOUS
<1> DEFINE names == {n \in {p[1] : p \in DOMAIN new \ {<<>>}} : <<n>> \in DOMAIN old}
           value(p) == IF p \in DOMAIN new \ {<<>>} THEN new[p]
                       ELSE IF p \in {<<>>, <<"@type">>} THEN old[p] ELSE JNull
<1>1. Within(new, names) = DOMAIN new \ {<<>>}
  BY DEF Within
<1>2. R = [p \in {p \in DOMAIN old : Len(p) <= 1} \cup (DOMAIN new \ {<<>>}) |-> value(p)]
  <2> DEFINE D == {p \in DOMAIN old : Len(p) <= 1} \cup Within(new, names)
             f(p) == CASE p \in Within(new, names) -> new[p]
                       [] p \in {<<>>, <<"@type">>} \ Within(new, names) -> old[p]
                       [] OTHER -> JNull
  <2>1. R = [p \in D |-> f(p)]
    BY DEF Replace
  <2>2. \A p \in D : f(p) = value(p)
    BY <1>1
  <2>3. D = {p \in DOMAIN old : Len(p) <= 1} \cup (DOMAIN new \ {<<>>})
    BY <1>1
  <2> HIDE DEF D, f, value
  <2>4. [p \in D |-> f(p)] = [p \in D |-> value(p)]
    BY <2>2
  <2> QED
    BY <2>1, <2>3, <2>4
<1>3. IsMerge(M, B, new) /\ M = [p \in DOMAIN M |-> M[p]]
  BY MergedAt DEF Merge
<1>4. DOMAIN B = {p \in DOMAIN old : Len(p) <= 1}
      /\ \A p \in DOMAIN B : B[p] = IF p \in {<<>>, <<"@type">>} THEN old[p] ELSE JNull
  BY DEF Blank
<1>5. /\ <<>> \in DOMAIN B
      /\ \A p \in DOMAIN B : p # <<>> => Front(p) = <<>>
  BY BlankAt
<1>6. IsTree(B)
  <2>1. \A p \in DOMAIN B : ~IsItem(B, p)
    BY <1>4, <1>5, NodesDiffer DEF IsItem
  <2>2. \A p \in DOMAIN B : IsPath(p)
    BY <1>4, TreesAreClosed DEF Closed
  <2>3. \A p \in DOMAIN B : p # <<>> => B[Front(p)].node = "object"
    BY <1>4, <1>5, NodesDiffer
  <2> QED
    BY <1>5, <2>1, <2>2, <2>3 DEF IsTree, IsPath
<1>7. DOMAIN M = DOMAIN B \cup DOMAIN new
  <2>1. Kept(B, new) \subseteq DOMAIN B
    BY DEF Kept
  <2>2. ASSUME NEW p \in DOMAIN B, p \notin DOMAIN new PROVE p \in Kept(B, new)
    <3>1. p # <<>> => Front(p) \in Kept(B, new)
      BY <1>5, <1>6, RootIsKept
    <3> QED
      BY <1>6, <2>2, <3>1, KeptWhere
  <2> QED
    BY <1>3, <2>1, <2>2 DEF IsMerge
<1>8. <<>> \in DOMAIN new
  BY TreesAreClosed
<1>9. DOMAIN M = {p \in DOMAIN old : Len(p) <= 1} \cup (DOMAIN new \ {<<>>})
  BY <1>4, <1>5, <1>7, <1>8
<1>10. \A p \in DOMAIN M : M[p] = value(p)
  <2>1. \A p \in DOMAIN M : M[p] = IF p \in DOMAIN new \ {<<>>} THEN new[p] ELSE B[p]
    BY <1>3 DEF IsMerge
  <2> QED
    BY <1>4, <1>5, <1>7, <2>1
<1> HIDE DEF value
<1> QED
  BY <1>2, <1>3, <1>9, <1>10

-----------------------------------------------------------------------------
(* What a client holds *)

\* v is what was read of x, but for the properties in E.
Faithful(v, x, E) ==
    /\ \A p : p = <<>> \/ p[1] \notin E =>
          (p \in DOMAIN v <=> p \in DOMAIN ReadEntity(x)) /\ (p \in DOMAIN v => v[p] = ReadEntity(x)[p])
    /\ \A n : <<n>> \in DOMAIN v <=> <<n>> \in DOMAIN ReadEntity(x)

\* v is what a client holds that read x and has set the properties E since: an
\* entity that can be read, and as read but for the properties set.
HeldOf(v, x, E) ==
    /\ Conforms(x) /\ x[<<>>] = JObject /\ ~CannotRead(x)
    /\ Fits(v) /\ "@type" \notin E /\ Faithful(v, x, E)

\* The paths above a path, but for the root, begin with its first step.
LEMMA PrefixFirst ==
    ASSUME NEW p, IsPath(p), NEW q \in Prefixes(p), q # <<>>
    PROVE  p # <<>> /\ q[1] = p[1] /\ IsPath(q)
<1>1. p # <<>>
  BY Root
<1>2. PICK S : p \in Seq(S) /\ 0 \in S
  BY PathIsSequence
<1>3. PICK n \in 0 .. Len(p) : q = SubSeq(p, 1, n)
  BY DEF Prefixes
<1>4. q \in Seq(S) /\ Len(q) = n /\ \A i \in 1 .. n : q[i] = p[i]
  BY <1>2, <1>3, Beginning
<1>5. IsPath(q) /\ Len(p) \in Nat
  BY <1>2, <1>4, SequenceIsPath
<1>6. Len(q) > 0
  BY <1>5, LastStep
<1>7. 1 \in 1 .. n
  BY <1>4, <1>5, <1>6
<1> QED
  BY <1>1, <1>4, <1>5, <1>7

\* What is held outside E has the kind it had in JSON.
LEMMA HeldKinds ==
    ASSUME NEW v, NEW x, NEW E, HeldOf(v, x, E), NEW p \in DOMAIN v, p = <<>> \/ p[1] \notin E
    PROVE  p \in DOMAIN x /\ Kinds(v)[p] = Kinds(x)[p] /\ p \in DOMAIN ReadEntity(x) /\ v[p] = ReadEntity(x)[p]
<1> DEFINE R == ReadEntity(x)
<1>0. IsTree(x) /\ IsTree(v) /\ IsTree(R)
  BY ReadIsTree DEF HeldOf, Conforms, Fits
<1>1. \A q : q = <<>> \/ q[1] \notin E => (q \in DOMAIN v <=> q \in DOMAIN R) /\ (q \in DOMAIN v => v[q] = R[q])
  BY DEF HeldOf, Faithful
<1> DEFINE D == {q \in DOMAIN v : q = <<>> \/ q[1] \notin E}
<1>2. D \subseteq DOMAIN v /\ D \subseteq DOMAIN R /\ p \in D
  BY <1>1
<1>3. \A q \in D : IsPath(q)
  BY <1>0, TreesAreClosed DEF Closed
<1>4. Closed(D)
  <2>1. ASSUME NEW q \in D, q # <<>> PROVE Front(q) \in D
    <3>1. Front(q) \in DOMAIN v
      BY <1>0, <2>1, TreesAreClosed DEF Closed
    <3>2. Front(q) = <<>> \/ Front(q)[1] = q[1]
      BY <1>3, <2>1, FirstStep
    <3> QED
      BY <2>1, <3>1, <3>2
  <2> QED
    BY <1>3, <2>1 DEF Closed
<1>5. ASSUME NEW q \in D, q # <<>> PROVE Alike(R, v, Front(q))
  <2>1. Front(q) \in D
    BY <1>4, <1>5 DEF Closed
  <2>2. v[Front(q)] = R[Front(q)]
    BY <1>1, <2>1
  <2>3. Append(Front(q), "@type")[1] \notin E
    <3>1. Append(Front(q), "@type")[1] = IF Front(q) = <<>> THEN "@type" ELSE Front(q)[1]
      BY <1>3, <2>1, FirstStep
    <3>2. "@type" \notin E
      BY DEF HeldOf
    <3> QED
      BY <2>1, <3>1, <3>2
  <2>4. \A type : ActualType(type, R, Front(q)) = ActualType(type, v, Front(q))
    <3> HIDE DEF R
    <3> QED
      BY <1>1, <2>3 DEF ActualType
  <2> QED
    BY <2>2, <2>4 DEF Alike
<1>6. Kinds(R)[p] = Kinds(v)[p]
  <2> HIDE DEF D, R
  <2> QED
    BY <1>0, <1>2, <1>4, <1>5, SameKinds
<1>7. Kinds(R)[p] = Kinds(x)[p] /\ p \in DOMAIN x
  BY <1>0, <1>2, ReadKinds, ReadAt
<1> QED
  BY <1>1, <1>2, <1>6, <1>7

\* What the reader knows and the application has not set is held as it was read.
LEMMA KnownIsHeld ==
    ASSUME NEW v, NEW x, NEW E, HeldOf(v, x, E), NEW p \in DOMAIN x, p = <<>> \/ p[1] \notin E, Kinds(x)[p].kind # "unread"
    PROVE  /\ p \in DOMAIN v /\ Kinds(v)[p] = Kinds(x)[p] /\ p \in DOMAIN ReadEntity(x)
           /\ v[p] = IF IsItem(x, p) THEN ReadElement(Kinds(x)[p], x[p]) ELSE ReadMember(Kinds(x)[p], x[p])
           /\ IsItem(v, p) <=> IsItem(x, p)
<1>1. p \in DOMAIN ReadEntity(x)
  BY ReadAt
<1>2. p \in DOMAIN v
  BY <1>1 DEF HeldOf, Faithful
<1>3. Kinds(v)[p] = Kinds(x)[p] /\ v[p] = ReadEntity(x)[p]
  BY <1>2, HeldKinds
<1>4. v[p] = IF IsItem(x, p) THEN ReadElement(Kinds(x)[p], x[p]) ELSE ReadMember(Kinds(x)[p], x[p])
  BY <1>1, <1>3, ReadAt
<1>5. IsItem(v, p) <=> IsItem(x, p)
  <2>1. CASE p = <<>>
    BY <2>1 DEF IsItem
  <2>2. CASE p # <<>>
    <3>0. IsTree(x) /\ IsTree(v)
      BY DEF HeldOf, Conforms, Fits
    <3>1. Front(p) \in DOMAIN v /\ IsPath(p)
      BY <1>2, <2>2, <3>0, TreesAreClosed DEF Closed
    <3>2. Front(p) = <<>> \/ Front(p)[1] \notin E
      BY <2>2, <3>1, FirstStep
    <3>3. v[Front(p)] = ReadEntity(x)[Front(p)]
      BY <3>1, <3>2, HeldKinds
    <3>4. IsItem(v, p) <=> IsItem(ReadEntity(x), p)
      BY <3>3 DEF IsItem
    <3> QED
      BY <1>1, <2>2, <3>0, <3>4, ParentIsRead
  <2> QED
    BY <2>1, <2>2
<1> QED
  BY <1>1, <1>2, <1>3, <1>4, <1>5

\* What has a known type, and stands below nothing else, is written.
LEMMA KnownIsWritten ==
    ASSUME NEW v, NEW x, NEW E, HeldOf(v, x, E), NEW p \in DOMAIN x, p = <<>> \/ p[1] \notin E,
           \A q \in Prefixes(p) : Kinds(x)[q].kind \notin {"unread", "unknown"}
    PROVE  p \in DOMAIN Written(v)
<1>0. IsTree(x) /\ Fits(v)
  BY DEF HeldOf, Conforms
<1>1. Closed(DOMAIN x) /\ IsPath(p) /\ Prefixes(p) \subseteq DOMAIN x /\ p \in Prefixes(p)
  BY <1>0, TreesAreClosed, PrefixesInside, OwnPrefix DEF Closed
<1>2. ASSUME NEW q \in Prefixes(p) PROVE Serializable(WrittenAs(v, q)) /\ q \in DOMAIN v
  <2>1. q = <<>> \/ q[1] \notin E
    BY <1>1, PrefixFirst
  <2>2. q \in DOMAIN v /\ Kinds(v)[q] = Kinds(x)[q]
    BY <1>1, <2>1, KnownIsHeld
  <2> QED
    BY <1>0, <2>2, WrittenAsKind DEF Serializable
<1> QED
  BY <1>1, <1>2, WrittenAt

\* Text that was read parses to what it was.
LEMMA QuotedStripped ==
    ASSUME NEW t, IsText(t)
    PROVE  Quoted(Stripped(JText(t))) = JText(t)
<1>1. JText(t).node = "text" /\ JText(t).content = t
  BY NodesDiffer
<1>2. CASE t.text = Special
  <2>1. Stripped(JText(t)) = Text(Special, t.escapes + 1)
    BY <1>1, <1>2 DEF Stripped
  <2> DEFINE u == Text(Special, t.escapes + 1)
  <2>2. u.text = Special /\ u.escapes > 0 /\ u.escapes - 1 = t.escapes
    BY Texting DEF IsText
  <2>3. Quoted(u) = JText(Text(Special, t.escapes))
    <3> HIDE DEF u
    <3> QED
      BY <2>2 DEF Quoted
  <2> QED
    BY <1>2, <2>1, <2>3 DEF IsText
<1>3. CASE t.text # Special
  <2>1. Stripped(JText(t)) = t
    BY <1>1, <1>3 DEF Stripped
  <2> QED
    BY <1>3, <2>1 DEF Quoted
<1> QED
  BY <1>2, <1>3

\* Text between quotation marks is read as the text it was.
LEMMA StrippedQuoted ==
    ASSUME NEW t, IsText(t), Quoted(t) # Malformed
    PROVE  Stripped(Quoted(t)) = t
<1>1. CASE t.text # Special
  <2>1. Quoted(t) = JText(t)
    BY <1>1 DEF Quoted
  <2> QED
    BY <1>1, <2>1, NodesDiffer DEF Stripped
<1>2. CASE t.text = Special /\ t.escapes > 0
  <2>1. Quoted(t) = JText(Text(Special, t.escapes - 1))
    BY <1>2 DEF Quoted
  <2>2. t.escapes - 1 + 1 = t.escapes
    BY DEF IsText
  <2>3. Stripped(JText(Text(Special, t.escapes - 1))) = Text(Special, t.escapes - 1 + 1)
    BY NodesDiffer, Texting DEF Stripped
  <2> QED
    BY <1>2, <2>1, <2>2, <2>3 DEF IsText
<1>3. CASE t.text = Special /\ ~(t.escapes > 0)
  BY <1>3 DEF Quoted
<1> QED
  BY <1>1, <1>2, <1>3

\* So are null, numerals and infinity.
LEMMA StrippedNumber ==
           /\ Stripped(JNull) = Plain("null") /\ Literal(Plain("null")) = JNull
           /\ \A n \in Numerals : Stripped(JNumber(Plain(n))) = Plain(n) /\ Literal(Plain(n)) = JNumber(Plain(n))
           /\ Stripped(JText(Infinity)) = Infinity
<1>1. Stripped(JNull) = Plain("null")
  BY NodesDiffer DEF Stripped
<1>2. Literal(Plain("null")) = JNull
  BY PlainIsText DEF Literal, Numerals
<1>3. ASSUME NEW n \in Numerals
      PROVE  Stripped(JNumber(Plain(n))) = Plain(n) /\ Literal(Plain(n)) = JNumber(Plain(n))
  <2>1. Stripped(JNumber(Plain(n))) = Plain(n)
    BY NodesDiffer DEF Stripped
  <2> DEFINE u == Plain(n)
  <2>2. u.text \in Numerals
    BY PlainIsText
  <2>3. Literal(u) = JNumber(u)
    <3> HIDE DEF u
    <3> QED
      BY <2>2 DEF Literal, Numerals
  <2> QED
    BY <2>1, <2>3
<1>4. Stripped(JText(Infinity)) = Infinity
  BY NodesDiffer, PlainIsText DEF Stripped, Infinity, Special
<1> QED
  BY <1>1, <1>2, <1>3, <1>4

\* The fields of the name of a type, with its #.
LEMMA NameFields ==
    ASSUME NEW type
    PROVE  Name(type).node = "type" /\ Name(type).type = type /\ Name(type).marked = TRUE /\ Name(type) # Null
<1>1. Name(type).node = "type" /\ Name(type).type = type /\ Name(type).marked = TRUE
  BY DEF Name, TypeName
<1> QED
  BY <1>1, NodesDiffer

\* What is held at p, by what was read there: what it is written as.
LEMMA NodeRoundTrip ==
    ASSUME NEW v, NEW x, NEW E, HeldOf(v, x, E), NEW p \in DOMAIN x, p # <<>>, p[1] \notin E,
           NEW W, W = Written(v), p \in DOMAIN W, Kinds(x)[p].kind \notin {"unread", "unknown"},
           ~(IsItem(x, p) /\ x[p] = JNull),
           x[p] = JObject => \E y \in DOMAIN x : y # <<>> /\ Front(y) = p /\ Kinds(x)[y].kind # "unread"
    PROVE  W[p] = x[p] \/ (W[p] = Malformed /\ x[p] = JText(Infinity))
<1> DEFINE k == Kinds(x)[p]
           j == x[p]
<1>0. Fits(v) /\ Conforms(x)
  BY DEF HeldOf
<1>1. /\ p \in DOMAIN v /\ Kinds(v)[p] = k
      /\ v[p] = IF IsItem(x, p) THEN ReadElement(k, j) ELSE ReadMember(k, j)
      /\ IsItem(v, p) <=> IsItem(x, p)
  BY KnownIsHeld
<1>2. IsJson(j) /\ Suits(k, j) /\ IsKind(k) /\ k.kind \notin {"unread", "unknown"}
  BY <1>0, KindsAreKinds DEF Conforms
<1>3. IsItem(x, p) => IsSimple(k)
  BY <1>0, Known DEF Conforms
<1>4. \/ v[p] = Null /\ W[p] = JNull
      \/ /\ v[p] # Null /\ SuitsHeld(k, v[p]) /\ k.kind # "unknown"
         /\ k.kind \in {"string", "enum"} => W[p] = Quoted(v[p].text)
         /\ k.kind = "number" => W[p] = Literal(v[p].text)
         /\ k.kind = "complex" => W[p] = (IF IsBare(v, p) THEN JNull ELSE JObject)
         /\ k.kind = "collection" => W[p] = JArray
         /\ k.kind = "annotation" => W[p] = JType(v[p].type, v[p].marked)
  BY <1>0, <1>1, WrittenNode
<1>5. j = JObject => ~IsBare(v, p)
  <2> SUFFICES ASSUME j = JObject PROVE ~IsBare(v, p)
    OBVIOUS
  <2>1. PICK y \in DOMAIN x : y # <<>> /\ Front(y) = p /\ Kinds(x)[y].kind # "unread"
    OBVIOUS
  <2>2. IsPath(y)
    BY <1>0, TreesAreClosed DEF Closed, Conforms
  <2>3. y[1] = p[1]
    BY <2>1, <2>2, FirstStep
  <2>4. y \in DOMAIN v
    BY <2>1, <2>3, KnownIsHeld
  <2> QED
    BY <2>1, <2>4 DEF IsBare
<1> HIDE DEF k, j
<1>6. CASE k.kind = "annotation"
  <2>1. ~IsItem(x, p)
    BY <1>3, <1>6 DEF IsSimple
  <2>2. v[p] = Name(j.type) /\ v[p] # Null
    <3>1. v[p] = Name(j.type)
      BY <1>1, <1>6, <2>1 DEF ReadMember, Name
    <3> QED
      BY <3>1, NameFields
  <2>3. W[p] = JType(v[p].type, v[p].marked)
    BY <1>4, <1>6, <2>2
  <2>4. v[p].type = j.type /\ v[p].marked = TRUE
    BY <2>2, NameFields
  <2>5. j = JType(j.type, j.marked) /\ j.marked = TRUE
    BY <1>2, <1>6 DEF Suits, IsJson
  <2> QED
    BY <2>3, <2>4, <2>5 DEF j
<1>7. CASE k.kind # "annotation" /\ j.node = "null"
  <2>1. j = JNull
    BY <1>2, <1>7 DEF IsJson
  <2>2. ~IsItem(x, p)
    BY <2>1 DEF j
  <2>3. v[p] = Null
    BY <1>1, <1>7, <2>2 DEF ReadMember
  <2>4. W[p] = JNull
    BY <1>4, <2>3
  <2> QED
    BY <2>1, <2>4 DEF j
<1>8. CASE k.kind \in {"string", "enum"} /\ j.node # "null"
  <2>1. j = JText(j.content) /\ IsText(j.content) /\ j.node = "text"
    BY <1>2, <1>8 DEF Suits, IsJson
  <2>2. v[p] = Primitive(k.kind, Stripped(j))
    BY <1>1, <1>8, <2>1 DEF ReadElement, ReadMember
  <2>3. v[p] # Null /\ v[p].text = Stripped(j)
    BY <2>2, NodesDiffer, PrimitiveFields
  <2>4. W[p] = Quoted(Stripped(j))
    BY <1>4, <1>8, <2>3
  <2>5. Quoted(Stripped(JText(j.content))) = JText(j.content)
    BY <2>1, QuotedStripped
  <2> QED
    BY <2>1, <2>4, <2>5 DEF j
<1>9. CASE k.kind = "number" /\ j.node # "null"
  <2>1. v[p] = Primitive("number", Stripped(j))
    <3>1. j.node \in {"text", "number"}
      BY <1>2, <1>9, NodesDiffer DEF Suits
    <3> QED
      BY <1>1, <1>9, <3>1 DEF ReadElement, ReadMember
  <2>2. v[p] # Null /\ v[p].text = Stripped(j)
    BY <2>1, NodesDiffer, PrimitiveFields
  <2>3. W[p] = Literal(Stripped(j))
    BY <1>4, <1>9, <2>2
  <2>4. CASE j = JText(Infinity)
    <3>1. Stripped(j) = Infinity
      BY <2>4, StrippedNumber
    <3>2. Infinity.text = "INF"
      BY PlainIsText DEF Infinity
    <3>3. Literal(Infinity) = Malformed
      BY <3>2 DEF Literal, Numerals
    <3> QED
      BY <2>3, <2>4, <3>1, <3>3 DEF j
  <2>5. CASE \E n \in Numerals : j = JNumber(Plain(n))
    BY <2>3, <2>5, StrippedNumber DEF j
  <2>6. j # JNull
    BY <1>9, NodesDiffer
  <2> QED
    BY <1>2, <1>9, <2>4, <2>5, <2>6 DEF Suits
<1>10. CASE k.kind = "complex" /\ j.node # "null"
  <2>1. j = JObject /\ j.node = "object"
    BY <1>2, <1>10 DEF Suits, IsJson
  <2>2. v[p] = Complex("complex")
    BY <1>1, <1>10, <2>1 DEF ReadElement, ReadMember
  <2>3. v[p] # Null
    BY <2>2, NodesDiffer
  <2>4. W[p] = JObject
    BY <1>4, <1>5, <1>10, <2>1, <2>3
  <2> QED
    BY <2>1, <2>4 DEF j
<1>11. CASE k.kind = "collection" /\ j.node # "null"
  <2>1. j = JArray /\ j.node = "array"
    BY <1>2, <1>11 DEF Suits, IsJson
  <2>2. ~IsItem(x, p)
    BY <1>3, <1>11 DEF IsSimple
  <2>3. v[p] = Collection
    BY <1>1, <1>11, <2>1, <2>2 DEF ReadMember
  <2>4. W[p] = JArray
    BY <1>4, <1>11, <2>3, NodesDiffer
  <2> QED
    BY <2>1, <2>4 DEF j
<1>12. k.kind \in {"string", "enum", "number", "complex", "collection", "annotation"}
  BY <1>2 DEF IsKind, IsSimple
<1> QED
  BY <1>6, <1>7, <1>8, <1>9, <1>10, <1>11, <1>12

\* What a client can send back as it was is sent as it was.
LEMMA RoundTrip ==
    ASSUME NEW v, NEW x, NEW E, HeldOf(v, x, E), NEW p \in DOMAIN x, p # <<>>, p[1] \notin E, ~Lost(x, p),
           NEW W, W = Written(v)
    PROVE  p \in DOMAIN W /\ (W[p] = x[p] \/ (W[p] = Malformed /\ x[p] = JText(Infinity)))
<1>0. IsTree(x) /\ IsPath(p)
  BY TreesAreClosed DEF HeldOf, Conforms, Closed
<1>1. p \in Prefixes(p)
  BY <1>0, OwnPrefix
<1>2. \A q \in Prefixes(p) :
          /\ Kinds(x)[q].kind \notin {"unread", "unknown"}
          /\ ~(IsItem(x, q) /\ x[q] = JNull)
          /\ x[q] = JObject => \E y \in DOMAIN x : y # <<>> /\ Front(y) = q /\ Kinds(x)[y].kind # "unread"
  BY DEF Lost
<1>3. p \in DOMAIN W
  BY <1>2, KnownIsWritten
<1> QED
  BY <1>1, <1>2, <1>3, NodeRoundTrip

\* Two entities with the same members, and of the same type.
RootAlike(x, y) ==
    /\ \A n : <<n>> \in DOMAIN x <=> <<n>> \in DOMAIN y
    /\ <<"@type">> \in DOMAIN x => x[<<"@type">>] = y[<<"@type">>]

\* The name of the entity's type is sent as it was.
LEMMA RootTypeIsSent ==
    ASSUME NEW v, NEW x, NEW E, HeldOf(v, x, E), NEW W, W = Written(v)
    PROVE  /\ <<"@type">> \in DOMAIN W <=> <<"@type">> \in DOMAIN x
           /\ <<"@type">> \in DOMAIN W => W[<<"@type">>] = x[<<"@type">>]
<1> DEFINE t == <<"@type">>
<1>0. IsTree(x) /\ Fits(v) /\ "@type" \notin E /\ x[<<>>] = JObject
  BY DEF HeldOf, Conforms
<1>1. t # <<>> /\ t[1] = "@type" /\ Front(t) = <<>> /\ t = Append(<<>>, "@type") /\ IsPath(t)
  BY Root
<1>2. t \in DOMAIN W => t \in DOMAIN x
  BY <1>0, <1>1, HeldKinds, WrittenAt
<1>3. ASSUME t \in DOMAIN x PROVE t \in DOMAIN W /\ W[t] = x[t]
  <2>1. Kinds(x)[<<>>].kind = "complex" /\ x[<<>>].node = "object" /\ <<>> \in DOMAIN x
    BY <1>0, KindOfRoot, NodesDiffer
  <2>2. Kinds(x)[t].kind = "annotation" /\ ~IsItem(x, t)
    <3>1. Kinds(x)[Append(<<>>, "@type")].kind = "annotation" /\ ~IsItem(x, Append(<<>>, "@type"))
      BY <1>0, <1>1, <1>3, <2>1, AnnotationIsKnown
    <3> QED
      BY <1>1, <3>1
  <2>3. Prefixes(t) = {<<>>, t}
    <3>1. Prefixes(t) = Prefixes(Front(t)) \cup {t}
      BY <1>1, PrefixesOfStep
    <3> QED
      BY <1>1, <3>1, Root
  <2>4. t \in DOMAIN W
    BY <1>0, <1>1, <1>3, <2>1, <2>2, <2>3, KnownIsWritten
  <2>5. Suits(Kinds(x)[t], x[t])
    BY <1>3 DEF HeldOf, Conforms
  <2>6. x[t].node = "type"
    BY <2>2, <2>5 DEF Suits
  <2>7. x[t] # JObject /\ x[t] # JText(Infinity)
    BY <2>6, NodesDiffer
  <2>8. W[t] = x[t] \/ (W[t] = Malformed /\ x[t] = JText(Infinity))
    <3> HIDE DEF t
    <3> QED
      BY <1>0, <1>1, <1>3, <2>2, <2>4, <2>7, NodeRoundTrip
  <2> QED
    BY <2>4, <2>7, <2>8
<1> QED
  BY <1>2, <1>3

-----------------------------------------------------------------------------
(* An update is served *)

\* All types a client writes are understood.
LEMMA AllUnderstood ==
    ASSUME NEW v, Fits(v), AllMarked(v), NEW W, W = Written(v), Parses(W)
    PROVE  Understood(W) = W
<1>1. ASSUME NEW p \in DOMAIN W, W[p].node = "type" PROVE W[p].marked
  <2> DEFINE k == Kinds(v)[p]
  <2>1. p \in DOMAIN v
    BY WrittenAt
  <2>2. Suits(k, W[p])
    BY WrittenSuits
  <2>3. W[p] # JNull
    BY <1>1, NodesDiffer
  <2>4. k.kind # "unknown" /\ k.kind # "unread" /\ IsKind(k)
    BY <2>1, <2>3, WrittenNode, HeldAt
  <2> HIDE DEF k
  <2> QED
    BY <1>1, <2>2, <2>4, NodesDiffer DEF Suits, IsKind, IsSimple
<1>2. W = [p \in DOMAIN W |-> W[p]]
  BY DEF Written
<1>3. Understood(W) = [p \in {p \in DOMAIN W : W[p].node = "type" => W[p].marked} |-> W[p]]
  BY DEF Understood, Restrict
<1>4. {p \in DOMAIN W : W[p].node = "type" => W[p].marked} = DOMAIN W
  BY <1>1
<1> QED
  BY <1>2, <1>3, <1>4

\* What an update is merged with.
Base(method, old) == IF method = "PATCH" THEN old ELSE Blank(old)

\* What a client holds has the members of the entity it read.
LEMMA MembersAreSent ==
    ASSUME NEW v, NEW x, NEW E, HeldOf(v, x, E), NEW W, W = Written(v), NEW p \in DOMAIN W, p # <<>>
    PROVE  <<p[1]>> \in DOMAIN W /\ <<p[1]>> \in DOMAIN x
<1> DEFINE a == <<p[1]>>
<1>0. IsTree(W) /\ IsTree(x)
  BY WrittenIsTree DEF HeldOf, Conforms
<1>1. IsPath(p) /\ Prefixes(p) \subseteq DOMAIN W
  BY <1>0, TreesAreClosed, PrefixesInside DEF Closed
<1>2. a \in Prefixes(p)
  <2>1. PICK S : p \in Seq(S) /\ p[1] \in S
    BY <1>1, PathIsSequence
  <2>2. Len(p) \in Nat /\ Len(p) > 0
    BY <1>1, LastStep DEF IsPath
  <2>3. 1 \in 0 .. Len(p)
    BY <2>2
  <2>4. SubSeq(p, 1, 1) \in Seq(S) /\ Len(SubSeq(p, 1, 1)) = 1 /\ \A i \in 1 .. 1 : SubSeq(p, 1, 1)[i] = p[i]
    BY <2>1, <2>3, Beginning
  <2>5. a \in Seq(S) /\ Len(a) = 1 /\ a[1] = p[1]
    BY <2>1
  <2>6. a = SubSeq(p, 1, 1)
    BY <2>4, <2>5, SeqEqual
  <2> QED
    BY <2>3, <2>6 DEF Prefixes
<1>3. a \in DOMAIN W
  BY <1>1, <1>2
<1>4. a \in DOMAIN v
  BY <1>3, WrittenAt
<1>5. a \in DOMAIN ReadEntity(x)
  BY <1>4 DEF HeldOf, Faithful
<1>6. a \in DOMAIN x
  BY <1>5, ReadAt
<1> QED
  BY <1>3, <1>6

\* An update can be merged with what it meets.
LEMMA UpdateIsMergeable ==
    ASSUME NEW v, NEW x, NEW E, HeldOf(v, x, E), AllMarked(v), NEW W, W = Written(v), Parses(W),
           NEW old, Conforms(old), old[<<>>] = JObject, RootAlike(x, old), NEW method, NEW B, B = Base(method, old)
    PROVE  /\ Mergeable(B, W) /\ B[<<>>] = JObject
           /\ \A n : <<n>> \in DOMAIN B <=> <<n>> \in DOMAIN old
           /\ <<"@type">> \in DOMAIN B => B[<<"@type">>] = old[<<"@type">>]
<1>0. Fits(v) /\ IsTree(old)
  BY DEF HeldOf, Conforms
<1>1. Conforms(B) /\ B[<<>>] = JObject
  BY BlankConforms DEF Base
<1>2. /\ \A n : <<n>> \in DOMAIN B <=> <<n>> \in DOMAIN old
      /\ <<"@type">> \in DOMAIN B => B[<<"@type">>] = old[<<"@type">>]
  <2>1. CASE method = "PATCH"
    BY <2>1 DEF Base
  <2>2. CASE method # "PATCH"
    <3>1. B = Blank(old)
      BY <2>2 DEF Base
    <3> QED
      BY <1>0, <3>1, BlankAt
  <2> QED
    BY <2>1, <2>2
<1>3. Conforms(W)
  BY <1>0, WrittenConforms
<1>4. SameType(B, W, <<>>)
  <2>1. Append(<<>>, "@type") = <<"@type">>
    BY Root
  <2>2. <<"@type">> \in DOMAIN W => <<"@type">> \in DOMAIN x /\ W[<<"@type">>] = x[<<"@type">>]
    BY RootTypeIsSent
  <2>3. <<"@type">> \in DOMAIN W => <<"@type">> \in DOMAIN B /\ B[<<"@type">>] = W[<<"@type">>]
    BY <1>2, <2>2 DEF RootAlike
  <2> QED
    BY <2>1, <2>3 DEF SameType
<1>5. \A p \in DOMAIN W : Kinds(W)[p].kind # "unread"
  <2> SUFFICES ASSUME NEW p \in DOMAIN W PROVE Kinds(W)[p].kind # "unread"
    OBVIOUS
  <2>1. p \in DOMAIN v /\ Kinds(W)[p] = Kinds(v)[p]
    BY <1>0, WrittenKinds, WrittenAt
  <2> QED
    BY <1>0, <2>1, HeldAt
<1> QED
  BY <1>1, <1>2, <1>3, <1>4, <1>5 DEF Mergeable

\* The service merges an update with what it holds, or with null.
LEMMA UpdateMerges ==
    ASSUME NEW v, NEW x, NEW E, HeldOf(v, x, E), AllMarked(v), NEW W, W = Written(v), Parses(W),
           NEW old, Conforms(old), old[<<>>] = JObject, RootAlike(x, old), NEW method
    PROVE  Apply(method, old, Understood(W)) = Merge(Base(method, old), W)
<1>0. Fits(v) /\ IsTree(old)
  BY DEF HeldOf, Conforms
<1>1. Understood(W) = W
  BY <1>0, AllUnderstood
<1>2. CASE method = "PATCH"
  BY <1>1, <1>2 DEF Apply, Base
<1>3. CASE method # "PATCH"
  <2>1. \A p \in DOMAIN W : p # <<>> => <<p[1]>> \in DOMAIN old
    BY MembersAreSent DEF RootAlike
  <2>2. Replace(old, W) = Merge(Blank(old), W)
    BY <1>0, <2>1, WrittenIsTree, ReplaceIsMerge
  <2> QED
    BY <1>1, <1>3, <2>2 DEF Apply, Base
<1> QED
  BY <1>2, <1>3

\* What the service holds after an update is as its type says, and has the
\* members and the type it had.
LEMMA ServedConforms ==
    ASSUME NEW v, NEW x, NEW E, HeldOf(v, x, E), AllMarked(v), NEW W, W = Written(v), Parses(W),
           NEW old, Conforms(old), old[<<>>] = JObject, RootAlike(x, old), NEW method,
           NEW M, M = Apply(method, old, Understood(W))
    PROVE  Conforms(M) /\ M[<<>>] = JObject /\ RootAlike(old, M)
<1> DEFINE B == Base(method, old)
<1>1. M = Merge(B, W)
  BY UpdateMerges
<1>2. /\ Mergeable(B, W) /\ B[<<>>] = JObject
      /\ \A n : <<n>> \in DOMAIN B <=> <<n>> \in DOMAIN old
      /\ <<"@type">> \in DOMAIN B => B[<<"@type">>] = old[<<"@type">>]
  BY UpdateIsMergeable
<1>3. Conforms(M) /\ M[<<>>] = JObject
  BY <1>1, <1>2, MergedConforms
<1> HIDE DEF B
<1>4. DOMAIN M = Kept(B, W) \cup DOMAIN W
      /\ \A p \in DOMAIN M : M[p] = IF p \in DOMAIN W \ {<<>>} THEN W[p] ELSE B[p]
  <2>1. IsMerge(M, B, W)
    BY <1>1, MergedAt
  <2> QED
    BY <2>1 DEF IsMerge
<1>5. IsTree(B)
  BY <1>2 DEF Mergeable, Conforms
<1>6. \A n : <<n>> # <<>> /\ Front(<<n>>) = <<>> /\ <<n>>[1] = n
  BY Root
<1>7. ASSUME NEW n PROVE <<n>> \in DOMAIN M <=> <<n>> \in DOMAIN old
  <2>1. <<n>> \in DOMAIN W => <<n>> \in DOMAIN old
    <3> SUFFICES ASSUME <<n>> \in DOMAIN W PROVE <<n>> \in DOMAIN old
      OBVIOUS
    <3>1. <<(<<n>>[1])>> \in DOMAIN x
      BY <1>6, MembersAreSent
    <3> QED
      BY <1>6, <3>1 DEF RootAlike
  <2>2. <<n>> \in Kept(B, W) => <<n>> \in DOMAIN old
    BY <1>2 DEF Kept
  <2>3. <<n>> \in DOMAIN old /\ <<n>> \notin DOMAIN W => <<n>> \in Kept(B, W)
    <3>1. <<>> \in Kept(B, W)
      BY <1>5, RootIsKept
    <3> QED
      BY <1>2, <1>5, <1>6, <3>1, KeptWhere
  <2> QED
    BY <1>4, <2>1, <2>2, <2>3
<1>8. ASSUME <<"@type">> \in DOMAIN old PROVE old[<<"@type">>] = M[<<"@type">>]
  <2>1. <<"@type">> \in DOMAIN W => W[<<"@type">>] = old[<<"@type">>]
    BY RootTypeIsSent DEF RootAlike
  <2>2. <<"@type">> \in DOMAIN M
    BY <1>7, <1>8
  <2> QED
    BY <1>2, <1>4, <1>6, <1>8, <2>1, <2>2
<1> QED
  BY <1>3, <1>7, <1>8 DEF RootAlike

\* What is sent is in the merged tree.
LEMMA SentIsMerged ==
    ASSUME NEW B, NEW W, Mergeable(B, W), B[<<>>] = JObject, NEW M, M = Merge(B, W), NEW p \in DOMAIN W
    PROVE  /\ p \in DOMAIN M /\ M[p] = (IF p = <<>> THEN JObject ELSE W[p]) /\ Kinds(M)[p] = Kinds(W)[p]
           /\ IsItem(M, p) <=> IsItem(W, p)
           /\ W[p] = JArray => \A q \in DOMAIN M : q # <<>> /\ Front(q) = p => q \in DOMAIN W
<1>0. IsTree(B) /\ IsTree(W)
  BY DEF Mergeable, Conforms
<1>a. DOMAIN M = Kept(B, W) \cup DOMAIN W
      /\ \A x \in DOMAIN M : M[x] = IF x \in DOMAIN W \ {<<>>} THEN W[x] ELSE B[x]
  <2>1. IsMerge(M, B, W)
    BY MergedAt
  <2> QED
    BY <2>1 DEF IsMerge
<1>1. p \in DOMAIN M /\ M[p] = (IF p = <<>> THEN JObject ELSE W[p])
  BY <1>a
<1>2. Kinds(M)[p] = Kinds(W)[p]
  BY <1>1, MergedKinds DEF MergedAsWas
<1>3. IsItem(M, p) <=> IsItem(W, p)
  <2>1. CASE p = <<>>
    BY <2>1 DEF IsItem
  <2>2. CASE p # <<>>
    <3>1. Front(p) \in DOMAIN W /\ (W[Front(p)] = JObject \/ (W[Front(p)] = JArray /\ Front(p) # <<>>))
      BY <2>2, UpdatesParents
    <3>2. M[Front(p)] = IF Front(p) = <<>> THEN JObject ELSE W[Front(p)]
      BY <1>a, <3>1
    <3>3. M[Front(p)] = W[Front(p)]
      BY <3>1, <3>2
    <3> QED
      BY <3>3 DEF IsItem
  <2> QED
    BY <2>1, <2>2
<1>4. ASSUME W[p] = JArray, NEW q \in DOMAIN M, q # <<>>, Front(q) = p PROVE q \in DOMAIN W
  <2>1. ASSUME q \in Kept(B, W) PROVE FALSE
    <3>1. q \in DOMAIN B /\ p \in Kept(B, W)
      <4>1. q \in DOMAIN B
        BY <2>1 DEF Kept
      <4> QED
        BY <1>0, <1>4, <2>1, <4>1, KeptWhere
    <3>2. p \in DOMAIN B /\ Stays(B, W, p)
      <4>1. p \in DOMAIN B
        BY <3>1 DEF Kept
      <4> QED
        BY <1>0, <3>1, <4>1, KeptWhere
    <3>3. p # <<>>
      <4>1. Suits(Kinds(W)[p], W[p])
        BY DEF Mergeable, Conforms
      <4>2. p = <<>> => Kinds(W)[p].kind = "complex"
        BY <1>0, KindOfRoot
      <4> QED
        BY <1>4, <4>1, <4>2, NodesDiffer DEF Suits
    <3> QED
      BY <1>4, <3>2, <3>3, NodesDiffer DEF Stays, Together
  <2> QED
    BY <1>a, <2>1
<1> QED
  BY <1>1, <1>2, <1>3, <1>4

\* What a client has sent reads back as what it held.
LEMMA SentReadsBack ==
    ASSUME NEW v, Fits(v), AllMarked(v), NEW W, W = Written(v), Parses(W),
           NEW B, Mergeable(B, W), B[<<>>] = JObject, NEW M, M = Merge(B, W), NEW p \in DOMAIN v
    PROVE  Agree(v, ReadEntity(M), p)
<1> SUFFICES ASSUME ~\E q \in Prefixes(p) : v[q].kind = "unknown", NEW R, R = ReadEntity(M)
             PROVE  Agree(v, R, p)
  BY DEF Agree
<1>0. IsTree(v) /\ IsPath(p) /\ Closed(DOMAIN v)
  BY TreesAreClosed DEF Fits, Closed
<1>1. p \in DOMAIN W
  <2>1. Prefixes(p) \subseteq DOMAIN v
    BY <1>0, PrefixesInside
  <2>2. ASSUME NEW q \in Prefixes(p) PROVE Serializable(WrittenAs(v, q))
    <3>1. q \in DOMAIN v /\ v[q].kind # "unknown"
      BY <2>1
    <3>2. v[q] # Null => SuitsHeld(Kinds(v)[q], v[q])
      BY <3>1, HeldAt
    <3>3. v[q] # Null => Kinds(v)[q].kind # "unknown"
      BY <3>1, <3>2, HeldKind
    <3> QED
      BY <3>1, <3>3, WrittenAsKind DEF Serializable
  <2> QED
    BY <2>2, WrittenAt
<1> DEFINE k == Kinds(v)[p]
<1>2. k.kind # "unread" /\ IsKind(k) /\ Kinds(W)[p] = k /\ W[p] # Malformed
  BY <1>1, HeldAt, WrittenKinds DEF Parses
<1>3. /\ p \in DOMAIN M /\ M[p] = (IF p = <<>> THEN JObject ELSE W[p]) /\ Kinds(M)[p] = k
      /\ IsItem(M, p) <=> IsItem(W, p)
      /\ W[p] = JArray => \A q \in DOMAIN M : q # <<>> /\ Front(q) = p => q \in DOMAIN W
  BY <1>1, <1>2, SentIsMerged
<1>4. IsItem(W, p) <=> IsItem(v, p)
  <2>1. CASE p = <<>>
    BY <2>1 DEF IsItem
  <2>2. CASE p # <<>>
    <3>1. Front(p) \in DOMAIN W
      BY <1>1, <2>2, WrittenWhere
    <3> QED
      BY <1>1, <2>2, <3>1, ParentIsWritten
  <2> QED
    BY <2>1, <2>2
<1>5. /\ p \in DOMAIN R
      /\ R[p] = IF IsItem(v, p) THEN ReadElement(k, M[p]) ELSE ReadMember(k, M[p])
  <2>1. p \in DOMAIN R
    BY <1>2, <1>3, ReadAt
  <2>2. \A q \in DOMAIN R : R[q] = IF IsItem(M, q) THEN ReadElement(Kinds(M)[q], M[q]) ELSE ReadMember(Kinds(M)[q], M[q])
    BY DEF ReadEntity
  <2>3. R[p] = IF IsItem(M, p) THEN ReadElement(Kinds(M)[p], M[p]) ELSE ReadMember(Kinds(M)[p], M[p])
    BY <2>1, <2>2
  <2> QED
    BY <1>3, <1>4, <2>1, <2>3
<1>6. IsItem(v, p) => IsSimple(k)
  BY <1>0, <1>2, Known DEF IsItem
<1>7. \/ v[p] = Null /\ W[p] = JNull
      \/ /\ v[p] # Null /\ SuitsHeld(k, v[p]) /\ k.kind # "unknown"
         /\ k.kind \in {"string", "enum"} => W[p] = Quoted(v[p].text)
         /\ k.kind = "number" => W[p] = Literal(v[p].text)
         /\ k.kind = "complex" => W[p] = (IF IsBare(v, p) THEN JNull ELSE JObject)
         /\ k.kind = "collection" => W[p] = JArray
         /\ k.kind = "annotation" => W[p] = JType(v[p].type, v[p].marked)
  BY <1>1, WrittenNode
<1>8. p = <<>> => k.kind = "complex"
  BY RootIsHeld
<1> HIDE DEF k
<1>9. ASSUME R[p] = v[p], v[p].node # "array" PROVE Agree(v, R, p)
  BY <1>5, <1>9 DEF Agree
<1>10. CASE v[p] = Null
  <2>1. p # <<>> /\ ~IsItem(v, p) /\ k.kind # "annotation"
    BY <1>10, HeldAt DEF k
  <2>2. M[p] = JNull
    BY <1>3, <1>7, <1>10, <2>1
  <2>3. R[p] = Null
    BY <1>5, <2>1, <2>2, NodesDiffer DEF ReadMember
  <2> QED
    BY <1>9, <1>10, <2>3, NodesDiffer
<1>11. CASE v[p] # Null /\ k.kind \in {"string", "enum"}
  <2>1. p # <<>> /\ M[p] = Quoted(v[p].text) /\ M[p] # Malformed
    BY <1>2, <1>3, <1>7, <1>8, <1>11
  <2>2. /\ v[p] = Primitive(v[p].kind, v[p].text) /\ IsText(v[p].text) /\ v[p].node = "primitive"
        /\ k.kind # "enum" => v[p].kind = k.kind
    BY <1>7, <1>11, HeldKind
  <2>3. Stripped(M[p]) = v[p].text /\ M[p].node = "text"
    BY <2>1, <2>2, StrippedQuoted, QuotedIsText
  <2>4. R[p] = Primitive(k.kind, v[p].text)
    BY <1>5, <1>11, <2>3 DEF ReadElement, ReadMember
  <2>5. CASE k.kind # "enum"
    BY <1>9, <2>2, <2>4, <2>5
  <2>6. CASE k.kind = "enum"
    BY <1>5, <2>2, <2>4, <2>6 DEF Agree
  <2> QED
    BY <2>5, <2>6
<1>12. CASE v[p] # Null /\ k.kind = "number"
  <2>1. p # <<>> /\ M[p] = Literal(v[p].text) /\ M[p] # Malformed
    BY <1>2, <1>3, <1>7, <1>8, <1>12
  <2>2. /\ v[p] = Primitive(v[p].kind, v[p].text) /\ IsText(v[p].text) /\ v[p].node = "primitive" /\ v[p].kind = "number"
    BY <1>7, <1>12, HeldKind
  <2>3. CASE v[p].text = Plain("null")
    <3>1. v[p] = Primitive("number", Plain("null"))
      BY <2>2, <2>3
    <3> QED
      BY <3>1 DEF Agree
  <2>4. CASE v[p].text.text \in Numerals /\ v[p].text = Plain(v[p].text.text) /\ M[p] = JNumber(v[p].text)
    <3>1. Stripped(M[p]) = v[p].text
      BY <2>4, StrippedNumber
    <3>2. M[p].node = "number"
      BY <2>4, NodesDiffer
    <3>3. R[p] = Primitive("number", v[p].text)
      BY <1>5, <1>12, <3>1, <3>2 DEF ReadElement, ReadMember
    <3> QED
      BY <1>9, <2>2, <3>3
  <2> QED
    BY <2>1, <2>2, <2>3, <2>4, LiteralIsNumber
<1>13. CASE v[p] # Null /\ k.kind = "complex"
  <2>1. v[p] = Complex("complex") /\ v[p].node = "object"
    BY <1>7, <1>13, HeldKind
  <2>2. CASE IsBare(v, p)
    BY <2>1, <2>2 DEF Agree
  <2>3. CASE ~IsBare(v, p)
    <3>1. M[p] = JObject /\ M[p].node = "object"
      BY <1>3, <1>7, <1>13, <2>3, NodesDiffer
    <3>2. R[p] = Complex("complex")
      BY <1>5, <1>13, <3>1 DEF ReadElement, ReadMember
    <3> QED
      BY <1>9, <2>1, <3>2
  <2> QED
    BY <2>2, <2>3
<1>14. CASE v[p] # Null /\ k.kind = "collection"
  <2>1. v[p] = Collection /\ v[p].node = "array"
    BY <1>7, <1>14, HeldKind
  <2>2. p # <<>> /\ ~IsItem(v, p) /\ W[p] = JArray
    BY <1>6, <1>7, <1>8, <1>14 DEF IsSimple
  <2>3. M[p] = JArray /\ M[p].node = "array"
    BY <1>3, <2>2, NodesDiffer
  <2>4. R[p] = Collection
    BY <1>5, <1>14, <2>2, <2>3 DEF ReadMember
  <2>5. \A q \in DOMAIN R \ {<<>>} : Front(q) = p => q \in DOMAIN v
    <3>1. DOMAIN R \subseteq DOMAIN M
      BY DEF ReadEntity
    <3>2. DOMAIN W \subseteq DOMAIN v
      BY DEF Written
    <3> QED
      BY <1>3, <2>2, <3>1, <3>2
  <2> QED
    BY <1>5, <2>1, <2>4, <2>5 DEF Agree
<1>15. CASE v[p] # Null /\ k.kind = "annotation"
  <2>1. v[p] = TypeName(v[p].type, v[p].marked) /\ v[p].node = "type" /\ v[p].marked = TRUE
    BY <1>7, <1>15, HeldKind DEF AllMarked
  <2>2. p # <<>> /\ ~IsItem(v, p)
    BY <1>6, <1>8, <1>15 DEF IsSimple
  <2>3. M[p].type = v[p].type
    BY <1>3, <1>7, <1>15, <2>2, TypeFields
  <2>4. R[p] = Name(v[p].type)
    BY <1>5, <1>15, <2>2, <2>3 DEF ReadMember, Name
  <2>5. v[p] = Name(v[p].type)
    BY <2>1 DEF Name
  <2> QED
    BY <1>9, <2>1, <2>4, <2>5
<1>16. v[p] # Null => k.kind \in {"string", "enum", "number", "complex", "collection", "annotation"}
  BY <1>7, HeldKind
<1> QED
  BY <1>10, <1>11, <1>12, <1>13, <1>14, <1>15, <1>16

-----------------------------------------------------------------------------
(* What a client reads, sets and marks is held of what it read *)

\* A client holds what it has just read.
LEMMA ReadIsHeld ==
    ASSUME NEW x, Conforms(x), x[<<>>] = JObject, ~CannotRead(x)
    PROVE  HeldOf(ReadEntity(x), x, {})
<1>1. Fits(ReadEntity(x))
  BY ReadFits
<1>2. Faithful(ReadEntity(x), x, {})
  BY DEF Faithful
<1> QED
  BY <1>1, <1>2 DEF HeldOf

\* A property that is set counts as edited, and the others stay.
LEMMA PutIsHeld ==
    ASSUME NEW v, NEW x, NEW E, HeldOf(v, x, E), NEW n, <<n>> \in DOMAIN v, NEW part, PartOf(part, n),
           <<n>> \in DOMAIN part, Fits(Put(v, n, part))
    PROVE  HeldOf(Put(v, n, part), x, E \cup {n})
<1> SUFFICES ASSUME NEW U, U = Put(v, n, part), NEW R, R = ReadEntity(x)
             PROVE  /\ \A p : p = <<>> \/ p[1] \notin E \cup {n} =>
                          (p \in DOMAIN U <=> p \in DOMAIN R) /\ (p \in DOMAIN U => U[p] = R[p])
                    /\ \A m : <<m>> \in DOMAIN U <=> <<m>> \in DOMAIN R
                    /\ "@type" \notin E \cup {n}
  BY DEF HeldOf, Faithful
<1>0. /\ \A p : p = <<>> \/ p[1] # n => (p \in DOMAIN U <=> p \in DOMAIN v) /\ (p \in DOMAIN v => U[p] = v[p])
      /\ \A p : p # <<>> /\ p[1] = n => (p \in DOMAIN U <=> p \in DOMAIN part) /\ (p \in DOMAIN part => U[p] = part[p])
  BY PutAt
<1>1. /\ \A p : p = <<>> \/ p[1] \notin E => (p \in DOMAIN v <=> p \in DOMAIN R) /\ (p \in DOMAIN v => v[p] = R[p])
      /\ \A m : <<m>> \in DOMAIN v <=> <<m>> \in DOMAIN R
  BY DEF HeldOf, Faithful
<1>2. "@type" \notin E \cup {n}
  BY DEF HeldOf, PartOf
<1>3. ASSUME NEW p, p = <<>> \/ p[1] \notin E \cup {n}
      PROVE  (p \in DOMAIN U <=> p \in DOMAIN R) /\ (p \in DOMAIN U => U[p] = R[p])
  BY <1>0, <1>1, <1>3
<1>4. ASSUME NEW m PROVE <<m>> \in DOMAIN U <=> <<m>> \in DOMAIN R
  <2>1. <<m>> # <<>> /\ <<m>>[1] = m
    BY Root
  <2>2. CASE m = n
    BY <1>0, <1>1, <2>1, <2>2
  <2>3. CASE m # n
    BY <1>0, <1>1, <2>1, <2>3
  <2> QED
    BY <2>2, <2>3
<1> QED
  BY <1>2, <1>3, <1>4

\* Marking changes nothing that was read.
LEMMA MarkedIsHeld ==
    ASSUME NEW v, NEW x, NEW E, HeldOf(v, x, E), NEW M, M = Marked(v)
    PROVE  HeldOf(M, x, E) /\ AllMarked(M)
<1>0. Fits(v) /\ Fits(M) /\ AllMarked(M) /\ IsTree(x)
  BY MarkedFits DEF HeldOf, Conforms
<1>1. /\ DOMAIN M = DOMAIN v
      /\ \A p \in DOMAIN v : /\ v[p].node # "type" => M[p] = v[p]
                             /\ v[p].node = "type" => M[p] = Name(v[p].type)
  BY <1>0, MarkedAt
<1>2. ASSUME NEW p \in DOMAIN v, p = <<>> \/ p[1] \notin E, v[p].node = "type"
      PROVE  Name(v[p].type) = v[p]
  <2> DEFINE k == Kinds(x)[p]
  <2>1. p \in DOMAIN x /\ Kinds(v)[p] = k /\ p \in DOMAIN ReadEntity(x) /\ v[p] = ReadEntity(x)[p]
    BY <1>2, HeldKinds
  <2>2. SuitsHeld(k, v[p])
    BY <1>0, <1>2, <2>1, HeldAt, NodesDiffer
  <2>3. k.kind = "annotation"
    <3> HIDE DEF k
    <3>1. k.kind \in {"string", "enum", "number", "complex", "collection", "annotation", "unknown"}
      BY <2>2, HeldKind
    <3>2. k.kind # "annotation" => v[p].node # "type"
      BY <2>2, <3>1, HeldKind
    <3> QED
      BY <1>2, <3>2
  <2>4. ~IsItem(x, p)
    <3>1. k.kind # "unread"
      BY <2>3
    <3>2. IsItem(x, p) => IsSimple(k)
      BY <1>0, <2>1, <3>1, Known DEF IsItem
    <3> HIDE DEF k
    <3> QED
      BY <2>3, <3>2 DEF IsSimple
  <2>5. k.kind # "unread"
    BY <2>3
  <2>6. v[p] = ReadMember(k, x[p])
    BY <1>2, <2>1, <2>4, <2>5, KnownIsHeld
  <2>7. v[p] = Name(x[p].type)
    <3> HIDE DEF k
    <3> QED
      BY <2>3, <2>6 DEF ReadMember, Name
  <2> QED
    BY <2>7, NameFields
<1>3. /\ \A p : p = <<>> \/ p[1] \notin E => (p \in DOMAIN M <=> p \in DOMAIN v) /\ (p \in DOMAIN v => M[p] = v[p])
      /\ \A n : <<n>> \in DOMAIN M <=> <<n>> \in DOMAIN v
  BY <1>1, <1>2
<1>4. Faithful(M, x, E)
  BY <1>3 DEF HeldOf, Faithful
<1> QED
  BY <1>0, <1>4 DEF HeldOf

\* Entities whose roots are alike are so through a third one.
LEMMA RootsAlike ==
    ASSUME NEW x, NEW y, NEW z, RootAlike(x, y), RootAlike(y, z)
    PROVE  RootAlike(x, z) /\ RootAlike(x, x)
BY DEF RootAlike

-----------------------------------------------------------------------------
(* What a client cannot write *)

\* Text that is read parses, when it is written, but for an infinite number.
LEMMA RefusedIsInfinite ==
    ASSUME NEW v, NEW x, HeldOf(v, x, {}), NEW p \in DOMAIN Written(v), Written(v)[p] = Malformed
    PROVE  JText(Infinity) \in Range(x)
<1> SUFFICES ASSUME NEW W, W = Written(v) PROVE JText(Infinity) \in Range(x)
  OBVIOUS
<1> DEFINE k == Kinds(x)[p]
           j == x[p]
<1>0. Fits(v) /\ Conforms(x) /\ p \in DOMAIN v
  BY WrittenAt DEF HeldOf
<1>1. p \in DOMAIN x /\ Kinds(v)[p] = k /\ p \in DOMAIN ReadEntity(x)
  BY <1>0, HeldKinds
<1>2. k.kind # "unread"
  BY <1>1, ReadAt
<1>3. v[p] = IF IsItem(x, p) THEN ReadElement(k, j) ELSE ReadMember(k, j)
  BY <1>1, <1>2, KnownIsHeld
<1>4. IsJson(j) /\ Suits(k, j)
  BY <1>0, <1>1 DEF Conforms
<1>5. \/ v[p] = Null /\ W[p] = JNull
      \/ /\ v[p] # Null /\ SuitsHeld(k, v[p]) /\ k.kind # "unknown"
         /\ k.kind \in {"string", "enum"} => W[p] = Quoted(v[p].text)
         /\ k.kind = "number" => W[p] = Literal(v[p].text)
         /\ k.kind = "complex" => W[p] = (IF IsBare(v, p) THEN JNull ELSE JObject)
         /\ k.kind = "collection" => W[p] = JArray
         /\ k.kind = "annotation" => W[p] = JType(v[p].type, v[p].marked)
  BY <1>0, <1>1, WrittenNode
<1>6. W[p] = Malformed
  OBVIOUS
<1>7. j = JText(Infinity) => JText(Infinity) \in Range(x)
  BY <1>1 DEF Range
<1> HIDE DEF k, j
<1>8. v[p] # Null /\ k.kind \in {"string", "enum", "number"}
  <2>1. v[p] # Null
    BY <1>5, <1>6, NodesDiffer
  <2>2. k.kind \in {"string", "enum", "number", "complex", "collection", "annotation"}
    BY <1>5, <2>1, HeldKind
  <2> QED
    BY <1>5, <1>6, <2>1, <2>2, NodesDiffer, TypeFields
<1>9. j.node \in {"null", "text", "number"}
  <2>1. k.kind \in {"string", "enum"} => j.node \in {"null", "text"}
    BY <1>4 DEF Suits
  <2>2. k.kind = "number" => j.node \in {"null", "text", "number"}
    BY <1>4, NodesDiffer DEF Suits
  <2> QED
    BY <1>8, <2>1, <2>2
<1>10. v[p] = Primitive(k.kind, Stripped(j))
  <2>1. CASE IsItem(x, p)
    BY <1>3, <1>8, <2>1 DEF ReadElement
  <2>2. CASE ~IsItem(x, p)
    <3>1. v[p] = ReadMember(k, j)
      BY <1>3, <2>2
    <3> QED
      BY <1>8, <1>9, <3>1 DEF ReadMember
  <2> QED
    BY <2>1, <2>2
<1>11. v[p].text = Stripped(j)
  BY <1>10, PrimitiveFields
<1>12. CASE k.kind \in {"string", "enum"}
  <2>1. W[p] = Quoted(Stripped(j))
    BY <1>5, <1>8, <1>11, <1>12
  <2>2. CASE j.node = "null"
    <3>1. Stripped(j) = Plain("null")
      BY <2>2 DEF Stripped
    <3>2. Plain("null").text # Special
      BY PlainIsText DEF Special
    <3>3. Quoted(Stripped(j)) # Malformed
      BY <3>1, <3>2, NodesDiffer DEF Quoted
    <3> QED
      BY <1>6, <2>1, <3>3
  <2>3. CASE j.node = "text"
    <3>1. j = JText(j.content) /\ IsText(j.content)
      BY <1>4, <2>3 DEF IsJson
    <3>2. Quoted(Stripped(JText(j.content))) = JText(j.content)
      BY <3>1, QuotedStripped
    <3> QED
      BY <1>6, <2>1, <3>1, <3>2, NodesDiffer
  <2>4. j.node # "number"
    BY <1>4, <1>12 DEF Suits
  <2> QED
    BY <1>9, <2>2, <2>3, <2>4
<1>13. CASE k.kind = "number"
  <2>1. W[p] = Literal(Stripped(j))
    BY <1>5, <1>8, <1>11, <1>13
  <2>2. j \in {JNull, JText(Infinity)} \cup {JNumber(Plain(n)) : n \in Numerals}
    BY <1>4, <1>13 DEF Suits
  <2>3. j = JText(Infinity)
    BY <1>6, <2>1, <2>2, StrippedNumber, NodesDiffer
  <2> QED
    BY <1>7, <2>3
<1> QED
  BY <1>8, <1>12, <1>13

-----------------------------------------------------------------------------
(* Arguments *)

\* An argument the client has read, and not set since.
Argument(v, x, E, n) == <<n>> \in DOMAIN v /\ n \notin E /\ x[<<n>>] # JNull /\ Kinds(x)[<<n>>].kind # "unknown"

\* What is held of an argument that was not null.
LEMMA ArgumentIsHeld ==
    ASSUME NEW v, NEW x, NEW E, HeldOf(v, x, E), NEW n, Argument(v, x, E, n)
    PROVE  /\ <<n>> \in DOMAIN x /\ v[<<n>>] # Null
           /\ Kinds(x)[<<n>>].kind \in {"string", "enum"} =>
                 x[<<n>>] = JText(x[<<n>>].content) /\ v[<<n>>] = Primitive(Kinds(x)[<<n>>].kind, Stripped(x[<<n>>]))
           /\ Kinds(x)[<<n>>].kind = "number" =>
                 /\ x[<<n>>] \in {JText(Infinity)} \cup {JNumber(Plain(m)) : m \in Numerals}
                 /\ v[<<n>>] = Primitive("number", Stripped(x[<<n>>]))
           /\ Kinds(x)[<<n>>].kind \notin {"string", "enum", "number"} => ~InUrl(v[<<n>>])
<1> DEFINE p == <<n>>
           k == Kinds(x)[p]
           j == x[p]
<1>0. p # <<>> /\ Front(p) = <<>> /\ p[1] = n /\ p \in DOMAIN v /\ n \notin E /\ Conforms(x) /\ x[<<>>] = JObject
  BY Root DEF Argument, HeldOf
<1>1. p \in DOMAIN x /\ p \in DOMAIN ReadEntity(x)
  BY <1>0, HeldKinds
<1>2. k.kind # "unread" /\ k.kind # "unknown" /\ j # JNull
  BY <1>1, ReadAt DEF Argument
<1>3. ~IsItem(x, p)
  BY <1>0, NodesDiffer DEF IsItem
<1>4. v[p] = ReadMember(k, j)
  BY <1>0, <1>1, <1>2, <1>3, KnownIsHeld
<1>5. IsJson(j) /\ Suits(k, j) /\ IsKind(k)
  BY <1>0, <1>1, KindsAreKinds DEF Conforms
<1> HIDE DEF p, k, j
<1>6. j.node # "null"
  BY <1>2, <1>5 DEF IsJson
<1>7. CASE k.kind \in {"string", "enum"}
  <2>1. j = JText(j.content) /\ j.node = "text"
    BY <1>5, <1>6, <1>7 DEF Suits, IsJson
  <2>2. v[p] = Primitive(k.kind, Stripped(j))
    BY <1>4, <1>7, <2>1 DEF ReadMember
  <2>3. v[p] # Null
    BY <2>2, NodesDiffer, PrimitiveFields
  <2> QED
    BY <1>1, <1>7, <2>1, <2>2, <2>3 DEF p, k, j
<1>8. CASE k.kind = "number"
  <2>1. j \in {JText(Infinity)} \cup {JNumber(Plain(m)) : m \in Numerals}
    BY <1>2, <1>5, <1>8 DEF Suits
  <2>2. j.node \in {"text", "number"}
    BY <2>1, NodesDiffer
  <2>3. v[p] = Primitive("number", Stripped(j))
    BY <1>4, <1>8, <2>2 DEF ReadMember
  <2>4. v[p] # Null
    BY <2>3, NodesDiffer, PrimitiveFields
  <2> QED
    BY <1>1, <1>8, <2>1, <2>3, <2>4 DEF p, k, j
<1>9. CASE k.kind = "complex"
  <2>1. j.node = "object"
    BY <1>5, <1>6, <1>9 DEF Suits
  <2>2. v[p] = Complex("complex")
    BY <1>4, <1>9, <2>1 DEF ReadMember
  <2>3. v[p] # Null /\ v[p].kind = "complex"
    BY <2>2, NodesDiffer
  <2> QED
    BY <1>1, <1>9, <2>3 DEF p, k, j, InUrl
<1>10. CASE k.kind = "collection"
  <2>1. j.node = "array"
    BY <1>5, <1>6, <1>10 DEF Suits
  <2>2. v[p] = Collection
    BY <1>4, <1>10, <2>1 DEF ReadMember
  <2>3. v[p] # Null /\ v[p].kind = "collection"
    BY <2>2, NodesDiffer
  <2> QED
    BY <1>1, <1>10, <2>3 DEF p, k, j, InUrl
<1>11. CASE k.kind = "annotation"
  <2>1. v[p] = TypeName(j.type, TRUE)
    BY <1>4, <1>11 DEF ReadMember
  <2>2. v[p].kind = "annotation"
    BY <2>1 DEF TypeName
  <2>3. v[p] # Null
    BY <2>2, NodesDiffer
  <2> QED
    BY <1>1, <1>11, <2>2, <2>3 DEF p, k, j, InUrl
<1>12. k.kind \in {"string", "enum", "number", "complex", "collection", "annotation"}
  BY <1>2, <1>5 DEF IsKind, IsSimple
<1> QED
  BY <1>7, <1>8, <1>9, <1>10, <1>11, <1>12

\* An argument in a payload is what was read.
LEMMA PayloadArrives ==
    ASSUME NEW v, NEW x, NEW E, HeldOf(v, x, E), NEW A, \A n \in A : Argument(v, x, E, n),
           NEW W, W = Written(v), NEW G, G = Restrict(W, Within(W, A)), Parses(G)
    PROVE  /\ DOMAIN G \subseteq Within(x, A)
           /\ \A p \in Within(x, A) : Lost(x, p) \/ (p \in DOMAIN G /\ G[p] = x[p])
<1>1. DOMAIN G = Within(W, A) /\ \A p \in DOMAIN G : G[p] = W[p]
  BY DEF Restrict
<1>2. \A p : p \in Within(W, A) <=> p \in DOMAIN W /\ p # <<>> /\ p[1] \in A
  BY DEF Within
<1>3. \A p : p \in Within(x, A) <=> p \in DOMAIN x /\ p # <<>> /\ p[1] \in A
  BY DEF Within
<1>4. \A n \in A : n \notin E
  BY DEF Argument
<1>5. ASSUME NEW p \in DOMAIN G PROVE p \in Within(x, A)
  <2>1. p \in DOMAIN W /\ p # <<>> /\ p[1] \in A
    BY <1>1, <1>2
  <2>2. p \in DOMAIN v
    BY <2>1, WrittenAt
  <2>3. p \in DOMAIN x
    BY <1>4, <2>1, <2>2, HeldKinds
  <2> QED
    BY <1>3, <2>1, <2>3
<1>6. ASSUME NEW p \in Within(x, A), ~Lost(x, p) PROVE p \in DOMAIN G /\ G[p] = x[p]
  <2>1. p \in DOMAIN x /\ p # <<>> /\ p[1] \in A /\ p[1] \notin E
    BY <1>3, <1>4
  <2>2. p \in DOMAIN W /\ (W[p] = x[p] \/ (W[p] = Malformed /\ x[p] = JText(Infinity)))
    BY <1>6, <2>1, RoundTrip
  <2>3. p \in DOMAIN G
    BY <1>1, <1>2, <2>1, <2>2
  <2>4. W[p] # Malformed
    BY <1>1, <2>3 DEF Parses
  <2> QED
    BY <1>1, <2>2, <2>3, <2>4
<1> QED
  BY <1>5, <1>6

\* A length that is not 0 is 1 or more.
LEMMA OneOrMore == ASSUME NEW n \in Nat, n > 0 PROVE n = 1 \/ n > 1
OBVIOUS

\* What can be an argument in a URL has nothing below it.
LEMMA UrlIsFlat ==
    ASSUME NEW v, NEW x, NEW E, HeldOf(v, x, E), NEW p \in DOMAIN x, p # <<>>, ~Lost(x, p),
           Argument(v, x, E, p[1]), InUrl(v[<<(p[1])>>])
    PROVE  p = <<(p[1])>>
<1> DEFINE n == p[1]
           a == <<n>>
<1>0. Fits(v) /\ IsTree(v) /\ IsTree(x) /\ IsPath(p) /\ Closed(DOMAIN x) /\ n \notin E
  BY TreesAreClosed DEF HeldOf, Conforms, Fits, Closed, Argument
<1>1. PICK S : p \in Seq(S) /\ n \in S
  BY <1>0, PathIsSequence
<1>2. Len(p) \in Nat /\ Len(p) > 0
  BY <1>0, LastStep DEF IsPath
<1>3. CASE Len(p) = 1
  <2>1. a \in Seq(S) /\ Len(a) = 1 /\ a[1] = p[1]
    BY <1>1
  <2> QED
    BY <1>1, <1>3, <2>1, SeqEqual
<1>4. CASE Len(p) > 1
  <2> DEFINE b == SubSeq(p, 1, 2)
  <2>1. 2 \in 0 .. Len(p) /\ 1 \in 0 .. Len(p)
    BY <1>2, <1>4
  <2>2. b \in Seq(S) /\ Len(b) = 2 /\ \A i \in 1 .. 2 : b[i] = p[i]
    BY <1>1, <2>1, Beginning
  <2>3. b \in Prefixes(p)
    BY <2>1 DEF Prefixes
  <2>4. b \in DOMAIN x
    BY <1>0, <2>3, PrefixesInside
  <2>5. b # <<>> /\ b[1] = n
    <3>1. b[1] = n
      BY <2>2
    <3>2. b # <<>>
      BY <2>2, Root
    <3> QED
      BY <3>1, <3>2
  <2>6. Kinds(x)[b].kind # "unread"
    BY <2>3 DEF Lost
  <2> HIDE DEF b
  <2>7. b \in DOMAIN v /\ Kinds(v)[b] = Kinds(x)[b]
    BY <1>0, <2>4, <2>5, <2>6, KnownIsHeld
  <2>8. Front(b) = a
    <3>0. Front(b) = SubSeq(b, 1, 1) /\ 1 \in 0 .. Len(b) /\ 1 \in 1 .. 1
      BY <2>2 DEF Front
    <3>1. Front(b) \in Seq(S) /\ Len(Front(b)) = 1 /\ Front(b)[1] = b[1]
      BY <2>2, <3>0, Beginning
    <3>2. a \in Seq(S) /\ Len(a) = 1 /\ a[1] = n
      BY <1>1
    <3> QED
      BY <2>5, <3>1, <3>2, SeqEqual
  <2> HIDE DEF a
  <2>9. a \in DOMAIN v /\ Kinds(v)[a].kind \in {"complex", "collection"}
    BY <1>0, <2>5, <2>6, <2>7, <2>8, Known
  <2>10. a # <<>> /\ a[1] = n
    BY Root DEF a
  <2>11. a \in DOMAIN x /\ Kinds(v)[a] = Kinds(x)[a]
    BY <1>0, <2>9, <2>10, HeldKinds
  <2>12. ~InUrl(v[a])
    BY <2>9, <2>11, ArgumentIsHeld DEF a
  <2> QED
    BY <2>12 DEF a
<1>5. Len(p) = 1 \/ Len(p) > 1
  BY <1>2, OneOrMore
<1> QED
  BY <1>3, <1>4, <1>5

\* An argument in a URL is what was read, but for texts with escapes.
LEMMA UrlArrives ==
    ASSUME NEW v, NEW x, NEW E, HeldOf(v, x, E), NEW p \in DOMAIN x, p # <<>>, ~Lost(x, p),
           Argument(v, x, E, p[1]), InUrl(v[<<(p[1])>>])
    PROVE  /\ p = <<(p[1])>>
           /\ UrlValue(v[p]) = x[p] \/ (x[p].node = "text" /\ x[p].content.text = Special)
<1> DEFINE n == p[1]
           k == Kinds(x)[p]
           j == x[p]
<1>1. p = <<n>>
  BY UrlIsFlat
<1>2. /\ v[p] # Null
      /\ k.kind \in {"string", "enum"} => j = JText(j.content) /\ v[p] = Primitive(k.kind, Stripped(j))
      /\ k.kind = "number" => /\ j \in {JText(Infinity)} \cup {JNumber(Plain(m)) : m \in Numerals}
                              /\ v[p] = Primitive("number", Stripped(j))
      /\ k.kind \notin {"string", "enum", "number"} => ~InUrl(v[p])
  BY <1>1, ArgumentIsHeld
<1>3. InUrl(v[p])
  BY <1>1
<1> HIDE DEF k, j, n
<1>4. CASE k.kind \in {"string", "enum"}
  <2> DEFINE t == j.content
  <2>1. j = JText(t) /\ v[p] = Primitive(k.kind, Stripped(j))
    BY <1>2, <1>4
  <2>2. j.node = "text"
    BY <2>1, NodesDiffer
  <2>3. UrlValue(v[p]) = JText(Stripped(j))
    BY <1>4, <2>1, PrimitiveFields DEF UrlValue
  <2>4. t.text # Special => Stripped(j) = t
    BY <2>2 DEF Stripped
  <2> HIDE DEF t
  <2>5. t.text # Special => UrlValue(v[p]) = j
    BY <2>1, <2>3, <2>4
  <2> QED
    BY <1>1, <2>2, <2>5 DEF j, t
<1>5. CASE k.kind = "number"
  <2>1. v[p].kind = "number" /\ v[p].text = Stripped(j)
    BY <1>2, <1>5, PrimitiveFields
  <2>2. CASE j = JText(Infinity)
    <3>1. v[p].text = Infinity /\ Infinity.text = "INF"
      BY <2>1, <2>2, StrippedNumber, PlainIsText DEF Infinity
    <3>2. UrlValue(v[p]) = JText(Infinity)
      BY <3>1 DEF UrlValue, Numerals
    <3> QED
      BY <1>1, <2>2, <3>2 DEF j
  <2>3. CASE \E m \in Numerals : j = JNumber(Plain(m))
    <3>1. PICK m \in Numerals : j = JNumber(Plain(m))
      BY <2>3
    <3>2. v[p].text = Plain(m) /\ Plain(m).text = m
      BY <2>1, <3>1, StrippedNumber, PlainIsText
    <3>3. UrlValue(v[p]) = JNumber(Plain(m))
      BY <2>1, <3>2 DEF UrlValue
    <3> QED
      BY <1>1, <3>1, <3>3 DEF j
  <2> QED
    BY <1>2, <1>5, <2>2, <2>3
<1> QED
  BY <1>2, <1>3, <1>4, <1>5

-----------------------------------------------------------------------------
(* The invariant *)

\* An update that can be served to what the service holds.
Sendable(u, old) ==
    /\ HeldOf(u.sent, u.seen, u.edits) /\ AllMarked(u.sent) /\ u.body = Written(u.sent) /\ Parses(u.body)
    /\ RootAlike(u.seen, old)

\* All that is kept is kept for every client.
Domains == /\ DOMAIN held = Clients /\ DOMAIN fate = Clients /\ DOMAIN wire = Clients
           /\ DOMAIN seen = Clients /\ DOMAIN edits = Clients

\* What the clients hold, and have sent, is held of what the service once had.
WInv ==
    /\ Domains
    /\ Conforms(stored) /\ stored[<<>>] = JObject
    /\ \A c \in Clients : held[c] # None => HeldOf(held[c], seen[c], edits[c]) /\ RootAlike(seen[c], stored)
    /\ \A c \in Clients : wire[c] # None => Sendable(wire[c], stored)
    /\ ReadCanBeWritten /\ ArgumentsArrive

\* The invariant holds in the beginning.
LEMMA InitHolds == WireInit => WInv
<1> SUFFICES ASSUME WireInit PROVE WInv
  OBVIOUS
<1>1. Domains
  BY DEF WireInit, Domains
<1>2. Conforms(stored) /\ stored[<<>>] = JObject
  BY DocumentsAssumption DEF WireInit
<1>3. \A c \in Clients : held[c] = None /\ wire[c] = None /\ fate[c] = "ok"
  BY DEF WireInit
<1>4. call = None
  BY DEF WireInit
<1> QED
  BY <1>1, <1>2, <1>3, <1>4 DEF WInv, ReadCanBeWritten, ArgumentsArrive

\* A read keeps it.
LEMMA ReadHolds ==
    ASSUME WInv, NEW c \in Clients, Read(c)
    PROVE  WInv'
<1>0. /\ Domains /\ Conforms(stored) /\ stored[<<>>] = JObject
      /\ \A d \in Clients : held[d] # None => HeldOf(held[d], seen[d], edits[d]) /\ RootAlike(seen[d], stored)
      /\ \A d \in Clients : wire[d] # None => Sendable(wire[d], stored)
      /\ ReadCanBeWritten /\ ArgumentsArrive
  BY DEF WInv
<1>1. stored' = stored /\ wire' = wire /\ call' = call /\ fate[c] = "ok"
  BY DEF Read, Running
<1>2. CASE CannotRead(stored)
  <2>1. fate' = [fate EXCEPT ![c] = "unread"] /\ held' = held /\ seen' = seen /\ edits' = edits
    BY <1>2 DEF Read
  <2>2. Domains'
    BY <1>0, <1>1, <2>1 DEF Domains
  <2>3. ReadCanBeWritten'
    BY <1>0, <2>1 DEF ReadCanBeWritten, Domains
  <2>4. ArgumentsArrive'
    BY <1>0, <1>1 DEF ArgumentsArrive
  <2> QED
    BY <1>0, <1>1, <2>1, <2>2, <2>3, <2>4 DEF WInv
<1>3. CASE ~CannotRead(stored)
  <2>1. /\ held' = [held EXCEPT ![c] = ReadEntity(stored)] /\ seen' = [seen EXCEPT ![c] = stored]
        /\ edits' = [edits EXCEPT ![c] = {}] /\ fate' = fate
    BY <1>3 DEF Read
  <2>2. Domains'
    BY <1>0, <1>1, <2>1 DEF Domains
  <2>3. HeldOf(ReadEntity(stored), stored, {}) /\ RootAlike(stored, stored)
    BY <1>0, <1>3, ReadIsHeld DEF RootAlike
  <2>4. \A d \in Clients : held'[d] # None => HeldOf(held'[d], seen'[d], edits'[d]) /\ RootAlike(seen'[d], stored')
    BY <1>0, <1>1, <2>1, <2>3 DEF Domains
  <2>5. ReadCanBeWritten'
    BY <1>0, <1>1, <2>1 DEF ReadCanBeWritten, Domains
  <2>6. ArgumentsArrive'
    BY <1>0, <1>1 DEF ArgumentsArrive
  <2> QED
    BY <1>0, <1>1, <2>2, <2>4, <2>5, <2>6 DEF WInv
<1> QED
  BY <1>2, <1>3

\* Setting a property.
LEMMA SetHolds ==
    ASSUME WInv, NEW c \in Clients, NEW n, NEW part, held[c] # None, fate[c] = "ok", <<n>> \in DOMAIN held[c],
           PartOf(part, n), <<n>> \in DOMAIN part, Fits(held[c]) => Fits(Put(held[c], n, part)),
           held' = [held EXCEPT ![c] = Put(held[c], n, part)], edits' = [edits EXCEPT ![c] = edits[c] \cup {n}],
           stored' = stored, fate' = fate, wire' = wire, call' = call, seen' = seen
    PROVE  WInv'
<1>0. /\ Domains /\ Conforms(stored) /\ stored[<<>>] = JObject
      /\ \A d \in Clients : held[d] # None => HeldOf(held[d], seen[d], edits[d]) /\ RootAlike(seen[d], stored)
      /\ \A d \in Clients : wire[d] # None => Sendable(wire[d], stored)
      /\ ReadCanBeWritten /\ ArgumentsArrive
  BY DEF WInv
<1>1. HeldOf(Put(held[c], n, part), seen[c], edits[c] \cup {n})
  BY <1>0, PutIsHeld DEF HeldOf
<1>2. Domains'
  BY <1>0 DEF Domains
<1>3. \A d \in Clients : held'[d] # None => HeldOf(held'[d], seen'[d], edits'[d]) /\ RootAlike(seen'[d], stored')
  BY <1>0, <1>1 DEF Domains
<1>4. ReadCanBeWritten'
  BY <1>0 DEF ReadCanBeWritten, Domains
<1>5. ArgumentsArrive'
  BY <1>0 DEF ArgumentsArrive
<1> QED
  BY <1>0, <1>2, <1>3, <1>4, <1>5 DEF WInv

\* Setting a property from a string keeps it.
LEMMA SetStringHolds ==
    ASSUME WInv, NEW c \in Clients, NEW n \in DOMAIN Texts, SetString(c, n)
    PROVE  WInv'
<1>1. /\ stored' = stored /\ wire' = wire /\ call' = call /\ seen' = seen
      /\ fate[c] = "ok" /\ held[c] # None /\ <<n>> \in DOMAIN held[c] /\ Domains
  BY DEF SetString, CanSet, Running, WInv
<1>2. CASE held[c][<<n>>] = Null
  <2>1. fate' = [fate EXCEPT ![c] = "crashed"] /\ held' = held /\ edits' = edits
    BY <1>2 DEF SetString
  <2>2. Domains' /\ ReadCanBeWritten'
    BY <1>1, <2>1 DEF WInv, Domains, ReadCanBeWritten
  <2>3. ArgumentsArrive'
    BY <1>1 DEF WInv, ArgumentsArrive
  <2> QED
    BY <1>1, <2>1, <2>2, <2>3 DEF WInv
<1>3. CASE held[c][<<n>>] # Null
  <2>1. PICK t \in Texts[n] :
           /\ held' = [held EXCEPT ![c] = Put(@, n, [p \in {<<n>>} |-> Primitive(TextKind(held[c][p]), t)])]
           /\ edits' = [edits EXCEPT ![c] = @ \cup {n}] /\ fate' = fate
    BY <1>3 DEF SetString
  <2> DEFINE part == [p \in {<<n>>} |-> Primitive(TextKind(held[c][p]), t)]
  <2>2. Fits(held[c])
    BY <1>1 DEF WInv, HeldOf
  <2>3. Fits(Put(held[c], n, part)) /\ PartOf(part, n)
    BY <1>1, <1>3, <2>2, TextFits
  <2>4. <<n>> \in DOMAIN part
    OBVIOUS
  <2>5. held' = [held EXCEPT ![c] = Put(held[c], n, part)] /\ edits' = [edits EXCEPT ![c] = edits[c] \cup {n}] /\ fate' = fate
    BY <2>1
  <2> HIDE DEF part
  <2> QED
    BY <1>1, <2>3, <2>4, <2>5, SetHolds
<1> QED
  BY <1>2, <1>3

\* Setting a property to a value keeps it.
LEMMA SetValueHolds ==
    ASSUME WInv, NEW c \in Clients, NEW n \in DOMAIN Settings, SetValue(c, n)
    PROVE  WInv'
<1>1. /\ stored' = stored /\ wire' = wire /\ call' = call /\ seen' = seen /\ fate' = fate
      /\ fate[c] = "ok" /\ held[c] # None /\ <<n>> \in DOMAIN held[c]
  BY DEF SetValue, CanSet, Running
<1>2. PICK part \in Settings[n] : held' = [held EXCEPT ![c] = Put(@, n, part)]
  BY DEF SetValue
<1>3. edits' = [edits EXCEPT ![c] = edits[c] \cup {n}] /\ held' = [held EXCEPT ![c] = Put(held[c], n, part)]
  BY <1>2 DEF SetValue
<1>4. Fits(held[c])
  BY <1>1 DEF WInv, HeldOf
<1>5. Fits(Put(held[c], n, part)) /\ PartOf(part, n) /\ <<n>> \in DOMAIN part
  BY <1>1, <1>4, SettingFits
<1> QED
  BY <1>1, <1>3, <1>5, SetHolds

\* Sending an entity back keeps it: what parses may be stored.
LEMMA UpdateHolds ==
    ASSUME WInv, NEW c \in Clients, NEW method, Update(c, method)
    PROVE  WInv'
<1> DEFINE sent == Marked(held[c])
           body == Written(sent)
           u == [method |-> method, body |-> body, sent |-> sent, seen |-> seen[c], edits |-> edits[c]]
<1>0. /\ Domains /\ Conforms(stored) /\ stored[<<>>] = JObject
      /\ \A d \in Clients : held[d] # None => HeldOf(held[d], seen[d], edits[d]) /\ RootAlike(seen[d], stored)
      /\ \A d \in Clients : wire[d] # None => Sendable(wire[d], stored)
      /\ ReadCanBeWritten /\ ArgumentsArrive
  BY DEF WInv
<1>1. /\ stored' = stored /\ call' = call /\ seen' = seen /\ edits' = edits /\ fate[c] = "ok" /\ held[c] # None
      /\ held' = [held EXCEPT ![c] = sent]
  BY DEF Update, Running
<1>2. HeldOf(sent, seen[c], edits[c]) /\ AllMarked(sent) /\ RootAlike(seen[c], stored)
  BY <1>0, <1>1, MarkedIsHeld
<1>3. \A d \in Clients : held'[d] # None => HeldOf(held'[d], seen'[d], edits'[d]) /\ RootAlike(seen'[d], stored')
  <2> HIDE DEF sent
  <2> QED
    BY <1>0, <1>1, <1>2 DEF Domains
<1>4. ArgumentsArrive'
  BY <1>0, <1>1 DEF ArgumentsArrive
<1>5. CASE Parses(body)
  <2>1. wire' = [wire EXCEPT ![c] = u] /\ fate' = fate
    BY <1>5 DEF Update
  <2>2. u.body = body /\ u.sent = sent /\ u.seen = seen[c] /\ u.edits = edits[c]
    OBVIOUS
  <2>3. Sendable(u, stored)
    <3> HIDE DEF u
    <3> QED
      BY <1>2, <1>5, <2>2 DEF Sendable
  <2> HIDE DEF u, sent, body
  <2>4. \A d \in Clients : wire'[d] # None => Sendable(wire'[d], stored')
    BY <1>0, <1>1, <2>1, <2>3 DEF Domains
  <2>5. Domains' /\ ReadCanBeWritten'
    BY <1>0, <1>1, <2>1 DEF Domains, ReadCanBeWritten
  <2> QED
    BY <1>0, <1>1, <1>3, <1>4, <2>4, <2>5 DEF WInv
<1>6. CASE ~Parses(body)
  <2>1. fate' = [fate EXCEPT ![c] = "unsent"] /\ wire' = wire
    BY <1>6 DEF Update
  <2>2. edits[c] = {} => JText(Infinity) \in Range(seen[c])
    <3>1. PICK p \in DOMAIN body : body[p] = Malformed
      BY <1>6 DEF Parses
    <3> HIDE DEF sent
    <3> QED
      BY <1>2, <3>1, RefusedIsInfinite
  <2> HIDE DEF u, sent, body
  <2>3. ReadCanBeWritten'
    BY <1>0, <1>1, <2>1, <2>2 DEF ReadCanBeWritten, Domains
  <2>4. Domains'
    BY <1>0, <1>1, <2>1 DEF Domains
  <2> QED
    BY <1>0, <1>1, <1>3, <1>4, <2>1, <2>3, <2>4 DEF WInv
<1> QED
  BY <1>5, <1>6

\* What the service holds once it has applied an update.
LEMMA ServeApplies ==
    ASSUME WInv, NEW c \in Clients, Serve(c)
    PROVE  /\ wire[c] # None /\ Sendable(wire[c], stored) /\ Conforms(stored) /\ stored[<<>>] = JObject
           /\ stored' = Apply(wire[c].method, stored, Understood(wire[c].body))
           /\ Conforms(stored') /\ stored'[<<>>] = JObject /\ RootAlike(stored, stored')
<1>1. /\ wire[c] # None /\ Sendable(wire[c], stored) /\ Conforms(stored) /\ stored[<<>>] = JObject
      /\ stored' = Apply(wire[c].method, stored, Understood(wire[c].body))
  BY DEF Serve, WInv
<1> DEFINE u == wire[c]
<1>2. HeldOf(u.sent, u.seen, u.edits) /\ AllMarked(u.sent) /\ u.body = Written(u.sent) /\ Parses(u.body)
      /\ RootAlike(u.seen, stored)
  BY <1>1 DEF Sendable
<1>3. Conforms(stored') /\ stored'[<<>>] = JObject /\ RootAlike(stored, stored')
  <2> HIDE DEF u
  <2>1. stored' = Apply(u.method, stored, Understood(u.body))
    BY <1>1 DEF u
  <2> QED
    BY <1>1, <1>2, <2>1, ServedConforms
<1> QED
  BY <1>1, <1>3

\* Storing an update keeps it, whatever has been stored since it was sent.
LEMMA ServeHolds ==
    ASSUME WInv, NEW c \in Clients, Serve(c)
    PROVE  WInv'
<1>0. /\ Domains
      /\ \A d \in Clients : held[d] # None => HeldOf(held[d], seen[d], edits[d]) /\ RootAlike(seen[d], stored)
      /\ \A d \in Clients : wire[d] # None => Sendable(wire[d], stored)
      /\ ReadCanBeWritten /\ ArgumentsArrive
  BY DEF WInv
<1>1. /\ held' = held /\ fate' = fate /\ call' = call /\ seen' = seen /\ edits' = edits
      /\ wire' = [wire EXCEPT ![c] = None]
  BY DEF Serve
<1>2. Conforms(stored') /\ stored'[<<>>] = JObject /\ RootAlike(stored, stored')
  BY ServeApplies
<1>3. \A x : RootAlike(x, stored) => RootAlike(x, stored')
  BY <1>2, RootsAlike
<1>4. \A d \in Clients : held'[d] # None => HeldOf(held'[d], seen'[d], edits'[d]) /\ RootAlike(seen'[d], stored')
  BY <1>0, <1>1, <1>3
<1>5. \A d \in Clients : wire'[d] # None => Sendable(wire'[d], stored')
  BY <1>0, <1>1, <1>3 DEF Domains, Sendable
<1>6. Domains'
  BY <1>0, <1>1 DEF Domains
<1>7. ReadCanBeWritten' /\ ArgumentsArrive'
  BY <1>0, <1>1 DEF ReadCanBeWritten, ArgumentsArrive
<1> QED
  BY <1>2, <1>4, <1>5, <1>6, <1>7 DEF WInv

\* No argument of a call is missing, and all arrive as they were read, but for
\* what no client can send and for texts with escapes in a URL.
ArriveAsRead(c, arguments, how, A) ==
    /\ ~Stray(c, arguments)
    /\ DOMAIN Sent(c, A, how) \subseteq Within(seen[c], A)
    /\ \A p \in Within(seen[c], A) :
          \/ Lost(seen[c], p)
          \/ p \in DOMAIN Sent(c, A, how) /\ Sent(c, A, how)[p] = seen[c][p]
          \/ how # "payload" /\ seen[c][p].node = "text" /\ seen[c][p].content.text = Special

\* The arguments the service is called with.
LEMMA SentArrives ==
    ASSUME NEW c, HeldOf(held[c], seen[c], edits[c]), NEW arguments, NEW how, NEW A, A = Range(arguments),
           \A n \in A : Argument(held[c], seen[c], edits[c], n),
           how = "payload" => Parses(Sent(c, A, how)),
           how # "payload" => \A n \in A : InUrl(held[c][<<n>>])
    PROVE  ArriveAsRead(c, arguments, how, A)
<1> SUFFICES /\ ~Stray(c, arguments)
             /\ DOMAIN Sent(c, A, how) \subseteq Within(seen[c], A)
             /\ \A p \in Within(seen[c], A) :
                   \/ Lost(seen[c], p)
                   \/ p \in DOMAIN Sent(c, A, how) /\ Sent(c, A, how)[p] = seen[c][p]
                   \/ how # "payload" /\ seen[c][p].node = "text" /\ seen[c][p].content.text = Special
  BY DEF ArriveAsRead
<1> DEFINE v == held[c]
           x == seen[c]
           E == edits[c]
<1>0. HeldOf(v, x, E) /\ \A n \in A : Argument(v, x, E, n)
  OBVIOUS
<1>1. \A n \in A : <<n>> \in DOMAIN x /\ v[<<n>>] # Null
  BY <1>0, ArgumentIsHeld
<1>2. ~Stray(c, arguments)
  BY <1>1 DEF Stray
<1>3. CASE how = "payload"
  <2> DEFINE W == Written(v)
             G == Restrict(W, Within(W, A))
  <2>1. Sent(c, A, how) = G
    BY <1>3 DEF Sent
  <2>2. Parses(G)
    BY <1>3, <2>1
  <2>3. /\ DOMAIN G \subseteq Within(x, A)
        /\ \A p \in Within(x, A) : Lost(x, p) \/ (p \in DOMAIN G /\ G[p] = x[p])
    <3> HIDE DEF v, x, E
    <3> QED
      BY <1>0, <2>2, PayloadArrives
  <2> HIDE DEF G
  <2> QED
    BY <1>2, <2>1, <2>3
<1>4. CASE how # "payload"
  <2> DEFINE G == [p \in {<<n>> : n \in A} |-> UrlValue(v[p])]
  <2>1. Sent(c, A, how) = G
    BY <1>4 DEF Sent
  <2>2. ASSUME NEW p \in DOMAIN G PROVE p \in Within(x, A)
    <3>1. PICK n \in A : p = <<n>>
      OBVIOUS
    <3>2. <<n>> # <<>> /\ <<n>>[1] = n
      BY Root
    <3> QED
      BY <1>1, <3>1, <3>2 DEF Within
  <2>3. ASSUME NEW p \in Within(x, A), ~Lost(x, p)
        PROVE  \/ p \in DOMAIN G /\ G[p] = x[p]
               \/ x[p].node = "text" /\ x[p].content.text = Special
    <3>1. p \in DOMAIN x /\ p # <<>> /\ p[1] \in A
      BY DEF Within
    <3>2. InUrl(v[<<(p[1])>>]) /\ Argument(v, x, E, p[1])
      BY <1>0, <1>4, <3>1
    <3>3. /\ p = <<(p[1])>>
          /\ UrlValue(v[p]) = x[p] \/ (x[p].node = "text" /\ x[p].content.text = Special)
      <4> HIDE DEF v, x, E
      <4> QED
        BY <1>0, <2>3, <3>1, <3>2, UrlArrives
    <3>4. p \in DOMAIN G
      BY <3>1, <3>3
    <3>5. G[p] = UrlValue(v[p])
      BY <3>4
    <3> QED
      BY <3>3, <3>4, <3>5
  <2> HIDE DEF G
  <2> QED
    BY <1>2, <1>4, <2>1, <2>2, <2>3
<1> QED
  BY <1>3, <1>4

\* The operation the service is called with.
LEMMA CallArrives ==
    ASSUME WInv, NEW c \in Clients, NEW arguments, NEW how \in {"payload", "url"}, Invoke(c, arguments, how), call' # call
    PROVE  ArgumentsArrive'
<1> DEFINE v == held[c]
           x == seen[c]
           A == Range(arguments)
           given == {n \in A : v[<<n>>] # Null}
           got == IF Stray(c, arguments) THEN None ELSE Sent(c, given, how)
<1>0. HeldOf(v, x, edits[c]) /\ \A n \in A : <<n>> \in DOMAIN v
  BY DEF Invoke, WInv
<1>1. /\ call' = [how |-> how, got |-> got, arguments |-> A, read |-> x, edited |-> A \cap edits[c] # {}]
      /\ \A n \in given : IF how = "payload" THEN Serializable(v[<<n>>].kind) ELSE InUrl(v[<<n>>])
      /\ how = "payload" => ~Stray(c, arguments) /\ Parses(Sent(c, given, how))
  BY DEF Invoke
<1> HIDE DEF v, x, A, given, got
<1> SUFFICES ASSUME A \cap edits[c] = {}, \A n \in A : x[<<n>>] # JNull /\ Kinds(x)[<<n>>].kind # "unknown"
             PROVE  /\ DOMAIN got \subseteq Within(x, A)
                    /\ \A p \in Within(x, A) :
                          \/ Lost(x, p)
                          \/ p \in DOMAIN got /\ got[p] = x[p]
                          \/ how = "url" /\ x[p].node = "text" /\ x[p].content.text = Special
  BY <1>1 DEF ArgumentsArrive
<1>2. \A n \in A : Argument(v, x, edits[c], n)
  BY <1>0 DEF Argument
<1>3. given = A
  <2>1. \A n \in A : v[<<n>>] # Null
    BY <1>0, <1>2, ArgumentIsHeld
  <2> QED
    BY <2>1 DEF given
<1>4. /\ ~Stray(c, arguments)
      /\ DOMAIN Sent(c, A, how) \subseteq Within(x, A)
      /\ \A p \in Within(x, A) :
            \/ Lost(x, p)
            \/ p \in DOMAIN Sent(c, A, how) /\ Sent(c, A, how)[p] = x[p]
            \/ how # "payload" /\ x[p].node = "text" /\ x[p].content.text = Special
  <2>1. /\ \A n \in A : Argument(held[c], seen[c], edits[c], n)
        /\ HeldOf(held[c], seen[c], edits[c]) /\ A = Range(arguments)
    BY <1>0, <1>2 DEF v, x, A
  <2>2. how = "payload" => Parses(Sent(c, A, how))
    BY <1>1, <1>3
  <2>3. how # "payload" => \A n \in A : InUrl(held[c][<<n>>])
    BY <1>1, <1>3 DEF v
  <2>4. ArriveAsRead(c, arguments, how, A)
    BY <2>1, <2>2, <2>3, SentArrives
  <2> QED
    BY <2>4 DEF ArriveAsRead, x
<1>5. got = Sent(c, A, how)
  BY <1>3, <1>4 DEF got
<1> QED
  BY <1>4, <1>5

\* Calling an operation keeps it.
LEMMA InvokeHolds ==
    ASSUME WInv, NEW c \in Clients, NEW arguments, NEW how \in {"payload", "url"}, Invoke(c, arguments, how)
    PROVE  WInv'
<1>0. /\ Domains /\ Conforms(stored) /\ stored[<<>>] = JObject
      /\ \A d \in Clients : held[d] # None => HeldOf(held[d], seen[d], edits[d]) /\ RootAlike(seen[d], stored)
      /\ \A d \in Clients : wire[d] # None => Sendable(wire[d], stored)
      /\ ReadCanBeWritten /\ ArgumentsArrive
  BY DEF WInv
<1>1. /\ stored' = stored /\ held' = held /\ wire' = wire /\ seen' = seen /\ edits' = edits
      /\ fate' = fate \/ fate' = [fate EXCEPT ![c] = "uncalled"]
  BY DEF Invoke
<1>2. ArgumentsArrive'
  <2>1. CASE call' = call
    BY <1>0, <2>1 DEF ArgumentsArrive
  <2>2. CASE call' # call
    BY <2>2, CallArrives
  <2> QED
    BY <2>1, <2>2
<1>3. Domains' /\ ReadCanBeWritten'
  BY <1>0, <1>1 DEF Domains, ReadCanBeWritten
<1> QED
  BY <1>0, <1>1, <1>2, <1>3 DEF WInv

\* Every step keeps the invariant.
LEMMA WInvInductive == WInv /\ [WireNext]_wire_vars => WInv'
<1> SUFFICES ASSUME WInv, [WireNext]_wire_vars PROVE WInv'
  OBVIOUS
<1>1. CASE WireNext
  <2>1. PICK c \in Clients :
           \/ Read(c)
           \/ \E n \in DOMAIN Texts : SetString(c, n)
           \/ \E n \in DOMAIN Settings : SetValue(c, n)
           \/ \E method \in {"PATCH", "PUT"} : Update(c, method)
           \/ Serve(c)
           \/ \E arguments \in Operations, how \in {"payload", "url"} : Invoke(c, arguments, how)
    BY <1>1 DEF WireNext
  <2>2. CASE Read(c)
    BY <2>2, ReadHolds
  <2>3. CASE \E n \in DOMAIN Texts : SetString(c, n)
    BY <2>3, SetStringHolds
  <2>4. CASE \E n \in DOMAIN Settings : SetValue(c, n)
    BY <2>4, SetValueHolds
  <2>5. CASE \E method \in {"PATCH", "PUT"} : Update(c, method)
    BY <2>5, UpdateHolds
  <2>6. CASE Serve(c)
    BY <2>6, ServeHolds
  <2>7. CASE \E arguments \in Operations, how \in {"payload", "url"} : Invoke(c, arguments, how)
    BY <2>7, InvokeHolds
  <2> QED
    BY <2>1, <2>2, <2>3, <2>4, <2>5, <2>6, <2>7
<1>2. CASE UNCHANGED wire_vars
  <2>1. /\ stored' = stored /\ held' = held /\ fate' = fate /\ wire' = wire /\ call' = call /\ seen' = seen
        /\ edits' = edits
    BY <1>2 DEF wire_vars
  <2>2. Domains' /\ ReadCanBeWritten' /\ ArgumentsArrive'
    BY <2>1 DEF WInv, Domains, ReadCanBeWritten, ArgumentsArrive
  <2> QED
    BY <2>1, <2>2 DEF WInv
<1> QED
  BY <1>1, <1>2

\* What the service stores always has the shape its types say, what a client
\* holds is what it read but for the properties it has set, and every update on
\* its way was written from such a value.
THEOREM WireInvariant == WireSpec => []WInv
  BY InitHolds, WInvInductive, PTL DEF WireSpec

\* A client whose entity is as it was read can send it back, unless a number
\* in it is infinite (odata_json_writer writes the text it was given).
THEOREM WhatIsReadCanBeWritten == WireSpec => []ReadCanBeWritten
<1>1. WInv => ReadCanBeWritten
  BY DEF WInv
<1> QED
  BY <1>1, WireInvariant, PTL

\* The arguments an operation is run with are what their client had read.
THEOREM ArgumentsAlwaysArrive == WireSpec => []ArgumentsArrive
<1>1. WInv => ArgumentsArrive
  BY DEF WInv
<1> QED
  BY <1>1, WireInvariant, PTL

\* An update that has been applied reads back as its client held it.
THEOREM UpdatesReadBack == WireSpec => WrittenReadsBack
<1>1. ASSUME WInv, [WireNext]_wire_vars, NEW c \in Clients, Serve(c), NEW p \in DOMAIN wire[c].sent
      PROVE  Agree(wire[c].sent, ReadEntity(stored'), p)
  <2> DEFINE u == wire[c]
  <2>1. /\ Sendable(u, stored) /\ Conforms(stored) /\ stored[<<>>] = JObject
        /\ stored' = Apply(u.method, stored, Understood(u.body))
    BY <1>1, ServeApplies
  <2> HIDE DEF u
  <2>2. HeldOf(u.sent, u.seen, u.edits) /\ AllMarked(u.sent) /\ u.body = Written(u.sent) /\ Parses(u.body)
        /\ RootAlike(u.seen, stored)
    BY <2>1 DEF Sendable
  <2>3. stored' = Merge(Base(u.method, stored), u.body)
    BY <2>1, <2>2, UpdateMerges
  <2>4. Mergeable(Base(u.method, stored), u.body) /\ Base(u.method, stored)[<<>>] = JObject
    BY <2>1, <2>2, UpdateIsMergeable
  <2>5. Fits(u.sent) /\ p \in DOMAIN u.sent
    BY <1>1, <2>2 DEF HeldOf, u
  <2>6. Agree(u.sent, ReadEntity(stored'), p)
    BY <2>2, <2>3, <2>4, <2>5, SentReadsBack
  <2> QED
    BY <2>6 DEF u
<1>2. WInv /\ [WireNext]_wire_vars =>
         [\A c \in Clients : Serve(c) =>
             \A p \in DOMAIN wire[c].sent : Agree(wire[c].sent, ReadEntity(stored'), p)]_wire_vars
  BY <1>1
<1> QED
  BY <1>2, WireInvariant, PTL DEF WireSpec, WrittenReadsBack

-----------------------------------------------------------------------------
(* What a client has not set *)

\* Of two prefixes of a path one is a prefix of the other.
LEMMA NestedPrefixes ==
    ASSUME NEW p, IsPath(p), NEW q \in Prefixes(p), NEW r \in Prefixes(p)
    PROVE  q \in Prefixes(r) \/ r \in Prefixes(q)
<1>1. PICK S : p \in Seq(S) /\ 0 \in S
  BY PathIsSequence
<1>2. ASSUME NEW m \in 0 .. Len(p), NEW n \in 0 .. Len(p), m <= n
      PROVE  SubSeq(p, 1, m) \in Prefixes(SubSeq(p, 1, n))
  <2> DEFINE a == SubSeq(p, 1, m)
             b == SubSeq(p, 1, n)
  <2>1. a \in Seq(S) /\ Len(a) = m /\ \A i \in 1 .. m : a[i] = p[i]
    BY <1>1, Beginning
  <2>2. b \in Seq(S) /\ Len(b) = n /\ \A i \in 1 .. n : b[i] = p[i]
    BY <1>1, Beginning
  <2> HIDE DEF a, b
  <2>3. m \in 0 .. Len(b)
    BY <1>1, <1>2, <2>2
  <2>4. SubSeq(b, 1, m) \in Seq(S) /\ Len(SubSeq(b, 1, m)) = m /\ \A i \in 1 .. m : SubSeq(b, 1, m)[i] = b[i]
    BY <2>2, <2>3, Beginning
  <2>5. \A i \in 1 .. m : b[i] = p[i]
    BY <1>1, <1>2, <2>2
  <2>6. a = SubSeq(b, 1, m)
    BY <2>1, <2>4, <2>5, SeqEqual
  <2>7. a \in Prefixes(b)
    BY <2>3, <2>6 DEF Prefixes
  <2> QED
    BY <2>7 DEF a, b
<1>3. PICK m \in 0 .. Len(p) : q = SubSeq(p, 1, m)
  BY DEF Prefixes
<1>4. PICK n \in 0 .. Len(p) : r = SubSeq(p, 1, n)
  BY DEF Prefixes
<1>5. m <= n \/ n <= m
  BY <1>1
<1> QED
  BY <1>2, <1>3, <1>4, <1>5

\* Only objects and arrays have parts.
LEMMA LeafIsAlone ==
    ASSUME NEW T, IsTree(T), NEW p \in DOMAIN T, T[p].node \notin {"object", "array"},
           NEW q \in DOMAIN T, p \in Prefixes(q)
    PROVE  q = p
<1> DEFINE Bad == {r \in DOMAIN T : p \in Prefixes(r) /\ r # p}
<1> SUFFICES ASSUME Bad # {} PROVE FALSE
  OBVIOUS
<1>1. PICK r \in Bad : IsPath(r) /\ (r # <<>> => Front(r) \in DOMAIN T \ Bad)
  <2>1. Closed(DOMAIN T) /\ Bad \subseteq DOMAIN T
    BY TreesAreClosed
  <2> HIDE DEF Bad
  <2> QED
    BY <2>1, Shortest
<1>2. CASE r = <<>>
  BY <1>2, Root
<1>3. CASE r # <<>>
  <2>1. Front(r) = p
    BY <1>1, <1>3, PrefixesOfStep
  <2>2. T[Front(r)].node \in {"object", "array"}
    BY <1>3 DEF IsTree
  <2> QED
    BY <2>1, <2>2
<1> QED
  BY <1>2, <1>3

\* What an update does not name is kept, with all that is below.
LEMMA KeptIsSame ==
    ASSUME NEW old, IsTree(old), NEW W, IsTree(W), NEW M, M = Merge(old, W), NEW p \in DOMAIN M, p \notin DOMAIN W
    PROVE  Same(M, old, p)
<1>1. DOMAIN M = Kept(old, W) \cup DOMAIN W
      /\ \A x \in DOMAIN M : M[x] = IF x \in DOMAIN W \ {<<>>} THEN W[x] ELSE old[x]
  <2>1. IsMerge(M, old, W)
    BY MergedAt
  <2> QED
    BY <2>1 DEF IsMerge
<1>2. p \in Kept(old, W) /\ Closed(DOMAIN W) /\ Closed(DOMAIN old)
  BY <1>1, TreesAreClosed
<1>3. \A q \in DOMAIN W : p \notin Prefixes(q)
  BY <1>2, PrefixesInside
<1>4. ASSUME NEW q \in DOMAIN old, p \in Prefixes(q) PROVE q \in Kept(old, W)
  <2>1. IsPath(q)
    BY <1>2 DEF Closed
  <2>2. ASSUME NEW r \in Prefixes(q) \cap DOMAIN W PROVE Stays(old, W, r)
    <3>1. r \in Prefixes(p) \/ p \in Prefixes(r)
      BY <1>4, <2>1, NestedPrefixes
    <3> QED
      BY <1>2, <1>3, <3>1 DEF Kept
  <2> QED
    BY <2>2 DEF Kept
<1>5. \A q \in DOMAIN M : p \in Prefixes(q) => q \in DOMAIN old
  BY <1>1, <1>3 DEF Kept
<1> QED
  BY <1>1, <1>3, <1>4, <1>5 DEF Same

\* What can be sent back as it was is in the merged tree as it was read, with
\* all that is below, unless objects were merged.
LEMMA SentIsSame ==
    ASSUME NEW v, NEW x, NEW E, HeldOf(v, x, E), NEW W, W = Written(v), Parses(W),
           NEW B, IsTree(B), NEW M, M = Merge(B, W), NEW p \in DOMAIN W, p # <<>>, p[1] \notin E,
           \A q \in DOMAIN x : p \in Prefixes(q) => ~Lost(x, q)
    PROVE  /\ p \in DOMAIN x
           /\ \/ Same(M, x, p)
              \/ p \in DOMAIN B /\ B[p] = JObject /\ M[p] = JObject /\ x[p] = JObject
<1>0. IsTree(x) /\ IsTree(W) /\ IsTree(v)
  BY WrittenIsTree DEF HeldOf, Conforms, Fits
<1>1. DOMAIN M = Kept(B, W) \cup DOMAIN W
      /\ \A y \in DOMAIN M : M[y] = IF y \in DOMAIN W \ {<<>>} THEN W[y] ELSE B[y]
  <2>1. IsMerge(M, B, W)
    BY MergedAt
  <2> QED
    BY <2>1 DEF IsMerge
<1>2. ASSUME NEW q, IsPath(q), p \in Prefixes(q) PROVE q # <<>> /\ q[1] \notin E
  BY <1>2, PrefixFirst
<1>3. \A q \in DOMAIN x \cup DOMAIN W : IsPath(q)
  BY <1>0, TreesAreClosed DEF Closed
<1>4. ASSUME NEW q \in DOMAIN x, p \in Prefixes(q) PROVE q \in DOMAIN M /\ M[q] = x[q]
  <2>1. q # <<>> /\ q[1] \notin E /\ ~Lost(x, q)
    BY <1>2, <1>3, <1>4
  <2>2. q \in DOMAIN W /\ (W[q] = x[q] \/ (W[q] = Malformed /\ x[q] = JText(Infinity)))
    BY <2>1, RoundTrip
  <2>3. W[q] # Malformed
    BY <2>2 DEF Parses
  <2> QED
    BY <1>1, <2>1, <2>2, <2>3
<1>5. ASSUME NEW q \in DOMAIN W, p \in Prefixes(q) PROVE q \in DOMAIN x
  <2>1. q # <<>> /\ q[1] \notin E
    BY <1>2, <1>3, <1>5
  <2>2. q \in DOMAIN v
    BY WrittenAt
  <2> QED
    BY <2>1, <2>2, HeldKinds
<1>6. p \in Prefixes(p) /\ p \in DOMAIN x /\ M[p] = x[p]
  BY <1>3, <1>4, <1>5, OwnPrefix
<1>7. CASE \A q \in DOMAIN M : p \in Prefixes(q) => q \in DOMAIN W
  <2>1. Same(M, x, p)
    BY <1>4, <1>5, <1>7 DEF Same
  <2> QED
    BY <1>6, <2>1
<1>8. CASE \E q \in DOMAIN M : p \in Prefixes(q) /\ q \notin DOMAIN W
  <2>1. PICK q \in Kept(B, W) : p \in Prefixes(q)
    BY <1>1, <1>8
  <2>2. Stays(B, W, p) /\ q \in DOMAIN B
    BY <2>1 DEF Kept
  <2>3. p \in DOMAIN B
    <3>1. Closed(DOMAIN B)
      BY TreesAreClosed
    <3> QED
      BY <2>1, <2>2, <3>1, PrefixesInside
  <2>4. B[p] = JObject /\ W[p] = JObject
    BY <2>2 DEF Stays, Together
  <2>5. M[p] = W[p]
    BY <1>1
  <2> QED
    BY <1>6, <2>3, <2>4, <2>5
<1> QED
  BY <1>7, <1>8

\* What has a type the client does not know is sent only if it is null.
LEMMA UnknownIsNull ==
    ASSUME NEW v, NEW x, NEW E, HeldOf(v, x, E), NEW W, W = Written(v), NEW p \in DOMAIN W, p # <<>>,
           p[1] \notin E, Kinds(x)[p].kind \in {"unread", "unknown"}
    PROVE  p \in DOMAIN x /\ x[p] = JNull /\ W[p] = JNull
<1> DEFINE k == Kinds(x)[p]
           j == x[p]
<1>0. p \in DOMAIN v /\ Fits(v) /\ Conforms(x)
  BY WrittenAt DEF HeldOf
<1>1. p \in DOMAIN x /\ Kinds(v)[p] = k
  BY <1>0, HeldKinds
<1>2. k.kind = "unknown"
  <2>1. Kinds(v)[p].kind # "unread"
    BY <1>0, HeldAt
  <2> QED
    BY <1>1, <2>1
<1>3. v[p] = Null
  BY <1>0, <1>1, <1>2, WrittenWhere
<1>4. W[p] = JNull
  <2>1. \/ v[p] = Null /\ W[p] = JNull
        \/ /\ v[p] # Null /\ SuitsHeld(k, v[p]) /\ k.kind # "unknown"
           /\ k.kind \in {"string", "enum"} => W[p] = Quoted(v[p].text)
           /\ k.kind = "number" => W[p] = Literal(v[p].text)
           /\ k.kind = "complex" => W[p] = (IF IsBare(v, p) THEN JNull ELSE JObject)
           /\ k.kind = "collection" => W[p] = JArray
           /\ k.kind = "annotation" => W[p] = JType(v[p].type, v[p].marked)
    BY <1>0, <1>1, WrittenNode
  <2> QED
    BY <1>3, <2>1
<1>5. v[p] = IF IsItem(x, p) THEN ReadElement(k, j) ELSE ReadMember(k, j)
  BY <1>1, <1>2, KnownIsHeld
<1>6. IsJson(j) /\ Suits(k, j)
  BY <1>0, <1>1 DEF Conforms
<1> HIDE DEF k, j
<1>7. v[p] = ReadMember(k, j)
  <2>1. ReadElement(k, j) # Null
    BY <1>2, NodesDiffer, PrimitiveFields DEF ReadElement
  <2> QED
    BY <1>3, <1>5, <2>1
<1>8. j.node = "null"
  <2>1. j.node # "array"
    BY <1>2, <1>6 DEF Suits
  <2>2. ASSUME j.node = "object" PROVE FALSE
    <3>1. v[p] = Complex(k.kind)
      BY <1>2, <1>7, <2>2 DEF ReadMember
    <3> QED
      BY <1>3, <3>1, NodesDiffer
  <2>3. ASSUME j.node \notin {"null", "array", "object"} PROVE FALSE
    <3>1. v[p] = Primitive(k.kind, Stripped(j))
      BY <1>2, <1>7, <2>3 DEF ReadMember
    <3> QED
      BY <1>3, <3>1, NodesDiffer, PrimitiveFields
  <2> QED
    BY <2>1, <2>2, <2>3
<1>9. j = JNull
  BY <1>6, <1>8 DEF IsJson
<1> QED
  BY <1>1, <1>4, <1>9 DEF j

\* A part at p that cannot be sent back as it was.
Exempt(x, p, method) ==
    /\ \E q \in DOMAIN x : p \in Prefixes(q) /\ Lost(x, q)
    /\ method = "PATCH" => Kinds(x)[p].kind \notin {"unread", "unknown"}

\* What an update that is merged leaves of what its client has not set.
LEMMA UneditedPart ==
    ASSUME NEW v, NEW x, NEW E, HeldOf(v, x, E), AllMarked(v), NEW W, W = Written(v), Parses(W),
           NEW old, Conforms(old), old[<<>>] = JObject, RootAlike(x, old), NEW method,
           NEW M, M = Merge(Base(method, old), W), NEW p \in DOMAIN M, p # <<>>, p[1] \notin E
    PROVE  \/ Same(M, old, p)
           \/ Same(M, x, p)
           \/ p \in DOMAIN old \cap DOMAIN x /\ {M[p], old[p], x[p]} = {JObject}
           \/ p \in DOMAIN x /\ Exempt(x, p, method)
<1> DEFINE B == Base(method, old)
<1>0. Fits(v) /\ IsTree(old) /\ IsTree(x) /\ IsTree(W)
  BY WrittenIsTree DEF HeldOf, Conforms
<1>1. Mergeable(B, W) /\ B[<<>>] = JObject
  BY UpdateIsMergeable
<1>2. Conforms(B) /\ Conforms(W) /\ IsTree(B)
  BY <1>1 DEF Mergeable, Conforms
<1>3. Conforms(M) /\ IsTree(M)
  <2>1. Conforms(M)
    <3> HIDE DEF B
    <3>1. M = Merge(B, W)
      BY DEF B
    <3> QED
      BY <1>1, <3>1, MergedConforms
  <2> QED
    BY <2>1 DEF Conforms
<1>4. DOMAIN M = Kept(B, W) \cup DOMAIN W
      /\ \A y \in DOMAIN M : M[y] = IF y \in DOMAIN W \ {<<>>} THEN W[y] ELSE B[y]
  <2>1. IsMerge(M, B, W)
    BY MergedAt
  <2> QED
    BY <2>1 DEF IsMerge
<1>5. /\ method = "PATCH" => B = old
      /\ method # "PATCH" => B = Blank(old)
  BY DEF Base
<1>6. M = Merge(B, W)
  OBVIOUS
<1> HIDE DEF B
<1>7. ASSUME NEW T, Conforms(T), T[<<>>] = JObject, <<"@type">> \in DOMAIN T
      PROVE  T[<<"@type">>].node = "type"
  <2>0. IsTree(T) /\ <<>> \in DOMAIN T /\ Append(<<>>, "@type") = <<"@type">>
    BY <1>7, TreesAreClosed, Root DEF Conforms
  <2>1. Kinds(T)[<<"@type">>].kind = "annotation"
    <3>1. Kinds(T)[<<>>].kind = "complex" /\ T[<<>>].node = "object"
      BY <1>7, <2>0, KindOfRoot, NodesDiffer
    <3>2. Kinds(T)[Append(<<>>, "@type")].kind = "annotation"
      BY <1>7, <2>0, <3>1, AnnotationIsKnown
    <3> QED
      BY <2>0, <3>2
  <2>2. Suits(Kinds(T)[<<"@type">>], T[<<"@type">>])
    BY <1>7 DEF Conforms
  <2> QED
    BY <2>1, <2>2 DEF Suits
<1>8. CASE p \notin DOMAIN W /\ method = "PATCH"
  <2>1. M = Merge(old, W)
    BY <1>5, <1>6, <1>8
  <2> QED
    BY <1>0, <1>8, <2>1, KeptIsSame
<1>9. CASE p \notin DOMAIN W /\ method # "PATCH"
  <2>1. p \in DOMAIN B /\ B = Blank(old) /\ M[p] = B[p]
    BY <1>4, <1>5, <1>9 DEF Kept
  <2>2. p = <<p[1]>> /\ <<p[1]>> \in DOMAIN old
    BY <1>0, <2>1, BlankAt
  <2>3. CASE p = <<"@type">>
    <3>1. p \in DOMAIN old /\ M[p] = old[p]
      <4>1. p[1] = "@type"
        BY <2>3, Root
      <4>2. B[<<p[1]>>] = IF p[1] = "@type" THEN old[<<p[1]>>] ELSE JNull
        BY <1>0, <2>1, <2>2, BlankAt
      <4> QED
        BY <2>1, <2>2, <4>1, <4>2
    <3>2. old[p].node = "type"
      BY <1>7, <2>3, <3>1
    <3>3. \A q \in DOMAIN old : p \in Prefixes(q) => q = p
      BY <1>0, <3>1, <3>2, LeafIsAlone
    <3>4. \A q \in DOMAIN M : p \in Prefixes(q) => q = p
      BY <1>3, <3>1, <3>2, LeafIsAlone
    <3> QED
      BY <3>1, <3>3, <3>4 DEF Same
  <2>4. CASE p # <<"@type">>
    <3>1. p \in DOMAIN x
      BY <2>2 DEF RootAlike
    <3>2. Lost(x, p)
      BY <1>9, <3>1, RoundTrip
    <3>3. p \in Prefixes(p)
      BY <1>0, <3>1, TreesAreClosed, OwnPrefix DEF Closed
    <3> QED
      BY <1>9, <3>1, <3>2, <3>3 DEF Exempt
  <2> QED
    BY <2>3, <2>4
<1>10. CASE p \in DOMAIN W /\ \A q \in DOMAIN x : p \in Prefixes(q) => ~Lost(x, q)
  <2>1. /\ p \in DOMAIN x
        /\ \/ Same(M, x, p)
           \/ p \in DOMAIN B /\ B[p] = JObject /\ M[p] = JObject /\ x[p] = JObject
    BY <1>2, <1>6, <1>10, SentIsSame
  <2>2. ASSUME p \in DOMAIN B, B[p] = JObject PROVE B = old
    <3>1. ASSUME B = Blank(old) PROVE FALSE
      <4>1. p = <<p[1]>>
        BY <1>0, <2>2, <3>1, BlankAt
      <4>2. <<p[1]>> \in DOMAIN B
        BY <2>2, <4>1
      <4>3. B[<<p[1]>>] = IF p[1] = "@type" THEN old[<<p[1]>>] ELSE JNull
        BY <1>0, <3>1, <4>2, BlankAt
      <4>4. p = <<"@type">>
        BY <2>2, <4>1, <4>3, NodesDiffer
      <4>5. B[p].node = "type"
        BY <1>1, <1>2, <1>7, <2>2, <4>4
      <4> QED
        BY <2>2, <4>5, NodesDiffer
    <3> QED
      BY <1>5, <3>1
  <2> QED
    BY <2>1, <2>2
<1>11. CASE p \in DOMAIN W /\ Kinds(x)[p].kind \in {"unread", "unknown"}
  <2>1. p \in DOMAIN x /\ x[p] = JNull /\ W[p] = JNull
    BY <1>11, UnknownIsNull
  <2>2. M[p] = JNull
    BY <1>4, <1>11, <2>1
  <2>3. \A q \in DOMAIN x : p \in Prefixes(q) => q = p
    BY <1>0, <2>1, LeafIsAlone, NodesDiffer
  <2>4. \A q \in DOMAIN M : p \in Prefixes(q) => q = p
    BY <1>3, <2>2, LeafIsAlone, NodesDiffer
  <2> QED
    BY <2>1, <2>2, <2>3, <2>4 DEF Same
<1>12. CASE /\ p \in DOMAIN W /\ Kinds(x)[p].kind \notin {"unread", "unknown"}
            /\ \E q \in DOMAIN x : p \in Prefixes(q) /\ Lost(x, q)
  <2>1. p \in DOMAIN v
    BY <1>12, WrittenAt
  <2>2. p \in DOMAIN x
    BY <2>1, HeldKinds
  <2> QED
    BY <1>12, <2>2 DEF Exempt
<1> QED
  BY <1>8, <1>9, <1>10, <1>11, <1>12

\* An update leaves what its client has not set as the service holds it or as
\* the client read it, and loses nothing of it.
THEOREM WhatIsNotSetStays == WireSpec => UneditedStays
<1>1. ASSUME WInv, NEW c \in Clients, Serve(c)
      PROVE  LET read == wire[c].seen
                 unedited(p) == p # <<>> /\ p[1] \notin wire[c].edits
                 exempt(p) == /\ \E q \in DOMAIN read : p \in Prefixes(q) /\ Lost(read, q)
                              /\ wire[c].method = "PATCH" => Kinds(read)[p].kind \notin {"unread", "unknown"}
             IN /\ \A p \in DOMAIN stored' : unedited(p) =>
                      \/ Same(stored', stored, p)
                      \/ Same(stored', read, p)
                      \/ p \in DOMAIN stored \cap DOMAIN read /\ {stored'[p], stored[p], read[p]} = {JObject}
                      \/ p \in DOMAIN read /\ exempt(p)
                /\ \A p \in DOMAIN stored \cap DOMAIN read : unedited(p) =>
                      p \in DOMAIN stored' \/ Lost(read, p)
  <2> DEFINE u == wire[c]
             x == u.seen
  <2>1. /\ Sendable(u, stored) /\ Conforms(stored) /\ stored[<<>>] = JObject
        /\ stored' = Apply(u.method, stored, Understood(u.body))
    BY <1>1, ServeApplies
  <2> HIDE DEF u
  <2>2. HeldOf(u.sent, x, u.edits) /\ AllMarked(u.sent) /\ u.body = Written(u.sent) /\ Parses(u.body)
        /\ RootAlike(x, stored)
    BY <2>1 DEF Sendable
  <2>3. stored' = Merge(Base(u.method, stored), u.body)
    BY <2>1, <2>2, UpdateMerges
  <2>4. ASSUME NEW p \in DOMAIN stored', p # <<>>, p[1] \notin u.edits
        PROVE  \/ Same(stored', stored, p)
               \/ Same(stored', x, p)
               \/ p \in DOMAIN stored \cap DOMAIN x /\ {stored'[p], stored[p], x[p]} = {JObject}
               \/ p \in DOMAIN x /\ Exempt(x, p, u.method)
    <3> DEFINE M == stored'
    <3>1. p \in DOMAIN M /\ M = Merge(Base(u.method, stored), u.body)
      BY <2>3
    <3> HIDE DEF M, x
    <3>2. \/ Same(M, stored, p)
          \/ Same(M, x, p)
          \/ p \in DOMAIN stored \cap DOMAIN x /\ {M[p], stored[p], x[p]} = {JObject}
          \/ p \in DOMAIN x /\ Exempt(x, p, u.method)
      BY <2>1, <2>2, <2>4, <3>1, UneditedPart
    <3> QED
      BY <3>2 DEF M
  <2>5. ASSUME NEW p \in DOMAIN stored \cap DOMAIN x, p # <<>>, p[1] \notin u.edits
        PROVE  p \in DOMAIN stored' \/ Lost(x, p)
    <3>1. DOMAIN u.body \subseteq DOMAIN stored'
      BY <2>3 DEF Merge
    <3> HIDE DEF x
    <3>2. ~Lost(x, p) => p \in DOMAIN u.body
      BY <2>2, <2>5, RoundTrip
    <3> QED
      BY <3>1, <3>2
  <2> QED
    BY <2>4, <2>5 DEF Exempt, u
<1>2. WInv /\ [WireNext]_wire_vars =>
         [\A c \in Clients : Serve(c) =>
             LET read == wire[c].seen
                 unedited(p) == p # <<>> /\ p[1] \notin wire[c].edits
                 exempt(p) == /\ \E q \in DOMAIN read : p \in Prefixes(q) /\ Lost(read, q)
                              /\ wire[c].method = "PATCH" => Kinds(read)[p].kind \notin {"unread", "unknown"}
             IN /\ \A p \in DOMAIN stored' : unedited(p) =>
                      \/ Same(stored', stored, p)
                      \/ Same(stored', read, p)
                      \/ p \in DOMAIN stored \cap DOMAIN read /\ {stored'[p], stored[p], read[p]} = {JObject}
                      \/ p \in DOMAIN read /\ exempt(p)
                /\ \A p \in DOMAIN stored \cap DOMAIN read : unedited(p) =>
                      p \in DOMAIN stored' \/ Lost(read, p)]_wire_vars
  BY <1>1
<1> QED
  BY <1>2, WireInvariant, PTL DEF WireSpec, UneditedStays

==============================================================================
