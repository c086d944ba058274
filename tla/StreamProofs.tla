--------------------------- MODULE StreamProofs ------------------------------
(***************************************************************************)
(* Proofs about Stream: nothing is lost between the program and the screen, *)
(* no credit is lost on the way back, and what the webview holds is bounded *)
(* for every choice of watermarks, sizes and bounds.                        *)
(*                                                                          *)
(* The first part is about Sum: the library states induction with operators *)
(* as parameters, so it is done here by the least counterexample.           *)
(***************************************************************************)
EXTENDS Stream, FiniteSetTheorems, SequenceTheorems, WellFoundedInduction, TLAPS

------------------------------------------------------------------------------
(* Sums                                                                     *)

\* Every set of numbers has a least element: what the inductions below rest on.
LEMMA Least ==
  ASSUME NEW S \in SUBSET Nat, S # {}
  PROVE  \E n \in S : \A m \in S : n <= m
<1>1. \E x \in S : \A y \in S : ~(<<y, x>> \in OpToRel(<, Nat)) BY NatLessThanWellFounded, WFMin, Zenon
<1>2. PICK x \in S : \A y \in S : ~(<<y, x>> \in OpToRel(<, Nat)) BY <1>1
<1>3. \A y \in S : ~(y < x) BY <1>2 DEF OpToRel
<1>4. \A y \in S : x <= y BY <1>3
<1> QED BY <1>2, <1>4

\* The element the fold takes next.
Pick(S) == CHOOSE e \in S : TRUE

\* sum is what the fold of f over the subsets of its domain must satisfy.
Sums(f, sum) ==
  sum = [S \in SUBSET DOMAIN f |-> IF S = {} THEN 0 ELSE f[Pick(S)] + sum[S \ {Pick(S)}]]

\* Sum is the fold of Folds.tla, taken over the whole domain.
LEMMA Unfold == ASSUME NEW f PROVE  Sum(f) = (CHOOSE sum : Sums(f, sum))[DOMAIN f]
BY DEF Sum, MapThenFoldSet, Sums, Pick

\* A function whose values are numbers, of a finite set.
Finite(f) == IsFiniteSet(DOMAIN f) /\ f \in [DOMAIN f -> Nat]

\* The sets of at most n arguments.
Small(f, n) == {S \in SUBSET DOMAIN f : Cardinality(S) <= n}

\* The fold, as far as sets of n elements.
Upto(f, n, sum) ==
  /\ sum \in [Small(f, n) -> Nat]
  /\ \A S \in Small(f, n) : sum[S] = IF S = {} THEN 0 ELSE f[Pick(S)] + sum[S \ {Pick(S)}]

\* Taking an element from a set of arguments leaves one less.
LEMMA Picked ==
  ASSUME NEW f, Finite(f), NEW S \in SUBSET DOMAIN f
  PROVE  /\ IsFiniteSet(S) /\ Cardinality(S) \in Nat
         /\ Cardinality(S) = 0 <=> S = {}
         /\ \A e \in S : /\ S \ {e} \in SUBSET DOMAIN f
                         /\ Cardinality(S \ {e}) = Cardinality(S) - 1
                         /\ f[e] \in Nat
         /\ S # {} => Pick(S) \in S
<1>1. IsFiniteSet(S) BY FS_Subset DEF Finite
<1>2. Cardinality(S) \in Nat BY <1>1, FS_CardinalityType
<1>3. Cardinality(S) = 0 <=> S = {} BY <1>1, FS_EmptySet
<1>4. \A e \in S : Cardinality(S \ {e}) = Cardinality(S) - 1 BY <1>1, FS_RemoveElement
<1>5. S # {} => Pick(S) \in S BY DEF Pick
<1>6. \A e \in S : f[e] \in Nat BY DEF Finite
<1> QED BY <1>1, <1>2, <1>3, <1>4, <1>5, <1>6

\* There is such a function for every n: by induction on n.
LEMMA UptoEvery ==
  ASSUME NEW f, Finite(f), NEW n \in Nat
  PROVE  \E sum : Upto(f, n, sum)
<1> DEFINE T == {k \in Nat : ~\E sum : Upto(f, k, sum)}
<1>1. SUFFICES ASSUME T # {} PROVE FALSE BY <1>1
<1>2. PICK k \in T : \A m \in T : k <= m BY <1>1, Least
<1>3. k \in Nat /\ ~\E sum : Upto(f, k, sum) BY <1>2
<1>4. CASE k = 0
  <2> DEFINE s == [S \in Small(f, 0) |-> 0]
  <2>1. \A S \in Small(f, 0) : S = {} BY Picked DEF Small
  <2>2. Upto(f, 0, s) BY <2>1 DEF Upto
  <2> QED BY <1>3, <1>4, <2>2
<1>5. CASE k # 0
  <2>1. k - 1 \in Nat /\ k - 1 \notin T BY <1>2, <1>3, <1>5
  <2>2. PICK s : Upto(f, k - 1, s) BY <2>1
  <2> DEFINE t == [S \in Small(f, k) |-> IF S = {} THEN 0 ELSE f[Pick(S)] + s[S \ {Pick(S)}]]
  <2>3. ASSUME NEW S \in Small(f, k), S # {}
        PROVE  /\ f[Pick(S)] \in Nat
               /\ S \ {Pick(S)} \in Small(f, k - 1) /\ S \ {Pick(S)} \in Small(f, k)
               /\ s[S \ {Pick(S)}] \in Nat
    <3>1. S \in SUBSET DOMAIN f /\ Cardinality(S) <= k /\ Pick(S) \in S BY <2>3, Picked DEF Small
    <3>2. /\ Cardinality(S) \in Nat /\ S \ {Pick(S)} \in SUBSET DOMAIN f
          /\ Cardinality(S \ {Pick(S)}) = Cardinality(S) - 1 /\ f[Pick(S)] \in Nat
      BY <3>1, Picked
    <3>3. S \ {Pick(S)} \in Small(f, k - 1) /\ S \ {Pick(S)} \in Small(f, k) BY <1>3, <3>1, <3>2 DEF Small
    <3> QED BY <3>2, <3>3, <2>2 DEF Upto
  <2>4. \A S \in Small(f, k - 1) : S \in Small(f, k) /\ t[S] = s[S]
    <3>1. TAKE S \in Small(f, k - 1)
    <3>2. S \in Small(f, k) BY <1>3, Picked DEF Small
    <3> QED BY <3>2, <2>2 DEF Upto
  <2>5. t \in [Small(f, k) -> Nat] BY <2>3
  <2>6. ASSUME NEW S \in Small(f, k)
        PROVE  t[S] = IF S = {} THEN 0 ELSE f[Pick(S)] + t[S \ {Pick(S)}]
    BY <2>3, <2>4
  <2>7. Upto(f, k, t) BY <2>5, <2>6 DEF Upto
  <2> QED BY <1>3, <2>7
<1> QED BY <1>4, <1>5

\* The fold behind Sum.
FoldOf(f) == CHOOSE sum : Sums(f, sum)

\* So the recursive definition behind Sum has a solution, and it satisfies its equation.
LEMMA FoldFacts ==
  ASSUME NEW f, Finite(f), NEW S \in SUBSET DOMAIN f
  PROVE  FoldOf(f)[S] = IF S = {} THEN 0 ELSE f[Pick(S)] + FoldOf(f)[S \ {Pick(S)}]
<1> DEFINE n == Cardinality(DOMAIN f)
<1>1. n \in Nat /\ IsFiniteSet(DOMAIN f) BY FS_CardinalityType DEF Finite
<1>2. PICK s : Upto(f, n, s) BY <1>1, UptoEvery
<1>3. Small(f, n) = SUBSET DOMAIN f BY <1>1, FS_Subset DEF Small
<1>4. s = [R \in SUBSET DOMAIN f |-> s[R]] BY <1>2, <1>3 DEF Upto
<1>5. \A R \in SUBSET DOMAIN f : s[R] = IF R = {} THEN 0 ELSE f[Pick(R)] + s[R \ {Pick(R)}] BY <1>2, <1>3 DEF Upto
<1>6. Sums(f, s) BY <1>4, <1>5, Zenon DEF Sums
<1>7. Sums(f, FoldOf(f)) BY <1>6, Zenon DEF FoldOf
<1> QED BY <1>7 DEF Sums

\* A sum of numbers is a number.
LEMMA FoldType ==
  ASSUME NEW f, Finite(f), NEW S \in SUBSET DOMAIN f
  PROVE  FoldOf(f)[S] \in Nat
<1> DEFINE T == {k \in Nat : \E R \in SUBSET DOMAIN f : Cardinality(R) = k /\ FoldOf(f)[R] \notin Nat}
<1>1. SUFFICES ASSUME T # {} PROVE FALSE BY <1>1, Picked
<1>2. PICK k \in T : \A m \in T : k <= m BY <1>1, Least
<1>3. PICK R \in SUBSET DOMAIN f : k \in Nat /\ Cardinality(R) = k /\ FoldOf(f)[R] \notin Nat BY <1>2
<1>4. R # {} /\ FoldOf(f)[R] = f[Pick(R)] + FoldOf(f)[R \ {Pick(R)}] BY <1>3, FoldFacts
<1>5. /\ Pick(R) \in R /\ R \ {Pick(R)} \in SUBSET DOMAIN f
      /\ Cardinality(R \ {Pick(R)}) = k - 1 /\ f[Pick(R)] \in Nat /\ k # 0
  BY <1>3, <1>4, Picked
<1>6. k - 1 \in Nat /\ k - 1 \notin T BY <1>2, <1>3, <1>5
<1>7. FoldOf(f)[R \ {Pick(R)}] \in Nat BY <1>5, <1>6
<1> QED BY <1>3, <1>4, <1>5, <1>7

\* It does not matter which element is taken first.
LEMMA FoldRemove ==
  ASSUME NEW f, Finite(f), NEW S \in SUBSET DOMAIN f, NEW e \in S
  PROVE  FoldOf(f)[S] = f[e] + FoldOf(f)[S \ {e}]
<1> DEFINE Good(R) == \A x \in R : FoldOf(f)[R] = f[x] + FoldOf(f)[R \ {x}]
           T == {k \in Nat : \E R \in SUBSET DOMAIN f : Cardinality(R) = k /\ ~Good(R)}
<1>1. SUFFICES ASSUME T # {} PROVE FALSE BY <1>1, Picked
<1>2. PICK k \in T : \A m \in T : k <= m BY <1>1, Least
<1>3. PICK R \in SUBSET DOMAIN f : k \in Nat /\ Cardinality(R) = k /\ ~Good(R) BY <1>2
<1>4. PICK x \in R : FoldOf(f)[R] # f[x] + FoldOf(f)[R \ {x}] BY <1>3
<1> DEFINE p == Pick(R)
<1> HIDE DEF T
<1>5. FoldOf(f)[R] = f[p] + FoldOf(f)[R \ {p}] /\ p \in R /\ p # x BY <1>4, FoldFacts, Picked, SMTT(30)
<1>6. /\ R \ {p} \in SUBSET DOMAIN f /\ Cardinality(R \ {p}) = k - 1
      /\ R \ {x} \in SUBSET DOMAIN f /\ Cardinality(R \ {x}) = k - 1
      /\ f[p] \in Nat /\ f[x] \in Nat /\ k # 0
  BY <1>3, <1>4, <1>5, Picked
<1>7. k - 1 \in Nat /\ k - 1 \notin T BY <1>2, <1>3, <1>6
<1>8. Good(R \ {p}) /\ Good(R \ {x}) BY <1>6, <1>7 DEF T
<1>9. FoldOf(f)[R \ {p}] = f[x] + FoldOf(f)[(R \ {p}) \ {x}] BY <1>4, <1>5, <1>8
<1>10. FoldOf(f)[R \ {x}] = f[p] + FoldOf(f)[(R \ {x}) \ {p}] BY <1>4, <1>5, <1>8
<1>11. (R \ {p}) \ {x} = (R \ {x}) \ {p} /\ FoldOf(f)[(R \ {x}) \ {p}] \in Nat BY FoldType
<1> HIDE DEF p
<1>12. ASSUME NEW a \in Nat, NEW b \in Nat, NEW c \in Nat PROVE a + (b + c) = b + (a + c) OBVIOUS
<1>13. FoldOf(f)[R] = f[p] + (f[x] + FoldOf(f)[(R \ {x}) \ {p}]) BY <1>5, <1>9, <1>11, Zenon
<1>14. FoldOf(f)[R] = f[x] + (f[p] + FoldOf(f)[(R \ {x}) \ {p}]) BY <1>6, <1>11, <1>12, <1>13, Zenon
<1> QED BY <1>4, <1>10, <1>14, Zenon

\* A sum depends on nothing but what is added up.
LEMMA FoldLocal ==
  ASSUME NEW f, Finite(f), NEW g, Finite(g), NEW S \in SUBSET DOMAIN f, S \in SUBSET DOMAIN g,
         \A e \in S : f[e] = g[e]
  PROVE  FoldOf(f)[S] = FoldOf(g)[S]
<1> DEFINE T == {k \in Nat : \E R \in SUBSET S : Cardinality(R) = k /\ FoldOf(f)[R] # FoldOf(g)[R]}
<1>1. SUFFICES ASSUME T # {} PROVE FALSE BY <1>1, Picked
<1>2. PICK k \in T : \A m \in T : k <= m BY <1>1, Least
<1>3. PICK R \in SUBSET S : k \in Nat /\ Cardinality(R) = k /\ FoldOf(f)[R] # FoldOf(g)[R] BY <1>2
<1> HIDE DEF T
<1>4. R \in SUBSET DOMAIN f /\ R \in SUBSET DOMAIN g OBVIOUS
<1>5. R # {} BY <1>3, <1>4, FoldFacts
<1>6. PICK x \in R : TRUE BY <1>5
<1>7. R \ {x} \in SUBSET S /\ Cardinality(R \ {x}) = k - 1 /\ k # 0 BY <1>3, <1>4, <1>6, Picked
<1>8. k - 1 \in Nat /\ k - 1 \notin T BY <1>2, <1>3, <1>7
<1>9. FoldOf(f)[R \ {x}] = FoldOf(g)[R \ {x}] BY <1>7, <1>8 DEF T
<1> QED BY <1>3, <1>4, <1>6, <1>9, FoldRemove

\* What the rest needs to know of Sum: an element may be split off.
LEMMA SumFacts ==
  ASSUME NEW f, Finite(f)
  PROVE  /\ Sum(f) \in Nat
         /\ DOMAIN f = {} => Sum(f) = 0
         /\ \A e \in DOMAIN f : Sum(f) = f[e] + Sum([x \in DOMAIN f \ {e} |-> f[x]])
<1>1. Sum(f) = FoldOf(f)[DOMAIN f] BY Unfold DEF FoldOf
<1>2. ASSUME NEW e \in DOMAIN f PROVE Sum(f) = f[e] + Sum([x \in DOMAIN f \ {e} |-> f[x]])
  <2> DEFINE g == [x \in DOMAIN f \ {e} |-> f[x]]
  <2>1. Finite(g) BY FS_RemoveElement DEF Finite
  <2>2. Sum(g) = FoldOf(g)[DOMAIN f \ {e}] BY Unfold DEF FoldOf
  <2>3. FoldOf(f)[DOMAIN f] = f[e] + FoldOf(f)[DOMAIN f \ {e}] BY FoldRemove
  <2>4. DOMAIN g = DOMAIN f \ {e} /\ \A x \in DOMAIN f \ {e} : f[x] = g[x] OBVIOUS
  <2> HIDE DEF g
  <2>5. FoldOf(f)[DOMAIN f \ {e}] = FoldOf(g)[DOMAIN f \ {e}] BY <2>1, <2>4, FoldLocal
  <2> QED BY <1>1, <2>2, <2>3, <2>5 DEF g
<1>3. Sum(f) \in Nat
  <2>1. DOMAIN f \in SUBSET DOMAIN f OBVIOUS
  <2> QED BY <1>1, <2>1, FoldType, Zenon
<1>4. ASSUME DOMAIN f = {} PROVE Sum(f) = 0
  <2>1. DOMAIN f \in SUBSET DOMAIN f OBVIOUS
  <2> QED BY <1>1, <1>4, <2>1, FoldFacts
<1> QED BY <1>2, <1>3, <1>4, Zenon

\* A sequence of numbers is such a function.
LEMMA FiniteSeq == ASSUME NEW s \in Seq(Nat) PROVE Finite(s)
BY FS_Interval DEF Finite

\* The sum of a sequence that gets longer at its end ...
LEMMA SumAppend ==
  ASSUME NEW s \in Seq(Nat), NEW n \in Nat
  PROVE  Sum(s) \in Nat /\ Sum(Append(s, n)) = Sum(s) + n
<1> DEFINE t == Append(s, n)
<1>1. Finite(s) BY FiniteSeq
<1>2. t \in Seq(Nat) /\ DOMAIN t = 1 .. Len(s) + 1 /\ t[Len(s) + 1] = n OBVIOUS
<1>3. Finite(t) BY <1>2, FiniteSeq
<1>4. [x \in DOMAIN t \ {Len(s) + 1} |-> t[x]] = s
  <2>1. DOMAIN t \ {Len(s) + 1} = 1 .. Len(s) BY <1>2
  <2>2. \A i \in 1 .. Len(s) : t[i] = s[i] OBVIOUS
  <2>3. s = [i \in 1 .. Len(s) |-> s[i]] OBVIOUS
  <2> QED BY <2>1, <2>2, <2>3
<1>5. Len(s) + 1 \in DOMAIN t BY <1>2
<1> HIDE DEF t
<1>6. Sum(t) = n + Sum(s)
  <2>1. Sum(t) = t[Len(s) + 1] + Sum([x \in DOMAIN t \ {Len(s) + 1} |-> t[x]]) BY <1>3, <1>5, SumFacts
  <2> QED BY <1>2, <1>4, <2>1, Zenon
<1>7. Sum(s) \in Nat BY <1>1, SumFacts
<1> QED BY <1>6, <1>7 DEF t

\* ... of one that is empty ...
LEMMA SumEmpty == Sum(<<>>) = 0
<1>1. Finite(<<>>) /\ DOMAIN <<>> = {} BY FS_EmptySet DEF Finite
<1> QED BY <1>1, SumFacts

\* ... and of one that gets shorter at its front, by induction on its length.
LEMMA SumTail ==
  ASSUME NEW s \in Seq(Nat), s # <<>>
  PROVE  Sum(s) = Head(s) + Sum(Tail(s))
<1> DEFINE Good(q) == Sum(q) = Head(q) + Sum(Tail(q))
           T == {k \in Nat : \E q \in Seq(Nat) : Len(q) = k /\ q # <<>> /\ ~Good(q)}
<1>1. SUFFICES ASSUME T # {} PROVE FALSE BY <1>1
<1>2. PICK k \in T : \A m \in T : k <= m BY <1>1, Least
<1>3. PICK q \in Seq(Nat) : k \in Nat /\ Len(q) = k /\ q # <<>> /\ ~Good(q) BY <1>2
<1> DEFINE r == [i \in 1 .. k - 1 |-> q[i]]
<1>4. k # 0 /\ r \in Seq(Nat) /\ Len(r) = k - 1 /\ q[k] \in Nat /\ q = Append(r, q[k]) BY <1>3
<1> HIDE DEF T, r
<1>5. Sum(q) = Sum(r) + q[k] /\ Sum(r) \in Nat BY <1>4, SumAppend
<1>6. CASE r = <<>>
  <2>1. Head(q) = q[k] /\ Tail(q) = <<>> BY <1>3, <1>4, <1>6
  <2>2. Sum(r) = 0 /\ Sum(Tail(q)) = 0 BY <1>6, <2>1, SumEmpty, Zenon
  <2>3. Good(q) BY <1>4, <1>5, <2>1, <2>2
  <2> QED BY <1>3, <2>3
<1>7. CASE r # <<>>
  <2>1. Good(r)
    <3>1. k - 1 \in Nat /\ k - 1 \notin T BY <1>2, <1>3, <1>4
    <3> QED BY <1>4, <1>7, <3>1 DEF T
  <2>2. Tail(r) \in Seq(Nat) /\ Head(q) = Head(r) /\ Head(r) \in Nat /\ Tail(q) = Append(Tail(r), q[k])
    <3>1. ASSUME NEW u \in Seq(Nat), u # <<>>, NEW n \in Nat
          PROVE  /\ Tail(u) \in Seq(Nat) /\ Head(u) \in Nat /\ Head(Append(u, n)) = Head(u)
                 /\ Tail(Append(u, n)) = Append(Tail(u), n)
      BY <3>1, SMTT(30)
    <3> QED BY <1>4, <1>7, <3>1
  <2>3. Sum(Tail(q)) = Sum(Tail(r)) + q[k] /\ Sum(Tail(r)) \in Nat BY <1>4, <2>2, SumAppend
  <2> QED BY <1>3, <1>4, <1>5, <2>1, <2>2, <2>3, SMTT(30)
<1> QED BY <1>6, <1>7
------------------------------------------------------------------------------
(* What a bag of acknowledgements has to subtract                           *)

\* What one acknowledgement has still to subtract.
Weight(a) == IF a.at = "going" THEN a.bytes ELSE 0

\* A bag of acknowledgements.
AckBag(b) == IsABag(b) /\ IsFiniteSet(BagToSet(b)) /\ BagToSet(b) \subseteq Ack

\* What its elements have to subtract, all copies together.
Values(b) == [a \in BagToSet(b) |-> IF a.at = "going" THEN a.bytes * b[a] ELSE 0]

\* What a bag has to subtract is a sum over its elements.
LEMMA ValuesFacts ==
  ASSUME NEW b, AckBag(b)
  PROVE  /\ Due(b) = Sum(Values(b)) /\ Finite(Values(b)) /\ DOMAIN Values(b) = BagToSet(b)
         /\ \A a \in BagToSet(b) : a \in Ack /\ b[a] \in Nat /\ b[a] > 0 /\ Values(b)[a] = Weight(a) * b[a]
         /\ Due(b) \in Nat
<1>1. Due(b) = Sum(Values(b)) BY DEF Due, Values
<1>2. \A a \in BagToSet(b) : a \in Ack /\ b[a] \in Nat /\ b[a] > 0 BY DEF AckBag, IsABag, BagToSet
<1>3. \A a \in BagToSet(b) : a.bytes \in Nat BY <1>2 DEF Ack
<1>4. DOMAIN Values(b) = BagToSet(b) BY DEF Values
<1>5. \A a \in BagToSet(b) : Values(b)[a] = Weight(a) * b[a] /\ Values(b)[a] \in Nat
  <2>1. \A k, n \in Nat : k * n \in Nat /\ 0 * n = 0 OBVIOUS
  <2> QED BY <1>2, <1>3, <2>1 DEF Values, Weight
<1>6. Values(b) \in [BagToSet(b) -> Nat] BY <1>5 DEF Values
<1>7. Finite(Values(b)) BY <1>4, <1>6 DEF Finite, AckBag
<1>8. Due(b) \in Nat BY <1>1, <1>7, SumFacts
<1> QED BY <1>1, <1>2, <1>4, <1>5, <1>7, <1>8

\* One more acknowledgement on its way.
LEMMA DueAdd ==
  ASSUME NEW b, AckBag(b), NEW x \in Ack, NEW c, c = b (+) SetToBag({x})
  PROVE  AckBag(c) /\ Due(c) = Due(b) + Weight(x)
<1>1. /\ DOMAIN c = DOMAIN b \cup {x}
      /\ \A a \in DOMAIN b : a # x => c[a] = b[a]
      /\ x \in DOMAIN b => c[x] = b[x] + 1
      /\ x \notin DOMAIN b => c[x] = 1
  <2>1. \A a \in DOMAIN b : b[a] \in Nat BY DEF AckBag, IsABag
  <2>2. SetToBag({x}) = [a \in {x} |-> 1] BY DEF SetToBag
  <2>3. c = [e \in DOMAIN b \cup {x} |-> (IF e \in DOMAIN b THEN b[e] ELSE 0) + (IF e \in {x} THEN 1 ELSE 0)]
    BY <2>2 DEF (+)
  <2>4. \A a \in DOMAIN b : a # x => c[a] = b[a] + 0 BY <2>3
  <2>5. x \in DOMAIN b => c[x] = b[x] + 1 BY <2>3
  <2>6. x \notin DOMAIN b => c[x] = 0 + 1 BY <2>3
  <2>7. DOMAIN c = DOMAIN b \cup {x} BY <2>3
  <2> QED BY <2>1, <2>4, <2>5, <2>6, <2>7
<1>2. AckBag(c)
  <2>1. \A a \in DOMAIN b : b[a] \in Nat /\ b[a] > 0 BY DEF AckBag, IsABag
  <2>2. \A a \in DOMAIN c : c[a] \in {n \in Nat : n > 0} BY <1>1, <2>1
  <2>3. c = [a \in DOMAIN c |-> c[a]] BY DEF (+)
  <2>4. IsABag(c) BY <2>2, <2>3 DEF IsABag
  <2>5. IsFiniteSet(DOMAIN b \cup {x}) BY FS_AddElement DEF AckBag, BagToSet
  <2> QED BY <1>1, <2>4, <2>5 DEF AckBag, BagToSet
<1>3. Weight(x) \in Nat BY DEF Weight, Ack
<1> DEFINE rest == [a \in DOMAIN b \ {x} |-> Values(b)[a]]
<1>4. DOMAIN Values(c) = DOMAIN b \cup {x} /\ DOMAIN Values(b) = DOMAIN b BY <1>1 DEF Values, BagToSet
<1>5. [a \in DOMAIN Values(c) \ {x} |-> Values(c)[a]] = rest
  <2>1. DOMAIN Values(c) \ {x} = DOMAIN b \ {x} BY <1>4
  <2>2. \A a \in DOMAIN b \ {x} : Values(c)[a] = Values(b)[a] BY <1>1 DEF Values, BagToSet
  <2> QED BY <2>1, <2>2
<1> HIDE DEF rest
<1>6. Due(c) = Values(c)[x] + Sum(rest) BY <1>2, <1>4, <1>5, ValuesFacts, SumFacts
<1>7. Values(c)[x] = Weight(x) * c[x] BY <1>1, <1>2, ValuesFacts DEF BagToSet
<1>8. CASE x \notin DOMAIN b
  <2>1. rest = Values(b)
    <3>1. DOMAIN b \ {x} = DOMAIN b BY <1>8
    <3>2. Values(b) = [a \in DOMAIN b |-> Values(b)[a]] BY DEF Values, BagToSet
    <3> QED BY <3>1, <3>2 DEF rest
  <2>2. Weight(x) * 1 = Weight(x) BY <1>3
  <2>3. Values(c)[x] = Weight(x) BY <1>1, <1>7, <1>8, <2>2
  <2>4. Due(c) = Weight(x) + Due(b) BY <1>6, <2>1, <2>3, ValuesFacts
  <2>5. Due(b) \in Nat BY ValuesFacts
  <2> QED BY <1>2, <1>3, <2>4, <2>5
<1>9. CASE x \in DOMAIN b
  <2>1. Due(b) = Weight(x) * b[x] + Sum(rest)
    <3>1. Sum(Values(b)) = Values(b)[x] + Sum([a \in DOMAIN Values(b) \ {x} |-> Values(b)[a]])
      BY <1>4, <1>9, ValuesFacts, SumFacts
    <3>2. [a \in DOMAIN Values(b) \ {x} |-> Values(b)[a]] = rest BY <1>4 DEF rest
    <3>3. Values(b)[x] = Weight(x) * b[x] /\ Due(b) = Sum(Values(b)) BY <1>9, ValuesFacts DEF BagToSet
    <3> QED BY <3>1, <3>2, <3>3
  <2>2. b[x] \in Nat /\ Due(b) \in Nat BY <1>9, ValuesFacts DEF BagToSet
  <2>3. Sum(rest) \in Nat
    <3>1. \A a \in DOMAIN b : Values(b)[a] \in Nat BY <1>4, ValuesFacts DEF Finite
    <3>2. IsFiniteSet(DOMAIN b \ {x}) BY FS_RemoveElement DEF AckBag, BagToSet
    <3>3. Finite(rest) BY <3>1, <3>2 DEF Finite, rest
    <3> QED BY <3>3, SumFacts
  <2>4. \A k, n \in Nat : k * (n + 1) = k * n + k /\ k * n \in Nat OBVIOUS
  <2>5. Values(c)[x] = Weight(x) * b[x] + Weight(x) /\ Weight(x) * b[x] \in Nat BY <1>1, <1>3, <1>7, <1>9, <2>2, <2>4
  <2>6. \A k, m, n \in Nat : (k + m) + n = (k + n) + m OBVIOUS
  <2>7. Due(c) = (Weight(x) * b[x] + Weight(x)) + Sum(rest) BY <1>6, <2>5
  <2> QED BY <1>2, <1>3, <2>1, <2>3, <2>5, <2>6, <2>7
<1> QED BY <1>8, <1>9

\* One less.
LEMMA DueRemove ==
  ASSUME NEW b, AckBag(b), NEW x \in BagToSet(b), NEW c, c = b (-) SetToBag({x})
  PROVE  AckBag(c) /\ Due(b) = Due(c) + Weight(x) /\ Due(c) \in Nat /\ Weight(x) \in Nat
<1>1. \A a \in DOMAIN b : b[a] \in Nat /\ b[a] > 0 BY DEF AckBag, IsABag
<1> DEFINE B == [e \in DOMAIN b |-> IF e \in {x} THEN b[e] - 1 ELSE b[e]]
<1>2. c = [e \in {d \in DOMAIN B : B[d] > 0} |-> B[e]]
  <2>1. SetToBag({x}) = [a \in {x} |-> 1] BY DEF SetToBag
  <2> QED BY <2>1 DEF (-)
<1>3. DOMAIN c \subseteq DOMAIN b /\ \A a \in DOMAIN c : c[a] = B[a] /\ B[a] > 0 BY <1>2
<1>4. \A a \in DOMAIN b : a # x => a \in DOMAIN c /\ c[a] = b[a] BY <1>1, <1>2
<1>5. x \in DOMAIN b /\ b[x] \in Nat /\ b[x] > 0 /\ B[x] = b[x] - 1 BY <1>1 DEF BagToSet
<1>6. x \in DOMAIN c => c[x] = b[x] - 1 BY <1>3, <1>5
<1>7. x \notin DOMAIN c => b[x] = 1
  <2>1. x \notin DOMAIN c => ~(B[x] > 0) BY <1>2, <1>5
  <2> QED BY <1>5, <2>1
<1>8. AckBag(c)
  <2>1. \A a \in DOMAIN c : c[a] \in {n \in Nat : n > 0}
    <3>1. TAKE a \in DOMAIN c
    <3>2. a \in DOMAIN b /\ c[a] = B[a] /\ B[a] > 0 BY <1>3
    <3>3. CASE a = x BY <1>5, <1>6, <3>2, <3>3
    <3>4. CASE a # x BY <1>1, <1>4, <3>2, <3>4
    <3> QED BY <3>3, <3>4
  <2>2. c = [a \in DOMAIN c |-> c[a]] BY <1>2
  <2>3. IsABag(c) BY <2>1, <2>2 DEF IsABag
  <2>4. IsFiniteSet(DOMAIN c) BY <1>3, FS_Subset DEF AckBag, BagToSet
  <2> QED BY <1>3, <2>3, <2>4 DEF AckBag, BagToSet
<1>9. b = c (+) SetToBag({x})
  <2>1. SetToBag({x}) = [a \in {x} |-> 1] BY DEF SetToBag
  <2>2. c (+) SetToBag({x}) = [e \in DOMAIN c \cup {x} |-> (IF e \in DOMAIN c THEN c[e] ELSE 0) + (IF e \in {x} THEN 1 ELSE 0)]
    BY <2>1 DEF (+)
  <2>3. DOMAIN b = DOMAIN c \cup {x} BY <1>3, <1>4, <1>5
  <2>4. \A e \in DOMAIN b : b[e] = (IF e \in DOMAIN c THEN c[e] ELSE 0) + (IF e \in {x} THEN 1 ELSE 0)
    <3>1. TAKE e \in DOMAIN b
    <3>2. CASE e = x BY <3>2, <1>5, <1>6, <1>7
    <3>3. CASE e # x BY <3>3, <1>1, <1>4
    <3> QED BY <3>2, <3>3
  <2>5. b = [e \in DOMAIN b |-> b[e]] BY DEF AckBag, IsABag
  <2> QED BY <2>2, <2>3, <2>4, <2>5
<1>10. x \in Ack BY DEF AckBag
<1>11. Due(b) = Due(c) + Weight(x) BY <1>8, <1>9, <1>10, DueAdd
<1>12. Weight(x) \in Nat BY <1>10 DEF Weight, Ack
<1> QED BY <1>8, <1>11, <1>12, ValuesFacts
------------------------------------------------------------------------------
(* The invariant                                                            *)

\* A frame is being collected or handed over, or there is none.
FrameOK ==
  /\ batcher.pc \in {"fill", "count", "send"} =>
       batcher.frame # 0 /\ \E n \in Chunk : batcher.frame <= MaxFrame - 1 + n
  /\ batcher.pc \notin {"fill", "count", "send"} => batcher.frame = 0
  /\ batcher.ended => ~open /\ queue = <<>>

\* Closing follows the page, and while the page stays, the batcher ends only with its source.
PageOK ==
  /\ page # "detached" => closing = "no"
  /\ Mine /\ batcher.pc \in {"finish", "done"} => ~open /\ queue = <<>>

\* What was read and is not on the screen is somewhere between the two.
Between == Sum(queue) + batcher.frame + Sum(ipc) + Sum(parsing)

Whole ==
  /\ Between + written + left <= Total
  /\ Mine => Between + written + left = Total

\* The end marker is the last the batcher sends.
MarkerOK ==
  /\ \A i \in 1 .. Len(ipc) : ipc[i] = 0 => i = Len(ipc) /\ At("done")
  /\ ended => At("done") /\ ipc = <<>>

\* Nothing that is on its way is free to be sent again: it is counted.
Covered == failed = 0 => OnTheWay + pending + Going <= unacked

\* Whoever collects a frame has seen the counter below the watermark.
GateOK ==
  /\ At("gate") => closed \/ unacked <= HighWatermark
  /\ batcher.pc \in {"recv", "fill", "count"} => unacked <= HighWatermark

Inv ==
  /\ TypeOK /\ failures <= failed
  /\ FrameOK /\ PageOK /\ Whole /\ MarkerOK
  /\ CreditIsKept /\ Covered /\ GateOK /\ WebviewIsBounded

------------------------------------------------------------------------------
(* What the invariant says of the numbers                                   *)

\* What the assumptions say of the constants.
LEMMA Constants ==
  /\ HighWatermark \in Nat /\ LowWatermark \in Nat /\ MaxFrame \in Nat /\ MaxFrame > 0
  /\ LowWatermark <= HighWatermark
  /\ Chunk \subseteq Nat /\ 0 \notin Chunk /\ Chunk # {} /\ Total \in Nat /\ MaxFailures \in Nat
BY StreamAssumption

\* A sequence of some numbers is a sequence of numbers.
LEMMA NatSeq == ASSUME NEW S \in SUBSET Nat, NEW s \in Seq(S) PROVE s \in Seq(Nat)
BY SeqMonotonic

\* What the types say, with the sums.
LEMMA Facts ==
  ASSUME TypeOK
  PROVE  /\ left \in Nat /\ written \in Nat /\ unacked \in Nat /\ pending \in Nat /\ lost \in Nat
         /\ failed \in Nat /\ failures \in Nat
         /\ batcher.pc \in Step /\ batcher.frame \in Nat /\ batcher.ended \in BOOLEAN
         /\ queue \in Seq(Nat) /\ ipc \in Seq(Nat) /\ parsing \in Seq(Nat)
         /\ Sum(queue) \in Nat /\ Sum(ipc) \in Nat /\ Sum(parsing) \in Nat
         /\ AckBag(acks) /\ Going = Due(acks) /\ Due(acks) \in Nat
<1>1. /\ left \in Nat /\ written \in Nat /\ unacked \in Nat /\ pending \in Nat /\ lost \in Nat
      /\ failed \in Nat /\ failures \in Nat
  BY Constants DEF TypeOK
<1>2. batcher.pc \in Step /\ batcher.frame \in Nat /\ batcher.ended \in BOOLEAN BY DEF TypeOK
<1>3. queue \in Seq(Nat) BY Constants, NatSeq DEF TypeOK
<1>4. ipc \in Seq(Nat) BY DEF TypeOK
<1>5. parsing \in Seq(Nat) BY NatSeq DEF TypeOK
<1>6. AckBag(acks) BY DEF TypeOK, AckBag
<1>7. Going = Due(acks) /\ Due(acks) \in Nat BY <1>6, ValuesFacts DEF Going
<1>8. Sum(queue) \in Nat /\ Sum(ipc) \in Nat /\ Sum(parsing) \in Nat BY <1>3, <1>4, <1>5, SumAppend
<1> QED BY <1>1, <1>2, <1>3, <1>4, <1>5, <1>6, <1>7, <1>8

\* Taking the first element of a sequence of numbers.
LEMMA TailFacts ==
  ASSUME NEW s \in Seq(Nat), s # <<>>
  PROVE  /\ Head(s) \in Nat /\ Tail(s) \in Seq(Nat) /\ Sum(Tail(s)) \in Nat
         /\ Sum(s) = Head(s) + Sum(Tail(s))
<1>1. Head(s) \in Nat /\ Tail(s) \in Seq(Nat) OBVIOUS
<1> QED BY <1>1, SumTail, SumAppend

\* The invariant holds before the program has written anything.
THEOREM InitInv == Init => Inv
<1> SUFFICES ASSUME Init PROVE Inv OBVIOUS
<1> USE DEF Init
<1>1. TypeOK
  <2>1. acks = [a \in {} |-> 1] BY DEF EmptyBag, SetToBag
  <2>2. IsABag(acks) BY <2>1 DEF IsABag
  <2>3. BagToSet(acks) = {} BY <2>1 DEF BagToSet
  <2>4. IsABag(acks) /\ IsFiniteSet(BagToSet(acks)) /\ BagToSet(acks) \subseteq Ack BY <2>2, <2>3, FS_EmptySet
  <2>5. Capacity \in Nat BY StreamAssumption
  <2>6. queue \in Seq(Chunk) /\ Len(queue) <= Capacity /\ ipc \in Seq(Nat) /\ parsing \in Seq(Nat \ {0}) BY <2>5
  <2>7. batcher \in [pc : Step, frame : Nat, ended : BOOLEAN] BY DEF Step
  <2>8. left \in 0 .. Total /\ written \in 0 .. Total /\ failures \in 0 .. MaxFailures /\ failed \in 0 .. MaxFailures BY Constants
  <2>9. /\ open \in BOOLEAN /\ unacked \in Nat /\ closing \in Closing /\ woken \in BOOLEAN
        /\ page \in {"starting", "attached", "left", "detached"} /\ ended \in BOOLEAN
        /\ pending \in Nat /\ timer \in BOOLEAN /\ lost \in Nat
    BY DEF Closing
  <2> QED BY <2>4, <2>6, <2>7, <2>8, <2>9, Zenon DEF TypeOK
<1>2. failures <= failed OBVIOUS
<1>3. FrameOK BY DEF FrameOK
<1>4. PageOK BY DEF PageOK
<1>5. Sum(queue) = 0 /\ Sum(ipc) = 0 /\ Sum(parsing) = 0 BY SumEmpty
<1>6. Whole BY <1>5, Constants DEF Whole, Between
<1>7. MarkerOK BY DEF MarkerOK
<1>8. Going = 0
  <2>1. Values(acks) = [a \in {} |-> 0] /\ DOMAIN Values(acks) = {} BY DEF Values, BagToSet, EmptyBag, SetToBag
  <2>2. Sum(Values(acks)) = 0 BY <1>1, <2>1, Facts, ValuesFacts, SumFacts
  <2> QED BY <1>1, <2>2, Facts, ValuesFacts
<1>9. OnTheWay = 0 BY <1>5 DEF OnTheWay, At
<1>10. CreditIsKept /\ Covered BY <1>8, <1>9 DEF CreditIsKept, Covered
<1>11. GateOK BY DEF GateOK, At
<1>12. WebviewIsBounded
  <2>1. PICK n \in Chunk : TRUE BY Constants
  <2>2. OnTheWay <= HighWatermark + MaxFrame - 1 + n BY <1>9, <2>1, Constants
  <2> QED BY <2>2 DEF WebviewIsBounded
<1> QED BY <1>1, <1>2, <1>3, <1>4, <1>6, <1>7, <1>10, <1>11, <1>12 DEF Inv

------------------------------------------------------------------------------
(* The batcher                                                              *)

\* A step that only moves on, and neither takes up a frame nor lets go of one.
LEMMA PcStep ==
  ASSUME Inv, NEW p \in Step, Go(p), woken' \in BOOLEAN,
         UNCHANGED <<left, queue, open, unacked, closing, driver, ipc, acks, failed, lost>>,
         batcher.pc \in {"fill", "count"} <=> p \in {"fill", "count"},
         batcher.pc \notin {"send", "done"}, p \notin {"send", "done"},
         p = "finish" => ~Mine \/ (~open /\ queue = <<>>),
         p = "gate" => closed \/ unacked <= HighWatermark,
         p \in {"recv", "fill", "count"} => unacked <= HighWatermark
  PROVE  Inv'
<1>1. /\ batcher \in [pc : Step, frame : Nat, ended : BOOLEAN]
      /\ batcher'.pc = p /\ batcher'.frame = batcher.frame /\ batcher'.ended = batcher.ended
      /\ batcher' \in [pc : Step, frame : Nat, ended : BOOLEAN]
  BY DEF Go, Inv, TypeOK
<1>2. (TypeOK /\ failures <= failed)' BY <1>1 DEF Inv, TypeOK, driver
<1>3. FrameOK' BY <1>1 DEF Inv, FrameOK, driver
<1>4. PageOK' BY <1>1 DEF Inv, PageOK, driver, Mine
<1>5. Whole' BY <1>1 DEF Inv, Whole, Between, driver, Mine
<1>6. MarkerOK' BY <1>1 DEF Inv, MarkerOK, At, driver
<1>7. OnTheWay' = OnTheWay BY <1>1 DEF OnTheWay, At, driver
<1>8. CreditIsKept' /\ Covered' BY <1>7 DEF Inv, CreditIsKept, Covered, Going, Mine, driver
<1>9. GateOK' BY <1>1 DEF Inv, GateOK, At, closed
<1>10. WebviewIsBounded' BY <1>7 DEF Inv, WebviewIsBounded
<1> QED BY <1>2, <1>3, <1>4, <1>5, <1>6, <1>8, <1>9, <1>10 DEF Inv

\* The steps of wait_for_capacity, and those of run_batcher that move nothing.
LEMMA BatcherMoves ==
  ASSUME Inv, Check \/ Enable \/ Recheck \/ Await \/ Wake \/ Gate \/ FrameDone
  PROVE  Inv'
<1>1. woken \in BOOLEAN /\ unacked \in Nat BY DEF Inv, TypeOK
<1>2. {"check", "enable", "recheck", "await", "park", "gate", "recv", "fill", "count", "finish"} \subseteq Step BY DEF Step
<1>3. closed => page = "detached" BY DEF Inv, PageOK, closed
<1>4. CASE Check BY <1>1, <1>2, <1>4, PcStep DEF Check, At
<1>5. CASE Enable BY <1>1, <1>2, <1>5, PcStep DEF Enable, At
<1>6. CASE Recheck BY <1>1, <1>2, <1>6, PcStep, Constants DEF Recheck, At
<1>7. CASE Await BY <1>1, <1>2, <1>7, PcStep DEF Await, At
<1>8. CASE Wake BY <1>1, <1>2, <1>8, PcStep DEF Wake, At
<1>9. CASE Gate BY <1>1, <1>2, <1>3, <1>9, PcStep DEF Gate, At, Mine, Inv, GateOK
<1>10. CASE FrameDone BY <1>1, <1>2, <1>10, PcStep DEF FrameDone, At, Inv, GateOK
<1> QED BY <1>4, <1>5, <1>6, <1>7, <1>8, <1>9, <1>10
------------------------------------------------------------------------------
(* The reader, and what goes through the batcher                            *)

\* Nothing appears on the way, and nothing disappears while the page stays.
LEMMA WholeStep ==
  ASSUME Inv,
         NEW q \in Nat, NEW f \in Nat, NEW i \in Nat, NEW r \in Nat, NEW w \in Nat, NEW l \in Nat,
         Sum(queue') = q, batcher'.frame = f, Sum(ipc') = i, Sum(parsing') = r, written' = w, left' = l,
         q + f + i + r + w + l <= Sum(queue) + batcher.frame + Sum(ipc) + Sum(parsing) + written + left,
         Mine' => /\ Mine
                  /\ q + f + i + r + w + l = Sum(queue) + batcher.frame + Sum(ipc) + Sum(parsing) + written + left
  PROVE  Whole'
<1>1. TypeOK /\ Total \in Nat BY Constants DEF Inv
<1>2. /\ Sum(queue) \in Nat /\ batcher.frame \in Nat /\ Sum(ipc) \in Nat /\ Sum(parsing) \in Nat
      /\ written \in Nat /\ left \in Nat
  BY <1>1, Facts
<1>3. Between' = q + f + i + r BY DEF Between
<1>4. /\ Sum(queue) + batcher.frame + Sum(ipc) + Sum(parsing) + written + left <= Total
      /\ Mine => Sum(queue) + batcher.frame + Sum(ipc) + Sum(parsing) + written + left = Total
  BY DEF Inv, Whole, Between
<1>5. Between' + written' + left' <= Total BY <1>1, <1>2, <1>3, <1>4
<1>6. Mine' => Between' + written' + left' = Total BY <1>1, <1>2, <1>3, <1>4
<1> QED BY <1>5, <1>6 DEF Whole

\* The reader queues a chunk, or finds nobody to take it.
LEMMA ReadStep == ASSUME Inv, Read PROVE Inv'
<1>1. PICK n \in Chunk :
        /\ n <= left /\ left' = left - n
        /\ IF At("done") THEN open' = FALSE /\ UNCHANGED queue
           ELSE Len(queue) < Capacity /\ queue' = Append(queue, n) /\ UNCHANGED open
  BY DEF Read
<1>2. /\ UNCHANGED <<batcher, unacked, closing, woken, page, parsing, written, ended, pending, timer,
                     failures, ipc, acks, failed, lost>>
      /\ open
  BY DEF Read, driver
<1>3. TypeOK /\ n \in Nat /\ left' \in Nat /\ left' + n = left /\ left' <= left
  <2>1. TypeOK BY DEF Inv
  <2>2. n \in Nat /\ left \in Nat BY <2>1, Constants, Facts
  <2> QED BY <1>1, <2>1, <2>2
<1>4. (TypeOK /\ failures <= failed)'
  <2>1. queue' \in Seq(Chunk) /\ Len(queue') <= Capacity
    <3>1. queue \in Seq(Chunk) /\ Len(queue) \in Nat /\ Len(queue) <= Capacity /\ Capacity \in Nat
      BY <1>3, StreamAssumption DEF TypeOK
    <3> QED BY <1>1, <3>1
  <2>2. left' \in 0 .. Total /\ open' \in BOOLEAN
    <3>1. left \in 0 .. Total /\ open \in BOOLEAN /\ Total \in Nat BY <1>3, Constants DEF TypeOK
    <3>2. left' \in 0 .. Total BY <1>3, <3>1
    <3> QED BY <1>1, <3>1, <3>2
  <2> QED BY <1>2, <2>1, <2>2 DEF Inv, TypeOK
<1>5. Sum(queue') \in Nat /\ (At("done") \/ Sum(queue') = Sum(queue) + n) /\ (At("done") => Sum(queue') = Sum(queue))
  <2>1. queue \in Seq(Nat) /\ Sum(queue) \in Nat BY <1>3, Facts
  <2>2. Sum(Append(queue, n)) = Sum(queue) + n BY <1>3, <2>1, SumAppend
  <2>3. CASE At("done") BY <1>1, <2>1, <2>3
  <2>4. CASE ~At("done")
    <3>1. Sum(queue') = Sum(queue) + n BY <1>1, <2>2, <2>4, Zenon
    <3> QED BY <1>3, <2>1, <2>4, <3>1
  <2> QED BY <2>3, <2>4
<1>6. ~Mine \/ ~At("done") BY <1>2 DEF Inv, PageOK, At
<1>7. FrameOK' BY <1>1, <1>2 DEF Inv, FrameOK
<1>8. PageOK' BY <1>1, <1>2 DEF Inv, PageOK, Mine
<1>9. Whole'
  <2>1. /\ Sum(queue) \in Nat /\ batcher.frame \in Nat /\ Sum(ipc) \in Nat /\ Sum(parsing) \in Nat
        /\ written \in Nat
    BY <1>3, Facts
  <2>2. Mine' = Mine BY <1>2 DEF Mine
  <2> QED BY <1>2, <1>3, <1>5, <1>6, <2>1, <2>2, WholeStep, SMTT(30)
<1>10. MarkerOK' BY <1>2 DEF Inv, MarkerOK, At
<1>11. OnTheWay' = OnTheWay /\ Going' = Going /\ Mine' = Mine BY <1>2 DEF OnTheWay, At, Going, Mine
<1>12. CreditIsKept' /\ Covered' /\ WebviewIsBounded' BY <1>2, <1>11 DEF Inv, CreditIsKept, Covered, WebviewIsBounded
<1>13. GateOK' BY <1>2 DEF Inv, GateOK, At, closed
<1> QED BY <1>4, <1>7, <1>8, <1>9, <1>10, <1>12, <1>13 DEF Inv

\* The reader lets go of its end.
LEMMA ReadEndStep == ASSUME Inv, ReadEnd PROVE Inv'
<1>1. /\ UNCHANGED <<left, queue, batcher, unacked, closing, woken, page, parsing, written, ended, pending, timer,
                     failures, ipc, acks, failed, lost>>
      /\ open' = FALSE
  BY DEF ReadEnd, driver
<1>2. (TypeOK /\ failures <= failed)' BY <1>1 DEF Inv, TypeOK
<1>3. FrameOK' /\ PageOK' BY <1>1 DEF Inv, FrameOK, PageOK, Mine
<1>4. Whole' /\ MarkerOK' BY <1>1 DEF Inv, Whole, Between, Mine, MarkerOK, At
<1>5. OnTheWay' = OnTheWay /\ Going' = Going /\ Mine' = Mine BY <1>1 DEF OnTheWay, At, Going, Mine
<1>6. CreditIsKept' /\ Covered' /\ WebviewIsBounded' BY <1>1, <1>5 DEF Inv, CreditIsKept, Covered, WebviewIsBounded
<1>7. GateOK' BY <1>1 DEF Inv, GateOK, At, closed
<1> QED BY <1>2, <1>3, <1>4, <1>6, <1>7 DEF Inv

\* A chunk joins the frame, whether it is the first or not.
LEMMA TakeStep ==
  ASSUME Inv, NEW h, h = Head(queue), batcher.pc \in {"recv", "fill"}, batcher.frame < MaxFrame, queue # <<>>, queue' = Tail(queue),
         batcher' = [batcher EXCEPT !.pc = "fill", !.frame = batcher.frame + h],
         UNCHANGED <<left, open, unacked, closing, woken, driver, ipc, acks, failed, lost>>
  PROVE  Inv'
<1>1. /\ queue \in Seq(Chunk) /\ h \in Chunk /\ Tail(queue) \in Seq(Chunk)
      /\ Len(Tail(queue)) <= Len(queue) /\ Len(Tail(queue)) \in Nat /\ Len(queue) \in Nat
  BY DEF Inv, TypeOK
<1>2. /\ h \in Nat /\ h # 0 /\ Sum(Tail(queue)) \in Nat
      /\ Sum(queue) = h + Sum(Tail(queue))
  <2>1. queue \in Seq(Nat) BY Facts DEF Inv
  <2>2. h # 0 BY <1>1, Constants
  <2>3. /\ Head(queue) \in Nat /\ Sum(Tail(queue)) \in Nat /\ Sum(queue) = Head(queue) + Sum(Tail(queue))
    BY <2>1, TailFacts
  <2> QED BY <2>2, <2>3
<1>3. TypeOK /\ batcher.frame \in Nat BY Facts DEF Inv
<1>4. /\ batcher'.pc = "fill" /\ batcher'.frame = batcher.frame + h /\ batcher'.ended = batcher.ended
      /\ batcher' \in [pc : Step, frame : Nat, ended : BOOLEAN]
  <2>1. batcher \in [pc : Step, frame : Nat, ended : BOOLEAN] /\ "fill" \in Step BY <1>3 DEF TypeOK, Step
  <2>2. batcher.frame + h \in Nat BY <1>2, <1>3
  <2> HIDE DEF Step
  <2> QED BY <2>1, <2>2
<1>5. (TypeOK /\ failures <= failed)'
  <2>1. Len(queue') <= Capacity BY <1>1, <1>3, StreamAssumption, SMTT(30) DEF TypeOK
  <2> QED BY <1>1, <1>4, <2>1 DEF Inv, TypeOK, driver
<1>6. FrameOK'
  <2>1. batcher'.frame # 0 /\ batcher'.frame <= MaxFrame - 1 + h BY <1>2, <1>3, <1>4, Constants, SMTT(30)
  <2>2. ~batcher.ended BY DEF Inv, FrameOK
  <2> QED BY <1>1, <1>4, <2>1, <2>2 DEF FrameOK
<1>7. PageOK' BY <1>4 DEF Inv, PageOK, driver, Mine
<1>8. Whole'
  <2>1. /\ Sum(ipc) \in Nat /\ Sum(parsing) \in Nat /\ written \in Nat /\ left \in Nat
        /\ batcher.frame + h \in Nat
    <3>1. /\ Sum(ipc) \in Nat /\ Sum(parsing) \in Nat /\ written \in Nat /\ left \in Nat BY <1>3, Facts
    <3> QED BY <1>2, <1>3, <3>1
  <2>2. Mine' = Mine /\ ipc' = ipc /\ parsing' = parsing /\ written' = written /\ left' = left BY DEF Mine, driver
  <2>3. Sum(queue') = Sum(Tail(queue)) OBVIOUS
  <2>4. Sum(queue') \in Nat /\ Sum(queue) = h + Sum(queue') BY <1>2, <2>3
  <2>5. Sum(queue') + (batcher.frame + h) + Sum(ipc) + Sum(parsing) + written + left
        = Sum(queue) + batcher.frame + Sum(ipc) + Sum(parsing) + written + left
    BY <1>2, <1>3, <2>1, <2>4
  <2>6. Sum(queue) + batcher.frame + Sum(ipc) + Sum(parsing) + written + left \in Nat
    <3>1. Sum(queue) \in Nat BY <1>3, Facts
    <3> QED BY <1>3, <2>1, <3>1, SMTT(30)
  <2>7. Sum(ipc') = Sum(ipc) /\ Sum(parsing') = Sum(parsing) BY <2>2
  <2> QED BY <1>4, <2>1, <2>2, <2>4, <2>5, <2>6, <2>7, WholeStep
<1>9. MarkerOK' BY <1>4 DEF Inv, MarkerOK, At, driver
<1>10. OnTheWay' = OnTheWay /\ Going' = Going /\ Mine' = Mine BY <1>4 DEF OnTheWay, At, Going, Mine, driver
<1>11. CreditIsKept' /\ Covered' /\ WebviewIsBounded'
  BY <1>10 DEF Inv, CreditIsKept, Covered, WebviewIsBounded, driver
<1>12. GateOK' BY <1>4 DEF Inv, GateOK, At, closed
<1> QED BY <1>5, <1>6, <1>7, <1>8, <1>9, <1>11, <1>12 DEF Inv

\* The batcher takes the first chunk of a frame, or finds the queue at its end.
LEMMA ReceiveStep == ASSUME Inv, Receive PROVE Inv'
<1>1. TypeOK /\ batcher.pc = "recv" /\ batcher.frame = 0 /\ MaxFrame > 0 BY Constants DEF Inv, FrameOK, Receive, At
<1>2. CASE queue # <<>>
  <2>1. /\ queue' = Tail(queue) /\ batcher' = [batcher EXCEPT !.pc = "fill", !.frame = Head(queue)]
        /\ UNCHANGED <<left, open, unacked, closing, woken, driver, ipc, acks, failed, lost>>
    BY <1>2 DEF Receive
  <2>2. Head(queue) = batcher.frame + Head(queue) BY <1>1, <1>2, TailFacts, Facts, SMTT(30)
  <2>3. batcher' = [batcher EXCEPT !.pc = "fill", !.frame = batcher.frame + Head(queue)] BY <2>1, <2>2
  <2>4. batcher.frame < MaxFrame BY <1>1
  <2> QED BY <1>1, <1>2, <2>1, <2>3, <2>4, TakeStep
<1>3. CASE queue = <<>>
  <2>1. ~open /\ Go("finish") /\ UNCHANGED <<left, queue, open, unacked, closing, woken, driver, ipc, acks, failed, lost>>
    BY <1>3 DEF Receive
  <2>2. woken' \in BOOLEAN BY <1>1, <2>1 DEF TypeOK
  <2> QED BY <1>1, <1>3, <2>1, <2>2, PcStep DEF Step
<1> QED BY <1>2, <1>3

\* The batcher adds to its frame, or finds that there is no more.
LEMMA FillStep == ASSUME Inv, Fill PROVE Inv'
<1>1. TypeOK /\ batcher.pc = "fill" /\ batcher.frame < MaxFrame BY DEF Inv, Fill, At
<1>2. CASE queue # <<>>
  <2>1. /\ queue' = Tail(queue) /\ batcher' = [batcher EXCEPT !.frame = @ + Head(queue)]
        /\ UNCHANGED <<left, open, unacked, closing, woken, driver, ipc, acks, failed, lost>>
    BY <1>2 DEF Fill
  <2>2. batcher' = [batcher EXCEPT !.pc = "fill", !.frame = batcher.frame + Head(queue)] BY <1>1, <2>1 DEF TypeOK
  <2> QED BY <1>1, <1>2, <2>1, <2>2, TakeStep
<1>3. CASE queue = <<>>
  <2>1. /\ ~open /\ batcher' = [batcher EXCEPT !.pc = "count", !.ended = TRUE]
        /\ UNCHANGED <<left, queue, open, unacked, closing, woken, driver, ipc, acks, failed, lost>>
    BY <1>3 DEF Fill
  <2>2. /\ batcher'.pc = "count" /\ batcher'.frame = batcher.frame /\ batcher'.ended = TRUE
        /\ batcher' \in [pc : Step, frame : Nat, ended : BOOLEAN]
    BY <1>1, <2>1 DEF TypeOK, Step
  <2>3. (TypeOK /\ failures <= failed)' BY <2>1, <2>2 DEF Inv, TypeOK, driver
  <2>4. FrameOK' BY <1>1, <1>3, <2>1, <2>2 DEF Inv, FrameOK
  <2>5. PageOK' BY <2>1, <2>2 DEF Inv, PageOK, driver, Mine
  <2>6. Whole' /\ MarkerOK' BY <1>1, <2>1, <2>2 DEF Inv, Whole, Between, Mine, driver, MarkerOK, At
  <2>7. OnTheWay' = OnTheWay /\ Going' = Going /\ Mine' = Mine BY <1>1, <2>1, <2>2 DEF OnTheWay, At, Going, Mine, driver
  <2>8. CreditIsKept' /\ Covered' /\ WebviewIsBounded'
    BY <2>1, <2>7 DEF Inv, CreditIsKept, Covered, WebviewIsBounded, driver
  <2>9. GateOK' BY <1>1, <2>1, <2>2 DEF Inv, GateOK, At, closed
  <2> QED BY <2>3, <2>4, <2>5, <2>6, <2>8, <2>9 DEF Inv
<1> QED BY <1>2, <1>3
\* The sums of several places are numbers.
LEMMA OnTheWayFacts ==
  ASSUME TypeOK
  PROVE  OnTheWay \in Nat /\ Going \in Nat /\ Between \in Nat
<1>1. Sum(queue) \in Nat /\ Sum(ipc) \in Nat /\ Sum(parsing) \in Nat /\ batcher.frame \in Nat BY Facts
<1>2. OnTheWay \in Nat /\ Between \in Nat BY <1>1 DEF OnTheWay, Between
<1> QED BY <1>2, Facts

\* on_sent: what is about to be sent is counted first.
LEMMA CountStep == ASSUME Inv, Count PROVE Inv'
<1>1. /\ batcher.pc = "count" /\ unacked' = unacked + batcher.frame /\ batcher' = [batcher EXCEPT !.pc = "send"]
      /\ UNCHANGED <<left, queue, open, closing, woken, page, parsing, written, ended, pending, timer,
                     failures, ipc, acks, failed, lost>>
  BY DEF Count, At, Go, driver
<1>2. TypeOK /\ batcher.frame \in Nat /\ unacked \in Nat /\ pending \in Nat /\ lost \in Nat
  <2>1. TypeOK BY DEF Inv
  <2> QED BY <2>1, Facts
<1>3. OnTheWay \in Nat /\ Going \in Nat /\ Sum(ipc) \in Nat /\ Sum(parsing) \in Nat BY <1>2, Facts, OnTheWayFacts
<1>4. /\ batcher'.pc = "send" /\ batcher'.frame = batcher.frame /\ batcher'.ended = batcher.ended
      /\ batcher' \in [pc : Step, frame : Nat, ended : BOOLEAN]
  <2>1. batcher \in [pc : Step, frame : Nat, ended : BOOLEAN] /\ "send" \in Step BY <1>2 DEF TypeOK, Step
  <2> QED BY <1>1, <2>1
<1>5. OnTheWay' = OnTheWay + batcher.frame /\ Going' = Going /\ Mine' = Mine
  <2>1. OnTheWay = Sum(ipc) + Sum(parsing) BY <1>1, <1>3 DEF OnTheWay, At
  <2>2. OnTheWay' = Sum(ipc) + Sum(parsing) + batcher.frame BY <1>1, <1>4 DEF OnTheWay, At
  <2> QED BY <1>1, <2>1, <2>2 DEF Going, Mine
<1>6. (TypeOK /\ failures <= failed)'
  <2>1. unacked' \in Nat BY <1>1, <1>2
  <2> QED BY <1>1, <1>4, <2>1 DEF Inv, TypeOK
<1>7. FrameOK' BY <1>1, <1>4 DEF Inv, FrameOK
<1>8. PageOK' BY <1>1, <1>4 DEF Inv, PageOK, Mine
<1>9. Whole' /\ MarkerOK' BY <1>1, <1>4 DEF Inv, Whole, Between, Mine, MarkerOK, At
<1>10. CreditIsKept'
  <2>1. Mine => unacked <= OnTheWay + pending + Going + lost BY DEF Inv, CreditIsKept
  <2>2. Mine => unacked + batcher.frame <= (OnTheWay + batcher.frame) + pending + Going + lost BY <1>2, <1>3, <2>1
  <2> QED BY <1>1, <1>5, <2>2 DEF CreditIsKept
<1>11. Covered'
  <2>1. failed = 0 => OnTheWay + pending + Going <= unacked BY DEF Inv, Covered
  <2>2. failed = 0 => (OnTheWay + batcher.frame) + pending + Going <= unacked + batcher.frame BY <1>2, <1>3, <2>1
  <2> QED BY <1>1, <1>5, <2>2 DEF Covered
<1>12. GateOK' BY <1>4 DEF GateOK, At
<1>13. WebviewIsBounded'
  <2>1. PICK n \in Chunk : batcher.frame <= MaxFrame - 1 + n BY <1>1 DEF Inv, FrameOK
  <2>2. n \in Nat BY Constants
  <2>3. failed = 0 => OnTheWay + pending + Going <= unacked BY DEF Inv, Covered
  <2>4. unacked <= HighWatermark BY <1>1 DEF Inv, GateOK
  <2>5. failed = 0 => OnTheWay + batcher.frame <= HighWatermark + MaxFrame - 1 + n
    BY <1>2, <1>3, <2>1, <2>2, <2>3, <2>4, Constants
  <2> QED BY <1>1, <1>5, <2>5 DEF WebviewIsBounded
<1> QED BY <1>6, <1>7, <1>8, <1>9, <1>10, <1>11, <1>12, <1>13 DEF Inv

\* The frame leaves the batcher: onto the channel, or to nobody.
LEMMA SendStep == ASSUME Inv, Send PROVE Inv'
<1>1. /\ batcher.pc = "send"
      /\ UNCHANGED <<left, queue, open, unacked, closing, woken, page, parsing, written, ended, pending, timer,
                     failures, acks, failed, lost>>
  BY DEF Send, At, driver
<1>2. TypeOK BY DEF Inv
<1>3. /\ batcher.frame \in Nat /\ unacked \in Nat /\ pending \in Nat /\ lost \in Nat /\ written \in Nat /\ left \in Nat
      /\ ipc \in Seq(Nat) /\ Sum(ipc) \in Nat /\ Sum(parsing) \in Nat /\ Sum(queue) \in Nat
  BY <1>2, Facts
<1>4. OnTheWay \in Nat /\ Going \in Nat /\ Going' = Going /\ Mine' = Mine BY <1>1, <1>2, OnTheWayFacts DEF Going, Mine
<1>5. batcher.frame # 0 /\ ~ended /\ \A i \in 1 .. Len(ipc) : ipc[i] # 0
  BY <1>1 DEF Inv, FrameOK, MarkerOK, At
<1>6. PICK p \in {"finish", "check"} :
        /\ batcher' = [batcher EXCEPT !.frame = 0, !.pc = p]
        /\ p = "finish" => batcher.ended \/ page = "detached"
        /\ \/ ipc' = Append(ipc, batcher.frame)
           \/ page = "detached" /\ ipc' = ipc
  BY DEF Send
<1>7. /\ batcher'.pc = p /\ batcher'.frame = 0 /\ batcher'.ended = batcher.ended
      /\ batcher' \in [pc : Step, frame : Nat, ended : BOOLEAN]
  <2>1. batcher \in [pc : Step, frame : Nat, ended : BOOLEAN] /\ p \in Step BY <1>2 DEF TypeOK, Step
  <2> QED BY <1>6, <2>1
<1>8. /\ ipc' \in Seq(Nat) /\ Sum(ipc') \in Nat
      /\ \/ Sum(ipc') = Sum(ipc) + batcher.frame
         \/ page = "detached" /\ Sum(ipc') = Sum(ipc)
  <2>1. Append(ipc, batcher.frame) \in Seq(Nat) BY <1>3
  <2>2. Sum(Append(ipc, batcher.frame)) = Sum(ipc) + batcher.frame BY <1>3, SumAppend
  <2>3. CASE ipc' = Append(ipc, batcher.frame)
    <3>1. Sum(ipc') = Sum(ipc) + batcher.frame BY <2>2, <2>3, Zenon
    <3> QED BY <1>3, <2>1, <2>3, <3>1
  <2>4. CASE page = "detached" /\ ipc' = ipc BY <1>3, <2>4
  <2> QED BY <1>6, <2>3, <2>4
<1>9. OnTheWay' = Sum(ipc') + Sum(parsing) /\ OnTheWay = Sum(ipc) + Sum(parsing) + batcher.frame
  BY <1>1, <1>3, <1>7, <1>8 DEF OnTheWay, At
<1>10. OnTheWay' \in Nat /\ OnTheWay' <= OnTheWay /\ (page = "detached" \/ OnTheWay' = OnTheWay) BY <1>3, <1>8, <1>9, SMTT(30)
<1>11. (TypeOK /\ failures <= failed)' BY <1>1, <1>7, <1>8 DEF Inv, TypeOK
<1>12. FrameOK' BY <1>1, <1>7 DEF Inv, FrameOK
<1>13. PageOK' BY <1>1, <1>6, <1>7 DEF Inv, PageOK, FrameOK, Mine
<1>14. Whole'
  <2>1. Mine => page # "detached" BY DEF Mine
  <2>2. /\ Sum(queue) \in Nat /\ batcher.frame \in Nat /\ Sum(ipc) \in Nat /\ Sum(parsing) \in Nat
        /\ written \in Nat /\ left \in Nat
    BY <1>3
  <2>3. Sum(queue') = Sum(queue) /\ Sum(parsing') = Sum(parsing) /\ written' = written /\ left' = left BY <1>1
  <2>4. CASE Sum(ipc') = Sum(ipc) + batcher.frame
    <3>1. /\ Sum(ipc) + batcher.frame \in Nat
          /\ Sum(queue) + 0 + (Sum(ipc) + batcher.frame) + Sum(parsing) + written + left
             = Sum(queue) + batcher.frame + Sum(ipc) + Sum(parsing) + written + left
          /\ Sum(queue) + 0 + (Sum(ipc) + batcher.frame) + Sum(parsing) + written + left
             <= Sum(queue) + batcher.frame + Sum(ipc) + Sum(parsing) + written + left
      BY <2>2
    <3> QED BY <1>4, <1>7, <2>2, <2>3, <2>4, <3>1, WholeStep
  <2>5. CASE page = "detached" /\ Sum(ipc') = Sum(ipc)
    <3>1. Sum(queue) + 0 + Sum(ipc) + Sum(parsing) + written + left
             <= Sum(queue) + batcher.frame + Sum(ipc) + Sum(parsing) + written + left
      BY <2>2
    <3> QED BY <1>4, <1>7, <2>1, <2>2, <2>3, <2>5, <3>1, WholeStep
  <2> QED BY <1>8, <2>4, <2>5
<1>15. MarkerOK'
  <2>1. \A i \in 1 .. Len(ipc') : ipc'[i] # 0
    <3>1. CASE ipc' = Append(ipc, batcher.frame) BY <1>3, <1>5, <3>1
    <3>2. CASE ipc' = ipc BY <1>5, <3>2
    <3> QED BY <1>6, <3>1, <3>2
  <2> QED BY <1>1, <1>5, <2>1 DEF MarkerOK
<1>16. CreditIsKept'
  <2>1. Mine => page # "detached" BY DEF Mine
  <2> QED BY <1>1, <1>4, <1>10, <2>1 DEF Inv, CreditIsKept
<1>17. Covered'
  <2>1. failed = 0 => OnTheWay + pending + Going <= unacked BY DEF Inv, Covered
  <2>2. \A a, b, c, d, u \in Nat : a <= b /\ b + c + d <= u => a + c + d <= u OBVIOUS
  <2>3. failed = 0 => OnTheWay' + pending + Going <= unacked BY <1>3, <1>4, <1>10, <2>1, <2>2
  <2> QED BY <1>1, <1>4, <2>3 DEF Covered
<1>18. GateOK' BY <1>6, <1>7 DEF GateOK, At
<1>19. WebviewIsBounded'
  <2>1. ASSUME NEW n \in Chunk, OnTheWay <= HighWatermark + MaxFrame - 1 + n
        PROVE  OnTheWay' <= HighWatermark + MaxFrame - 1 + n
    <3>1. n \in Nat BY Constants
    <3> QED BY <1>4, <1>10, <2>1, <3>1, Constants
  <2> QED BY <1>1, <2>1 DEF Inv, WebviewIsBounded
<1> QED BY <1>11, <1>12, <1>13, <1>14, <1>15, <1>16, <1>17, <1>18, <1>19 DEF Inv

\* The batcher ends: the marker follows the last frame.
LEMMA FinishStep == ASSUME Inv, Finish PROVE Inv'
<1>1. /\ batcher.pc = "finish" /\ batcher' = [batcher EXCEPT !.pc = "done"]
      /\ ipc' = Append(ipc, 0) /\ queue' = <<>>
      /\ UNCHANGED <<left, open, unacked, closing, woken, page, parsing, written, ended, pending, timer,
                     failures, acks, failed, lost>>
  BY DEF Finish, At, Go, driver
<1>2. TypeOK BY DEF Inv
<1>3. /\ batcher.frame = 0 /\ written \in Nat /\ left \in Nat
      /\ ipc \in Seq(Nat) /\ Sum(ipc) \in Nat /\ Sum(parsing) \in Nat /\ Sum(queue) \in Nat
  BY <1>1, <1>2, Facts DEF Inv, FrameOK
<1>4. ~ended /\ \A i \in 1 .. Len(ipc) : ipc[i] # 0 BY <1>1 DEF Inv, MarkerOK, At
<1>5. /\ batcher'.pc = "done" /\ batcher'.frame = batcher.frame /\ batcher'.ended = batcher.ended
      /\ batcher' \in [pc : Step, frame : Nat, ended : BOOLEAN]
  <2>1. batcher \in [pc : Step, frame : Nat, ended : BOOLEAN] /\ "done" \in Step BY <1>2 DEF TypeOK, Step
  <2> QED BY <1>1, <2>1
<1>6. Sum(ipc') = Sum(ipc) /\ ipc' \in Seq(Nat)
  <2>1. Sum(Append(ipc, 0)) = Sum(ipc) + 0 BY <1>3, SumAppend
  <2>2. Sum(ipc') = Sum(ipc) + 0 BY <1>1, <2>1, Zenon
  <2>3. Append(ipc, 0) \in Seq(Nat) BY <1>3
  <2> QED BY <1>1, <1>3, <2>2, <2>3
<1>7. Sum(queue') = 0 /\ (queue = <<>> => Sum(queue) = 0) BY <1>1, SumEmpty, Zenon
<1>8. OnTheWay' = OnTheWay /\ Going' = Going /\ Mine' = Mine BY <1>1, <1>5, <1>6 DEF OnTheWay, At, Going, Mine
<1>9. (TypeOK /\ failures <= failed)'
  <2>1. queue' \in Seq(Chunk) /\ Len(queue') <= Capacity
    <3>1. Capacity \in Nat BY StreamAssumption
    <3> QED BY <1>1, <3>1
  <2> QED BY <1>1, <1>5, <1>6, <2>1 DEF Inv, TypeOK
<1>10. FrameOK' BY <1>1, <1>3, <1>5 DEF Inv, FrameOK
<1>11. PageOK' BY <1>1, <1>5 DEF Inv, PageOK, Mine
<1>12. Whole'
  <2>1. Mine => Sum(queue) = 0 BY <1>1, <1>7 DEF Inv, PageOK
  <2>2. Sum(parsing') = Sum(parsing) BY <1>1
  <2>3. /\ 0 + 0 + Sum(ipc) + Sum(parsing) + written + left
           <= Sum(queue) + batcher.frame + Sum(ipc) + Sum(parsing) + written + left
        /\ Mine => 0 + 0 + Sum(ipc) + Sum(parsing) + written + left
                   = Sum(queue) + batcher.frame + Sum(ipc) + Sum(parsing) + written + left
    BY <1>3, <2>1
  <2> QED BY <1>1, <1>3, <1>5, <1>6, <1>7, <1>8, <2>2, <2>3, WholeStep
<1>13. MarkerOK'
  <2>1. \A i \in 1 .. Len(ipc') : ipc'[i] = 0 => i = Len(ipc') BY <1>1, <1>3, <1>4
  <2> QED BY <1>1, <1>4, <1>5, <2>1 DEF MarkerOK, At
<1>14. CreditIsKept' /\ Covered' /\ WebviewIsBounded'
  BY <1>1, <1>8 DEF Inv, CreditIsKept, Covered, WebviewIsBounded
<1>15. GateOK' BY <1>5 DEF GateOK, At
<1> QED BY <1>9, <1>10, <1>11, <1>12, <1>13, <1>14, <1>15 DEF Inv
------------------------------------------------------------------------------
(* The driver, the acknowledgements and closing                             *)

\* The types of what the driver and the acknowledgements change.
DriverTypes ==
  /\ unacked \in Nat /\ closing \in Closing /\ woken \in BOOLEAN
  /\ ipc \in Seq(Nat) /\ page \in {"starting", "attached", "left", "detached"}
  /\ parsing \in Seq(Nat \ {0}) /\ written \in Nat /\ ended \in BOOLEAN
  /\ pending \in Nat /\ timer \in BOOLEAN
  /\ failed \in 0 .. MaxFailures /\ failures \in Nat /\ failures <= failed
  /\ AckBag(acks) /\ lost \in Nat

\* What is outstanding, as the driver sees it.
Outstanding == Sum(ipc) + Sum(parsing) + pending + Due(acks)

\* The channel keeps its order, and the page hears of the end from its marker.
TakesFirst ==
  /\ \/ ipc' = ipc
     \/ ipc # <<>> /\ ipc' = Tail(ipc)
  /\ ended' => ended \/ (ipc # <<>> /\ Head(ipc) = 0 /\ ipc' = Tail(ipc))

\* A step of the driver or of an acknowledgement: it takes at most the first
\* frame from the channel, frees at most what it accounts for, and loses nothing
\* while the page stays.
LEMMA DriverStep ==
  ASSUME Inv, UNCHANGED <<left, queue, open, batcher>>, DriverTypes',
         Mine' => Mine, page' # "detached" => closing' = "no", closed => closed',
         TakesFirst,
         Sum(ipc') + Sum(parsing') <= Sum(ipc) + Sum(parsing),
         Sum(ipc') + Sum(parsing') + written' <= Sum(ipc) + Sum(parsing) + written,
         Mine' => Sum(ipc') + Sum(parsing') + written' = Sum(ipc) + Sum(parsing) + written,
         unacked' <= unacked, failed <= failed',
         Mine' => unacked' = 0 \/ unacked' + (Outstanding + lost) <= unacked + (Outstanding' + lost'),
         failed' = 0 => unacked + Outstanding' <= unacked' + Outstanding
  PROVE  Inv'
<1>1. TypeOK /\ failed \in Nat BY Facts DEF Inv
<1>2. /\ Sum(queue) \in Nat /\ batcher.frame \in Nat /\ Sum(ipc) \in Nat /\ Sum(parsing) \in Nat
      /\ written \in Nat /\ left \in Nat /\ unacked \in Nat /\ pending \in Nat /\ Due(acks) \in Nat /\ lost \in Nat
  BY <1>1, Facts
<1>3. /\ Sum(ipc') \in Nat /\ Sum(parsing') \in Nat /\ written' \in Nat /\ unacked' \in Nat
      /\ pending' \in Nat /\ Due(acks') \in Nat /\ lost' \in Nat /\ failed' \in Nat
  <2>1. written' \in Nat /\ unacked' \in Nat /\ pending' \in Nat /\ lost' \in Nat /\ failed' \in Nat
    BY Constants DEF DriverTypes
  <2>2. Sum(ipc') \in Nat BY SumAppend DEF DriverTypes
  <2>3. parsing' \in Seq(Nat) BY NatSeq DEF DriverTypes
  <2>4. Sum(parsing') \in Nat BY <2>3, SumAppend
  <2>5. Due(acks') \in Nat BY ValuesFacts DEF DriverTypes
  <2> QED BY <2>1, <2>2, <2>4, <2>5
<1>4. Whole'
  <2>1. Sum(queue') = Sum(queue) /\ batcher'.frame = batcher.frame /\ left' = left OBVIOUS
  <2>2. Sum(queue) + batcher.frame + Sum(ipc') + Sum(parsing') + written' + left
        <= Sum(queue) + batcher.frame + Sum(ipc) + Sum(parsing) + written + left
    <3>1. Sum(ipc') + Sum(parsing') + written' <= Sum(ipc) + Sum(parsing) + written OBVIOUS
    <3> QED BY <1>2, <1>3, <3>1
  <2>3. ASSUME Mine'
        PROVE  Sum(queue) + batcher.frame + Sum(ipc') + Sum(parsing') + written' + left
               = Sum(queue) + batcher.frame + Sum(ipc) + Sum(parsing) + written + left
    <3>1. Sum(ipc') + Sum(parsing') + written' = Sum(ipc) + Sum(parsing) + written BY <2>3
    <3> QED BY <1>2, <1>3, <3>1
  <2> QED BY <1>2, <1>3, <2>1, <2>2, <2>3, WholeStep, ZenonT(60)
<1>5. (TypeOK /\ failures <= failed)'
  <2>1. written' \in 0 .. Total
    <3>1. Sum(queue) + batcher.frame + Sum(ipc') + Sum(parsing') + written' + left <= Total BY <1>4 DEF Whole, Between
    <3> QED BY <1>2, <1>3, <3>1, Constants
  <2>2. failures' \in 0 .. MaxFailures BY Constants DEF DriverTypes
  <2>3. /\ left' \in 0 .. Total /\ queue' \in Seq(Chunk) /\ Len(queue') <= Capacity /\ open' \in BOOLEAN
        /\ batcher' \in [pc : Step, frame : Nat, ended : BOOLEAN]
    BY <1>1 DEF TypeOK
  <2> QED BY <2>1, <2>2, <2>3 DEF DriverTypes, AckBag, TypeOK
<1>6. FrameOK' BY DEF Inv, FrameOK
<1>7. PageOK' BY DEF Inv, PageOK
<1>8. MarkerOK'
  <2>1. ipc \in Seq(Nat) BY <1>1, Facts
  <2>2. \A i \in 1 .. Len(ipc) : ipc[i] = 0 => i = Len(ipc) /\ At("done") BY DEF Inv, MarkerOK
  <2>3. \A i \in 1 .. Len(ipc') : ipc'[i] = 0 => i = Len(ipc') /\ At("done")'
    <3>1. At("done")' = At("done") BY DEF At
    <3>2. CASE ipc' = ipc BY <2>2, <3>1, <3>2
    <3>3. CASE ipc # <<>> /\ ipc' = Tail(ipc)
      <4>1. Len(ipc') = Len(ipc) - 1 /\ \A i \in 1 .. Len(ipc') : ipc'[i] = ipc[i + 1] /\ i + 1 \in 1 .. Len(ipc)
        BY <2>1, <3>3
      <4>2. Len(ipc) \in Nat BY <2>1
      <4> QED BY <2>2, <3>1, <4>1, <4>2
    <3> QED BY <3>2, <3>3 DEF TakesFirst
  <2>4. ended' => At("done")' /\ ipc' = <<>>
    <3>1. At("done")' = At("done") BY DEF At
    <3>2. CASE ended BY <3>1, <3>2 DEF Inv, MarkerOK, TakesFirst
    <3>3. CASE ipc # <<>> /\ Head(ipc) = 0 /\ ipc' = Tail(ipc)
      <4>1. ipc[1] = 0 /\ 1 \in 1 .. Len(ipc) BY <2>1, <3>3
      <4>2. Len(ipc) = 1 /\ At("done") BY <2>2, <4>1
      <4>3. Tail(ipc) = <<>>
        <5>1. Tail(ipc) \in Seq(Nat) /\ Len(Tail(ipc)) = 0 BY <2>1, <3>3, <4>2
        <5> QED BY <5>1, EmptySeq
      <4> QED BY <3>1, <3>3, <4>2, <4>3
    <3> QED BY <3>2, <3>3 DEF TakesFirst
  <2> QED BY <2>3, <2>4 DEF MarkerOK
<1>9. GateOK'
  <2>1. At("gate")' = At("gate") /\ batcher' = batcher BY DEF At
  <2> QED BY <1>2, <1>3, <2>1, Constants DEF Inv, GateOK
<1> DEFINE f == IF At("send") THEN batcher.frame ELSE 0
<1>10. f \in Nat /\ OnTheWay = Sum(ipc) + Sum(parsing) + f /\ OnTheWay' = Sum(ipc') + Sum(parsing') + f
  BY <1>2 DEF OnTheWay, At
<1> HIDE DEF f
<1>11. CreditIsKept'
  <2>1. Mine => unacked <= Sum(ipc) + Sum(parsing) + f + pending + Due(acks) + lost
    BY <1>10 DEF Inv, CreditIsKept, Going
  <2>2. Mine' => \/ unacked' = 0
                 \/ unacked' + (Sum(ipc) + Sum(parsing) + pending + Due(acks) + lost)
                    <= unacked + (Sum(ipc') + Sum(parsing') + pending' + Due(acks') + lost')
    BY DEF Outstanding
  <2>3. Mine' => unacked' <= Sum(ipc') + Sum(parsing') + f + pending' + Due(acks') + lost'
    BY <1>2, <1>3, <1>10, <2>1, <2>2
  <2> QED BY <1>10, <2>3 DEF CreditIsKept, Going
<1>12. Covered'
  <2>1. failed = 0 => Sum(ipc) + Sum(parsing) + f + pending + Due(acks) <= unacked
    BY <1>10 DEF Inv, Covered, Going
  <2>2. failed' = 0 => failed = 0 BY <1>1, <1>3
  <2>3. failed' = 0 => unacked + (Sum(ipc') + Sum(parsing') + pending' + Due(acks'))
                       <= unacked' + (Sum(ipc) + Sum(parsing) + pending + Due(acks))
    BY DEF Outstanding
  <2>4. failed' = 0 => Sum(ipc') + Sum(parsing') + f + pending' + Due(acks') <= unacked'
    BY <1>2, <1>3, <1>10, <2>1, <2>2, <2>3
  <2> QED BY <1>10, <2>4 DEF Covered, Going
<1>13. WebviewIsBounded'
  <2>1. failed' = 0 => failed = 0 BY <1>1, <1>3
  <2>2. OnTheWay \in Nat /\ OnTheWay' \in Nat /\ OnTheWay' <= OnTheWay BY <1>2, <1>3, <1>10
  <2>3. ASSUME NEW n \in Chunk, OnTheWay <= HighWatermark + MaxFrame - 1 + n
        PROVE  OnTheWay' <= HighWatermark + MaxFrame - 1 + n
    <3>1. n \in Nat BY Constants
    <3> QED BY <2>2, <2>3, <3>1, Constants
  <2> QED BY <2>1, <2>3 DEF Inv, WebviewIsBounded
<1> QED BY <1>4, <1>5, <1>6, <1>7, <1>8, <1>9, <1>11, <1>12, <1>13 DEF Inv
\* What the invariant says of the driver's numbers.
LEMMA DriverNow ==
  ASSUME Inv
  PROVE  /\ TypeOK /\ DriverTypes
         /\ unacked \in Nat /\ pending \in Nat /\ lost \in Nat /\ Due(acks) \in Nat /\ failed \in Nat
         /\ Sum(ipc) \in Nat /\ Sum(parsing) \in Nat /\ written \in Nat
<1>1. TypeOK /\ failures <= failed BY DEF Inv
<1>2. DriverTypes BY <1>1, Facts DEF TypeOK, DriverTypes, AckBag
<1> QED BY <1>1, <1>2, Facts

\* A step that leaves the frames where they are.
LEMMA CreditStep ==
  ASSUME Inv, UNCHANGED <<left, queue, open, batcher, ipc, parsing, written, ended>>, DriverTypes',
         Mine' => Mine, page' # "detached" => closing' = "no", closed => closed',
         unacked' <= unacked, failed <= failed',
         Mine' => unacked' = 0 \/ unacked' + (pending + Due(acks) + lost) <= unacked + (pending' + Due(acks') + lost'),
         failed' = 0 => unacked + (pending' + Due(acks')) <= unacked' + (pending + Due(acks))
  PROVE  Inv'
<1>1. /\ unacked \in Nat /\ pending \in Nat /\ lost \in Nat /\ Due(acks) \in Nat
      /\ Sum(ipc) \in Nat /\ Sum(parsing) \in Nat /\ written \in Nat
  BY DriverNow
<1>2. unacked' \in Nat /\ pending' \in Nat /\ lost' \in Nat /\ Due(acks') \in Nat BY ValuesFacts DEF DriverTypes
<1>3. Sum(ipc') = Sum(ipc) /\ Sum(parsing') = Sum(parsing) /\ written' = written OBVIOUS
<1>4. TakesFirst BY DEF TakesFirst
<1>5. /\ Sum(ipc') + Sum(parsing') <= Sum(ipc) + Sum(parsing)
      /\ Sum(ipc') + Sum(parsing') + written' <= Sum(ipc) + Sum(parsing) + written
      /\ Sum(ipc') + Sum(parsing') + written' = Sum(ipc) + Sum(parsing) + written
  BY <1>1, <1>3
<1>6. Outstanding = Sum(ipc) + Sum(parsing) + pending + Due(acks) /\ Outstanding' = Sum(ipc) + Sum(parsing) + pending' + Due(acks')
  BY <1>3 DEF Outstanding
<1>7. Mine' => unacked' = 0 \/ unacked' + (Outstanding + lost) <= unacked + (Outstanding' + lost') BY <1>1, <1>2, <1>6
<1>8. failed' = 0 => unacked + Outstanding' <= unacked' + Outstanding BY <1>1, <1>2, <1>6
<1> QED BY <1>4, <1>5, <1>7, <1>8, DriverStep

\* flushAck turns what is pending into an acknowledgement, or keeps it.
LEMMA FlushAckFacts ==
  ASSUME Inv, NEW known \in BOOLEAN, NEW p \in Nat, FlushAck(known, p)
  PROVE  /\ timer' \in BOOLEAN /\ pending' \in Nat /\ AckBag(acks') /\ Due(acks') \in Nat
         /\ pending' + Due(acks') = p + Due(acks)
<1>1. AckBag(acks) /\ Due(acks) \in Nat BY DriverNow DEF DriverTypes
<1>2. timer' \in BOOLEAN BY DEF FlushAck
<1>3. CASE known /\ p # 0
  <2> DEFINE a == [bytes |-> p, at |-> "going"]
  <2>1. a \in Ack /\ Weight(a) = p BY DEF Ack, Weight
  <2>2. acks' = acks (+) SetToBag({a}) /\ pending' = 0 BY <1>3 DEF FlushAck
  <2> HIDE DEF a
  <2>3. AckBag(acks') /\ Due(acks') = Due(acks) + Weight(a) BY <1>1, <2>1, <2>2, DueAdd
  <2> QED BY <1>1, <1>2, <2>1, <2>2, <2>3
<1>4. CASE ~(known /\ p # 0)
  <2>1. pending' = p /\ acks' = acks BY <1>4 DEF FlushAck
  <2> QED BY <1>1, <1>2, <2>1
<1> QED BY <1>3, <1>4

\* An acknowledgement goes on: it has nothing more to subtract.
LEMMA MoveFacts ==
  ASSUME Inv, NEW a \in BagToSet(acks), NEW at \in {"counted", "notified"}, Move(a, at)
  PROVE  AckBag(acks') /\ Due(acks') \in Nat /\ Weight(a) \in Nat /\ Due(acks) = Due(acks') + Weight(a)
<1> DEFINE c == acks (-) SetToBag({a})
           b == [a EXCEPT !.at = at]
<1>1. AckBag(acks) /\ a \in Ack BY DriverNow DEF DriverTypes, AckBag
<1>2. AckBag(c) /\ Due(acks) = Due(c) + Weight(a) /\ Due(c) \in Nat /\ Weight(a) \in Nat BY <1>1, DueRemove
<1>3. b \in Ack /\ Weight(b) = 0 BY <1>1 DEF Ack, Weight
<1>4. acks' = c (+) SetToBag({b}) BY DEF Move
<1> HIDE DEF b, c
<1>5. AckBag(acks') /\ Due(acks') = Due(c) + Weight(b) BY <1>2, <1>3, <1>4, DueAdd
<1> QED BY <1>2, <1>3, <1>5

\* The page attaches or lets go, or its timer fires.
LEMMA PageSteps ==
  ASSUME Inv, Attach \/ Superseded \/ Detach \/ TimerFires
  PROVE  Inv'
<1>1. /\ DriverTypes /\ unacked \in Nat /\ pending \in Nat /\ lost \in Nat /\ Due(acks) \in Nat /\ failed \in Nat
      /\ page # "detached" => closing = "no"
  BY DriverNow DEF Inv, PageOK
<1>2. CASE Attach \/ TimerFires
  <2>1. /\ UNCHANGED <<left, queue, open, batcher, unacked, closing, woken, ipc, parsing, written, ended, failures, failed, lost>>
        /\ page' \in {page, "attached"} /\ (page' # page => page = "starting")
        /\ \E known \in BOOLEAN : FlushAck(known, pending)
    BY <1>2 DEF Attach, TimerFires, engine
  <2>2. /\ timer' \in BOOLEAN /\ pending' \in Nat /\ AckBag(acks') /\ Due(acks') \in Nat
        /\ pending' + Due(acks') = pending + Due(acks)
    BY <1>1, <2>1, FlushAckFacts
  <2>3. DriverTypes' BY <1>1, <2>1, <2>2 DEF DriverTypes
  <2>4. Mine' = Mine /\ (page' # "detached" => closing' = "no") /\ (closed => closed') BY <1>1, <2>1 DEF Mine, closed
  <2>5. /\ unacked' <= unacked /\ failed <= failed'
        /\ unacked' + (pending + Due(acks) + lost) <= unacked + (pending' + Due(acks') + lost')
        /\ unacked + (pending' + Due(acks')) <= unacked' + (pending + Due(acks))
    <3>1. unacked' = unacked /\ failed' = failed /\ lost' = lost BY <2>1
    <3> QED BY <1>1, <2>2, <3>1
  <2> QED BY <2>1, <2>3, <2>4, <2>5, CreditStep
<1>3. CASE Superseded \/ Detach
  <2>1. /\ UNCHANGED <<left, queue, open, batcher, unacked, woken, ipc, parsing, written, ended, acks, failed, lost>>
        /\ page # "detached" /\ page' \in {"left", "detached"} /\ closing' \in {closing, "asked"}
        /\ page' = "left" => closing' = closing
        /\ pending' \in {pending, 0} /\ timer' \in {timer, FALSE} /\ failures' \in {failures, 0}
    BY <1>3 DEF Superseded, Detach, Mine
  <2>2. DriverTypes'
    <3>1. failures' \in Nat /\ failures' <= failed BY <1>1, <2>1 DEF DriverTypes
    <3>2. closing' \in Closing /\ pending' \in Nat BY <1>1, <2>1 DEF DriverTypes, Closing
    <3>3. timer \in BOOLEAN /\ timer' \in {timer, FALSE} BY <1>1, <2>1 DEF DriverTypes
    <3>4. timer' \in BOOLEAN BY <3>3, Zenon
    <3> QED BY <1>1, <2>1, <3>1, <3>2, <3>4 DEF DriverTypes
  <2>3. ~Mine' /\ (page' # "detached" => closing' = "no") /\ (closed => closed') BY <1>1, <2>1 DEF Mine, closed
  <2>4. /\ unacked' <= unacked /\ failed <= failed'
        /\ unacked + (pending' + Due(acks')) <= unacked' + (pending + Due(acks))
    <3>1. unacked' = unacked /\ failed' = failed /\ Due(acks') = Due(acks) /\ pending' \in Nat /\ pending' <= pending BY <1>1, <2>1
    <3> QED BY <1>1, <3>1
  <2> QED BY <2>1, <2>2, <2>3, <2>4, CreditStep
<1> QED BY <1>2, <1>3
\* The engine's side of an acknowledgement, and its answer.
LEMMA AckSteps ==
  ASSUME Inv, AckCounted \/ AckNotified \/ AckAnswered
  PROVE  Inv'
<1>1. /\ DriverTypes /\ unacked \in Nat /\ pending \in Nat /\ lost \in Nat /\ Due(acks) \in Nat /\ failed \in Nat
      /\ page # "detached" => closing = "no"
  BY DriverNow DEF Inv, PageOK
<1>2. CASE AckCounted
  <2>1. PICK a \in BagToSet(acks) :
          a.at = "going" /\ unacked' = (IF a.bytes >= unacked THEN 0 ELSE unacked - a.bytes) /\ Move(a, "counted")
    BY <1>2 DEF AckCounted
  <2>2. UNCHANGED <<left, queue, open, batcher, closing, woken, page, ipc, parsing, written, ended, pending, timer, failures, failed, lost>>
    BY <1>2 DEF AckCounted, driver
  <2>3. AckBag(acks') /\ Due(acks') \in Nat /\ a.bytes \in Nat /\ Due(acks) = Due(acks') + a.bytes
    BY <2>1, MoveFacts DEF Weight
  <2>4. /\ unacked' \in Nat /\ unacked' <= unacked /\ unacked <= unacked' + a.bytes
        /\ unacked' = 0 \/ unacked' + a.bytes = unacked
    BY <1>1, <2>1, <2>3
  <2>5. DriverTypes' BY <1>1, <2>2, <2>3, <2>4 DEF DriverTypes
  <2>6. Mine' = Mine /\ (page' # "detached" => closing' = "no") /\ (closed => closed') BY <1>1, <2>2 DEF Mine, closed
  <2>7. /\ failed <= failed'
        /\ unacked' = 0 \/ unacked' + (pending + Due(acks) + lost) <= unacked + (pending' + Due(acks') + lost')
        /\ unacked + (pending' + Due(acks')) <= unacked' + (pending + Due(acks))
    <3>1. pending' = pending /\ failed' = failed /\ lost' = lost BY <2>2
    <3> QED BY <1>1, <2>3, <2>4, <3>1
  <2> QED BY <2>2, <2>4, <2>5, <2>6, <2>7, CreditStep
<1>3. CASE AckNotified \/ AckAnswered
  <2>1. /\ UNCHANGED <<left, queue, open, batcher, unacked, closing, page, ipc, parsing, written, ended, pending, timer, failed, lost>>
        /\ woken' \in BOOLEAN /\ failures' \in {failures, 0}
    BY <1>1, <1>3 DEF AckNotified, AckAnswered, engine, driver, Notify, DriverTypes, At
  <2>2. AckBag(acks') /\ Due(acks') \in Nat /\ Due(acks) = Due(acks')
    <3>1. CASE AckNotified
      <4>1. PICK a \in BagToSet(acks) : a.at = "counted" /\ Move(a, "notified") BY <3>1 DEF AckNotified
      <4>2. Weight(a) = 0 BY <4>1 DEF Weight
      <4>3. AckBag(acks') /\ Due(acks') \in Nat /\ Due(acks) = Due(acks') + Weight(a) BY <4>1, MoveFacts
      <4> QED BY <4>2, <4>3
    <3>2. CASE AckAnswered
      <4>1. PICK a \in BagToSet(acks) : a.at = "notified" /\ acks' = acks (-) SetToBag({a}) BY <3>2 DEF AckAnswered
      <4>2. Weight(a) = 0 /\ AckBag(acks) BY <1>1, <4>1 DEF Weight, DriverTypes
      <4>3. AckBag(acks') /\ Due(acks') \in Nat /\ Due(acks) = Due(acks') + Weight(a) BY <4>1, <4>2, DueRemove
      <4> QED BY <4>2, <4>3
    <3> QED BY <1>3, <3>1, <3>2
  <2>3. DriverTypes'
    <3>1. failures' \in Nat /\ failures' <= failed BY <1>1, <2>1 DEF DriverTypes
    <3> QED BY <1>1, <2>1, <2>2, <3>1 DEF DriverTypes
  <2>4. Mine' = Mine /\ (page' # "detached" => closing' = "no") /\ (closed => closed') BY <1>1, <2>1 DEF Mine, closed
  <2>5. /\ unacked' <= unacked /\ failed <= failed'
        /\ unacked' + (pending + Due(acks) + lost) <= unacked + (pending' + Due(acks') + lost')
        /\ unacked + (pending' + Due(acks')) <= unacked' + (pending + Due(acks))
    <3>1. unacked' = unacked /\ pending' = pending /\ failed' = failed /\ lost' = lost BY <2>1
    <3> QED BY <1>1, <2>2, <3>1
  <2> QED BY <2>1, <2>3, <2>4, <2>5, CreditStep
<1> QED BY <1>2, <1>3

\* A failed acknowledgement is handed back or given up, or nobody is there to hear.
LEMMA AckFailedStep == ASSUME Inv, AckFailed PROVE Inv'
<1>1. /\ DriverTypes /\ unacked \in Nat /\ pending \in Nat /\ lost \in Nat /\ Due(acks) \in Nat /\ failed \in Nat
      /\ page # "detached" => closing = "no"
  BY DriverNow DEF Inv, PageOK
<1>2. UNCHANGED <<left, queue, open, batcher, unacked, closing, woken, page, ipc, parsing, written, ended>>
  BY DEF AckFailed, engine
<1>3. PICK a \in BagToSet(acks) :
        /\ a.at # "counted" /\ acks' = acks (-) SetToBag({a})
        /\ IF ~Mine
           THEN UNCHANGED <<failures, pending, timer, lost>>
           ELSE /\ failures' = failures + 1
                /\ IF failures + 1 > AckRetries
                   THEN lost' = lost + a.bytes /\ UNCHANGED <<pending, timer>>
                   ELSE pending' = pending + a.bytes /\ timer' = TRUE /\ UNCHANGED lost
  BY DEF AckFailed
<1>4. (failed < MaxFailures \/ ~Mine) /\ failed' = (IF Mine THEN failed + 1 ELSE failed) BY DEF AckFailed
<1>5. /\ AckBag(acks') /\ Due(acks') \in Nat /\ Due(acks) = Due(acks') + Weight(a)
      /\ Weight(a) \in Nat /\ a.bytes \in Nat /\ Weight(a) <= a.bytes
  <2>1. AckBag(acks) /\ a \in Ack BY <1>1 DEF DriverTypes, AckBag
  <2>2. AckBag(acks') /\ Due(acks') \in Nat /\ Due(acks) = Due(acks') + Weight(a) /\ Weight(a) \in Nat
    BY <1>3, <2>1, DueRemove
  <2>3. a.bytes \in Nat BY <2>1 DEF Ack
  <2>4. Weight(a) <= a.bytes BY <2>3 DEF Weight
  <2> QED BY <2>2, <2>3, <2>4
<1>6. Mine' = Mine /\ (page' # "detached" => closing' = "no") /\ (closed => closed') BY <1>1, <1>2 DEF Mine, closed
<1>7. CASE ~Mine
  <2>1. failed' = failed /\ failures' = failures /\ pending' = pending /\ timer' = timer /\ lost' = lost BY <1>3, <1>4, <1>7
  <2>2. DriverTypes' BY <1>1, <1>2, <1>5, <2>1 DEF DriverTypes
  <2>3. /\ unacked' <= unacked /\ failed <= failed'
        /\ unacked + (pending' + Due(acks')) <= unacked' + (pending + Due(acks))
    <3>1. unacked' = unacked BY <1>2
    <3> QED BY <1>1, <1>5, <2>1, <3>1
  <2> QED BY <1>2, <1>6, <1>7, <2>2, <2>3, CreditStep
<1>8. CASE Mine
  <2>1. failed' = failed + 1 /\ failed < MaxFailures /\ failures' = failures + 1 BY <1>3, <1>4, <1>8
  <2>2. /\ timer' \in BOOLEAN /\ pending' \in Nat /\ lost' \in Nat
        /\ pending' + lost' = pending + lost + a.bytes
    <3>1. CASE failures + 1 > AckRetries
      <4>1. lost' = lost + a.bytes /\ pending' = pending /\ timer' = timer BY <1>3, <1>8, <3>1
      <4>2. timer \in BOOLEAN BY <1>1 DEF DriverTypes
      <4> QED BY <1>1, <1>5, <4>1, <4>2
    <3>2. CASE ~(failures + 1 > AckRetries)
      <4>1. lost' = lost /\ pending' = pending + a.bytes /\ timer' = TRUE BY <1>3, <1>8, <3>2
      <4> QED BY <1>1, <1>5, <4>1
    <3> QED BY <3>1, <3>2
  <2>3. DriverTypes'
    <3>1. failures' \in Nat /\ failures' <= failed' /\ failed' \in 0 .. MaxFailures
      <4>1. failures \in Nat /\ failures <= failed BY <1>1 DEF DriverTypes
      <4> QED BY <1>1, <2>1, <4>1, Constants
    <3> QED BY <1>1, <1>2, <1>5, <2>2, <3>1 DEF DriverTypes
  <2>4. /\ unacked' <= unacked /\ failed <= failed' /\ failed' # 0
        /\ unacked' + (pending + Due(acks) + lost) <= unacked + (pending' + Due(acks') + lost')
    <3>1. unacked' = unacked BY <1>2
    <3> QED BY <1>1, <1>5, <2>1, <2>2, <3>1
  <2> QED BY <1>2, <1>6, <2>3, <2>4, CreditStep
<1> QED BY <1>7, <1>8

\* Closing: the program told, the flag set, the batcher woken.
LEMMA CloseStep == ASSUME Inv, Close PROVE Inv'
<1>1. /\ DriverTypes /\ unacked \in Nat /\ pending \in Nat /\ lost \in Nat /\ Due(acks) \in Nat /\ failed \in Nat
      /\ page # "detached" => closing = "no"
  BY DriverNow DEF Inv, PageOK
<1>2. /\ UNCHANGED <<left, queue, open, batcher, unacked, page, ipc, parsing, written, ended, pending, timer, failures, acks, failed, lost>>
      /\ woken' \in BOOLEAN /\ closing' \in Closing /\ closing # "no" /\ (closed => closed')
  BY <1>1 DEF Close, CloseTell, CloseSet, CloseNotify, Notify, At, driver, DriverTypes, Closing, closed
<1>3. DriverTypes' BY <1>1, <1>2 DEF DriverTypes
<1>4. Mine' = Mine /\ (page' # "detached" => closing' = "no") BY <1>1, <1>2 DEF Mine
<1>5. /\ unacked' <= unacked /\ failed <= failed'
      /\ unacked' + (pending + Due(acks) + lost) <= unacked + (pending' + Due(acks') + lost')
      /\ unacked + (pending' + Due(acks')) <= unacked' + (pending + Due(acks))
  <2>1. unacked' = unacked /\ pending' = pending /\ failed' = failed /\ lost' = lost /\ Due(acks') = Due(acks) BY <1>2
  <2> QED BY <1>1, <2>1
<1> QED BY <1>2, <1>3, <1>4, <1>5, CreditStep
\* The page takes the first frame: it drops it, hears of the end, hands it to
\* xterm.js, or loses it there and owes its credit.
LEMMA OnDataStep == ASSUME Inv, OnData PROVE Inv'
<1>1. /\ DriverTypes /\ unacked \in Nat /\ pending \in Nat /\ lost \in Nat /\ Due(acks) \in Nat /\ failed \in Nat
      /\ Sum(parsing) \in Nat /\ written \in Nat
      /\ page # "detached" => closing = "no"
  BY DriverNow DEF Inv, PageOK
<1>2. /\ ipc # <<>> /\ ipc' = Tail(ipc)
      /\ UNCHANGED <<left, queue, open, batcher, unacked, closing, woken, page, failures, acks, failed, lost>>
  BY DEF OnData, engine
<1>3. PICK size \in Nat : size = Head(ipc) /\ Sum(ipc) = size + Sum(ipc') /\ Sum(ipc') \in Nat /\ ipc' \in Seq(Nat)
  <2>1. ipc \in Seq(Nat) BY <1>1 DEF DriverTypes
  <2>2. /\ Head(ipc) \in Nat /\ Tail(ipc) \in Seq(Nat) /\ Sum(Tail(ipc)) \in Nat
        /\ Sum(ipc) = Head(ipc) + Sum(Tail(ipc))
    BY <1>2, <2>1, TailFacts
  <2>3. Sum(ipc') = Sum(Tail(ipc)) BY <1>2
  <2> QED BY <1>2, <2>2, <2>3
<1>5. TakesFirst
  <2>1. ended' = ended \/ Head(ipc) = 0 BY DEF OnData
  <2> QED BY <1>2, <2>1 DEF TakesFirst
<1>6. /\ parsing' \in Seq(Nat \ {0}) /\ Sum(parsing') \in Nat /\ written' \in Nat /\ pending' \in Nat
      /\ ended' \in BOOLEAN /\ timer' \in BOOLEAN
      /\ \/ ~Mine /\ Sum(parsing') = Sum(parsing) /\ written' = written /\ pending' = pending
         \/ size = 0 /\ Sum(parsing') = Sum(parsing) /\ written' = written /\ pending' = pending
         \/ Sum(parsing') = Sum(parsing) + size /\ written' = written /\ pending' = pending
         \/ Sum(parsing') = Sum(parsing) /\ written' = written + size /\ pending' = pending + size
  <2>1. parsing \in Seq(Nat \ {0}) /\ ended \in BOOLEAN /\ timer \in BOOLEAN BY <1>1 DEF DriverTypes
  <2>2. CASE ~Mine /\ UNCHANGED <<parsing, written, ended, pending, timer>> BY <1>1, <2>1, <2>2
  <2>3. CASE size = 0 /\ ended' = TRUE /\ UNCHANGED <<parsing, written, pending, timer>> BY <1>1, <2>1, <2>3
  <2>4. CASE size # 0 /\ parsing' = Append(parsing, size) /\ UNCHANGED <<written, ended, pending, timer>>
    <3>1. Append(parsing, size) \in Seq(Nat \ {0}) BY <1>3, <2>1, <2>4
    <3>2. parsing \in Seq(Nat) BY <2>1, NatSeq
    <3>3. Sum(Append(parsing, size)) = Sum(parsing) + size BY <3>2, SumAppend
    <3>4. Sum(parsing') = Sum(parsing) + size BY <2>4, <3>3, Zenon
    <3> QED BY <1>1, <2>1, <2>4, <3>1, <3>4
  <2>5. CASE written' = written + size /\ pending' = pending + size /\ timer' = TRUE /\ UNCHANGED <<parsing, ended>>
    BY <1>1, <2>1, <2>5
  <2> QED BY <1>3, <2>2, <2>3, <2>4, <2>5 DEF OnData
<1>7. DriverTypes' BY <1>1, <1>2, <1>3, <1>6 DEF DriverTypes
<1>8. Mine' = Mine /\ (page' # "detached" => closing' = "no") /\ (closed => closed') BY <1>1, <1>2 DEF Mine, closed
<1>9. /\ unacked' = unacked /\ failed' = failed /\ lost' = lost /\ Due(acks') = Due(acks) BY <1>2
<1>10. /\ Sum(ipc) = size + Sum(ipc') /\ Sum(ipc') \in Nat /\ Sum(parsing) \in Nat /\ Sum(parsing') \in Nat
       /\ written \in Nat /\ written' \in Nat /\ pending \in Nat /\ pending' \in Nat
  BY <1>1, <1>3, <1>6
<1>11. \/ ~Mine /\ Sum(parsing') = Sum(parsing) /\ written' = written /\ pending' = pending
       \/ size = 0 /\ Sum(parsing') = Sum(parsing) /\ written' = written /\ pending' = pending
       \/ Sum(parsing') = Sum(parsing) + size /\ written' = written /\ pending' = pending
       \/ Sum(parsing') = Sum(parsing) /\ written' = written + size /\ pending' = pending + size
  BY <1>6
<1>12. /\ Sum(ipc') + Sum(parsing') <= Sum(ipc) + Sum(parsing)
       /\ Sum(ipc') + Sum(parsing') + written' <= Sum(ipc) + Sum(parsing) + written
       /\ Mine => Sum(ipc') + Sum(parsing') + written' = Sum(ipc) + Sum(parsing) + written
  BY <1>10, <1>11
<1>13. /\ Sum(ipc') + Sum(parsing') + pending' <= Sum(ipc) + Sum(parsing) + pending
       /\ Mine => Sum(ipc') + Sum(parsing') + pending' = Sum(ipc) + Sum(parsing) + pending
  BY <1>10, <1>11
<1>14. unacked \in Nat /\ lost \in Nat /\ Due(acks) \in Nat /\ Sum(ipc) \in Nat BY <1>1, <1>10
<1>15. Mine => unacked' + (Outstanding + lost) <= unacked + (Outstanding' + lost')
  BY <1>9, <1>10, <1>13, <1>14 DEF Outstanding
<1>16. unacked + Outstanding' <= unacked' + Outstanding BY <1>9, <1>10, <1>13, <1>14 DEF Outstanding
<1>17. unacked' <= unacked /\ failed <= failed' BY <1>1, <1>9
<1> QED BY <1>2, <1>5, <1>7, <1>8, <1>12, <1>15, <1>16, <1>17, DriverStep

\* xterm.js has parsed a chunk: its credit is pending, or on its way back.
LEMMA OnParsedStep == ASSUME Inv, OnParsed PROVE Inv'
<1>1. /\ DriverTypes /\ unacked \in Nat /\ pending \in Nat /\ lost \in Nat /\ Due(acks) \in Nat /\ failed \in Nat
      /\ Sum(ipc) \in Nat /\ written \in Nat
      /\ page # "detached" => closing = "no"
  BY DriverNow DEF Inv, PageOK
<1>2. /\ parsing # <<>> /\ parsing' = Tail(parsing)
      /\ UNCHANGED <<left, queue, open, batcher, unacked, closing, woken, ipc, page, ended, failures, failed, lost>>
  BY DEF OnParsed, engine
<1>3. PICK size \in Nat :
        /\ size = Head(parsing) /\ Sum(parsing) = size + Sum(parsing') /\ Sum(parsing') \in Nat
        /\ parsing' \in Seq(Nat \ {0})
  <2>1. parsing \in Seq(Nat \ {0}) /\ parsing \in Seq(Nat) BY <1>1, NatSeq DEF DriverTypes
  <2>2. /\ Head(parsing) \in Nat /\ Sum(Tail(parsing)) \in Nat
        /\ Sum(parsing) = Head(parsing) + Sum(Tail(parsing))
    BY <1>2, <2>1, TailFacts
  <2>3. Tail(parsing) \in Seq(Nat \ {0}) BY <1>2, <2>1
  <2>4. Sum(parsing') = Sum(Tail(parsing)) BY <1>2
  <2> QED BY <1>2, <2>2, <2>3, <2>4
<1>4. TakesFirst BY <1>2 DEF TakesFirst
<1>5. /\ written' \in Nat /\ pending' \in Nat /\ timer' \in BOOLEAN /\ AckBag(acks') /\ Due(acks') \in Nat
      /\ \/ ~Mine /\ written' = written /\ pending' + Due(acks') = pending + Due(acks)
         \/ written' = written + size /\ pending' + Due(acks') = pending + size + Due(acks)
  <2>1. timer \in BOOLEAN /\ AckBag(acks) BY <1>1 DEF DriverTypes
  <2>2. CASE ~Mine /\ UNCHANGED <<written, pending, timer, acks>> BY <1>1, <2>1, <2>2
  <2>3. CASE /\ written' = written + size
             /\ IF pending + size >= AckChunk
                THEN FlushAck(page = "attached", pending + size)
                ELSE pending' = pending + size /\ timer' = TRUE /\ UNCHANGED acks
    <3>1. pending + size \in Nat /\ written' \in Nat BY <1>1, <2>3
    <3>2. CASE FlushAck(page = "attached", pending + size)
      <4>1. (page = "attached") \in BOOLEAN OBVIOUS
      <4>2. /\ timer' \in BOOLEAN /\ pending' \in Nat /\ AckBag(acks') /\ Due(acks') \in Nat
            /\ pending' + Due(acks') = (pending + size) + Due(acks)
        BY <3>1, <3>2, <4>1, FlushAckFacts
      <4> QED BY <2>3, <3>1, <4>2
    <3>3. CASE pending' = pending + size /\ timer' = TRUE /\ UNCHANGED acks BY <1>1, <2>1, <2>3, <3>1, <3>3
    <3> QED BY <2>3, <3>2, <3>3
  <2> QED BY <1>3, <2>2, <2>3 DEF OnParsed
<1>6. DriverTypes' BY <1>1, <1>2, <1>3, <1>5 DEF DriverTypes
<1>7. Mine' = Mine /\ (page' # "detached" => closing' = "no") /\ (closed => closed') BY <1>1, <1>2 DEF Mine, closed
<1>8. unacked' = unacked /\ failed' = failed /\ lost' = lost /\ Sum(ipc') = Sum(ipc) BY <1>2
<1>9. /\ Sum(parsing) = size + Sum(parsing') /\ Sum(parsing') \in Nat /\ Sum(ipc) \in Nat
      /\ written \in Nat /\ written' \in Nat /\ pending \in Nat /\ pending' \in Nat
      /\ Due(acks) \in Nat /\ Due(acks') \in Nat /\ unacked \in Nat /\ lost \in Nat
  BY <1>1, <1>3, <1>5
<1>10. \/ ~Mine /\ written' = written /\ pending' + Due(acks') = pending + Due(acks)
       \/ written' = written + size /\ pending' + Due(acks') = pending + size + Due(acks)
  BY <1>5
<1>11. /\ Sum(ipc') + Sum(parsing') <= Sum(ipc) + Sum(parsing)
       /\ Sum(ipc') + Sum(parsing') + written' <= Sum(ipc) + Sum(parsing) + written
       /\ Mine => Sum(ipc') + Sum(parsing') + written' = Sum(ipc) + Sum(parsing) + written
  BY <1>8, <1>9, <1>10
<1>12. /\ Sum(ipc') + Sum(parsing') + pending' + Due(acks') <= Sum(ipc) + Sum(parsing) + pending + Due(acks)
       /\ Mine => Sum(ipc') + Sum(parsing') + pending' + Due(acks') = Sum(ipc) + Sum(parsing) + pending + Due(acks)
  BY <1>8, <1>9, <1>10
<1>13. Mine => unacked' + (Outstanding + lost) <= unacked + (Outstanding' + lost') BY <1>8, <1>9, <1>12 DEF Outstanding
<1>14. unacked + Outstanding' <= unacked' + Outstanding BY <1>8, <1>9, <1>12 DEF Outstanding
<1>15. unacked' <= unacked /\ failed <= failed' BY <1>1, <1>8
<1> QED BY <1>2, <1>4, <1>6, <1>7, <1>11, <1>13, <1>14, <1>15, DriverStep

------------------------------------------------------------------------------
(* The theorems                                                             *)

\* Every step keeps the invariant.
THEOREM NextInv == Inv /\ [Next]_vars => Inv'
<1> SUFFICES ASSUME Inv, [Next]_vars PROVE Inv' OBVIOUS
<1>1. CASE Read BY <1>1, ReadStep
<1>2. CASE ReadEnd BY <1>2, ReadEndStep
<1>3. CASE Batcher BY <1>3, BatcherMoves, ReceiveStep, FillStep, CountStep, SendStep, FinishStep DEF Batcher
<1>4. CASE Attach \/ Superseded \/ Detach \/ TimerFires BY <1>4, PageSteps
<1>5. CASE OnData BY <1>5, OnDataStep
<1>6. CASE OnParsed BY <1>6, OnParsedStep
<1>7. CASE Acked BY <1>7, AckSteps DEF Acked
<1>8. CASE AckFailed BY <1>8, AckFailedStep
<1>9. CASE Close BY <1>9, CloseStep
<1>10. CASE UNCHANGED vars
  <2>1. UNCHANGED <<left, queue, open, batcher, unacked, closing, woken, page, parsing, written, ended, pending, timer,
                    failures, ipc, acks, failed, lost>>
    BY <1>10 DEF vars, engine, driver
  <2>2. (TypeOK /\ failures <= failed)' BY <2>1 DEF Inv, TypeOK
  <2>3. (FrameOK /\ PageOK /\ Whole /\ MarkerOK)' BY <2>1 DEF Inv, FrameOK, PageOK, Whole, Between, MarkerOK, Mine, At
  <2>4. OnTheWay' = OnTheWay /\ Going' = Going /\ Mine' = Mine BY <2>1 DEF OnTheWay, Going, Mine, At
  <2>5. (CreditIsKept /\ Covered /\ GateOK /\ WebviewIsBounded)'
    BY <2>1, <2>4 DEF Inv, CreditIsKept, Covered, GateOK, WebviewIsBounded, At, closed
  <2> QED BY <2>2, <2>3, <2>5 DEF Inv
<1> QED BY <1>1, <1>2, <1>3, <1>4, <1>5, <1>6, <1>7, <1>8, <1>9, <1>10 DEF Next

\* The invariant holds in every state of every behaviour.
THEOREM Invariance == Spec => []Inv
BY InitInv, NextInv, PTL DEF Spec

\* Every counter, queue and acknowledgement keeps its type; nothing is written
\* to the screen that the program did not write.
THEOREM TypeCorrect == Spec => []TypeOK
<1>1. Inv => TypeOK BY DEF Inv
<1> QED BY <1>1, Invariance, PTL

\* No credit is lost: what the engine waits for is on its way to the screen, to be
\* acknowledged, acknowledged, or given up (FlowControl, flushAck).
THEOREM CreditKept == Spec => []CreditIsKept
<1>1. Inv => CreditIsKept BY DEF Inv
<1> QED BY <1>1, Invariance, PTL

\* The webview never has more than the high watermark and one frame to deal with
\* as long as no acknowledgement fails (wait_for_capacity, on_sent).
THEOREM Bounded == Spec => []WebviewIsBounded
<1>1. Inv => WebviewIsBounded BY DEF Inv
<1> QED BY <1>1, Invariance, PTL

\* The page hears of the end after the last byte that was read (run_batcher).
THEOREM EndLast == Spec => []EndComesLast
<1>1. ASSUME Inv PROVE EndComesLast
  <2>1. SUFFICES ASSUME Mine, ended PROVE written + Sum(parsing) = Total - left BY <2>1 DEF EndComesLast
  <2>2. /\ TypeOK /\ At("done") /\ ipc = <<>> /\ queue = <<>> /\ batcher.frame = 0
        /\ Sum(queue) + batcher.frame + Sum(ipc) + Sum(parsing) + written + left = Total
    BY <1>1, <2>1 DEF Inv, MarkerOK, PageOK, FrameOK, Whole, Between, At
  <2>3. Sum(queue) = 0 /\ Sum(ipc) = 0 BY <2>2, SumEmpty, Zenon
  <2>4. Sum(parsing) \in Nat /\ written \in Nat /\ left \in Nat /\ Total \in Nat BY <2>2, Facts, Constants
  <2>5. batcher.frame = 0 /\ Sum(queue) + batcher.frame + Sum(ipc) + Sum(parsing) + written + left = Total BY <2>2
  <2> QED BY <2>3, <2>4, <2>5
<1> QED BY <1>1, Invariance, PTL

==============================================================================
