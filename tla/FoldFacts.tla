------------------------------ MODULE FoldFacts ------------------------------
(***************************************************************************)
(* Facts about FoldLeft(Step, b, s) of the community modules, which is        *)
(* defined over the positions of s from the last one down.  An operator that  *)
(* is a parameter cannot be given to a theorem, so a module with a fold takes *)
(* an instance of this one for each Step it folds.                            *)
(***************************************************************************)
EXTENDS Integers, Sequences, SequenceTheorems, WellFoundedInduction, TLAPS

CONSTANT Step(_, _)   \* the accumulator and the next value to the new accumulator

-----------------------------------------------------------------------------
(* The last position.                                                       *)

\* A set of numbers that has one has a least one.
LEMMA LeastNumber ==
    ASSUME NEW T, T \subseteq Nat, T # {}
    PROVE  \E n \in T : \A m \in T : n <= m
<1> DEFINE Less == {p \in Nat \X Nat : p[1] < p[2]}
<1>1. IsWellFoundedOn(Less, Nat)
  BY NatLessThanWellFounded DEF OpToRel
<1>2. PICK n \in T : \A m \in T : ~ (<<m, n>> \in Less)
  BY <1>1, WFMin
<1>3. \A m \in T : ~ (m < n)
  <2> SUFFICES ASSUME NEW m \in T, m < n PROVE FALSE
    OBVIOUS
  <2>1. <<m, n>> \in Less
    OBVIOUS
  <2> QED BY <1>2, <2>1
<1> QED BY <1>3

\* As the community modules define Max.
Top(t) == CHOOSE x \in t : \A y \in t : x >= y

\* The top of a set of positions is its last position.
LEMMA TopIsLast ==
    ASSUME NEW n \in Nat, NEW t \in SUBSET (1..n), t # {}
    PROVE  Top(t) \in t /\ \A y \in t : y <= Top(t)
<1> DEFINE Over == {m \in Nat : \A y \in t : y <= m}
<1>1. n \in Over
  OBVIOUS
<1>2. PICK m \in Over : \A k \in Over : m <= k
  <2> HIDE DEF Over
  <2>1. Over \subseteq Nat
    BY DEF Over
  <2> QED BY <1>1, <2>1, LeastNumber
<1>3. m \in t
  <2> SUFFICES ASSUME m \notin t PROVE FALSE
    OBVIOUS
  <2>1. \A y \in t : y <= m /\ y # m /\ y \in Nat /\ y >= 1
    OBVIOUS
  <2>2. m \in Nat /\ m # 0
    <3>1. PICK y \in t : TRUE
      OBVIOUS
    <3>2. m \in Nat
      OBVIOUS
    <3> QED BY <2>1, <3>1, <3>2
  <2>4. \A y \in t : y <= m - 1
    BY <2>1, <2>2
  <2>3. m - 1 \in Over
    BY <2>2, <2>4
  <2> HIDE DEF Over
  <2>5. m <= m - 1
    BY <1>2, <2>3
  <2> QED BY <2>2, <2>5
<1>4. \E x \in t : \A y \in t : x >= y
  BY <1>3
<1> QED BY <1>4 DEF Top

\* The positions up to n without their top are those up to n - 1.
LEMMA TopOfRange == ASSUME NEW n \in Nat \ {0} PROVE Top(1..n) = n /\ (1..n) \ {n} = 1..(n - 1)
<1>1. Top(1..n) \in 1..n /\ \A y \in 1..n : y <= Top(1..n)
  <2>1. 1..n \in SUBSET (1..n) /\ 1..n # {}
    OBVIOUS
  <2> QED BY <2>1, TopIsLast
<1> QED BY <1>1

-----------------------------------------------------------------------------
(* Unfolding.                                                               *)

\* The recursion of a fold over the values of s, on all sets of positions up to n.
Unfolds(g, b, s, n) ==
    g = [t \in SUBSET (1..n) |-> IF t = {} THEN b ELSE Step(g[t \ {Top(t)}], s[Top(t)])]

\* There is a function that obeys the recursion.
LEMMA UnfoldingExists == ASSUME NEW b, NEW s, NEW n \in Nat PROVE \E g : Unfolds(g, b, s, n)
<1> DEFINE Bad == {k \in Nat : ~ \E g : Unfolds(g, b, s, k)}
<1> SUFFICES Bad = {}
  OBVIOUS
<1> SUFFICES ASSUME Bad # {} PROVE FALSE
  OBVIOUS
<1>1. PICK k \in Bad : \A m \in Bad : k <= m
  BY LeastNumber
<1>2. k # 0
  <2>1. 1..0 = {} /\ SUBSET (1..0) = {{}}
    OBVIOUS
  <2>2. Unfolds([t \in SUBSET (1..0) |-> b], b, s, 0)
    BY <2>1 DEF Unfolds
  <2> QED BY <2>2
<1>3. k \in Nat /\ k - 1 \in Nat /\ k - 1 \notin Bad
  BY <1>1, <1>2
<1>4. PICK g : Unfolds(g, b, s, k - 1)
  BY <1>3
<1> DEFINE h == [t \in SUBSET (1..k) |-> IF t = {} THEN b ELSE Step(g[t \ {Top(t)}], s[Top(t)])]
<1>5. \A t \in SUBSET (1..k) : t # {} => t \ {Top(t)} \in SUBSET (1..(k - 1))
  <2> SUFFICES ASSUME NEW t \in SUBSET (1..k), t # {}, NEW y \in t, y # Top(t) PROVE y \in 1..(k - 1)
    OBVIOUS
  <2>1. PICK x \in t : x = Top(t) /\ y <= x
    BY <1>3, TopIsLast
  <2>2. x \in 1..k /\ y \in 1..k /\ y # x
    BY <2>1
  <2> QED BY <1>3, <2>1, <2>2
<1>6. \A t \in SUBSET (1..(k - 1)) : t \in SUBSET (1..k) /\ h[t] = g[t]
  <2> SUFFICES ASSUME NEW t \in SUBSET (1..(k - 1)) PROVE t \in SUBSET (1..k) /\ h[t] = g[t]
    OBVIOUS
  <2>1. 1..(k - 1) \subseteq 1..k
    BY <1>3
  <2>2. t \in SUBSET (1..k)
    BY <2>1
  <2>3. g[t] = IF t = {} THEN b ELSE Step(g[t \ {Top(t)}], s[Top(t)])
    BY <1>4 DEF Unfolds
  <2> QED BY <2>2, <2>3
<1>7. h = [t \in SUBSET (1..k) |-> IF t = {} THEN b ELSE Step(h[t \ {Top(t)}], s[Top(t)])]
  <2> SUFFICES ASSUME NEW t \in SUBSET (1..k), t # {} PROVE h[t \ {Top(t)}] = g[t \ {Top(t)}]
    OBVIOUS
  <2> QED BY <1>5, <1>6
<1> HIDE DEF h
<1>8. Unfolds(h, b, s, k)
  BY <1>7 DEF Unfolds
<1> QED BY <1>1, <1>8

\* FoldLeft(Step, b, s), as the community modules define it.
Fold(b, s) ==
    (CHOOSE f : f = [t \in SUBSET DOMAIN s |-> IF t = {} THEN b ELSE Step(f[t \ {Top(t)}], s[Top(t)])])[DOMAIN s]

\* A fold is such a function at all positions of the sequence.
LEMMA FoldUnfolds ==
    ASSUME NEW S, NEW b, NEW s \in Seq(S)
    PROVE  \E g : Unfolds(g, b, s, Len(s)) /\ Fold(b, s) = g[1..Len(s)]
<1> DEFINE g == CHOOSE f : f = [t \in SUBSET DOMAIN s |-> IF t = {} THEN b ELSE Step(f[t \ {Top(t)}], s[Top(t)])]
<1>1. Fold(b, s) = g[DOMAIN s]
  BY DEF Fold
<1> HIDE DEF g
<1>2. DOMAIN s = 1..Len(s) /\ Len(s) \in Nat
  OBVIOUS
<1>3. \E f : f = [t \in SUBSET DOMAIN s |-> IF t = {} THEN b ELSE Step(f[t \ {Top(t)}], s[Top(t)])]
  <2>1. PICK f : Unfolds(f, b, s, Len(s))
    BY <1>2, UnfoldingExists
  <2>2. f = [t \in SUBSET (1..Len(s)) |-> IF t = {} THEN b ELSE Step(f[t \ {Top(t)}], s[Top(t)])]
    BY <2>1 DEF Unfolds
  <2> QED BY <1>2, <2>2
<1>4. g = [t \in SUBSET DOMAIN s |-> IF t = {} THEN b ELSE Step(g[t \ {Top(t)}], s[Top(t)])]
  BY <1>3 DEF g
<1> QED BY <1>1, <1>2, <1>4 DEF Unfolds

\* On the first k positions the recursion takes step k on what the k - 1 before it gave.
LEMMA UnfoldingOf ==
    ASSUME NEW g, NEW b, NEW s, NEW n \in Nat, Unfolds(g, b, s, n), NEW k \in 0..n
    PROVE  g[1..k] = IF k = 0 THEN b ELSE Step(g[1..(k - 1)], s[k])
<1>1. 1..k \in SUBSET (1..n)
  OBVIOUS
<1>2. g[1..k] = IF 1..k = {} THEN b ELSE Step(g[(1..k) \ {Top(1..k)}], s[Top(1..k)])
  BY <1>1 DEF Unfolds
<1>3. CASE k = 0
  BY <1>2, <1>3
<1>4. CASE k # 0
  <2>1. k \in Nat \ {0} /\ 1..k # {}
    BY <1>4
  <2>2. Top(1..k) = k /\ (1..k) \ {k} = 1..(k - 1)
    BY <2>1, TopOfRange
  <2> QED BY <1>2, <1>4, <2>1, <2>2
<1> QED BY <1>3, <1>4

\* Nothing is folded to the start.
LEMMA FoldEmpty == ASSUME NEW b PROVE Fold(b, <<>>) = b
<1>1. <<>> \in Seq({}) /\ Len(<<>>) = 0
  OBVIOUS
<1>2. PICK g : Unfolds(g, b, <<>>, 0) /\ Fold(b, <<>>) = g[1..0]
  BY <1>1, FoldUnfolds
<1>3. g[1..0] = b
  BY <1>2, UnfoldingOf
<1> QED BY <1>2, <1>3

-----------------------------------------------------------------------------
(* A fold along its sequence.                                               *)

\* A fold as a function of the sequence.
Folds(f, b, S) == /\ f[<<>>] = b
                  /\ \A p \in Seq(S), x \in S : f[Append(p, x)] = Step(f[p], x)

\* A fold of a longer sequence is a step on the fold of the shorter one.
LEMMA FoldIsFunction ==
    ASSUME NEW S, NEW b
    PROVE  \E f : Folds(f, b, S) /\ \A p \in Seq(S) : Fold(b, p) = f[p]
<1> DEFINE f == [p \in Seq(S) |-> Fold(b, p)]
<1>1. \A p \in Seq(S) : Fold(b, p) = f[p]
  BY Zenon
<1>2. \A p \in Seq(S), x \in S : f[Append(p, x)] = Step(f[p], x)
  <2> SUFFICES ASSUME NEW p \in Seq(S), NEW x \in S PROVE f[Append(p, x)] = Step(f[p], x)
    OBVIOUS
  <2>1. Append(p, x) \in Seq(S)
    OBVIOUS
  <2>2. Fold(b, Append(p, x)) = f[Append(p, x)] /\ Fold(b, p) = f[p]
    BY <1>1, <2>1, Zenon
  <2>3. Fold(b, Append(p, x)) = Step(Fold(b, p), x)
    <3> DEFINE n == Len(p)
               r == Append(p, x)
    <3>1. r \in Seq(S) /\ n \in Nat /\ Len(r) = n + 1 /\ r[n + 1] = x /\ \A k \in 1..n : r[k] = p[k]
      OBVIOUS
    <3>2. PICK g : Unfolds(g, b, p, n) /\ Fold(b, p) = g[1..n]
      BY FoldUnfolds
    <3> HIDE DEF n, r
    <3>3. PICK h : Unfolds(h, b, r, n + 1) /\ Fold(b, r) = h[1..(n + 1)]
      BY <3>1, FoldUnfolds
    <3> DEFINE Off == {k \in Nat : k \in 0..n /\ h[1..k] # g[1..k]}
    <3>4. Off = {}
      <4> SUFFICES ASSUME Off # {} PROVE FALSE
        OBVIOUS
      <4>1. PICK k \in Off : \A m \in Off : k <= m
        BY LeastNumber
      <4>2. k \in 0..n /\ k \in 0..(n + 1) /\ h[1..k] # g[1..k]
        BY <3>1, <4>1
      <4>3. k # 0
        BY <3>1, <3>2, <3>3, <4>2, UnfoldingOf
      <4>4. h[1..(k - 1)] = g[1..(k - 1)]
        BY <3>1, <4>1, <4>2, <4>3
      <4>5. g[1..k] = Step(g[1..(k - 1)], p[k])
        BY <3>1, <3>2, <4>2, <4>3, UnfoldingOf
      <4>6. h[1..k] = Step(h[1..(k - 1)], r[k])
        BY <3>1, <3>3, <4>2, <4>3, UnfoldingOf
      <4> QED BY <3>1, <4>2, <4>3, <4>4, <4>5, <4>6
    <3>5. h[1..n] = g[1..n]
      BY <3>1, <3>4
    <3>6. h[1..(n + 1)] = Step(h[1..n], r[n + 1])
      BY <3>1, <3>3, UnfoldingOf
    <3> QED BY <3>1, <3>2, <3>3, <3>5, <3>6 DEF r
  <2> HIDE DEF f
  <2> QED BY <2>2, <2>3, Zenon
<1>3. f[<<>>] = b
  <2>1. <<>> \in Seq(S)
    OBVIOUS
  <2>2. Fold(b, <<>>) = b
    BY FoldEmpty, Zenon
  <2> QED BY <1>1, <2>1, <2>2, Zenon
<1> HIDE DEF f
<1>4. Folds(f, b, S)
  BY <1>2, <1>3, Zenon DEF Folds
<1> QED BY <1>1, <1>4, Zenon

\* What relates nothing to the start, and is kept by a step for a value more, relates a
\* sequence to its fold.
LEMMA FoldFollows ==
    ASSUME NEW S, NEW b, NEW R, <<<<>>, b>> \in R,
           \A p \in Seq(S), x \in S : \A a : <<p, a>> \in R => <<Append(p, x), Step(a, x)>> \in R,
           NEW s \in Seq(S)
    PROVE  <<s, Fold(b, s)>> \in R
<1>1. PICK f : Folds(f, b, S) /\ Fold(b, s) = f[s]
  BY FoldIsFunction, Zenon
<1> DEFINE Bad == {n \in Nat : \E p \in Seq(S) : Len(p) = n /\ <<p, f[p]>> \notin R}
<1>2. Bad = {}
  <2> SUFFICES ASSUME Bad # {} PROVE FALSE
    OBVIOUS
  <2>1. PICK n \in Bad : \A m \in Bad : n <= m
    BY LeastNumber
  <2>2. PICK p \in Seq(S) : Len(p) = n /\ <<p, f[p]>> \notin R
    BY <2>1
  <2>3. p # <<>>
    BY <1>1, <2>2 DEF Folds
  <2>4. PICK q \in Seq(S), x \in S : p = Append(q, x)
    BY <2>3, SequenceEmptyOrAppend
  <2>5. Len(q) = n - 1 /\ n - 1 \in Nat
    BY <2>2, <2>4
  <2>6. n \in Nat /\ n - 1 \notin Bad
    <3>1. n \in Nat
      OBVIOUS
    <3>2. ~ (n <= n - 1)
      BY <3>1
    <3> HIDE DEF Bad
    <3> QED BY <2>1, <3>1, <3>2
  <2>7. <<q, f[q]>> \in R
    BY <2>5, <2>6
  <2>8. <<p, Step(f[q], x)>> \in R
    BY <2>4, <2>7
  <2> QED BY <1>1, <2>2, <2>4, <2>8 DEF Folds
<1>3. Len(s) \in Nat /\ Len(s) \notin Bad
  <2>1. Len(s) \in Nat
    OBVIOUS
  <2> HIDE DEF Bad
  <2> QED BY <1>2, <2>1
<1>4. <<s, f[s]>> \in R
  BY <1>3
<1> QED BY <1>1, <1>4, Zenon

=============================================================================
