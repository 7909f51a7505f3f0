---------------------------- MODULE FoldTheorems ----------------------------
(***************************************************************************)
(* Facts about finite sets, sums and folds that the proofs of several      *)
(* components rest on.  The library states induction with an operator as a *)
(* parameter, which none of the provers can instantiate.  Here induction   *)
(* is over a set: what fails to have a property is a family of subsets of  *)
(* a finite set, a family that is not empty has a least member, and the    *)
(* least member that fails contradicts the step.                           *)
(***************************************************************************)
EXTENDS Integers, Functions, FiniteSetsExt, FiniteSetTheorems, TLAPS

\* A family of subsets of a finite set has a minimal member.
LEMMA LeastSet ==
  ASSUME NEW S, IsFiniteSet(S), NEW T, T \subseteq SUBSET S, T # {}
  PROVE  \E x \in T : \A y \in T : y \subseteq x => y = x
<1>1. IsWellFoundedOn(StrictSubsetOrdering(S), SUBSET S)
  BY FS_StrictSubsetOrderingWellFounded, FS_FiniteSubsetsOfFinite
<1>2. PICK x \in T : \A y \in T : ~ (<<y, x>> \in StrictSubsetOrdering(S))
  BY <1>1, WFMin
<1>3. ASSUME NEW y \in T, y \subseteq x, y # x PROVE FALSE
  <2>1. <<y, x>> \in StrictSubsetOrdering(S)
    BY <1>3 DEF StrictSubsetOrdering
  <2> QED BY <1>2, <2>1
<1> QED BY <1>3

\* Induction over a finite set: a family of its subsets that has the empty one, and
\* with a subset also the one with any further element, has the whole set.
THEOREM SubsetInduction ==
  ASSUME NEW S, IsFiniteSet(S), NEW F, {} \in F,
         \A s \in SUBSET S : \A x \in S \ s : s \in F => s \cup {x} \in F
  PROVE  S \in F
<1> DEFINE Bad == {s \in SUBSET S : s \notin F}
<1> SUFFICES ASSUME Bad # {} PROVE FALSE
  <2>1. S \in SUBSET S
    OBVIOUS
  <2> QED BY <2>1
<1>1. PICK s \in Bad : \A r \in Bad : r \subseteq s => r = s
  <2>1. Bad \subseteq SUBSET S
    OBVIOUS
  <2> HIDE DEF Bad
  <2> QED BY <2>1, LeastSet
<1>2. PICK x \in s : TRUE
  OBVIOUS
<1>3. s \ {x} \in SUBSET S /\ s \ {x} \in F /\ x \in S \ (s \ {x})
  BY <1>1, <1>2
<1>4. (s \ {x}) \cup {x} = s
  BY <1>2
<1> QED BY <1>3, <1>4

\* Naturals have a least element.
LEMMA LeastNat ==
  ASSUME NEW T, T \subseteq Nat, T # {}
  PROVE  \E n \in T : \A m \in T : n <= m
<1>1. PICK k \in T : TRUE
  OBVIOUS
<1> DEFINE Upto(n) == 1 .. n
           F == {Upto(n) : n \in {m \in T : m <= k}}
<1>2. IsFiniteSet(1 .. k)
  BY FS_Interval
<1>3. F \subseteq SUBSET (1 .. k) /\ F # {}
  OBVIOUS
<1>4. PICK x \in F : \A y \in F : y \subseteq x => y = x
  <2> DEFINE D == 1 .. k
  <2>1. IsFiniteSet(D) /\ F \subseteq SUBSET D /\ F # {}
    BY <1>2, <1>3
  <2> HIDE DEF F, D
  <2> QED BY <2>1, LeastSet
<1>5. PICK n \in T : n <= k /\ x = Upto(n)
  BY <1>4
<1>6. ASSUME NEW m \in T, m < n PROVE FALSE
  <2>1. Upto(m) \in F /\ Upto(m) \subseteq x
    BY <1>5, <1>6
  <2>2. Upto(m) = Upto(n)
    <3> HIDE DEF Upto, F
    <3> QED BY <1>4, <1>5, <2>1
  <2>3. n \in Upto(n) /\ n \notin Upto(m)
    BY <1>6
  <2> QED BY <2>2, <2>3
<1> QED BY <1>6

\* Induction over the naturals, for the set of those with a property.
THEOREM NatSetInduction ==
  ASSUME NEW P \in SUBSET Nat, 0 \in P, \A n \in P : n + 1 \in P
  PROVE  \A n \in Nat : n \in P
<1> DEFINE Bad == Nat \ P
<1> SUFFICES ASSUME Bad # {} PROVE FALSE
  OBVIOUS
<1>1. PICK n \in Bad : \A m \in Bad : n <= m
  <2>1. Bad \subseteq Nat
    OBVIOUS
  <2> HIDE DEF Bad
  <2> QED BY <2>1, LeastNat
<1>2. n - 1 \in Nat /\ n - 1 \notin Bad
  BY <1>1
<1> QED BY <1>1, <1>2

\* A set of naturals with a bound has a greatest element, which is its Max.
THEOREM MaxOfBounded ==
  ASSUME NEW n \in Nat, NEW S \in SUBSET (0 .. n), S # {}
  PROVE  Max(S) \in S /\ \A x \in S : x <= Max(S)
<1> DEFINE Below == {n - x : x \in S}
<1>1. PICK d \in Below : \A e \in Below : d <= e
  <2>1. \A x \in S : n - x \in Nat
    OBVIOUS
  <2>2. Below \subseteq Nat /\ Below # {}
    BY <2>1
  <2> HIDE DEF Below
  <2> QED BY <2>2, LeastNat
<1>2. PICK m \in S : d = n - m
  OBVIOUS
<1>3. \A x \in S : m >= x
  BY <1>1, <1>2
<1> QED BY <1>3 DEF Max

\* The Min of a set of integers is its least element.
THEOREM MinIs ==
  ASSUME NEW S \in SUBSET Int, NEW m \in S, \A x \in S : m <= x
  PROVE  Min(S) = m
<1> DEFINE least == CHOOSE x \in S : \A y \in S : x <= y
<1>1. least \in S /\ \A y \in S : least <= y
  OBVIOUS
<1>2. Min(S) = least
  BY DEF Min
<1> HIDE DEF least
<1>3. least = m
  BY <1>1
<1> QED BY <1>2, <1>3

-----------------------------------------------------------------------------
(* Folds over a set.  ch gives the element that is taken from a set next.  *)

Chooses(ch, S) == \A s \in SUBSET S : s # {} => ch[s] \in s

\* g gives the fold of every subset of S.
Recursion(g, S, base, op, ch) ==
  g = [s \in SUBSET S |-> IF s = {} THEN base ELSE op[<<g[s \ {ch[s]}], ch[s]>>]]

\* Two functions with the same recursion agree where both are defined.
LEMMA FoldAgrees ==
  ASSUME NEW S, IsFiniteSet(S), NEW R \in SUBSET S, NEW base, NEW op, NEW ch, Chooses(ch, S),
         NEW g, Recursion(g, S, base, op, ch),
         NEW h, Recursion(h, R, base, op, ch)
  PROVE  g[R] = h[R]
<1> DEFINE Differ == {s \in SUBSET R : g[s] # h[s]}
<1> SUFFICES ASSUME Differ # {} PROVE FALSE
  OBVIOUS
<1>1. PICK s \in Differ : \A r \in Differ : r \subseteq s => r = s
  <2>1. Differ \subseteq SUBSET S
    OBVIOUS
  <2> HIDE DEF Differ
  <2> QED BY <2>1, LeastSet
<1>2. s \in SUBSET R /\ s \in SUBSET S /\ g[s] # h[s]
  OBVIOUS
<1>3. /\ g[s] = IF s = {} THEN base ELSE op[<<g[s \ {ch[s]}], ch[s]>>]
      /\ h[s] = IF s = {} THEN base ELSE op[<<h[s \ {ch[s]}], ch[s]>>]
  BY <1>2 DEF Recursion
<1>4. s # {} /\ g[s \ {ch[s]}] # h[s \ {ch[s]}]
  BY <1>2, <1>3
<1>5. s \ {ch[s]} \in Differ /\ ch[s] \in s
  BY <1>2, <1>4 DEF Chooses
<1> QED BY <1>1, <1>5

\* What a fold is the value of exists: a function defined by recursion over the
\* subsets of a finite set.
LEMMA FoldExists ==
  ASSUME NEW S, IsFiniteSet(S), NEW V, NEW base \in V, NEW op \in [V \X S -> V],
         NEW ch, Chooses(ch, S)
  PROVE  \E g \in [SUBSET S -> V] : Recursion(g, S, base, op, ch)
<1> DEFINE Ok(T) == \E g \in [SUBSET T -> V] : Recursion(g, T, base, op, ch)
           Bad == {T \in SUBSET S : ~Ok(T)}
<1>1. SUFFICES ASSUME Bad # {} PROVE FALSE
  <2>1. S \in SUBSET S
    OBVIOUS
  <2> QED BY <2>1
<1>2. PICK T \in Bad : \A U \in Bad : U \subseteq T => U = T
  <2>1. Bad \subseteq SUBSET S
    OBVIOUS
  <2> HIDE DEF Bad
  <2> QED BY <1>1, <2>1, LeastSet
<1>4. T \in SUBSET S /\ ~Ok(T)
  OBVIOUS
<1>5. ASSUME NEW U \in SUBSET T, U # T PROVE Ok(U)
  BY <1>2, <1>4, <1>5
<1> DEFINE below == [U \in (SUBSET T) \ {T} |->
                       CHOOSE g \in [SUBSET U -> V] : Recursion(g, U, base, op, ch)]
           Of(s) == IF s = {} THEN base ELSE op[<<below[s \ {ch[s]}][s \ {ch[s]}], ch[s]>>]
           f == [s \in SUBSET T |-> Of(s)]
<1>6. ASSUME NEW U \in SUBSET T, U # T
      PROVE  below[U] \in [SUBSET U -> V] /\ Recursion(below[U], U, base, op, ch)
  BY <1>5, <1>6
<1>7. ASSUME NEW s \in SUBSET T, s # {}
      PROVE  /\ ch[s] \in s /\ ch[s] \in S
             /\ s \ {ch[s]} \in SUBSET T /\ s \ {ch[s]} # T
             /\ below[s \ {ch[s]}][s \ {ch[s]}] \in V
  <2>1. ch[s] \in s /\ ch[s] \in S
    BY <1>4, <1>7 DEF Chooses
  <2>2. s \ {ch[s]} \in SUBSET T /\ s \ {ch[s]} # T
    BY <2>1
  <2>3. below[s \ {ch[s]}] \in [SUBSET (s \ {ch[s]}) -> V]
    <3> HIDE DEF below
    <3> QED BY <1>6, <2>2
  <2> QED BY <2>1, <2>2, <2>3
<1>a. \A v \in V, c \in S : op[<<v, c>>] \in V
  OBVIOUS
<1>8. \A s \in SUBSET T : Of(s) \in V
  <2> HIDE DEF below
  <2>1. TAKE s \in SUBSET T
  <2>2. CASE s = {}
    BY <2>2
  <2>3. CASE s # {}
    <3>1. op[<<below[s \ {ch[s]}][s \ {ch[s]}], ch[s]>>] \in V
      BY <1>7, <1>a, <2>3
    <3> QED BY <2>3, <3>1
  <2> QED BY <2>2, <2>3
<1>9. f \in [SUBSET T -> V]
  <2> HIDE DEF Of
  <2> QED BY <1>8
<1>10. ASSUME NEW s \in SUBSET T, s # T PROVE f[s] = below[s][s]
  <2>1. below[s][s] = IF s = {} THEN base ELSE op[<<below[s][s \ {ch[s]}], ch[s]>>]
    <3> DEFINE b == below[s]
    <3>1. Recursion(b, s, base, op, ch)
      BY <1>6, <1>10
    <3>2. s \in SUBSET s
      OBVIOUS
    <3> HIDE DEF b
    <3>3. b[s] = IF s = {} THEN base ELSE op[<<b[s \ {ch[s]}], ch[s]>>]
      BY <3>1, <3>2 DEF Recursion
    <3> QED BY <3>3 DEF b
  <2>2. CASE s = {}
    BY <2>1, <2>2
  <2>3. CASE s # {}
    <3> DEFINE r == s \ {ch[s]}
    <3>1. r \in SUBSET T /\ r # T /\ r \subseteq s
      BY <1>7, <2>3
    <3>2. Recursion(below[s], s, base, op, ch) /\ Recursion(below[r], r, base, op, ch)
      <4> HIDE DEF below, r
      <4> QED BY <1>6, <1>10, <3>1
    <3>3. below[s][r] = below[r][r]
      <4>1. IsFiniteSet(s) /\ Chooses(ch, s) /\ r \in SUBSET s
        BY <1>4, <3>1, FS_Subset DEF Chooses
      <4> HIDE DEF r, Ok, Bad, below, Of, f
      <4> QED BY <3>2, <4>1, FoldAgrees
    <3>4. f[s] = op[<<below[r][r], ch[s]>>]
      <4> HIDE DEF below
      <4> QED BY <2>3
    <3> HIDE DEF below, f
    <3> QED BY <2>1, <2>3, <3>3, <3>4
  <2> QED BY <2>2, <2>3
<1>11. Recursion(f, T, base, op, ch)
  <2>1. ASSUME NEW s \in SUBSET T
        PROVE  f[s] = IF s = {} THEN base ELSE op[<<f[s \ {ch[s]}], ch[s]>>]
    <3>1. CASE s = {}
      BY <3>1
    <3>2. CASE s # {}
      <4>1. f[s \ {ch[s]}] = below[s \ {ch[s]}][s \ {ch[s]}]
        <5> HIDE DEF f, below
        <5> QED BY <1>7, <1>10, <3>2
      <4>2. f[s] = op[<<below[s \ {ch[s]}][s \ {ch[s]}], ch[s]>>]
        <5> HIDE DEF below
        <5> QED BY <3>2
      <4> HIDE DEF f, below
      <4> QED BY <3>2, <4>1, <4>2
    <3> QED BY <3>1, <3>2
  <2>2. f = [s \in SUBSET T |-> f[s]]
    <3> HIDE DEF Of
    <3> QED OBVIOUS
  <2> HIDE DEF f
  <2>3. f = [s \in SUBSET T |-> IF s = {} THEN base ELSE op[<<f[s \ {ch[s]}], ch[s]>>]]
    BY <2>1, <2>2
  <2> QED BY <2>3 DEF Recursion
<1>12. Ok(T)
  <2> HIDE DEF f
  <2> QED BY <1>9, <1>11
<1> HIDE DEF Ok
<1> QED BY <1>4, <1>12

-----------------------------------------------------------------------------
(* Sums                                                                    *)

One(s) == CHOOSE x \in s : TRUE
Picks(S) == [s \in SUBSET S |-> One(s)]
Added(w, S) == [p \in Int \X S |-> w[p[2]] + p[1]]

\* g holds the sums of w over the subsets of S.
IsSum(g, w, S) ==
  /\ g \in [SUBSET S -> Int]
  /\ g[{}] = 0
  /\ \A s \in SUBSET S : s # {} => g[s] = w[One(s)] + g[s \ {One(s)}]

\* Picks is a way to take elements from sets.
LEMMA PicksChoose == ASSUME NEW S PROVE Chooses(Picks(S), S)
BY DEF Chooses, Picks, One

\* The library's sum over a set is the last of the sums over its subsets.
LEMMA SumFold ==
  ASSUME NEW D, NEW w \in [D -> Int], NEW S, IsFiniteSet(S), S \subseteq D
  PROVE  \E g : IsSum(g, w, S) /\ SumFunctionOnSet(w, S) = g[S]
<1> DEFINE Partial(f) == f = [s \in SUBSET S |->
                                IF s = {} THEN 0
                                ELSE w[CHOOSE x \in s : TRUE] + f[s \ {CHOOSE x \in s : TRUE}]]
           iter == CHOOSE f : Partial(f)
<1>1. SumFunctionOnSet(w, S) = iter[S]
  BY DEF SumFunctionOnSet, FoldFunctionOnSet, MapThenFoldSet
<1>2. PICK g \in [SUBSET S -> Int] : Recursion(g, S, 0, Added(w, S), Picks(S))
  <2>1. Added(w, S) \in [Int \X S -> Int]
    BY DEF Added
  <2>2. 0 \in Int
    OBVIOUS
  <2> QED BY <2>1, <2>2, PicksChoose, FoldExists
<1> DEFINE x(s) == CHOOSE y \in s : TRUE
<1>3. ASSUME NEW s \in SUBSET S, s # {}
      PROVE  x(s) \in s /\ x(s) \in S /\ w[x(s)] \in Int /\ s \ {x(s)} \in SUBSET S
  BY <1>3
<1>4. ASSUME NEW s \in SUBSET S
      PROVE  g[s] = IF s = {} THEN 0 ELSE w[x(s)] + g[s \ {x(s)}]
  <2>1. g[s] = IF s = {} THEN 0 ELSE Added(w, S)[<<g[s \ {Picks(S)[s]}], Picks(S)[s]>>]
    BY <1>2 DEF Recursion
  <2>2. Picks(S)[s] = x(s)
    BY DEF Picks, One
  <2>3. CASE s # {}
    <3>1. <<g[s \ {x(s)}], x(s)>> \in Int \X S
      <4> HIDE DEF x
      <4> QED BY <1>3, <2>3
    <3> HIDE DEF x
    <3> QED BY <2>1, <2>2, <2>3, <3>1 DEF Added
  <2> QED BY <2>1, <2>3
<1>5. Partial(g)
  <2>1. g = [s \in SUBSET S |-> g[s]]
    OBVIOUS
  <2> QED BY <1>4, <2>1
<1>6. Partial(iter)
  <2> HIDE DEF Partial
  <2> QED BY <1>5
<1>7. ASSUME NEW s \in SUBSET S
      PROVE  iter[s] = IF s = {} THEN 0 ELSE w[x(s)] + iter[s \ {x(s)}]
  <2> HIDE DEF iter
  <2> QED BY <1>6
<1> HIDE DEF iter, Partial, x
<1> DEFINE Differ == {s \in SUBSET S : iter[s] # g[s]}
<1>8. Differ = {}
  <2> SUFFICES ASSUME Differ # {} PROVE FALSE
    OBVIOUS
  <2>1. PICK s \in Differ : \A r \in Differ : r \subseteq s => r = s
    <3>1. Differ \subseteq SUBSET S
      OBVIOUS
    <3> HIDE DEF Differ
    <3> QED BY <3>1, LeastSet
  <2>2. s # {} /\ iter[s \ {x(s)}] # g[s \ {x(s)}]
    BY <1>4, <1>7
  <2> QED BY <1>3, <2>1, <2>2
<1>9. iter[S] = g[S]
  BY <1>8
<1>10. IsSum(g, w, S)
  BY <1>2, <1>4 DEF IsSum, One, x
<1> QED BY <1>1, <1>9, <1>10

\* There is one such function, whatever set of subsets it is defined on.
LEMMA SumAgrees ==
  ASSUME NEW S, IsFiniteSet(S), NEW T \in SUBSET S, NEW w, NEW g, NEW h,
         IsSum(g, w, S), IsSum(h, w, T)
  PROVE  \A s \in SUBSET T : g[s] = h[s]
<1> DEFINE Differ == {s \in SUBSET T : g[s] # h[s]}
<1>1. SUFFICES ASSUME Differ # {} PROVE FALSE
  OBVIOUS
<1>2. PICK s \in Differ : \A r \in Differ : r \subseteq s => r = s
  <2>1. Differ \subseteq SUBSET S
    OBVIOUS
  <2> HIDE DEF Differ
  <2> QED BY <1>1, <2>1, LeastSet
<1>3. s # {} /\ s \in SUBSET T /\ s \in SUBSET S
  BY DEF IsSum
<1>4. One(s) \in s
  BY <1>3 DEF One
<1>5. g[s \ {One(s)}] # h[s \ {One(s)}]
  BY <1>2, <1>3 DEF IsSum
<1> QED BY <1>2, <1>3, <1>4, <1>5

\* What g holds is what SumFunctionOnSet gives.
LEMMA SumsAre ==
  ASSUME NEW D, NEW w \in [D -> Int], NEW S, IsFiniteSet(S), S \subseteq D,
         NEW g, IsSum(g, w, S), NEW s \in SUBSET S
  PROVE  SumFunctionOnSet(w, s) = g[s]
<1>1. IsFiniteSet(s) /\ s \subseteq D
  BY FS_Subset
<1>2. PICK h : IsSum(h, w, s) /\ SumFunctionOnSet(w, s) = h[s]
  BY <1>1, SumFold
<1>3. \A r \in SUBSET s : g[r] = h[r]
  BY <1>2, SumAgrees
<1> QED BY <1>2, <1>3

\* A sum of integers is an integer.
THEOREM SumType ==
  ASSUME NEW D, NEW w \in [D -> Int], NEW S, IsFiniteSet(S), S \subseteq D
  PROVE  SumFunctionOnSet(w, S) \in Int
<1>1. PICK g : IsSum(g, w, S) /\ SumFunctionOnSet(w, S) = g[S]
  BY SumFold
<1> QED BY <1>1 DEF IsSum

\* A sum over nothing is 0.
THEOREM SumEmpty ==
  ASSUME NEW D, NEW w \in [D -> Int]
  PROVE  SumFunctionOnSet(w, {}) = 0
<1>1. IsFiniteSet({}) /\ {} \subseteq D
  BY FS_EmptySet
<1>2. PICK g : IsSum(g, w, {}) /\ SumFunctionOnSet(w, {}) = g[{}]
  BY <1>1, SumFold
<1> QED BY <1>2 DEF IsSum

\* The order of a sum does not matter: any element may be split off.
THEOREM SumSplit ==
  ASSUME NEW D, NEW w \in [D -> Int], NEW S, IsFiniteSet(S), S \subseteq D, NEW x \in S
  PROVE  SumFunctionOnSet(w, S) = SumFunctionOnSet(w, S \ {x}) + w[x]
<1>1. PICK g : IsSum(g, w, S)
  BY SumFold
<1> DEFINE Splits(s) == \A y \in s : g[s] = g[s \ {y}] + w[y]
           Bad == {s \in SUBSET S : ~Splits(s)}
<1>2. ASSUME Bad # {} PROVE FALSE
  <2>1. PICK s \in Bad : \A r \in Bad : r \subseteq s => r = s
    <3>1. Bad \subseteq SUBSET S
      OBVIOUS
    <3> HIDE DEF Bad
    <3> QED BY <1>2, <3>1, LeastSet
  <2>2. PICK y \in s : g[s] # g[s \ {y}] + w[y]
    OBVIOUS
  <2> DEFINE z == One(s)
  <2>3. z \in s
    BY DEF One
  <2>4. g[s] = w[z] + g[s \ {z}]
    BY <1>1, <2>2 DEF IsSum
  <2>5. z # y
    <3>1. w[y] \in Int /\ g[s \ {y}] \in Int
      BY <1>1 DEF IsSum
    <3> HIDE DEF z
    <3>2. ASSUME z = y PROVE g[s] = w[y] + g[s \ {y}]
      BY <2>4, <3>2
    <3> QED BY <2>2, <3>1, <3>2
  <2> HIDE DEF z
  <2>6. Splits(s \ {z}) /\ Splits(s \ {y})
    BY <2>1, <2>3
  <2>7. (s \ {z}) \ {y} = (s \ {y}) \ {z}
    OBVIOUS
  <2> DEFINE r == (s \ {z}) \ {y}
  <2>8. g[s \ {z}] = g[r] + w[y] /\ g[s \ {y}] = g[r] + w[z]
    BY <2>3, <2>5, <2>6, <2>7
  <2>9. g[r] \in Int /\ w[y] \in Int /\ w[z] \in Int
    BY <1>1, <2>3 DEF IsSum
  <2> HIDE DEF r
  <2> QED BY <2>2, <2>4, <2>8, <2>9
<1>3. g[S] = g[S \ {x}] + w[x]
  <2>1. S \in SUBSET S
    OBVIOUS
  <2> QED BY <1>2, <2>1
<1>4. SumFunctionOnSet(w, S) = g[S]
  BY <1>1, SumsAre
<1>5. SumFunctionOnSet(w, S \ {x}) = g[S \ {x}]
  BY <1>1, SumsAre
<1> QED BY <1>3, <1>4, <1>5

\* Sums are ordered as what they are of.
THEOREM SumMonotone ==
  ASSUME NEW D, NEW w \in [D -> Int], NEW v \in [D -> Int],
         NEW S, IsFiniteSet(S), S \subseteq D, \A x \in S : w[x] <= v[x]
  PROVE  SumFunctionOnSet(w, S) <= SumFunctionOnSet(v, S)
<1> DEFINE Bad == {s \in SUBSET S : ~(SumFunctionOnSet(w, s) <= SumFunctionOnSet(v, s))}
<1>1. SUFFICES ASSUME Bad # {} PROVE FALSE
  <2>1. S \in SUBSET S
    OBVIOUS
  <2> QED BY <2>1
<1>2. PICK s \in Bad : \A r \in Bad : r \subseteq s => r = s
  <2>1. Bad \subseteq SUBSET S
    OBVIOUS
  <2> HIDE DEF Bad
  <2> QED BY <1>1, <2>1, LeastSet
<1>3. CASE s = {}
  BY <1>3, SumEmpty
<1>4. CASE s # {}
  <2>1. PICK x \in s : TRUE
    BY <1>4
  <2> DEFINE r == s \ {x}
  <2>2. SumFunctionOnSet(w, r) <= SumFunctionOnSet(v, r)
    BY <1>2
  <2>3. IsFiniteSet(s) /\ s \subseteq D /\ IsFiniteSet(r) /\ r \subseteq D
    BY FS_Subset
  <2>4. /\ SumFunctionOnSet(w, s) = SumFunctionOnSet(w, r) + w[x]
        /\ SumFunctionOnSet(v, s) = SumFunctionOnSet(v, r) + v[x]
    BY <2>3, SumSplit
  <2>5. SumFunctionOnSet(w, r) \in Int /\ SumFunctionOnSet(v, r) \in Int
    <3> HIDE DEF r
    <3> QED BY <2>3, SumType
  <2>6. w[x] \in Int /\ v[x] \in Int /\ w[x] <= v[x]
    BY <2>3
  <2> HIDE DEF r
  <2>7. SumFunctionOnSet(w, s) <= SumFunctionOnSet(v, s)
    BY <2>2, <2>4, <2>5, <2>6
  <2> QED BY <2>7
<1> QED BY <1>3, <1>4

\* A sum over one more element has its value in addition.
LEMMA SumAdded ==
  ASSUME NEW D, NEW w \in [D -> Int], NEW S, IsFiniteSet(S), S \subseteq D, NEW x \in D \ S
  PROVE  SumFunctionOnSet(w, S \cup {x}) = SumFunctionOnSet(w, S) + w[x]
<1>1. IsFiniteSet(S \cup {x}) /\ S \cup {x} \subseteq D /\ x \in S \cup {x}
  BY FS_AddElement
<1>2. (S \cup {x}) \ {x} = S
  OBVIOUS
<1> QED BY <1>1, <1>2, SumSplit

\* What is 0 outside of one element adds up to its value there.
THEOREM SumSingle ==
  ASSUME NEW D, NEW w \in [D -> Int], IsFiniteSet(D), NEW a \in D,
         \A x \in D : x # a => w[x] = 0
  PROVE  SumFunctionOnSet(w, D) = w[a]
<1> DEFINE R == D \ {a}
           F == {s \in SUBSET R : SumFunctionOnSet(w, s) = 0}
<1>1. IsFiniteSet(R)
  BY FS_RemoveElement
<1>2. {} \in F
  BY SumEmpty
<1>3. ASSUME NEW s \in SUBSET R, NEW x \in R \ s, s \in F PROVE s \cup {x} \in F
  <2>1. IsFiniteSet(s) /\ s \subseteq D /\ x \in D \ s /\ w[x] = 0
    BY <1>1, FS_Subset
  <2>2. SumFunctionOnSet(w, s \cup {x}) = 0
    BY <1>3, <2>1, SumAdded
  <2> QED BY <1>3, <2>2
<1>4. R \in F
  <2> HIDE DEF R, F
  <2> QED BY <1>1, <1>2, <1>3, SubsetInduction
<1>5. SumFunctionOnSet(w, D) = SumFunctionOnSet(w, R) + w[a]
  BY SumSplit
<1> QED BY <1>4, <1>5

\* The sum of two functions adds up to both of their sums.
THEOREM SumPlus ==
  ASSUME NEW D, IsFiniteSet(D), NEW w \in [D -> Int], NEW v \in [D -> Int]
  PROVE  SumFunctionOnSet([x \in D |-> w[x] + v[x]], D)
           = SumFunctionOnSet(w, D) + SumFunctionOnSet(v, D)
<1> DEFINE u == [x \in D |-> w[x] + v[x]]
           Adds(s) == SumFunctionOnSet(u, s) = SumFunctionOnSet(w, s) + SumFunctionOnSet(v, s)
           F == {s \in SUBSET D : Adds(s)}
<1>1. u \in [D -> Int]
  OBVIOUS
<1>2. {} \in F
  BY <1>1, SumEmpty
<1>3. ASSUME NEW s \in SUBSET D, NEW x \in D \ s, s \in F PROVE s \cup {x} \in F
  <2>1. IsFiniteSet(s) /\ s \subseteq D
    BY FS_Subset
  <2>2. u[x] = w[x] + v[x] /\ u[x] \in Int /\ w[x] \in Int /\ v[x] \in Int
    OBVIOUS
  <2> HIDE DEF u
  <2>3. /\ SumFunctionOnSet(u, s \cup {x}) = SumFunctionOnSet(u, s) + u[x]
        /\ SumFunctionOnSet(w, s \cup {x}) = SumFunctionOnSet(w, s) + w[x]
        /\ SumFunctionOnSet(v, s \cup {x}) = SumFunctionOnSet(v, s) + v[x]
    BY <1>1, <2>1, SumAdded
  <2>4. SumFunctionOnSet(w, s) \in Int /\ SumFunctionOnSet(v, s) \in Int
    BY <2>1, SumType
  <2>5. Adds(s \cup {x})
    BY <1>3, <2>2, <2>3, <2>4
  <2> QED BY <1>3, <2>5
<1>4. D \in F
  <2> HIDE DEF F
  <2> QED BY <1>2, <1>3, SubsetInduction
<1> QED BY <1>4

\* A sum of sums may be taken by columns instead of rows.
THEOREM SumExchange ==
  ASSUME NEW A, IsFiniteSet(A), NEW B, IsFiniteSet(B), NEW w \in [A -> [B -> Int]]
  PROVE  SumFunctionOnSet([a \in A |-> SumFunctionOnSet(w[a], B)], A)
           = SumFunctionOnSet([b \in B |-> SumFunctionOnSet([a \in A |-> w[a][b]], A)], B)
<1> DEFINE rows == [a \in A |-> SumFunctionOnSet(w[a], B)]
           Column(b) == [a \in A |-> w[a][b]]
           Columns(s) == [b \in B |-> SumFunctionOnSet(Column(b), s)]
           Same(s) == SumFunctionOnSet(rows, s) = SumFunctionOnSet(Columns(s), B)
           F == {s \in SUBSET A : Same(s)}
<1>1. rows \in [A -> Int] /\ \A b \in B : Column(b) \in [A -> Int]
  BY SumType
<1>2. ASSUME NEW s \in SUBSET A PROVE Columns(s) \in [B -> Int] /\ IsFiniteSet(s)
  <2>1. IsFiniteSet(s)
    BY FS_Subset
  <2> HIDE DEF Column
  <2> QED BY <1>1, <2>1, SumType
<1>3. {} \in F
  <2>1. Columns({}) = [b \in B |-> 0]
    <3> HIDE DEF Column
    <3> QED BY <1>1, SumEmpty
  <2> DEFINE zero == [b \in B |-> 0]
             G == {s \in SUBSET B : SumFunctionOnSet(zero, s) = 0}
  <2>2. zero \in [B -> Int]
    OBVIOUS
  <2>3. {} \in G
    BY <2>2, SumEmpty
  <2>4. ASSUME NEW s \in SUBSET B, NEW x \in B \ s, s \in G PROVE s \cup {x} \in G
    <3>1. IsFiniteSet(s) /\ zero[x] = 0
      BY FS_Subset
    <3> HIDE DEF zero
    <3>2. SumFunctionOnSet(zero, s \cup {x}) = 0
      BY <2>2, <2>4, <3>1, SumAdded
    <3> QED BY <2>4, <3>2
  <2>5. B \in G
    <3> HIDE DEF G
    <3> QED BY <2>3, <2>4, SubsetInduction
  <2> HIDE DEF rows
  <2>6. SumFunctionOnSet(rows, {}) = 0
    BY <1>1, SumEmpty
  <2> QED BY <2>1, <2>5, <2>6
<1>4. ASSUME NEW s \in SUBSET A, NEW x \in A \ s, s \in F PROVE s \cup {x} \in F
  <2>1. rows[x] = SumFunctionOnSet(w[x], B) /\ w[x] \in [B -> Int]
    OBVIOUS
  <2>2. IsFiniteSet(s) /\ s \subseteq A /\ Columns(s) \in [B -> Int] /\ Same(s)
    BY <1>2, <1>4
  <2>3. SumFunctionOnSet(rows, s \cup {x}) = SumFunctionOnSet(rows, s) + rows[x]
    <3>1. rows \in [A -> Int] /\ IsFiniteSet(s) /\ s \subseteq A /\ x \in A \ s
      BY <1>1, <2>2
    <3> HIDE DEF rows, F, Columns
    <3> QED BY <3>1, SumAdded
  <2>4. ASSUME NEW b \in B
        PROVE  Columns(s \cup {x})[b] = Columns(s)[b] + w[x][b]
    <3>1. Column(b)[x] = w[x][b]
      OBVIOUS
    <3> HIDE DEF Column
    <3>2. SumFunctionOnSet(Column(b), s \cup {x}) = SumFunctionOnSet(Column(b), s) + Column(b)[x]
      BY <1>1, <2>2, SumAdded
    <3> QED BY <3>1, <3>2
  <2>5. Columns(s \cup {x}) = [b \in B |-> Columns(s)[b] + w[x][b]]
    <3>1. Columns(s \cup {x}) = [b \in B |-> Columns(s \cup {x})[b]]
      OBVIOUS
    <3> HIDE DEF Columns
    <3> QED BY <2>4, <3>1
  <2> HIDE DEF Columns, rows
  <2>6. SumFunctionOnSet(Columns(s \cup {x}), B)
          = SumFunctionOnSet(Columns(s), B) + SumFunctionOnSet(w[x], B)
    BY <2>1, <2>2, <2>5, SumPlus
  <2>7. Same(s \cup {x})
    BY <2>1, <2>2, <2>3, <2>6
  <2> QED BY <1>4, <2>7
<1>5. A \in F
  <2> HIDE DEF F
  <2> QED BY <1>3, <1>4, SubsetInduction
<1>6. Same(A)
  BY <1>5
<1> QED BY <1>6

\* Products of naturals, where the provers need them one at a time.
LEMMA Distributes ==
  ASSUME NEW p \in Nat, NEW m \in Nat, NEW n \in Nat
  PROVE  p * (m + n) = p * m + p * n /\ p * m \in Nat
OBVIOUS

\* Two sets without a common element.
LEMMA DisjointCount ==
  ASSUME NEW S, IsFiniteSet(S), NEW T, IsFiniteSet(T), S \cap T = {}
  PROVE  IsFiniteSet(S \cup T) /\ Cardinality(S \cup T) = Cardinality(S) + Cardinality(T)
<1>1. Cardinality(S \cap T) = 0
  BY FS_EmptySet
<1>2. Cardinality(S) \in Nat /\ Cardinality(T) \in Nat
  BY FS_CardinalityType
<1>3. /\ IsFiniteSet(S \cup T)
      /\ Cardinality(S \cup T) = Cardinality(S) + Cardinality(T) - Cardinality(S \cap T)
  BY FS_Union, Zenon
<1> QED BY <1>1, <1>2, <1>3

\* The sizes of the sets that P gives, p times each; and their union.
Sizes(P, D, p) == [x \in D |-> p * Cardinality(P[x])]
Joined(P, D) == UNION {P[x] : x \in D}

\* Sets without a common element have as many elements together as one by one.
THEOREM SumOfDisjoint ==
  ASSUME NEW D, IsFiniteSet(D), NEW P, NEW p \in Nat,
         \A x \in D : IsFiniteSet(P[x]),
         \A x, y \in D : x # y => P[x] \cap P[y] = {}
  PROVE  /\ IsFiniteSet(Joined(P, D))
         /\ SumFunctionOnSet(Sizes(P, D, p), D) = p * Cardinality(Joined(P, D))
<1> DEFINE w == Sizes(P, D, p)
           Together(s) == Joined(P, s)
           Counts(s) == /\ IsFiniteSet(Together(s))
                        /\ SumFunctionOnSet(w, s) = p * Cardinality(Together(s))
           F == {s \in SUBSET D : Counts(s)}
<1>1. \A x \in D : Cardinality(P[x]) \in Nat
  BY FS_CardinalityType
<1>2. w \in [D -> Int]
  BY <1>1, Distributes DEF Sizes
<1>3. {} \in F
  <2>1. Together({}) = {} /\ IsFiniteSet({}) /\ Cardinality({}) = 0
    BY FS_EmptySet DEF Joined
  <2>2. SumFunctionOnSet(w, {}) = 0
    <3> HIDE DEF w
    <3> QED BY <1>2, SumEmpty
  <2> HIDE DEF w, Together
  <2> QED BY <2>1, <2>2
<1>4. ASSUME NEW s \in SUBSET D, NEW x \in D \ s, s \in F PROVE s \cup {x} \in F
  <2>1. IsFiniteSet(s) /\ w[x] = p * Cardinality(P[x])
    BY FS_Subset DEF Sizes
  <2>2. Together(s \cup {x}) = Together(s) \cup P[x] /\ Together(s) \cap P[x] = {}
    BY DEF Joined
  <2>3. Counts(s)
    BY <1>4
  <2> HIDE DEF w, Together
  <2>4. SumFunctionOnSet(w, s \cup {x}) = SumFunctionOnSet(w, s) + w[x]
    BY <1>2, <2>1, SumAdded
  <2>5. Cardinality(Together(s)) \in Nat /\ Cardinality(P[x]) \in Nat
    BY <1>1, <2>3, FS_CardinalityType
  <2>6. /\ IsFiniteSet(Together(s) \cup P[x])
        /\ Cardinality(Together(s) \cup P[x]) = Cardinality(Together(s)) + Cardinality(P[x])
    <3>1. IsFiniteSet(Together(s)) /\ IsFiniteSet(P[x])
      BY <2>3
    <3> HIDE DEF Counts, F
    <3> QED BY <2>2, <3>1, DisjointCount
  <2>7. p * (Cardinality(Together(s)) + Cardinality(P[x]))
          = p * Cardinality(Together(s)) + p * Cardinality(P[x])
    BY <2>5, Distributes
  <2>8. Counts(s \cup {x})
    BY <2>1, <2>2, <2>3, <2>4, <2>6, <2>7
  <2> QED BY <1>4, <2>8
<1>5. D \in F
  <2> HIDE DEF F
  <2> QED BY <1>3, <1>4, SubsetInduction
<1> QED BY <1>5

-----------------------------------------------------------------------------
(* Sums, quotients, ranks and bounds of integers                            *)

\* A quotient lies where the multiples around the dividend say.
LEMMA DivBetween ==
  ASSUME NEW x \in Int, NEW e \in Nat, e > 0, NEW a \in Int, NEW b \in Int,
         a * e <= x, x < (b + 1) * e
  PROVE  x \div e \in Int /\ a <= x \div e /\ x \div e <= b
<1>1. PICK q \in Int : q = x \div e /\ q * e <= x /\ x < (q + 1) * e
  <2>1. x \div e \in Int /\ (x \div e) * e <= x /\ x < (x \div e + 1) * e
    OBVIOUS
  <2> QED BY <2>1
<1>2. a < q + 1
  <2> SUFFICES ASSUME q + 1 <= a PROVE FALSE
    BY <1>1
  <2>1. (q + 1) * e <= a * e
    BY <1>1
  <2> QED BY <1>1, <2>1
<1>3. q < b + 1
  <2> SUFFICES ASSUME b + 1 <= q PROVE FALSE
    BY <1>1
  <2>1. (b + 1) * e <= q * e
    BY <1>1
  <2> QED BY <1>1, <2>1
<1> QED BY <1>1, <1>2, <1>3

\* The sum of a multiple is the multiple of the sum.
THEOREM SumScaled ==
  ASSUME NEW D, IsFiniteSet(D), NEW w \in [D -> Int], NEW c \in Int
  PROVE  SumFunctionOnSet([x \in D |-> c * w[x]], D) = c * SumFunctionOnSet(w, D)
<1> DEFINE v == [x \in D |-> c * w[x]]
           F == {s \in SUBSET D : SumFunctionOnSet(v, s) = c * SumFunctionOnSet(w, s)}
<1>1. v \in [D -> Int]
  OBVIOUS
<1>2. {} \in F
  <2>1. SumFunctionOnSet(v, {}) = 0 /\ SumFunctionOnSet(w, {}) = 0
    BY <1>1, SumEmpty
  <2> QED BY <2>1
<1>3. ASSUME NEW s \in SUBSET D, NEW x \in D \ s, s \in F PROVE s \cup {x} \in F
  <2>1. IsFiniteSet(s) /\ s \subseteq D /\ x \in D \ s
    BY FS_Subset
  <2>2. v[x] = c * w[x] /\ w[x] \in Int /\ SumFunctionOnSet(v, s) = c * SumFunctionOnSet(w, s)
    BY <1>3
  <2> HIDE DEF v
  <2>3. /\ SumFunctionOnSet(v, s \cup {x}) = SumFunctionOnSet(v, s) + v[x]
        /\ SumFunctionOnSet(w, s \cup {x}) = SumFunctionOnSet(w, s) + w[x]
        /\ SumFunctionOnSet(w, s) \in Int
    BY <1>1, <2>1, SumAdded, SumType
  <2>4. SumFunctionOnSet(v, s \cup {x}) = c * SumFunctionOnSet(w, s \cup {x})
    <3>1. \A m, n \in Int : c * (m + n) = c * m + c * n
      OBVIOUS
    <3> QED BY <2>2, <2>3, <3>1
  <2> QED BY <2>4
<1>4. D \in F
  <2> HIDE DEF F
  <2> QED BY <1>2, <1>3, SubsetInduction
<1> QED BY <1>4

\* A sum lies between as many of the least and of the greatest value.
THEOREM SumBetween ==
  ASSUME NEW D, IsFiniteSet(D), NEW w \in [D -> Int], NEW a \in Int, NEW b \in Int,
         \A x \in D : a <= w[x] /\ w[x] <= b
  PROVE  /\ SumFunctionOnSet(w, D) \in Int /\ Cardinality(D) \in Nat
         /\ a * Cardinality(D) <= SumFunctionOnSet(w, D)
         /\ SumFunctionOnSet(w, D) <= b * Cardinality(D)
<1> DEFINE Lies(s) == /\ a * Cardinality(s) <= SumFunctionOnSet(w, s)
                      /\ SumFunctionOnSet(w, s) <= b * Cardinality(s)
           F == {s \in SUBSET D : Lies(s)}
<1>1. {} \in F
  <2>1. SumFunctionOnSet(w, {}) = 0 /\ Cardinality({}) = 0
    BY SumEmpty, FS_EmptySet
  <2> QED BY <2>1
<1>2. ASSUME NEW s \in SUBSET D, NEW x \in D \ s, s \in F PROVE s \cup {x} \in F
  <2>1. IsFiniteSet(s) /\ s \subseteq D /\ x \in D \ s /\ Cardinality(s) \in Nat
    BY FS_Subset, FS_CardinalityType
  <2>2. /\ SumFunctionOnSet(w, s \cup {x}) = SumFunctionOnSet(w, s) + w[x]
        /\ SumFunctionOnSet(w, s) \in Int
    BY <2>1, SumAdded, SumType
  <2>3. Cardinality(s \cup {x}) = Cardinality(s) + 1
    BY <2>1, FS_AddElement
  <2>4. Lies(s) /\ w[x] \in Int /\ a <= w[x] /\ w[x] <= b
    BY <1>2
  <2>5. \A m \in Int : m * (Cardinality(s) + 1) = m * Cardinality(s) + m
    BY <2>1
  <2>6. Lies(s \cup {x})
    <3>1. \A m \in Int : m * Cardinality(s) \in Int
      BY <2>1
    <3> QED BY <2>2, <2>3, <2>4, <2>5, <3>1
  <2> QED BY <2>6
<1>3. D \in F
  <2> HIDE DEF F
  <2> QED BY <1>1, <1>2, SubsetInduction
<1> QED BY <1>3, SumType, FS_CardinalityType

\* What is paired with one another one to one has the same sum.
THEOREM SumPermuted ==
  ASSUME NEW D, IsFiniteSet(D), NEW w \in [D -> Int], NEW p \in [D -> D],
         \A x, y \in D : p[x] = p[y] => x = y
  PROVE  SumFunctionOnSet([x \in D |-> w[p[x]]], D) = SumFunctionOnSet(w, D)
<1> DEFINE v == [x \in D |-> w[p[x]]]
           Image(s) == {p[x] : x \in s}
           F == {s \in SUBSET D : SumFunctionOnSet(v, s) = SumFunctionOnSet(w, Image(s))}
<1>1. v \in [D -> Int]
  OBVIOUS
<1>2. {} \in F
  <2>1. Image({}) = {}
    OBVIOUS
  <2> QED BY <1>1, <2>1, SumEmpty
<1>3. ASSUME NEW s \in SUBSET D, NEW x \in D \ s, s \in F PROVE s \cup {x} \in F
  <2>1. IsFiniteSet(s) /\ s \subseteq D /\ x \in D \ s
    BY FS_Subset
  <2>2. /\ Image(s) \subseteq D /\ p[x] \in D \ Image(s) /\ v[x] = w[p[x]]
        /\ Image(s \cup {x}) = Image(s) \cup {p[x]}
    OBVIOUS
  <2>3. IsFiniteSet(Image(s)) /\ SumFunctionOnSet(v, s) = SumFunctionOnSet(w, Image(s))
    BY <1>3, <2>2, FS_Subset
  <2> HIDE DEF v, Image
  <2>4. /\ SumFunctionOnSet(v, s \cup {x}) = SumFunctionOnSet(v, s) + v[x]
        /\ SumFunctionOnSet(w, Image(s) \cup {p[x]}) = SumFunctionOnSet(w, Image(s)) + w[p[x]]
    BY <1>1, <2>1, <2>2, <2>3, SumAdded
  <2> QED BY <2>2, <2>3, <2>4
<1>4. D \in F
  <2> HIDE DEF F
  <2> QED BY <1>2, <1>3, SubsetInduction
<1>5. Image(D) = D
  <2>1. p \in Injection(D, D)
    BY DEF Injection, IsInjective
  <2>2. p \in Surjection(D, D)
    BY <2>1, FS_Injection
  <2> QED BY <2>2 DEF Surjection
<1> QED BY <1>4, <1>5

\* How many of D come before x in the order L
Preceding(L, D, x) == {y \in D : <<y, x>> \in L}
Rank(L, D, x) == Cardinality(Preceding(L, D, x))

IsLinear(L, D) ==
  /\ \A x \in D : <<x, x>> \notin L
  /\ \A x, y, z \in D : <<x, y>> \in L /\ <<y, z>> \in L => <<x, z>> \in L
  /\ \A x, y \in D : x = y \/ <<x, y>> \in L \/ <<y, x>> \in L

\* In a linear order of a finite set each rank is some element's, and those that
\* come later have the higher ranks.
THEOREM RanksAreAll ==
  ASSUME NEW D, IsFiniteSet(D), NEW L, IsLinear(L, D)
  PROVE  /\ \A x \in D : Rank(L, D, x) \in 0 .. Cardinality(D) - 1
         /\ \A x, y \in D : <<x, y>> \in L => Rank(L, D, x) < Rank(L, D, y)
         /\ \A n \in 0 .. Cardinality(D) - 1 : \E x \in D : Rank(L, D, x) = n
<1>1. ASSUME NEW x \in D
      PROVE  /\ IsFiniteSet(Preceding(L, D, x)) /\ Rank(L, D, x) \in Nat
             /\ IsFiniteSet(Preceding(L, D, x) \cup {x})
             /\ Cardinality(Preceding(L, D, x) \cup {x}) = Rank(L, D, x) + 1
  <2>1. Preceding(L, D, x) \in SUBSET D /\ x \notin Preceding(L, D, x)
    BY DEF Preceding, IsLinear
  <2>2. IsFiniteSet(Preceding(L, D, x))
    BY <2>1, FS_Subset
  <2> QED BY <2>1, <2>2, FS_CardinalityType, FS_AddElement DEF Rank
<1>2. Cardinality(D) \in Nat
  BY FS_CardinalityType
<1>3. ASSUME NEW x \in D, NEW S \in SUBSET D, Preceding(L, D, x) \cup {x} \subseteq S
      PROVE  Rank(L, D, x) + 1 <= Cardinality(S)
  <2>1. IsFiniteSet(S)
    BY FS_Subset
  <2>2. Cardinality(Preceding(L, D, x) \cup {x}) <= Cardinality(S)
    BY <1>3, <2>1, FS_Subset
  <2> QED BY <1>1, <2>2
<1>4. ASSUME NEW x \in D PROVE Rank(L, D, x) \in 0 .. Cardinality(D) - 1
  <2>1. Preceding(L, D, x) \cup {x} \subseteq D /\ D \in SUBSET D
    BY DEF Preceding
  <2>2. Rank(L, D, x) + 1 <= Cardinality(D)
    BY <1>3, <2>1
  <2>3. Rank(L, D, x) \in Nat
    BY <1>1
  <2> QED BY <1>2, <2>2, <2>3
<1>5. ASSUME NEW x \in D, NEW y \in D, <<x, y>> \in L PROVE Rank(L, D, x) < Rank(L, D, y)
  <2>1. Preceding(L, D, x) \cup {x} \subseteq Preceding(L, D, y) /\ Preceding(L, D, y) \in SUBSET D
    BY <1>5 DEF Preceding, IsLinear
  <2>2. Rank(L, D, x) + 1 <= Rank(L, D, y)
    BY <1>3, <2>1 DEF Rank
  <2>3. Rank(L, D, x) \in Nat /\ Rank(L, D, y) \in Nat
    BY <1>1
  <2> QED BY <2>2, <2>3
<1> DEFINE T == 0 .. Cardinality(D) - 1
           r == [x \in D |-> Rank(L, D, x)]
<1>6. IsFiniteSet(T) /\ Cardinality(T) = Cardinality(D)
  BY <1>2, FS_Interval
<1>7. r \in Injection(D, T)
  <2>1. r \in [D -> T]
    BY <1>4
  <2>2. ASSUME NEW x \in D, NEW y \in D, r[x] = r[y] PROVE x = y
    <3>1. ~(<<x, y>> \in L) /\ ~(<<y, x>> \in L)
      <4>1. Rank(L, D, x) \in Nat /\ Rank(L, D, x) = Rank(L, D, y)
        BY <1>1, <2>2
      <4>2. ~(Rank(L, D, x) < Rank(L, D, y)) /\ ~(Rank(L, D, y) < Rank(L, D, x))
        BY <4>1
      <4> QED BY <1>5, <4>2
    <3> QED BY <3>1 DEF IsLinear
  <2> HIDE DEF r
  <2> QED BY <2>1, <2>2 DEF Injection, IsInjective
<1>8. r \in Surjection(D, T)
  BY <1>6, <1>7, FS_Injection
<1>9. \A n \in T : \E x \in D : r[x] = n
  BY <1>8 DEF Surjection
<1> QED BY <1>4, <1>5, <1>9

SquaresOf(w, D) == [x \in D |-> w[x] * w[x]]

\* The square of a sum is at most as many times the sum of the squares.
THEOREM SumSquared ==
  ASSUME NEW D, IsFiniteSet(D), NEW w \in [D -> Int]
  PROVE  /\ SumFunctionOnSet(SquaresOf(w, D), D) \in Int
         /\ SumFunctionOnSet(w, D) * SumFunctionOnSet(w, D)
              <= Cardinality(D) * SumFunctionOnSet(SquaresOf(w, D), D)
<1> DEFINE n(s) == Cardinality(s)
           q(s) == SumFunctionOnSet(SquaresOf(w, D), s)
           t(s) == SumFunctionOnSet(w, s)
           Apart(s) == \A a \in Int : 2 * (a * t(s)) <= q(s) + n(s) * (a * a)
           Dominates(s) == t(s) * t(s) <= n(s) * q(s)
           F == {s \in SUBSET D : Apart(s) /\ Dominates(s)}
<1>1. SquaresOf(w, D) \in [D -> Int]
  BY DEF SquaresOf
<1>2. ASSUME NEW s \in SUBSET D
      PROVE  IsFiniteSet(s) /\ n(s) \in Nat /\ q(s) \in Int /\ t(s) \in Int
  BY <1>1, FS_Subset, FS_CardinalityType, SumType
<1>3. {} \in F
  <2>1. n({}) = 0 /\ q({}) = 0 /\ t({}) = 0
    BY <1>1, SumEmpty, FS_EmptySet
  <2> QED BY <2>1
<1>4. ASSUME NEW s \in SUBSET D, NEW x \in D \ s, s \in F PROVE s \cup {x} \in F
  <2>1. IsFiniteSet(s) /\ s \subseteq D /\ x \in D \ s /\ SquaresOf(w, D)[x] = w[x] * w[x]
    BY <1>2 DEF SquaresOf
  <2>2. /\ q(s \cup {x}) = q(s) + SquaresOf(w, D)[x]
        /\ t(s \cup {x}) = t(s) + w[x]
        /\ n(s \cup {x}) = n(s) + 1
    BY <1>1, <2>1, SumAdded, FS_AddElement
  <2>3. Apart(s) /\ Dominates(s)
    BY <1>4
  <2>4. PICK m \in Nat, b \in Int, c \in Int, y \in Int :
          m = n(s) /\ b = q(s) /\ c = t(s) /\ y = w[x]
    BY <1>2
  <2>5. /\ \A a \in Int : 2 * (a * c) <= b + m * (a * a)
        /\ c * c <= m * b
    BY <2>3, <2>4
  <2>6. q(s \cup {x}) = b + y * y /\ t(s \cup {x}) = c + y /\ n(s \cup {x}) = m + 1
    BY <2>1, <2>2, <2>4
  <2> HIDE DEF n, q, t
  <2>7. Apart(s \cup {x})
    <3> SUFFICES ASSUME NEW a \in Int
                 PROVE  2 * (a * (c + y)) <= b + y * y + (m + 1) * (a * a)
      BY <2>6
    <3>1. 2 * (a * y) <= a * a + y * y
      <4>1. 0 <= (a - y) * (a - y)
        OBVIOUS
      <4> QED BY <4>1
    <3>2. 2 * (a * c) <= b + m * (a * a)
      BY <2>5
    <3>3. a * (c + y) = a * c + a * y /\ (m + 1) * (a * a) = m * (a * a) + a * a
      OBVIOUS
    <3> QED BY <3>1, <3>2, <3>3
  <2>8. Dominates(s \cup {x})
    <3>1. 2 * (y * c) <= b + m * (y * y)
      BY <2>5
    <3>2. (c + y) * (c + y) = c * c + 2 * (y * c) + y * y
      OBVIOUS
    <3>3. (m + 1) * (b + y * y) = m * b + b + m * (y * y) + y * y
      OBVIOUS
    <3> QED BY <2>5, <2>6, <3>1, <3>2, <3>3
  <2> QED BY <2>7, <2>8
<1>5. D \in F
  <2> HIDE DEF F
  <2> QED BY <1>3, <1>4, SubsetInduction
<1>6. Dominates(D) /\ q(D) \in Int
  BY <1>2, <1>5
<1> QED BY <1>6

\* The greater and the lesser of two
LEMMA MaxOfTwo ==
  ASSUME NEW a \in Int, NEW b \in Int
  PROVE  Max({a, b}) = IF a >= b THEN a ELSE b
<1>1. PICK m \in {a, b} : m = (IF a >= b THEN a ELSE b) /\ \A x \in {a, b} : x <= m
  OBVIOUS
<1>2. Max({a, b}) \in {a, b} /\ \A x \in {a, b} : Max({a, b}) >= x
  <2>1. \E y \in {a, b} : \A x \in {a, b} : y >= x
    BY <1>1
  <2> QED BY <2>1 DEF Max
<1> QED BY <1>1, <1>2

LEMMA MinOfTwo ==
  ASSUME NEW a \in Int, NEW b \in Int
  PROVE  Min({a, b}) = IF a <= b THEN a ELSE b
<1>1. PICK m \in {a, b} : m = (IF a <= b THEN a ELSE b) /\ \A x \in {a, b} : m <= x
  OBVIOUS
<1>2. {a, b} \in SUBSET Int
  OBVIOUS
<1> QED BY <1>1, <1>2, MinIs

\* A finite set of integers has a least and a greatest element.
THEOREM MinMaxOfFinite ==
  ASSUME NEW S \in SUBSET Int, IsFiniteSet(S), S # {}
  PROVE  /\ Min(S) \in S /\ \A x \in S : Min(S) <= x
         /\ Max(S) \in S /\ \A x \in S : x <= Max(S)
<1> DEFINE Ends(s) == /\ \E a \in s : \A x \in s : a <= x
                      /\ \E b \in s : \A x \in s : x <= b
           F == {s \in SUBSET S : s = {} \/ Ends(s)}
<1>1. {} \in F
  OBVIOUS
<1>2. ASSUME NEW s \in SUBSET S, NEW y \in S \ s, s \in F PROVE s \cup {y} \in F
  <2>1. CASE s = {}
    <3>1. s \cup {y} = {y} /\ y <= y
      BY <2>1
    <3>2. Ends({y})
      BY <3>1
    <3> QED BY <3>1, <3>2
  <2>2. CASE s # {}
    <3>1. PICK a \in s, b \in s : \A x \in s : a <= x /\ x <= b
      BY <1>2, <2>2
    <3>2. \E c \in s \cup {y} : \A x \in s \cup {y} : c <= x
      <4>1. CASE a <= y
        BY <3>1, <4>1
      <4>2. CASE y <= a
        <5>1. \A x \in s \cup {y} : y <= x
          BY <3>1, <4>2
        <5> QED BY <5>1
      <4> QED BY <4>1, <4>2
    <3>3. \E c \in s \cup {y} : \A x \in s \cup {y} : x <= c
      <4>1. CASE y <= b
        BY <3>1, <4>1
      <4>2. CASE b <= y
        <5>1. \A x \in s \cup {y} : x <= y
          BY <3>1, <4>2
        <5> QED BY <5>1
      <4> QED BY <4>1, <4>2
    <3> QED BY <3>2, <3>3
  <2> QED BY <2>1, <2>2
<1>3. S \in F
  <2> HIDE DEF F
  <2> QED BY <1>1, <1>2, SubsetInduction
<1>4. Ends(S)
  BY <1>3
<1>5. PICK a \in S : \A x \in S : a <= x
  BY <1>4
<1>6. Min(S) = a
  BY <1>5, MinIs
<1>7. Max(S) \in S /\ \A x \in S : Max(S) >= x
  <2>1. \E b \in S : \A x \in S : b >= x
    BY <1>4
  <2> QED BY <2>1 DEF Max
<1> QED BY <1>5, <1>6, <1>7

\* Values on a finite set lie between two numbers.
LEMMA FiniteBounds ==
  ASSUME NEW D, IsFiniteSet(D), NEW f \in [D -> Int]
  PROVE  \E a \in Int, b \in Int : \A x \in D : a <= f[x] /\ f[x] <= b
<1> DEFINE V == {f[x] : x \in D}
<1>1. CASE D = {}
  BY <1>1
<1>2. CASE D # {}
  <2>1. f \in Surjection(D, V)
    BY DEF Surjection
  <2>2. IsFiniteSet(V) /\ V \in SUBSET Int /\ V # {}
    BY <1>2, <2>1, FS_Surjection
  <2> HIDE DEF V
  <2>3. Min(V) \in Int /\ Max(V) \in Int /\ \A v \in V : Min(V) <= v /\ v <= Max(V)
    BY <2>2, MinMaxOfFinite
  <2> QED BY <2>3 DEF V
<1> QED BY <1>1, <1>2
=============================================================================
