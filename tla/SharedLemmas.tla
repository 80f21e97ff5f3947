----------------------------- MODULE SharedLemmas -----------------------------
(***************************************************************************)
(* Facts more than one of the proof modules needs: about chains of pages,  *)
(* for any links (where a walk gets to, that one which ends meets no page  *)
(* twice, what linking a page does), and about sums over a finite set.     *)
(***************************************************************************)
EXTENDS PageChain, Functions, FiniteSetTheorems, WellFoundedInduction, TLAPS

-----------------------------------------------------------------------------
(* One walk.                                                               *)

\* A walk starts with its first page, follows the links and visits nothing else.
LEMMA VisitedFacts ==
    ASSUME NEW links, NEW p
    PROVE  /\ Visited(links, p) \subseteq DOMAIN links
           /\ p \in DOMAIN links => p \in Visited(links, p)
           /\ p \notin DOMAIN links => Visited(links, p) = {}
           /\ Closed(links, Visited(links, p))
  <1> DEFINE walks == {S \in SUBSET DOMAIN links : /\ p \in DOMAIN links => p \in S
                                                   /\ Closed(links, S)}
  <1>1. Visited(links, p) = {q \in DOMAIN links : \A S \in walks : q \in S}
    BY DEF Visited
  <1>2. ASSUME p \notin DOMAIN links PROVE Visited(links, p) = {}
    <2>1. {} \in walks
      BY <1>2 DEF Closed
    <2>2. QED
      BY <1>1, <2>1
  <1>3. ASSUME NEW q \in Visited(links, p), links[q] \in DOMAIN links
        PROVE  links[q] \in Visited(links, p)
    <2>1. \A S \in walks : links[q] \in S
      BY <1>1, <1>3 DEF Closed
    <2>2. QED
      BY <1>1, <1>3, <2>1
  <1>4. QED
    BY <1>1, <1>2, <1>3 DEF Closed

\* The walk stays inside every set that its links do not leave.
LEMMA VisitedLeast ==
    ASSUME NEW links, NEW p, NEW S, p \in DOMAIN links => p \in S,
           \A q \in S : q \in DOMAIN links /\ links[q] \in DOMAIN links => links[q] \in S
    PROVE  Visited(links, p) \subseteq S
  <1> DEFINE T == S \cap DOMAIN links
  <1>1. /\ T \in SUBSET DOMAIN links /\ Closed(links, T)
        /\ p \in DOMAIN links => p \in T
    BY DEF Closed
  <1>2. Visited(links, p) \subseteq T
    BY <1>1 DEF Visited
  <1>3. QED
    BY <1>2

\* A walk is its first page and the walk from the next one.
LEMMA VisitedStep ==
    ASSUME NEW links, NEW p \in DOMAIN links
    PROVE  Visited(links, p) = {p} \cup Visited(links, links[p])
  <1>1. Visited(links, p) \subseteq {p} \cup Visited(links, links[p])
    <2> DEFINE S == {p} \cup Visited(links, links[p])
    <2>1. \A q \in S : links[q] \in DOMAIN links => links[q] \in S
      BY VisitedFacts DEF Closed
    <2>2. QED
      BY <2>1, VisitedLeast
  <1>2. Visited(links, links[p]) \subseteq Visited(links, p)
    <2>1. \A q \in Visited(links, p) : links[q] \in DOMAIN links => links[q] \in Visited(links, p)
      BY VisitedFacts DEF Closed
    <2>2. links[p] \in DOMAIN links => links[p] \in Visited(links, p)
      BY <2>1, VisitedFacts
    <2>3. QED
      BY <2>1, <2>2, VisitedLeast
  <1>3. QED
    BY <1>1, <1>2, VisitedFacts

\* The rest of a walk is part of it.
LEMMA VisitedRest ==
    ASSUME NEW links, NEW p, NEW q \in Visited(links, p)
    PROVE  Visited(links, q) \subseteq Visited(links, p)
  <1>1. \A r \in Visited(links, p) : links[r] \in DOMAIN links => links[r] \in Visited(links, p)
    BY VisitedFacts DEF Closed
  <1>2. QED
    BY <1>1, VisitedLeast

\* Of two pages on a walk one comes after the other.
LEMMA VisitedLinear ==
    ASSUME NEW links, NEW p, NEW q \in Visited(links, p), NEW r \in Visited(links, p)
    PROVE  q \in Visited(links, r) \/ r \in Visited(links, q)
  <1> DEFINE S == {s \in DOMAIN links : s \in Visited(links, q) \/ q \in Visited(links, s)}
  <1>1. p \in DOMAIN links => p \in S
    OBVIOUS
  <1>2. ASSUME NEW s \in S, links[s] \in DOMAIN links
        PROVE  links[s] \in S
    <2>1. CASE s \in Visited(links, q)
      BY <1>2, <2>1, VisitedFacts DEF Closed
    <2>2. CASE q \in Visited(links, s)
      <3>1. q = s \/ q \in Visited(links, links[s])
        BY <1>2, <2>2, VisitedStep
      <3>2. q = s => links[s] \in Visited(links, q)
        BY <1>2, VisitedFacts DEF Closed
      <3>3. QED
        BY <1>2, <3>1, <3>2
    <2>3. QED
      BY <1>2, <2>1, <2>2
  <1>3. Visited(links, p) \subseteq S
    BY <1>1, <1>2, VisitedLeast
  <1>4. QED
    BY <1>3

\* "Cycle detected" is not reported on a walk that ends: no page is met again.
LEMMA NoReturn ==
    ASSUME NEW links, NEW p, Ends(links, p), NEW q \in Visited(links, p)
    PROVE  q \notin Visited(links, links[q])
  <1>1. SUFFICES ASSUME q \in Visited(links, links[q]) PROVE FALSE
    OBVIOUS
  <1>2. p \in DOMAIN links /\ q \in DOMAIN links /\ links[q] \in DOMAIN links
    BY <1>1, VisitedFacts
  <1>3. PICK t \in Visited(links, p) : links[t] \notin DOMAIN links
    BY <1>2 DEF Ends
  <1>4. t \in DOMAIN links /\ Visited(links, t) = {t}
    BY <1>3, VisitedFacts, VisitedStep
  <1>5. t \in Visited(links, q)
    BY <1>2, <1>3, <1>4, VisitedLinear, VisitedFacts
  <1> DEFINE S == {s \in DOMAIN links : q \in Visited(links, s)}
  <1>6. ASSUME NEW s \in S, links[s] \in DOMAIN links PROVE links[s] \in S
    BY <1>1, <1>6, VisitedStep
  <1>7. Visited(links, q) \subseteq S
    <2>1. q \in S
      BY <1>2, VisitedFacts
    <2>2. QED
      BY <1>6, <2>1, VisitedLeast
  <1>8. QED
    BY <1>2, <1>3, <1>4, <1>5, <1>7

\* A walk has one last page, and every page of the walk leads to it.
LEMMA LastPage ==
    ASSUME NEW links, NEW p, NEW t \in Visited(links, p), links[t] \notin DOMAIN links,
           NEW q \in Visited(links, p)
    PROVE  t \in Visited(links, q) /\ (links[q] \notin DOMAIN links => q = t)
  <1>1. t \in DOMAIN links /\ Visited(links, t) = {t}
    BY VisitedFacts, VisitedStep
  <1>2. t \in Visited(links, q)
    BY <1>1, VisitedLinear, VisitedFacts
  <1>3. ASSUME links[q] \notin DOMAIN links PROVE Visited(links, q) = {q}
    BY <1>3, VisitedFacts, VisitedStep
  <1>4. QED
    BY <1>2, <1>3

\* The rest of a walk that ends also ends.
LEMMA RestEnds ==
    ASSUME NEW links, NEW p \in DOMAIN links, Ends(links, p)
    PROVE  Ends(links, links[p])
  BY VisitedStep DEF Ends

-----------------------------------------------------------------------------
(* Two sets of links.                                                      *)

\* A walk depends on the links of its own pages only.
LEMMA SameWalk ==
    ASSUME NEW links, NEW changed, DOMAIN changed = DOMAIN links, NEW p,
           \A q \in Visited(links, p) : changed[q] = links[q]
    PROVE  Visited(changed, p) = Visited(links, p) /\ (Ends(changed, p) <=> Ends(links, p))
  <1>1. Visited(changed, p) \subseteq Visited(links, p)
    <2>1. \A q \in Visited(links, p) : changed[q] \in DOMAIN changed
                                          => changed[q] \in Visited(links, p)
      BY VisitedFacts DEF Closed
    <2>2. QED
      BY <2>1, VisitedFacts, VisitedLeast
  <1>2. Visited(links, p) \subseteq Visited(changed, p)
    <2>1. \A q \in Visited(changed, p) : links[q] \in DOMAIN links
                                            => links[q] \in Visited(changed, p)
      BY <1>1, VisitedFacts DEF Closed
    <2>2. QED
      BY <2>1, VisitedFacts, VisitedLeast
  <1>3. QED
    BY <1>1, <1>2 DEF Ends

\* Linking a page behind the last one adds that page to the walk.
LEMMA Appended ==
    ASSUME NEW links, NEW changed, DOMAIN changed = DOMAIN links, NEW p,
           NEW t \in Visited(links, p), links[t] \notin DOMAIN links,
           NEW n \in DOMAIN links, n \notin Visited(links, p),
           changed[t] = n, changed[n] \notin DOMAIN links,
           \A q \in Visited(links, p) \ {t} : changed[q] = links[q]
    PROVE  Visited(changed, p) = Visited(links, p) \cup {n} /\ Ends(changed, p)
  <1> DEFINE W == Visited(links, p)
  <1>1. p \in DOMAIN links /\ p \in W /\ W \subseteq DOMAIN links
    BY VisitedFacts
  <1>2. Visited(changed, p) \subseteq W \cup {n}
    <2>1. \A q \in W \cup {n} : changed[q] \in DOMAIN changed => changed[q] \in W \cup {n}
      BY <1>1, VisitedFacts DEF Closed
    <2>2. QED
      BY <1>1, <2>1, VisitedLeast
  <1>3. W \subseteq Visited(changed, p)
    <2> DEFINE S == W \cap Visited(changed, p)
    <2>1. \A q \in S : links[q] \in DOMAIN links => links[q] \in S
      BY <1>1, VisitedFacts DEF Closed
    <2>2. p \in S
      BY <1>1, VisitedFacts
    <2>3. Visited(links, p) \subseteq S
      <3> HIDE DEF S
      <3> QED
        BY <2>1, <2>2, VisitedLeast
    <2>4. QED
      BY <2>3
  <1>4. n \in Visited(changed, p)
    BY <1>1, <1>3, VisitedFacts DEF Closed
  <1>5. QED
    BY <1>2, <1>3, <1>4 DEF Ends

-----------------------------------------------------------------------------
(* Least elements.                                                         *)

\* A set of natural numbers has a least element.
LEMMA LeastNatural ==
    ASSUME NEW T, T \subseteq Nat, T # {}
    PROVE  \E x \in T : \A y \in T : x <= y
  <1> DEFINE R == OpToRel(<, Nat)
  <1>1. IsWellFoundedOn(R, Nat)
    BY NatLessThanWellFounded
  <1>2. \A x, y \in Nat : <<y, x>> \in R <=> y < x
    BY DEF OpToRel
  <1> HIDE DEF R
  <1>3. PICK x \in T : \A y \in T : ~ (<<y, x>> \in R)
    BY <1>1, WFMin
  <1>4. ASSUME NEW y \in T PROVE x <= y
    <2>1. x \in Nat /\ y \in Nat
      OBVIOUS
    <2>2. ~ (y < x)
      BY <1>2, <1>3, <2>1
    <2>3. QED
      BY <2>1, <2>2
  <1>5. QED
    BY <1>4

\* Among some subsets of a finite set there is one of which no proper subset is one of
\* them: the least counterexample of the lemmas on sums.
LEMMA SmallestSet ==
    ASSUME NEW S, IsFiniteSet(S), NEW Bad, Bad \subseteq SUBSET S, Bad # {}
    PROVE  \E s \in Bad : \A u \in Bad : u \subseteq s => u = s
  <1> DEFINE Sizes == {Cardinality(s) : s \in Bad}
  <1>1. \A s \in SUBSET S : IsFiniteSet(s) /\ Cardinality(s) \in Nat
    BY FS_Subset, FS_CardinalityType
  <1>2. Sizes \subseteq Nat /\ Sizes # {}
    BY <1>1
  <1>3. PICK n \in Sizes : \A m \in Sizes : n <= m
    BY <1>2, LeastNatural
  <1>4. PICK s \in Bad : n = Cardinality(s)
    OBVIOUS
  <1>5. ASSUME NEW u \in Bad, u \subseteq s PROVE u = s
    <2>1. /\ IsFiniteSet(s) /\ Cardinality(s) \in Nat /\ Cardinality(u) \in Nat
          /\ Cardinality(u) \in Sizes
      BY <1>1
    <2>2. Cardinality(u) <= Cardinality(s) /\ (Cardinality(s) = Cardinality(u) => s = u)
      BY <1>5, <2>1, FS_Subset
    <2> HIDE DEF Sizes
    <2>3. QED
      BY <1>3, <1>4, <2>1, <2>2
  <1>6. QED
    BY <1>5

-----------------------------------------------------------------------------
(* Sums over finite sets.  Summation(f, S, g) says that g gives the sum of *)
(* every subset of S, in the order in which the fold takes the elements.   *)
AnyOf(S) == CHOOSE x \in S : TRUE
Summation(f, S, g) ==
    g = [s \in SUBSET S |-> IF s = {} THEN 0 ELSE f[AnyOf(s)] + g[s \ {AnyOf(s)}]]

\* Two summations agree on the sets both cover.
LEMMA SummationUnique ==
    ASSUME NEW f, NEW S, NEW T, NEW g, NEW h, IsFiniteSet(S),
           Summation(f, S, g), Summation(f, T, h)
    PROVE  \A s \in (SUBSET S) \cap (SUBSET T) : g[s] = h[s]
  <1> DEFINE Bad == {s \in (SUBSET S) \cap (SUBSET T) : g[s] # h[s]}
  <1>1. SUFFICES ASSUME Bad # {} PROVE FALSE
    OBVIOUS
  <1>2. PICK s \in Bad : \A u \in Bad : u \subseteq s => u = s
    <2>1. Bad \subseteq SUBSET S
      OBVIOUS
    <2> HIDE DEF Bad
    <2>2. QED
      BY <1>1, <2>1, SmallestSet
  <1>3. s \in SUBSET S /\ s \in SUBSET T
    OBVIOUS
  <1>4. s # {}
    BY <1>3 DEF Summation
  <1> DEFINE u == s \ {AnyOf(s)}
  <1>5. g[u] = h[u]
    <2>1. AnyOf(s) \in s
      BY <1>4 DEF AnyOf
    <2>2. u \subseteq s /\ u # s /\ u \in (SUBSET S) \cap (SUBSET T)
      BY <1>3, <2>1
    <2>3. QED
      BY <1>2, <2>2
  <1>6. g[s] = f[AnyOf(s)] + g[u]
    BY <1>3, <1>4 DEF Summation
  <1>7. h[s] = f[AnyOf(s)] + h[u]
    BY <1>3, <1>4 DEF Summation
  <1>8. QED
    BY <1>5, <1>6, <1>7

\* Every finite set has a summation.
LEMMA SummationExists ==
    ASSUME NEW f, NEW S, IsFiniteSet(S)
    PROVE  \E g : Summation(f, S, g)
  <1> DEFINE Bad == {s \in SUBSET S : ~ \E g : Summation(f, s, g)}
  <1>1. SUFFICES ASSUME Bad # {} PROVE FALSE
    OBVIOUS
  <1>2. \A s \in SUBSET S : IsFiniteSet(s)
    BY FS_Subset
  <1>5. PICK T \in Bad : \A u \in Bad : u \subseteq T => u = T
    <2>1. Bad \subseteq SUBSET S
      OBVIOUS
    <2> HIDE DEF Bad
    <2>2. QED
      BY <1>1, <2>1, SmallestSet
  <1> DEFINE G(t) == CHOOSE g : Summation(f, t, g)
             h == [s \in SUBSET T |-> IF s = {} THEN 0
                                      ELSE f[AnyOf(s)] + G(s \ {AnyOf(s)})[s \ {AnyOf(s)}]]
  <1>6. ASSUME NEW s \in SUBSET T, s # {}
        PROVE  /\ AnyOf(s) \in s
               /\ Summation(f, s \ {AnyOf(s)}, G(s \ {AnyOf(s)}))
    <2>1. AnyOf(s) \in s
      BY <1>6 DEF AnyOf
    <2> DEFINE u == s \ {AnyOf(s)}
    <2>2. s \in SUBSET S /\ u \in SUBSET S
      OBVIOUS
    <2>3. u \subseteq T /\ u # T
      BY <2>1
    <2>4. u \notin Bad
      BY <1>5, <2>3
    <2>5. \E g : Summation(f, u, g)
      BY <2>2, <2>4
    <2>6. QED
      BY <2>1, <2>5
  <1>7. ASSUME NEW s \in SUBSET T, s # {}
        PROVE  G(s \ {AnyOf(s)})[s \ {AnyOf(s)}] = h[s \ {AnyOf(s)}]
    <2> DEFINE u == s \ {AnyOf(s)}
    <2>1. Summation(f, u, G(u)) /\ u \in SUBSET T
      BY <1>6, <1>7
    <2>2. CASE u = {}
      <3>1. G(u)[u] = 0 
        BY <2>1, <2>2 DEF Summation
      <3>2. h[u] = 0
        BY <2>2
      <3>3. QED
        BY <3>1, <3>2
    <2>3. CASE u # {}
      <3> DEFINE v == u \ {AnyOf(u)}
      <3>1. Summation(f, v, G(v)) /\ AnyOf(u) \in u
        BY <1>6, <2>1, <2>3
      <3>2. G(u)[u] = f[AnyOf(u)] + G(u)[v]
        BY <2>1, <2>3 DEF Summation
      <3>3. G(u)[v] = G(v)[v]
        <4>1. IsFiniteSet(u)
          BY <1>2, <2>1
        <4>2. v \in (SUBSET u) \cap (SUBSET v)
          OBVIOUS
        <4> HIDE DEF G, u, v
        <4>3. QED
          BY <2>1, <3>1, <4>1, <4>2, SummationUnique
      <3>4. h[u] = f[AnyOf(u)] + G(v)[v]
        BY <2>1, <2>3
      <3>5. QED
        BY <3>2, <3>3, <3>4
    <2>4. QED
      BY <2>2, <2>3
  <1>8. Summation(f, T, h)
    <2>1. \A s \in SUBSET T : s # {} => h[s] = f[AnyOf(s)] + h[s \ {AnyOf(s)}]
      BY <1>7
    <2>5. \A s \in SUBSET T : s = {} => h[s] = 0
      OBVIOUS
    <2>6. h = [s \in SUBSET T |-> h[s]]
      OBVIOUS
    <2> HIDE DEF h
    <2>2. \A s \in SUBSET T : h[s] = IF s = {} THEN 0 ELSE f[AnyOf(s)] + h[s \ {AnyOf(s)}]
      BY <2>1, <2>5
    <2>4. QED
      BY <2>2, <2>6 DEF Summation
  <1>9. QED
    BY <1>5, <1>8

\* The sum over a finite set is what a summation of it says.
LEMMA SumIsSummation ==
    ASSUME NEW f, NEW S, IsFiniteSet(S)
    PROVE  \E g : Summation(f, S, g) /\ \A s \in SUBSET S : SumFunctionOnSet(f, s) = g[s]
  <1>1. PICK g : Summation(f, S, g)
    BY SummationExists
  <1>2. ASSUME NEW s \in SUBSET S
        PROVE  SumFunctionOnSet(f, s) = g[s]
    <2> DEFINE h == CHOOSE h : Summation(f, s, h)
    <2>1. IsFiniteSet(s)
      BY FS_Subset
    <2>2. Summation(f, s, h)
      BY <2>1, SummationExists
    <2>3. SumFunctionOnSet(f, s) = h[s]
      BY DEF SumFunctionOnSet, FoldFunctionOnSet, MapThenFoldSet, Summation, AnyOf
    <2>4. s \in (SUBSET s) \cap (SUBSET S)
      OBVIOUS
    <2> HIDE DEF h
    <2>5. QED
      BY <1>1, <2>1, <2>2, <2>3, <2>4, SummationUnique
  <1>3. QED
    BY <1>1, <1>2

\* The sum over the empty set is 0; a sum over another set is the value of some
\* element and the sum over the others.
LEMMA SumUnfolds ==
    ASSUME NEW f, NEW S, IsFiniteSet(S)
    PROVE  /\ SumFunctionOnSet(f, {}) = 0
           /\ S # {} => /\ AnyOf(S) \in S
                        /\ SumFunctionOnSet(f, S)
                              = f[AnyOf(S)] + SumFunctionOnSet(f, S \ {AnyOf(S)})
  <1>1. PICK g : Summation(f, S, g) /\ \A s \in SUBSET S : SumFunctionOnSet(f, s) = g[s]
    BY SumIsSummation
  <1>2. g[{}] = 0
    BY <1>1 DEF Summation
  <1>3. ASSUME S # {}
        PROVE  AnyOf(S) \in S /\ g[S] = f[AnyOf(S)] + g[S \ {AnyOf(S)}]
    <2>1. AnyOf(S) \in S
      BY <1>3 DEF AnyOf
    <2>2. S \in SUBSET S
      OBVIOUS
    <2>3. QED
      BY <1>1, <1>3, <2>1, <2>2 DEF Summation
  <1>4. S \in SUBSET S /\ {} \in SUBSET S /\ S \ {AnyOf(S)} \in SUBSET S
    OBVIOUS
  <1>5. QED
    BY <1>1, <1>2, <1>3, <1>4

\* A sum of natural numbers is one.
LEMMA SumNat ==
    ASSUME NEW f, NEW S, IsFiniteSet(S), \A x \in S : f[x] \in Nat
    PROVE  SumFunctionOnSet(f, S) \in Nat
  <1> DEFINE Bad == {s \in SUBSET S : SumFunctionOnSet(f, s) \notin Nat}
  <1>1. SUFFICES ASSUME Bad # {} PROVE FALSE
    OBVIOUS
  <1>2. PICK s \in Bad : \A u \in Bad : u \subseteq s => u = s
    <2>1. Bad \subseteq SUBSET S
      OBVIOUS
    <2> HIDE DEF Bad
    <2>2. QED
      BY <1>1, <2>1, SmallestSet
  <1>3. IsFiniteSet(s) /\ s \in SUBSET S
    BY FS_Subset
  <1>4. s # {}
    <2>1. SumFunctionOnSet(f, {}) = 0
      BY <1>3, SumUnfolds
    <2>2. SumFunctionOnSet(f, s) \notin Nat
      BY <1>2
    <2>3. QED
      BY <2>1, <2>2
  <1>5. /\ AnyOf(s) \in s
        /\ SumFunctionOnSet(f, s) = f[AnyOf(s)] + SumFunctionOnSet(f, s \ {AnyOf(s)})
    BY <1>3, <1>4, SumUnfolds
  <1>6. SumFunctionOnSet(f, s \ {AnyOf(s)}) \in Nat
    <2>1. s \ {AnyOf(s)} \subseteq s /\ s \ {AnyOf(s)} # s /\ s \ {AnyOf(s)} \in SUBSET S
      BY <1>3, <1>5
    <2>2. QED
      BY <1>2, <2>1
  <1>7. f[AnyOf(s)] \in Nat
    BY <1>3, <1>5
  <1>8. SumFunctionOnSet(f, s) \in Nat
    BY <1>5, <1>6, <1>7
  <1>9. QED
    BY <1>8

\* Any element may be taken out first.
LEMMA SumTakeOut ==
    ASSUME NEW f, NEW S, IsFiniteSet(S), \A x \in S : f[x] \in Nat, NEW x \in S
    PROVE  SumFunctionOnSet(f, S) = f[x] + SumFunctionOnSet(f, S \ {x})
  <1> DEFINE Sum(s) == SumFunctionOnSet(f, s)
             Bad == {s \in SUBSET S : \E y \in s : Sum(s) # f[y] + Sum(s \ {y})}
  <1>1. SUFFICES ASSUME Bad # {} PROVE FALSE
    OBVIOUS
  <1>2. PICK s \in Bad : \A u \in Bad : u \subseteq s => u = s
    <2>1. Bad \subseteq SUBSET S
      OBVIOUS
    <2> HIDE DEF Bad
    <2>2. QED
      BY <1>1, <2>1, SmallestSet
  <1>3. \A t \in SUBSET S : IsFiniteSet(t) /\ Sum(t) \in Nat
    BY FS_Subset, SumNat
  <1>4. PICK y \in s : Sum(s) # f[y] + Sum(s \ {y})
    BY <1>2
  <1> DEFINE a == AnyOf(s)
  <1>5. s \in SUBSET S /\ a \in s /\ Sum(s) = f[a] + Sum(s \ {a})
    BY <1>2, <1>3, <1>4, SumUnfolds
  <1>6. a # y
    BY <1>4, <1>5
  <1>7. /\ s \ {a} \in SUBSET S /\ s \ {y} \in SUBSET S
        /\ s \ {a} # s /\ s \ {y} # s /\ y \in s \ {a} /\ a \in s \ {y}
        /\ (s \ {a}) \ {y} \in SUBSET S
        /\ (s \ {a}) \ {y} = (s \ {y}) \ {a}
    BY <1>5, <1>6
  <1>8. s \ {a} \notin Bad /\ s \ {y} \notin Bad
    BY <1>2, <1>7
  <1>9. /\ Sum(s \ {a}) = f[y] + Sum((s \ {a}) \ {y})
        /\ Sum(s \ {y}) = f[a] + Sum((s \ {a}) \ {y})
    BY <1>7, <1>8
  <1>10. f[a] \in Nat /\ f[y] \in Nat /\ Sum((s \ {a}) \ {y}) \in Nat
    BY <1>3, <1>5, <1>7
  <1> HIDE DEF Sum, a
  <1>11. QED
    BY <1>4, <1>5, <1>9, <1>10

\* A sum depends on nothing but the values that are summed.
LEMMA SumAgrees ==
    ASSUME NEW f, NEW g, NEW S, IsFiniteSet(S), \A x \in S : f[x] = g[x]
    PROVE  SumFunctionOnSet(f, S) = SumFunctionOnSet(g, S)
  <1> DEFINE Bad == {s \in SUBSET S : SumFunctionOnSet(f, s) # SumFunctionOnSet(g, s)}
  <1>1. SUFFICES ASSUME Bad # {} PROVE FALSE
    OBVIOUS
  <1>2. PICK s \in Bad : \A u \in Bad : u \subseteq s => u = s
    <2>1. Bad \subseteq SUBSET S
      OBVIOUS
    <2> HIDE DEF Bad
    <2>2. QED
      BY <1>1, <2>1, SmallestSet
  <1>3. IsFiniteSet(s) /\ s \in SUBSET S
    BY FS_Subset
  <1>4. s # {}
    BY <1>3, SumUnfolds
  <1> DEFINE u == s \ {AnyOf(s)}
  <1>5. AnyOf(s) \in s
    BY <1>4 DEF AnyOf
  <1>6. u \subseteq s /\ u # s /\ u \in SUBSET S
    BY <1>3, <1>5
  <1>7. SumFunctionOnSet(f, u) = SumFunctionOnSet(g, u)
    BY <1>2, <1>6
  <1>8. SumFunctionOnSet(f, s) = SumFunctionOnSet(g, s)
    <2>1. SumFunctionOnSet(f, s) = f[AnyOf(s)] + SumFunctionOnSet(f, u)
      BY <1>3, <1>4, SumUnfolds
    <2>2. SumFunctionOnSet(g, s) = g[AnyOf(s)] + SumFunctionOnSet(g, u)
      BY <1>3, <1>4, SumUnfolds
    <2>3. f[AnyOf(s)] = g[AnyOf(s)]
      BY <1>3, <1>5
    <2>4. QED
      BY <1>7, <2>1, <2>2, <2>3
  <1>9. QED
    BY <1>8

\* More elements make no sum of natural numbers smaller, and elements of value 0 do
\* not change it.
LEMMA SumOfSubset ==
    ASSUME NEW f, NEW S, IsFiniteSet(S), \A x \in S : f[x] \in Nat, NEW T \in SUBSET S
    PROVE  /\ SumFunctionOnSet(f, T) <= SumFunctionOnSet(f, S)
           /\ (\A x \in S \ T : f[x] = 0) => SumFunctionOnSet(f, T) = SumFunctionOnSet(f, S)
  <1> DEFINE Sum(s) == SumFunctionOnSet(f, s)
             Holds(s) == Sum(T) <= Sum(s) /\ ((\A x \in s \ T : f[x] = 0) => Sum(T) = Sum(s))
             Bad == {s \in SUBSET S : T \subseteq s /\ ~Holds(s)}
  <1>1. SUFFICES ASSUME Bad # {} PROVE FALSE
    OBVIOUS
  <1>2. PICK s \in Bad : \A u \in Bad : u \subseteq s => u = s
    <2>1. Bad \subseteq SUBSET S
      OBVIOUS
    <2> HIDE DEF Bad
    <2>2. QED
      BY <1>1, <2>1, SmallestSet
  <1>3. \A t \in SUBSET S : IsFiniteSet(t) /\ Sum(t) \in Nat
    BY FS_Subset, SumNat
  <1>4. s \in SUBSET S /\ T \subseteq s /\ ~Holds(s)
    OBVIOUS
  <1>5. s # T
    <2>1. Sum(T) \in Nat
      BY <1>3
    <2> HIDE DEF Sum
    <2>2. Holds(T)
      BY <2>1
    <2> HIDE DEF Holds
    <2>3. QED
      BY <1>4, <2>2
  <1>6. PICK y \in s : y \notin T
    BY <1>4, <1>5
  <1> DEFINE u == s \ {y}
  <1>7. u \in SUBSET S /\ T \subseteq u /\ u # s /\ u \subseteq s
    BY <1>4, <1>6
  <1>8. Holds(u)
    BY <1>2, <1>7
  <1>9. Sum(s) = f[y] + Sum(u) /\ f[y] \in Nat
    BY <1>3, <1>4, SumTakeOut
  <1>10. Sum(u) \in Nat /\ Sum(T) \in Nat
    BY <1>3, <1>7
  <1>11. (\A x \in s \ T : f[x] = 0) => f[y] = 0 /\ \A x \in u \ T : f[x] = 0
    BY <1>6
  <1> HIDE DEF Sum, u
  <1>12. Holds(s)
    BY <1>8, <1>9, <1>10, <1>11
  <1>13. QED
    BY <1>4, <1>12
=============================================================================
