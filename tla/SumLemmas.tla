------------------------------ MODULE SumLemmas ------------------------------
(***************************************************************************)
(* Facts about the smallest and the largest of a set of numbers and about  *)
(* sums over finite sets, for the proofs.                                  *)
(*                                                                         *)
(* MapThenSumSet defines a sum by a recursive function that takes the      *)
(* elements out in the order of CHOOSE.  That function exists (SumsExist), *)
(* there is only one (SumsAgree), and the order does not matter (TakeOut). *)
(* The summands are given as a function, so that the provers can           *)
(* instantiate the lemmas; induction is over cardinalities, by the         *)
(* smallest counterexample.                                                *)
(***************************************************************************)
EXTENDS Integers, FiniteSets, FiniteSetsExt, FiniteSetTheorems,
        WellFoundedInduction, TLAPS

\* A smallest element of a set of numbers is its minimum.
LEMMA SmallestIsMin ==
  ASSUME NEW S \in SUBSET Int, NEW x \in S, \A y \in S : x <= y
  PROVE  Min(S) = x
  <1>1. Min(S) \in S /\ \A y \in S : Min(S) <= y
    BY DEF Min
  <1>2. PICK m : m = Min(S)
    OBVIOUS
  <1>3. m \in Int /\ x \in Int /\ m <= x /\ x <= m
    BY <1>1, <1>2
  <1>. QED BY <1>2, <1>3

\* A nonempty set of naturals has its minimum.
LEMMA MinOfNaturals ==
  ASSUME NEW S \in SUBSET Nat, S # {}
  PROVE  Min(S) \in S /\ \A x \in S : Min(S) <= x
  <1>1. PICK x \in S : \A y \in S : <<y, x>> \notin OpToRel(<, Nat)
    BY NatLessThanWellFounded, WFMin
  <1>2. \A y \in S : x <= y
    <2>1. SUFFICES ASSUME NEW y \in S, y < x PROVE FALSE
      BY SMT
    <2>2. <<y, x>> \in OpToRel(<, Nat)
      BY <2>1 DEF OpToRel
    <2>. QED BY <1>1, <2>2
  <1>. QED BY <1>2 DEF Min

\* A bounded one has its maximum.
LEMMA MaxOfNaturals ==
  ASSUME NEW S \in SUBSET Nat, S # {}, NEW bound \in Nat, \A x \in S : x <= bound
  PROVE  Max(S) \in S /\ \A x \in S : x <= Max(S)
  <1> DEFINE D == {bound - x : x \in S}
  <1>1. D \in SUBSET Nat /\ D # {}
    <2>1. \A x \in S : bound - x \in Nat
      OBVIOUS
    <2>2. D \in SUBSET Nat
      BY <2>1
    <2>3. PICK x : x \in S
      OBVIOUS
    <2>4. bound - x \in D
      BY <2>3
    <2>. QED BY <2>2, <2>4
  <1>2. Min(D) \in D /\ \A d \in D : Min(D) <= d
    BY <1>1, MinOfNaturals
  <1>3. PICK x \in S : Min(D) = bound - x
    BY <1>2
  <1>4. \A y \in S : bound - x <= bound - y
    BY <1>2, <1>3
  <1>5. \A y \in S : x >= y
    BY <1>4
  <1>. QED BY <1>5 DEF Max

-----------------------------------------------------------------------------
(* The element a sum takes out first, and the function that computes sums. *)
Chosen(s) == CHOOSE x \in s : TRUE

SumStep(g, h, s) == IF s = {} THEN 0 ELSE g[Chosen(s)] + h[s \ {Chosen(s)}]
IsSum(S, g, h) == h = [s \in SUBSET S |-> SumStep(g, h, s)]

(* The sum of g over S. *)
Total(g, S) == (CHOOSE h : IsSum(S, g, h))[S]

\* What a sum takes out is an element, and what is left is smaller.
LEMMA ChosenIsMember ==
  ASSUME NEW S, IsFiniteSet(S), NEW s \in SUBSET S
  PROVE  /\ IsFiniteSet(s) /\ Cardinality(s) \in Nat
         /\ s # {} => /\ Chosen(s) \in s
                      /\ s \ {Chosen(s)} \in SUBSET S
                      /\ Cardinality(s \ {Chosen(s)}) = Cardinality(s) - 1
                      /\ Cardinality(s) > 0
  <1>1. IsFiniteSet(s) /\ Cardinality(s) \in Nat
    BY FS_Subset, FS_CardinalityType
  <1>2. ASSUME s # {} PROVE Chosen(s) \in s
    BY <1>2 DEF Chosen
  <1>3. s # {} => Cardinality(s \ {Chosen(s)}) = Cardinality(s) - 1
    BY <1>1, <1>2, FS_RemoveElement
  <1>4. s # {} => Cardinality(s) # 0
    BY <1>1, FS_EmptySet
  <1>. QED BY <1>1, <1>2, <1>3, <1>4

\* Every finite set has its sums.
LEMMA SumsExist ==
  ASSUME NEW S, IsFiniteSet(S), NEW g
  PROVE  \E h : IsSum(S, g, h)
  <1> DEFINE Upto(n, h) == /\ h = [s \in SUBSET S |-> h[s]]
                           /\ \A s \in SUBSET S : Cardinality(s) <= n => h[s] = SumStep(g, h, s)
             Missing == {n \in Nat : ~\E h : Upto(n, h)}
  <1>1. Missing = {}
    <2>1. SUFFICES ASSUME Missing # {} PROVE FALSE
      OBVIOUS
    <2>2. PICK n \in Missing : \A k \in Missing : n <= k
      <3>1. Missing \in SUBSET Nat
        OBVIOUS
      <3>. QED BY <2>1, <3>1, MinOfNaturals
    <2>3. n # 0
      <3>1. SUFFICES ASSUME n = 0 PROVE FALSE
        OBVIOUS
      <3> DEFINE zero == [s \in SUBSET S |-> 0]
      <3>2. ASSUME NEW s \in SUBSET S, Cardinality(s) <= 0 PROVE zero[s] = SumStep(g, zero, s)
        <4>1. Cardinality(s) \in Nat /\ (s # {} => Cardinality(s) > 0)
          BY ChosenIsMember
        <4>2. s = {}
          BY <3>2, <4>1
        <4>. QED BY <4>2 DEF SumStep
      <3>3. Upto(0, zero)
        BY <3>2
      <3>. QED BY <3>1, <3>3
    <2>4. PICK h : Upto(n - 1, h)
      <3> HIDE DEF Upto
      <3>1. n \in Nat
        BY <2>2
      <3>2. n - 1 \in Nat /\ ~(n <= n - 1)
        BY <2>3, <3>1
      <3>3. n - 1 \notin Missing
        BY <2>2, <3>2
      <3>. QED BY <3>2, <3>3
    <2> DEFINE next == [s \in SUBSET S |-> SumStep(g, h, s)]
    <2>5. ASSUME NEW s \in SUBSET S, Cardinality(s) <= n PROVE next[s] = SumStep(g, next, s)
      <3>1. CASE s = {}
        BY <3>1 DEF SumStep
      <3>2. CASE s # {}
        <4> DEFINE rest == s \ {Chosen(s)}
        <4>1. rest \in SUBSET S /\ Cardinality(rest) <= n - 1
          BY <2>5, <3>2, ChosenIsMember
        <4>2. next[rest] = h[rest]
          BY <2>4, <4>1
        <4>. QED BY <3>2, <4>2 DEF SumStep
      <3>. QED BY <3>1, <3>2
    <2>6. Upto(n, next)
      BY <2>5
    <2>. QED BY <2>2, <2>6
  <1>2. Cardinality(S) \in Nat
    BY FS_CardinalityType
  <1>3. PICK h : Upto(Cardinality(S), h)
    BY <1>1, <1>2
  <1>4. \A s \in SUBSET S : h[s] = SumStep(g, h, s)
    <2>1. \A s \in SUBSET S : Cardinality(s) <= Cardinality(S)
      BY FS_Subset
    <2>. QED BY <1>3, <2>1
  <1>5. h = [s \in SUBSET S |-> SumStep(g, h, s)]
    BY <1>3, <1>4
  <1>. QED BY <1>5 DEF IsSum

\* The sums of a set and of a larger one agree on the smaller one's subsets.
LEMMA SumsAgree ==
  ASSUME NEW S, IsFiniteSet(S), NEW T \in SUBSET S, NEW f, NEW g, NEW e, NEW h,
         \A x \in T : f[x] = g[x], IsSum(T, f, e), IsSum(S, g, h)
  PROVE  \A s \in SUBSET T : e[s] = h[s]
  <1> DEFINE Wrong == {Cardinality(s) : s \in {t \in SUBSET T : e[t] # h[t]}}
  <1>1. SUFFICES ASSUME NEW w \in SUBSET T, e[w] # h[w] PROVE FALSE
    OBVIOUS
  <1>2. Wrong \in SUBSET Nat /\ Wrong # {}
    <2>1. \A s \in SUBSET T : Cardinality(s) \in Nat
      BY ChosenIsMember
    <2>2. Cardinality(w) \in Wrong
      BY <1>1
    <2>. QED BY <2>1, <2>2
  <1>3. PICK n \in Wrong : \A k \in Wrong : n <= k
    BY <1>2, MinOfNaturals
  <1>4. PICK s \in SUBSET T : e[s] # h[s] /\ n = Cardinality(s)
    BY <1>3
  <1>5. e[s] = SumStep(f, e, s) /\ h[s] = SumStep(g, h, s)
    <2>1. s \in SUBSET S
      OBVIOUS
    <2>. QED BY <2>1 DEF IsSum
  <1>6. CASE s = {}
    BY <1>4, <1>5, <1>6 DEF SumStep
  <1>7. CASE s # {}
    <2> DEFINE rest == s \ {Chosen(s)}
    <2>1. rest \in SUBSET T /\ Chosen(s) \in T /\ Cardinality(rest) = n - 1 /\ n \in Nat
      BY <1>4, <1>7, ChosenIsMember
    <2>2. e[rest] = h[rest]
      <3>1. SUFFICES ASSUME e[rest] # h[rest] PROVE FALSE
        OBVIOUS
      <3>2. Cardinality(rest) \in Wrong
        BY <2>1, <3>1
      <3>3. n <= n - 1
        BY <1>3, <2>1, <3>2
      <3>. QED BY <2>1, <3>3
    <2>. QED BY <1>4, <1>5, <1>7, <2>1, <2>2 DEF SumStep
  <1>. QED BY <1>6, <1>7

\* A sum is what every function that computes sums says.
LEMMA TotalIs ==
  ASSUME NEW S, IsFiniteSet(S), NEW T \in SUBSET S, NEW g, NEW h, IsSum(S, g, h)
  PROVE  Total(g, T) = h[T]
  <1>1. IsFiniteSet(T)
    BY FS_Subset
  <1>2. PICK e : IsSum(T, g, e)
    BY <1>1, SumsExist
  <1>3. IsSum(T, g, CHOOSE k : IsSum(T, g, k))
    BY <1>2
  <1>. QED BY <1>3, SumsAgree DEF Total

\* Equal summands have equal sums.
LEMMA TotalSame ==
  ASSUME NEW S, IsFiniteSet(S), NEW f, NEW g, \A x \in S : f[x] = g[x]
  PROVE  Total(f, S) = Total(g, S)
  <1>1. PICK e, h : IsSum(S, f, e) /\ IsSum(S, g, h)
    BY SumsExist
  <1>2. e[S] = h[S]
    BY <1>1, SumsAgree
  <1>. QED BY <1>1, <1>2, TotalIs

\* The sum over the empty set is 0.
LEMMA TotalEmpty ==
  ASSUME NEW g
  PROVE  Total(g, {}) = 0
  <1>1. IsFiniteSet({})
    BY FS_EmptySet
  <1>2. PICK h : IsSum({}, g, h)
    BY <1>1, SumsExist
  <1>3. h[{}] = 0
    BY <1>2 DEF IsSum, SumStep
  <1>. QED BY <1>1, <1>2, <1>3, TotalIs

\* The summand that is taken out first and the rest.
LEMMA TakeChosen ==
  ASSUME NEW S, IsFiniteSet(S), S # {}, NEW g
  PROVE  Total(g, S) = g[Chosen(S)] + Total(g, S \ {Chosen(S)})
  <1>1. PICK h : IsSum(S, g, h)
    BY SumsExist
  <1>2. h[S] = g[Chosen(S)] + h[S \ {Chosen(S)}]
    BY <1>1 DEF IsSum, SumStep
  <1>3. Total(g, S) = h[S] /\ Total(g, S \ {Chosen(S)}) = h[S \ {Chosen(S)}]
    BY <1>1, TotalIs
  <1>. QED BY <1>2, <1>3

\* A sum of naturals is one.
LEMMA TotalIsNatural ==
  ASSUME NEW S, IsFiniteSet(S), NEW g, \A x \in S : g[x] \in Nat
  PROVE  Total(g, S) \in Nat
  <1> DEFINE Wrong == {Cardinality(s) : s \in {t \in SUBSET S : Total(g, t) \notin Nat}}
  <1>1. SUFFICES ASSUME Total(g, S) \notin Nat PROVE FALSE
    OBVIOUS
  <1>2. Wrong \in SUBSET Nat /\ Wrong # {}
    <2>1. \A s \in SUBSET S : Cardinality(s) \in Nat
      BY ChosenIsMember
    <2>2. Cardinality(S) \in Wrong
      BY <1>1
    <2>. QED BY <2>1, <2>2
  <1>3. PICK n \in Wrong : \A k \in Wrong : n <= k
    BY <1>2, MinOfNaturals
  <1>4. PICK s \in SUBSET S : Total(g, s) \notin Nat /\ n = Cardinality(s)
    BY <1>3
  <1>5. s # {}
    BY <1>4, TotalEmpty
  <1> DEFINE rest == s \ {Chosen(s)}
  <1>6. /\ rest \in SUBSET S /\ Chosen(s) \in S /\ Cardinality(rest) = n - 1
        /\ n \in Nat /\ IsFiniteSet(s)
    BY <1>4, <1>5, ChosenIsMember
  <1>7. Total(g, rest) \in Nat
    <2>1. SUFFICES ASSUME Total(g, rest) \notin Nat PROVE FALSE
      OBVIOUS
    <2>2. Cardinality(rest) \in Wrong
      BY <1>6, <2>1
    <2>3. n <= n - 1
      BY <1>3, <1>6, <2>2
    <2>. QED BY <1>6, <2>3
  <1>8. Total(g, s) = g[Chosen(s)] + Total(g, rest)
    BY <1>5, <1>6, TakeChosen
  <1>. QED BY <1>4, <1>6, <1>7, <1>8

\* Any summand and the rest.
LEMMA TakeOut ==
  ASSUME NEW S, IsFiniteSet(S), NEW g, \A x \in S : g[x] \in Nat, NEW y \in S
  PROVE  Total(g, S) = g[y] + Total(g, S \ {y})
  <1> DEFINE Fits(t) == \A z \in t : Total(g, t) = g[z] + Total(g, t \ {z})
             Wrong == {Cardinality(s) : s \in {t \in SUBSET S : ~Fits(t)}}
  <1>1. SUFFICES ASSUME ~Fits(S) PROVE FALSE
    OBVIOUS
  <1> HIDE DEF Fits
  <1>2. Wrong \in SUBSET Nat /\ Wrong # {}
    <2>1. \A s \in SUBSET S : Cardinality(s) \in Nat
      BY ChosenIsMember
    <2>2. Cardinality(S) \in Wrong
      BY <1>1
    <2>. QED BY <2>1, <2>2
  <1>3. PICK n \in Wrong : \A k \in Wrong : n <= k
    BY <1>2, MinOfNaturals
  <1>4. PICK s \in SUBSET S : ~Fits(s) /\ n = Cardinality(s)
    BY <1>3
  <1>5. PICK z \in s : Total(g, s) # g[z] + Total(g, s \ {z})
    BY <1>4 DEF Fits
  <1> DEFINE c == Chosen(s)
  <1>6. /\ c \in s /\ IsFiniteSet(s) /\ Cardinality(s) = n /\ n \in Nat
        /\ Cardinality(s \ {c}) = n - 1
    BY <1>4, <1>5, ChosenIsMember
  <1>7. Total(g, s) = g[c] + Total(g, s \ {c})
    BY <1>5, <1>6, TakeChosen
  <1>8. z # c
    BY <1>5, <1>7
  <1>9. \A t \in SUBSET S : Cardinality(t) = n - 1 => Fits(t)
    <2>1. SUFFICES ASSUME NEW t \in SUBSET S, Cardinality(t) = n - 1, ~Fits(t) PROVE FALSE
      OBVIOUS
    <2>2. Cardinality(t) \in Wrong
      BY <2>1
    <2>3. n <= n - 1
      BY <1>3, <2>1, <2>2
    <2>. QED BY <1>6, <2>3
  <1>10. Cardinality(s \ {z}) = n - 1
    BY <1>6, FS_RemoveElement
  <1>11. Total(g, s \ {c}) = g[z] + Total(g, (s \ {c}) \ {z})
    BY <1>6, <1>8, <1>9 DEF Fits
  <1>12. Total(g, s \ {z}) = g[c] + Total(g, (s \ {z}) \ {c})
    BY <1>6, <1>8, <1>9, <1>10 DEF Fits
  <1>13. (s \ {c}) \ {z} = (s \ {z}) \ {c}
    OBVIOUS
  <1>14. Total(g, (s \ {z}) \ {c}) \in Nat
    <2>1. IsFiniteSet((s \ {z}) \ {c})
      BY <1>6, FS_RemoveElement
    <2>. QED BY <2>1, TotalIsNatural
  <1>15. g[c] \in Nat /\ g[z] \in Nat
    BY <1>6
  <1> HIDE DEF c
  <1>. QED BY <1>5, <1>7, <1>11, <1>12, <1>13, <1>14, <1>15

\* One more summand.
LEMMA TotalGrows ==
  ASSUME NEW S, IsFiniteSet(S), NEW y, y \notin S, NEW g, \A x \in S \cup {y} : g[x] \in Nat
  PROVE  Total(g, S \cup {y}) = Total(g, S) + g[y]
  <1>1. IsFiniteSet(S \cup {y}) /\ (S \cup {y}) \ {y} = S
    BY FS_AddElement
  <1>2. Total(g, S \cup {y}) = g[y] + Total(g, (S \cup {y}) \ {y})
    BY <1>1, TakeOut
  <1>3. Total(g, S) \in Nat /\ g[y] \in Nat
    BY TotalIsNatural
  <1>. QED BY <1>1, <1>2, <1>3

\* The summand of one element changes, or the element comes or goes.
LEMMA TotalMoves ==
  ASSUME NEW S, IsFiniteSet(S), NEW T, IsFiniteSet(T), NEW f, NEW g, NEW y,
         S \ {y} = T \ {y}, \A x \in S \ {y} : f[x] = g[x],
         \A x \in S : f[x] \in Nat, \A x \in T : g[x] \in Nat
  PROVE  /\ Total(f, S) \in Nat /\ Total(g, T) \in Nat
         /\ Total(g, T) + (IF y \in S THEN f[y] ELSE 0) = Total(f, S) + (IF y \in T THEN g[y] ELSE 0)
  <1>1. IsFiniteSet(S \ {y}) /\ Total(f, S \ {y}) = Total(g, S \ {y})
    BY FS_RemoveElement, TotalSame
  <1>2. Total(f, S) = Total(f, S \ {y}) + (IF y \in S THEN f[y] ELSE 0)
    <2>1. CASE y \in S
      <3>1. Total(f, S) = f[y] + Total(f, S \ {y})
        BY <2>1, TakeOut
      <3>2. Total(f, S \ {y}) \in Nat /\ f[y] \in Nat
        BY <1>1, <2>1, TotalIsNatural
      <3>. QED BY <2>1, <3>1, <3>2
    <2>2. CASE y \notin S
      <3>1. S \ {y} = S /\ Total(f, S) \in Nat
        BY <2>2, TotalIsNatural
      <3>. QED BY <2>2, <3>1
    <2>. QED BY <2>1, <2>2
  <1>3. Total(g, T) = Total(g, S \ {y}) + (IF y \in T THEN g[y] ELSE 0)
    <2>1. CASE y \in T
      <3>1. Total(g, T) = g[y] + Total(g, T \ {y})
        BY <2>1, TakeOut
      <3>2. Total(g, S \ {y}) \in Nat /\ g[y] \in Nat
        BY <1>1, <2>1, TotalIsNatural
      <3>. QED BY <2>1, <3>1, <3>2
    <2>2. CASE y \notin T
      <3>1. T \ {y} = T /\ Total(g, T) \in Nat
        BY <2>2, TotalIsNatural
      <3>. QED BY <2>2, <3>1
    <2>. QED BY <2>1, <2>2
  <1>4. Total(f, S \ {y}) \in Nat /\ Total(f, S) \in Nat /\ Total(g, T) \in Nat
    BY <1>1, TotalIsNatural
  <1>5. (y \in S => f[y] \in Nat) /\ (y \in T => g[y] \in Nat)
    OBVIOUS
  <1>. QED BY <1>1, <1>2, <1>3, <1>4, <1>5

\* A sum of naturals is 0 exactly when every summand is.
LEMMA TotalIsZero ==
  ASSUME NEW S, IsFiniteSet(S), NEW g, \A x \in S : g[x] \in Nat
  PROVE  Total(g, S) = 0 <=> \A x \in S : g[x] = 0
  <1>1. ASSUME Total(g, S) = 0, NEW x \in S PROVE g[x] = 0
    <2>1. Total(g, S) = g[x] + Total(g, S \ {x})
      BY TakeOut
    <2>2. Total(g, S \ {x}) \in Nat
      BY FS_RemoveElement, TotalIsNatural
    <2>. QED BY <1>1, <2>1, <2>2
  <1>2. ASSUME \A x \in S : g[x] = 0 PROVE Total(g, S) = 0
    <2> DEFINE zero == [s \in SUBSET S |-> 0]
    <2>1. ASSUME NEW s \in SUBSET S PROVE SumStep(g, zero, s) = 0
      <3>1. s # {} => Chosen(s) \in S /\ s \ {Chosen(s)} \in SUBSET S
        BY ChosenIsMember
      <3>. QED BY <1>2, <3>1 DEF SumStep
    <2>2. IsSum(S, g, zero)
      BY <2>1 DEF IsSum
    <2>3. zero[S] = 0
      OBVIOUS
    <2>. QED BY <2>2, <2>3, TotalIs
  <1>. QED BY <1>1, <1>2

\* A sum is no smaller than that of some of its elements.
LEMMA TotalOfSome ==
  ASSUME NEW T, IsFiniteSet(T), NEW S \in SUBSET T, NEW g, \A x \in T : g[x] \in Nat
  PROVE  Total(g, S) <= Total(g, T)
  <1> DEFINE Wrong == {Cardinality(U) : U \in {U \in SUBSET T : ~(Total(g, S) <= Total(g, S \cup U))}}
  <1>1. \A U \in SUBSET T : Cardinality(U) \in Nat /\ IsFiniteSet(U)
    BY FS_Subset, FS_CardinalityType
  <1>2. Wrong = {}
    <2>1. SUFFICES ASSUME Wrong # {} PROVE FALSE
      OBVIOUS
    <2>2. PICK n \in Wrong : \A k \in Wrong : n <= k
      <3>1. Wrong \in SUBSET Nat
        BY <1>1
      <3>. QED BY <2>1, <3>1, MinOfNaturals
    <2>3. PICK U \in SUBSET T : n = Cardinality(U) /\ ~(Total(g, S) <= Total(g, S \cup U))
      BY <2>2
    <2>4. Total(g, S) \in Nat
      BY <1>1, TotalIsNatural
    <2>5. PICK x \in U : x \notin S
      <3>1. SUFFICES ASSUME U \subseteq S PROVE FALSE
        OBVIOUS
      <3>2. S \cup U = S
        BY <3>1
      <3>. QED BY <2>3, <2>4, <3>2
    <2> DEFINE V == U \ {x}
    <2>6. V \in SUBSET T /\ Cardinality(V) = Cardinality(U) - 1 /\ Cardinality(V) \in Nat /\ Cardinality(U) \in Nat
      BY <1>1, FS_RemoveElement
    <2>7. Total(g, S) <= Total(g, S \cup V)
      <3>1. Cardinality(V) \notin Wrong
        <4>1. n \in Nat /\ Cardinality(V) = n - 1
          BY <2>3, <2>6
        <4>2. ~(n <= Cardinality(V))
          BY <4>1
        <4> HIDE DEF V, Wrong
        <4>. QED BY <2>2, <4>2
      <3>. QED BY <2>6, <3>1
    <2>8. Total(g, S \cup U) = g[x] + Total(g, (S \cup U) \ {x})
      BY <1>1, TakeOut
    <2>9. (S \cup U) \ {x} = S \cup V
      BY <2>5
    <2>10. g[x] \in Nat /\ Total(g, S \cup V) \in Nat
      BY <1>1, <2>6, TotalIsNatural
    <2> HIDE DEF V
    <2>11. Total(g, S \cup U) = g[x] + Total(g, S \cup V)
      BY <2>8, <2>9
    <2>12. Total(g, S) <= Total(g, S \cup U)
      BY <2>4, <2>7, <2>10, <2>11
    <2>. QED BY <2>3, <2>12
  <1>3. Total(g, S) <= Total(g, S \cup T)
    BY <1>2
  <1>4. S \cup T = T
    OBVIOUS
  <1>. QED BY <1>3, <1>4

\* Elements counted class by class.
LEMMA TotalOfClasses ==
  ASSUME NEW S, IsFiniteSet(S), NEW I, IsFiniteSet(I), NEW class, \A x \in S : class[x] \in I
  PROVE  Total([i \in I |-> Cardinality({x \in S : class[x] = i})], I) = Cardinality(S)
  <1> DEFINE In(T) == {x \in S : class[x] \in T}
             g == [i \in I |-> Cardinality({x \in S : class[x] = i})]
             Fits(T) == Total(g, T) = Cardinality(In(T))
             Wrong == {Cardinality(T) : T \in {U \in SUBSET I : ~Fits(U)}}
  <1>1. \A i \in I : g[i] \in Nat
    BY FS_Subset, FS_CardinalityType
  <1>2. In(I) = S
    OBVIOUS
  <1> HIDE DEF g
  <1>3. SUFFICES ASSUME ~Fits(I) PROVE FALSE
    BY <1>2 DEF g
  <1> HIDE DEF Fits
  <1>4. Wrong \in SUBSET Nat /\ Wrong # {}
    <2>1. \A T \in SUBSET I : Cardinality(T) \in Nat
      BY ChosenIsMember
    <2>2. Cardinality(I) \in Wrong
      BY <1>3
    <2>. QED BY <2>1, <2>2
  <1>5. PICK n \in Wrong : \A k \in Wrong : n <= k
    BY <1>4, MinOfNaturals
  <1>6. PICK T \in SUBSET I : ~Fits(T) /\ n = Cardinality(T)
    BY <1>5
  <1>7. CASE T = {}
    <2>1. In(T) = {}
      BY <1>7
    <2>2. Total(g, T) = 0 /\ Cardinality(In(T)) = 0
      BY <1>7, <2>1, TotalEmpty, FS_EmptySet
    <2>. QED BY <1>6, <2>2 DEF Fits
  <1>8. CASE T # {}
    <2> DEFINE y == Chosen(T)
               rest == T \ {y}
    <2>1. /\ rest \in SUBSET I /\ y \in I /\ y \in T /\ Cardinality(rest) = n - 1
          /\ n \in Nat /\ IsFiniteSet(T)
      BY <1>6, <1>8, ChosenIsMember
    <2>2. Fits(rest)
      <3>1. SUFFICES ASSUME ~Fits(rest) PROVE FALSE
        OBVIOUS
      <3>2. Cardinality(rest) \in Wrong
        BY <2>1, <3>1
      <3>3. n <= n - 1
        BY <1>5, <2>1, <3>2
      <3>. QED BY <2>1, <3>3
    <2>3. Total(g, T) = g[y] + Total(g, rest)
      BY <1>8, <2>1, TakeChosen
    <2>4. Cardinality(In(T)) = Cardinality(In(rest)) + g[y]
      <3> DEFINE own == {x \in S : class[x] = y}
      <3>1. In(T) = In(rest) \cup own /\ In(rest) \cap own = {}
        BY <2>1
      <3>2. IsFiniteSet(In(rest)) /\ IsFiniteSet(own)
        BY FS_Subset
      <3>3. g[y] = Cardinality(own)
        BY <2>1 DEF g
      <3> HIDE DEF own, In
      <3>4. Cardinality(In(rest) \cap own) = 0
        BY <3>1, FS_EmptySet
      <3>5. Cardinality(In(rest)) \in Nat /\ Cardinality(own) \in Nat
        BY <3>2, FS_CardinalityType
      <3>6. Cardinality(In(rest) \cup own)
              = Cardinality(In(rest)) + Cardinality(own) - Cardinality(In(rest) \cap own)
        BY <3>2, FS_Union
      <3>7. Cardinality(In(T)) = Cardinality(In(rest)) + Cardinality(own)
        BY <3>1, <3>4, <3>5, <3>6
      <3>. QED BY <3>3, <3>7
    <2>5. Cardinality(In(rest)) \in Nat /\ g[y] \in Nat
      <3>1. IsFiniteSet(In(rest))
        BY FS_Subset
      <3>. QED BY <1>1, <2>1, <3>1, FS_CardinalityType
    <2>6. Fits(T)
      <3> HIDE DEF In, y, rest
      <3>. QED BY <2>2, <2>3, <2>4, <2>5 DEF Fits
    <2>. QED BY <1>6, <2>6
  <1>. QED BY <1>7, <1>8
=============================================================================
