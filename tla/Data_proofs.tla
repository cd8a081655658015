------------------------------ MODULE Data_proofs ------------------------------
(***************************************************************************)
(* Facts about numbers, finite sets, sums and lists that the proofs about  *)
(* several components need.                                                *)
(***************************************************************************)
EXTENDS PythonValues, SequencesExt, FiniteSetsExt, FiniteSetTheorems, SequenceTheorems,
        WellFoundedInduction, TLAPS

(* The natural numbers have no set without a least element.                *)
LEMMA LeastNumber ==
    ASSUME NEW S \in SUBSET Nat, S # {}
    PROVE  \E n \in S : \A m \in S : n <= m
<1> DEFINE R == {ss \in Nat \X Nat : ss[1] < ss[2]}
<1>1. R = OpToRel(<, Nat)
  BY DEF OpToRel
<1>2. IsWellFoundedOn(R, Nat)
  BY NatLessThanWellFounded, <1>1
<1>3. \A n, m \in Nat : m < n => <<m, n>> \in R
  OBVIOUS
<1> HIDE DEF R
<1>4. PICK n \in S : \A m \in S : <<m, n>> \notin R
  BY <1>2, WFMin, Zenon
<1>5. \A m \in S : ~(m < n)
  BY <1>3, <1>4, Zenon
<1>6. QED BY <1>5

(* Induction, for a set in the place of a predicate: the provers cannot    *)
(* instantiate a theorem that takes a predicate.                           *)
LEMMA EveryNumber ==
    ASSUME NEW A, 0 \in A, \A n \in Nat : n \in A => n + 1 \in A
    PROVE  \A n \in Nat : n \in A
<1> SUFFICES ASSUME Nat \ A # {} PROVE FALSE
  OBVIOUS
<1>1. PICK n \in Nat \ A : \A m \in Nat \ A : n <= m
  BY LeastNumber
<1>2. n - 1 \in Nat /\ n - 1 \notin Nat \ A
  BY <1>1
<1>3. QED BY <1>1, <1>2

(* The same for the subsets of a finite set.                               *)
LEMMA EverySubset ==
    ASSUME NEW S, IsFiniteSet(S), NEW A, {} \in A,
           \A T \in SUBSET S : \A x \in S \ T : T \in A => T \cup {x} \in A
    PROVE  S \in A
<1> DEFINE Left == {Cardinality(S \ T) : T \in A \cap SUBSET S}
<1>1. \A T \in SUBSET S : IsFiniteSet(S \ T) /\ Cardinality(S \ T) \in Nat
  BY FS_Difference, FS_CardinalityType
<1>2. Left \in SUBSET Nat
  BY <1>1
<1>3. Cardinality(S \ {}) \in Left
  OBVIOUS
<1>4. PICK n \in Left : \A m \in Left : n <= m
  <2> HIDE DEF Left
  <2>1. QED BY <1>2, <1>3, LeastNumber
<1>5. PICK T \in A \cap SUBSET S : n = Cardinality(S \ T)
  BY <1>4
<1>6. SUFFICES ASSUME T # S PROVE FALSE
  BY <1>5
<1>7. PICK x \in S \ T : TRUE
  BY <1>5, <1>6
<1>8. T \cup {x} \in A \cap SUBSET S
  BY <1>5, <1>7
<1>9. S \ (T \cup {x}) = (S \ T) \ {x} /\ x \in S \ T
  OBVIOUS
<1>10. IsFiniteSet(S \ T) /\ Cardinality(S \ T) \in Nat
  BY <1>1, <1>5
<1>11. Cardinality((S \ T) \ {x}) = Cardinality(S \ T) - 1
  <2> DEFINE U == S \ T
  <2>1. IsFiniteSet(U) /\ x \in U
    BY <1>9, <1>10
  <2> HIDE DEF U
  <2>2. Cardinality(U \ {x}) = Cardinality(U) - 1
    BY <2>1, FS_RemoveElement
  <2>3. QED BY <2>2 DEF U
<1>12. n - 1 \in Left
  BY <1>5, <1>8, <1>9, <1>11
<1>13. n \in Nat
  BY <1>5, <1>10
<1> HIDE DEF Left
<1>14. n <= n - 1
  BY <1>4, <1>12
<1>15. QED BY <1>13, <1>14

LEMMA ImageIsFinite ==
    ASSUME NEW S, IsFiniteSet(S), NEW f, NEW T, T \subseteq {f[x] : x \in S}
    PROVE  IsFiniteSet(T)
<1> DEFINE Image(U) == {f[x] : x \in U}
           A == {U \in SUBSET S : IsFiniteSet(Image(U))}
<1>1. {} \in A
  <2>1. Image({}) = {}
    OBVIOUS
  <2>2. QED BY <2>1, FS_EmptySet
<1>2. ASSUME NEW U \in SUBSET S, NEW x \in S \ U, U \in A PROVE U \cup {x} \in A
  <2>1. Image(U \cup {x}) = Image(U) \cup {f[x]}
    OBVIOUS
  <2>2. IsFiniteSet(Image(U) \cup {f[x]})
    BY <1>2, FS_AddElement
  <2>3. U \cup {x} \in SUBSET S
    OBVIOUS
  <2> HIDE DEF Image
  <2>4. QED BY <2>1, <2>2, <2>3
<1>3. S \in A
  <2> HIDE DEF A
  <2>1. QED BY <1>1, <1>2, EverySubset
<1>4. IsFiniteSet(Image(S)) /\ T \subseteq Image(S)
  BY <1>3
<1> HIDE DEF Image
<1>5. QED BY <1>4, FS_Subset

LEMMA SmallerFirst ==
    ASSUME NEW S, IsFiniteSet(S), NEW A,
           \A s \in SUBSET S : (\A t \in SUBSET s : t # s => t \in A) => s \in A
    PROVE  \A s \in SUBSET S : s \in A
<1> DEFINE Bad == {Cardinality(s) : s \in (SUBSET S) \ A}
<1>1. \A s \in SUBSET S : IsFiniteSet(s) /\ Cardinality(s) \in Nat
  BY FS_Subset, FS_CardinalityType
<1>2. SUFFICES ASSUME NEW s0 \in SUBSET S, s0 \notin A PROVE FALSE
  OBVIOUS
<1>3. Bad \in SUBSET Nat /\ Bad # {}
  BY <1>1, <1>2
<1>4. PICK n \in Bad : \A m \in Bad : n <= m
  <2> HIDE DEF Bad
  <2>1. QED BY <1>3, LeastNumber
<1>5. PICK s \in (SUBSET S) \ A : n = Cardinality(s)
  BY <1>4
<1>6. ASSUME NEW t \in SUBSET s, t # s PROVE t \in A
  <2>1. Cardinality(t) <= Cardinality(s) /\ Cardinality(t) # Cardinality(s)
    BY <1>1, <1>5, <1>6, FS_Subset
  <2>2. t \in SUBSET S
    BY <1>5
  <2>3. Cardinality(t) \in Nat /\ Cardinality(s) \in Nat
    BY <1>1, <1>5, <2>2
  <2>4. SUFFICES ASSUME t \notin A PROVE FALSE
    OBVIOUS
  <2>5. Cardinality(t) \in Bad
    BY <2>2, <2>4
  <2> HIDE DEF Bad
  <2>6. n <= Cardinality(t)
    BY <1>4, <2>5
  <2>7. QED BY <1>5, <2>1, <2>3, <2>6
<1>7. QED BY <1>5, <1>6

-----------------------------------------------------------------------------
(***************************************************************************)
(* Sums.  SumFunctionOnSet is the value of a function that is defined by   *)
(* recursion on the subsets; first that there is one.                      *)
(***************************************************************************)
AnyOf(s) == CHOOSE x \in s : TRUE
Totals(f, S, g) ==
    g = [s \in SUBSET S |-> IF s = {} THEN 0 ELSE f[AnyOf(s)] + g[s \ {AnyOf(s)}]]

LEMMA SumIsATotal ==
    ASSUME NEW f, NEW S
    PROVE  SumFunctionOnSet(f, S) = (CHOOSE g : Totals(f, S, g))[S]
  BY DEF SumFunctionOnSet, FoldFunctionOnSet, MapThenFoldSet, Totals, AnyOf

(* f has a number for each of S, which is finite.                          *)
NumbersOn(f, S) == IsFiniteSet(S) /\ \A x \in S : f[x] \in Int

LEMMA Picked == ASSUME NEW s, s # {} PROVE AnyOf(s) \in s
  BY DEF AnyOf

(* The subsets of up to n elements have totals, whatever n.                *)
LEMMA TotalsExist ==
    ASSUME NEW f, NEW S, NumbersOn(f, S)
    PROVE  \E g \in [SUBSET S -> Int] : Totals(f, S, g)
<1> DEFINE Sum1(g, s) == IF s = {} THEN 0 ELSE f[AnyOf(s)] + g[s \ {AnyOf(s)}]
           UpTo(g, n) == \A s \in SUBSET S : Cardinality(s) <= n => g[s] = Sum1(g, s)
           A == {n \in Nat : \E g \in [SUBSET S -> Int] : UpTo(g, n)}
<1>1. \A s \in SUBSET S : IsFiniteSet(s) /\ Cardinality(s) \in Nat
  BY FS_Subset, FS_CardinalityType DEF NumbersOn
<1>2. \A s \in SUBSET S : s # {} =>
          /\ AnyOf(s) \in s /\ f[AnyOf(s)] \in Int
          /\ s \ {AnyOf(s)} \in SUBSET S /\ Cardinality(s \ {AnyOf(s)}) = Cardinality(s) - 1
  <2> SUFFICES ASSUME NEW s \in SUBSET S, s # {}
               PROVE  /\ AnyOf(s) \in s /\ f[AnyOf(s)] \in Int
                      /\ s \ {AnyOf(s)} \in SUBSET S /\ Cardinality(s \ {AnyOf(s)}) = Cardinality(s) - 1
    OBVIOUS
  <2>1. AnyOf(s) \in s
    BY Picked
  <2>2. Cardinality(s \ {AnyOf(s)}) = Cardinality(s) - 1
    BY <1>1, <2>1, FS_RemoveElement
  <2>3. QED BY <2>1, <2>2 DEF NumbersOn
<1>3. ASSUME NEW g \in [SUBSET S -> Int], NEW s \in SUBSET S PROVE Sum1(g, s) \in Int
  <2>1. CASE s = {}
    BY <2>1
  <2>2. CASE s # {}
    <3>1. f[AnyOf(s)] \in Int /\ g[s \ {AnyOf(s)}] \in Int
      BY <1>2, <2>2
    <3>2. QED BY <2>2, <3>1
  <2>3. QED BY <2>1, <2>2
<1>4. 0 \in A
  <2> DEFINE g == [s \in SUBSET S |-> 0]
  <2>1. \A s \in SUBSET S : Cardinality(s) <= 0 => s = {}
    BY <1>1, FS_EmptySet
  <2>2. g \in [SUBSET S -> Int] /\ UpTo(g, 0)
    BY <2>1
  <2>3. QED BY <2>2
<1>5. ASSUME NEW n \in Nat, n \in A PROVE n + 1 \in A
  <2>1. PICK g \in [SUBSET S -> Int] : UpTo(g, n)
    BY <1>5
  <2> DEFINE h == [s \in SUBSET S |-> Sum1(g, s)]
  <2>2. h \in [SUBSET S -> Int]
    BY <1>3
  <2>3. \A s \in SUBSET S : Cardinality(s) <= n => h[s] = g[s]
    BY <2>1
  <2>4. \A s \in SUBSET S : h[s] = Sum1(g, s)
    OBVIOUS
  <2> HIDE DEF h
  <2>5. ASSUME NEW s \in SUBSET S, Cardinality(s) <= n + 1 PROVE h[s] = Sum1(h, s)
    <3>1. CASE s = {}
      BY <2>4, <3>1
    <3>2. CASE s # {}
      <4>1. s \ {AnyOf(s)} \in SUBSET S /\ Cardinality(s \ {AnyOf(s)}) <= n
        BY <1>1, <1>2, <2>5, <3>2
      <4>2. h[s \ {AnyOf(s)}] = g[s \ {AnyOf(s)}]
        BY <2>3, <4>1
      <4>3. QED BY <2>4, <4>2
    <3>3. QED BY <3>1, <3>2
  <2>6. UpTo(h, n + 1)
    BY <2>5
  <2> HIDE DEF UpTo
  <2>7. QED BY <2>2, <2>6
<1>6. Cardinality(S) \in A
  <2> HIDE DEF A
  <2>1. Cardinality(S) \in Nat BY <1>1
  <2>2. QED BY <1>4, <1>5, <2>1, EveryNumber
<1>7. PICK g \in [SUBSET S -> Int] : UpTo(g, Cardinality(S))
  BY <1>6
<1>8. \A s \in SUBSET S : Cardinality(s) <= Cardinality(S)
  BY FS_Subset DEF NumbersOn
<1>9. g = [s \in SUBSET S |-> Sum1(g, s)]
  BY <1>7, <1>8
<1>10. QED BY <1>9 DEF Totals

LEMMA TotalsAre ==
    ASSUME NEW f, NEW S, NumbersOn(f, S), NEW g, Totals(f, S, g)
    PROVE  /\ g[{}] = 0
           /\ \A s \in SUBSET S :
                  /\ s # {} => /\ AnyOf(s) \in s /\ f[AnyOf(s)] \in Int
                               /\ g[s] = f[AnyOf(s)] + g[s \ {AnyOf(s)}]
                  /\ IsFiniteSet(s)
<1>1. \A s \in SUBSET S : g[s] = IF s = {} THEN 0 ELSE f[AnyOf(s)] + g[s \ {AnyOf(s)}]
  BY DEF Totals
<1>2. \A s \in SUBSET S : IsFiniteSet(s)
  BY FS_Subset DEF NumbersOn
<1>3. \A s \in SUBSET S : s # {} => AnyOf(s) \in s /\ f[AnyOf(s)] \in Int
  BY Picked DEF NumbersOn
<1>4. QED BY <1>1, <1>2, <1>3

(* There is but one, and that of a subset is part of it.                   *)
LEMMA TotalsAgree ==
    ASSUME NEW f, NEW S, NumbersOn(f, S), NEW g, Totals(f, S, g),
           NEW e, NEW T \in SUBSET S, NEW h, Totals(e, T, h),
           \A x \in T : e[x] = f[x]
    PROVE  \A s \in SUBSET T : g[s] \in Int /\ g[s] = h[s]
<1> DEFINE A == {s \in SUBSET T : g[s] \in Int /\ g[s] = h[s]}
<1>0. NumbersOn(e, T)
  BY FS_Subset DEF NumbersOn
<1>5. /\ g[{}] = 0
      /\ \A s \in SUBSET S :
             /\ s # {} => /\ AnyOf(s) \in s /\ f[AnyOf(s)] \in Int
                          /\ g[s] = f[AnyOf(s)] + g[s \ {AnyOf(s)}]
             /\ IsFiniteSet(s)
  <2> HIDE DEF A
  <2>1. QED BY TotalsAre, Zenon
<1>6. h[{}] = 0 /\ \A s \in SUBSET T : s # {} => h[s] = e[AnyOf(s)] + h[s \ {AnyOf(s)}]
  <2>1. \A s \in SUBSET T : h[s] = IF s = {} THEN 0 ELSE e[AnyOf(s)] + h[s \ {AnyOf(s)}]
    BY DEF Totals
  <2>2. QED BY <2>1
<1>1. ASSUME NEW s \in SUBSET T, \A t \in SUBSET s : t # s => t \in A PROVE s \in A
  <2>1. s \in SUBSET S
    OBVIOUS
  <2>2. /\ s = {} => g[s] = 0
        /\ s # {} => /\ AnyOf(s) \in s /\ f[AnyOf(s)] \in Int
                     /\ g[s] = f[AnyOf(s)] + g[s \ {AnyOf(s)}]
    BY <2>1, <1>5
  <2>3. /\ s = {} => h[s] = 0
        /\ s # {} => h[s] = e[AnyOf(s)] + h[s \ {AnyOf(s)}]
    BY <1>6
  <2>4. CASE s = {}
    BY <2>2, <2>3, <2>4
  <2>5. CASE s # {}
    <3>1. g[s \ {AnyOf(s)}] \in Int /\ g[s \ {AnyOf(s)}] = h[s \ {AnyOf(s)}]
      BY <1>1, <2>2, <2>5
    <3>2. QED BY <2>2, <2>3, <2>5, <3>1
  <2>6. QED BY <2>4, <2>5
<1>2. IsFiniteSet(T)
  BY <1>0 DEF NumbersOn
<1>3. \A s \in SUBSET T : s \in A
  <2> HIDE DEF A
  <2>1. QED BY <1>1, <1>2, SmallerFirst
<1>4. QED BY <1>3

LEMMA SumOfSubset ==
    ASSUME NEW f, NEW S, NumbersOn(f, S), NEW g, Totals(f, S, g),
           NEW e, NEW T \in SUBSET S, \A x \in T : e[x] = f[x]
    PROVE  SumFunctionOnSet(e, T) = g[T] /\ g[T] \in Int
<1> DEFINE h == CHOOSE h : Totals(e, T, h)
<1>1. NumbersOn(e, T)
  BY FS_Subset DEF NumbersOn
<1>2. \E h0 : Totals(e, T, h0)
  BY <1>1, TotalsExist
<1>3. Totals(e, T, h)
  BY <1>2
<1>4. SumFunctionOnSet(e, T) = h[T]
  BY SumIsATotal
<1> HIDE DEF h
<1>5. g[T] \in Int /\ g[T] = h[T]
  BY <1>3, TotalsAgree
<1>6. QED BY <1>4, <1>5

(* Whichever element is picked, the sum is the same.                       *)
LEMMA AnyMayBePicked ==
    ASSUME NEW f, NEW S, NumbersOn(f, S), NEW g, Totals(f, S, g)
    PROVE  \A s \in SUBSET S : \A x \in s : g[s] = f[x] + g[s \ {x}]
<1> DEFINE A == {s \in SUBSET S : \A x \in s : g[s] = f[x] + g[s \ {x}]}
<1>0. \A s \in SUBSET S : g[s] \in Int
  BY TotalsAgree
<1>1. ASSUME NEW s \in SUBSET S, \A t \in SUBSET s : t # s => t \in A, NEW x \in s
      PROVE  g[s] = f[x] + g[s \ {x}]
  <2> DEFINE p == AnyOf(s)
  <2>1. p \in s /\ f[p] \in Int /\ g[s] = f[p] + g[s \ {p}]
    <3>1. /\ g[{}] = 0
          /\ \A r \in SUBSET S :
                 /\ r # {} => /\ AnyOf(r) \in r /\ f[AnyOf(r)] \in Int
                              /\ g[r] = f[AnyOf(r)] + g[r \ {AnyOf(r)}]
                 /\ IsFiniteSet(r)
      <4> HIDE DEF A, p
      <4>1. QED BY TotalsAre, Zenon
    <3>2. s # {}
      OBVIOUS
    <3>3. AnyOf(s) \in s /\ f[AnyOf(s)] \in Int /\ g[s] = f[AnyOf(s)] + g[s \ {AnyOf(s)}]
      <4> HIDE DEF A, p
      <4>1. QED BY <3>1, <3>2, Zenon
    <3>4. QED BY <3>3
  <2> HIDE DEF p
  <2>2. CASE x = p
    BY <2>1, <2>2
  <2>3. CASE x # p
    <3>1. s \ {p} \in A /\ s \ {x} \in A /\ x \in s \ {p} /\ p \in s \ {x}
      BY <1>1, <2>1, <2>3
    <3>2. g[s \ {p}] = f[x] + g[(s \ {p}) \ {x}] /\ g[s \ {x}] = f[p] + g[(s \ {x}) \ {p}]
      BY <3>1
    <3>3. (s \ {p}) \ {x} = (s \ {x}) \ {p}
      OBVIOUS
    <3>4. g[(s \ {x}) \ {p}] \in Int /\ f[x] \in Int
      BY <1>0 DEF NumbersOn
    <3>5. g[(s \ {x}) \ {p}] = g[(s \ {p}) \ {x}]
      BY <3>3
    <3>6. QED BY <2>1, <3>2, <3>4, <3>5
  <2>4. QED BY <2>2, <2>3
<1>2. \A s \in SUBSET S : (\A t \in SUBSET s : t # s => t \in A) => s \in A
  BY <1>1
<1>3. \A s \in SUBSET S : s \in A
  <2> HIDE DEF A
  <2>1. QED BY <1>2, SmallerFirst DEF NumbersOn
<1>4. QED BY <1>3

(* What is to be known of sums.                                            *)
LEMMA SumEmpty == ASSUME NEW f PROVE SumFunctionOnSet(f, {}) = 0
<1>1. NumbersOn(f, {})
  BY FS_EmptySet DEF NumbersOn
<1>2. PICK g : Totals(f, {}, g)
  BY <1>1, TotalsExist
<1>3. g[{}] = 0
  BY <1>1, <1>2, TotalsAre
<1>4. SumFunctionOnSet(f, {}) = g[{}]
  BY <1>1, <1>2, SumOfSubset
<1>5. QED BY <1>3, <1>4

LEMMA SumType ==
    ASSUME NEW f, NEW S, NumbersOn(f, S)
    PROVE  SumFunctionOnSet(f, S) \in Int
<1>1. PICK g : Totals(f, S, g)
  BY TotalsExist
<1>2. QED BY <1>1, SumOfSubset

LEMMA SumWithout ==
    ASSUME NEW f, NEW S, NumbersOn(f, S), NEW x \in S
    PROVE  SumFunctionOnSet(f, S) = f[x] + SumFunctionOnSet(f, S \ {x})
<1>1. PICK g : Totals(f, S, g)
  BY TotalsExist
<1>2. g[S] = f[x] + g[S \ {x}]
  BY <1>1, AnyMayBePicked
<1>3. SumFunctionOnSet(f, S) = g[S] /\ SumFunctionOnSet(f, S \ {x}) = g[S \ {x}]
  BY <1>1, SumOfSubset
<1>4. QED BY <1>2, <1>3

LEMMA SumSame ==
    ASSUME NEW f, NEW S, NumbersOn(f, S), NEW e, \A x \in S : e[x] = f[x]
    PROVE  SumFunctionOnSet(e, S) = SumFunctionOnSet(f, S)
<1>1. PICK g : Totals(f, S, g)
  BY TotalsExist
<1>2. SumFunctionOnSet(f, S) = g[S] /\ SumFunctionOnSet(e, S) = g[S]
  BY <1>1, SumOfSubset
<1>3. QED BY <1>2

LEMMA SumOfAdded ==
    ASSUME NEW f, NEW S, NEW x, x \notin S, NumbersOn(f, S \cup {x})
    PROVE  /\ SumFunctionOnSet(f, S \cup {x}) = f[x] + SumFunctionOnSet(f, S)
           /\ SumFunctionOnSet(f, S) \in Int /\ f[x] \in Int
<1> DEFINE U == S \cup {x}
<1>1. U \ {x} = S /\ x \in U
  OBVIOUS
<1>2. NumbersOn(f, U) /\ NumbersOn(f, S)
  <2>1. IsFiniteSet(S)
    BY FS_Subset DEF NumbersOn
  <2>2. QED BY <2>1 DEF NumbersOn
<1> HIDE DEF U
<1>3. SumFunctionOnSet(f, U) = f[x] + SumFunctionOnSet(f, U \ {x})
  BY <1>1, <1>2, SumWithout
<1>4. SumFunctionOnSet(f, S) \in Int /\ f[x] \in Int
  BY <1>1, <1>2, SumType DEF NumbersOn
<1>5. QED BY <1>1, <1>3, <1>4 DEF U

LEMMA SumOfNaturals ==
    ASSUME NEW S, IsFiniteSet(S), NEW f, \A x \in S : f[x] \in Nat
    PROVE  SumFunctionOnSet(f, S) \in Nat
<1> DEFINE A == {T \in SUBSET S : SumFunctionOnSet(f, T) \in Nat}
<1>1. {} \in A
  BY SumEmpty
<1>2. ASSUME NEW T \in SUBSET S, NEW x \in S \ T, T \in A PROVE T \cup {x} \in A
  <2>1. NumbersOn(f, T \cup {x})
    BY FS_Subset DEF NumbersOn
  <2>2. SumFunctionOnSet(f, T \cup {x}) = f[x] + SumFunctionOnSet(f, T)
    BY <2>1, SumOfAdded
  <2>3. f[x] \in Nat /\ SumFunctionOnSet(f, T) \in Nat
    BY <1>2
  <2>4. QED BY <2>2, <2>3
<1>3. S \in A
  <2> HIDE DEF A
  <2>1. QED BY <1>1, <1>2, EverySubset
<1>4. QED BY <1>3

(* The sum over two sets that have nothing in common.                      *)
LEMMA SumOfUnion ==
    ASSUME NEW f, NEW S, NEW T, NumbersOn(f, S \cup T), S \cap T = {}
    PROVE  SumFunctionOnSet(f, S \cup T) = SumFunctionOnSet(f, S) + SumFunctionOnSet(f, T)
<1> DEFINE Sum(X) == SumFunctionOnSet(f, X)
           A == {U \in SUBSET T : Sum(S \cup U) = Sum(S) + Sum(U)}
<1>0. IsFiniteSet(S) /\ IsFiniteSet(T) /\ NumbersOn(f, S) /\ NumbersOn(f, T)
  BY FS_Subset DEF NumbersOn
<1>1. {} \in A
  <2>1. Sum({}) = 0 /\ Sum(S) \in Int
    BY <1>0, SumEmpty, SumType
  <2>2. S \cup {} = S
    OBVIOUS
  <2> HIDE DEF Sum
  <2>3. Sum(S \cup {}) = Sum(S) + Sum({})
    BY <2>1, <2>2
  <2>4. QED BY <2>3
<1>2. ASSUME NEW U \in SUBSET T, NEW x \in T \ U, U \in A PROVE U \cup {x} \in A
  <2>1. NumbersOn(f, U \cup {x}) /\ x \notin U
    BY FS_Subset DEF NumbersOn
  <2>2. Sum(U \cup {x}) = f[x] + Sum(U) /\ Sum(U) \in Int /\ f[x] \in Int
    BY <2>1, SumOfAdded
  <2>3. NumbersOn(f, (S \cup U) \cup {x}) /\ x \notin S \cup U
    BY FS_Subset DEF NumbersOn
  <2>4. Sum((S \cup U) \cup {x}) = f[x] + Sum(S \cup U)
    BY <2>3, SumOfAdded
  <2>5. Sum(S) \in Int
    BY <1>0, SumType
  <2>6. Sum(S \cup U) = Sum(S) + Sum(U)
    BY <1>2
  <2>7. (S \cup U) \cup {x} = S \cup (U \cup {x})
    OBVIOUS
  <2> HIDE DEF Sum
  <2>8. Sum(S \cup (U \cup {x})) = f[x] + (Sum(S) + Sum(U))
    BY <2>4, <2>6, <2>7
  <2>9. Sum(S) + Sum(U \cup {x}) = f[x] + (Sum(S) + Sum(U))
    BY <2>2, <2>5
  <2>10. QED BY <2>8, <2>9
<1>3. T \in A
  <2> HIDE DEF A
  <2>1. QED BY <1>0, <1>1, <1>2, EverySubset
<1>4. QED BY <1>3

(* Numbers that are all the same, and those that are all 1.                *)
LEMMA SumOfOnes ==
    ASSUME NEW S, IsFiniteSet(S), NEW f, \A x \in S : f[x] = 1
    PROVE  SumFunctionOnSet(f, S) = Cardinality(S)
<1> DEFINE A == {T \in SUBSET S : SumFunctionOnSet(f, T) = Cardinality(T)}
<1>1. {} \in A
  BY SumEmpty, FS_EmptySet
<1>2. ASSUME NEW T \in SUBSET S, NEW x \in S \ T, T \in A PROVE T \cup {x} \in A
  <2>1. IsFiniteSet(T) /\ x \notin T /\ Cardinality(T) \in Nat
    BY FS_Subset, FS_CardinalityType
  <2>2. Cardinality(T \cup {x}) = Cardinality(T) + 1
    BY <2>1, FS_AddElement
  <2>3. NumbersOn(f, T \cup {x})
    BY <2>1, FS_AddElement DEF NumbersOn
  <2>4. SumFunctionOnSet(f, T \cup {x}) = f[x] + SumFunctionOnSet(f, T)
    BY <2>1, <2>3, SumOfAdded
  <2>5. QED BY <1>2, <2>1, <2>2, <2>4
<1>3. S \in A
  <2> HIDE DEF A
  <2>1. QED BY <1>1, <1>2, EverySubset
<1>4. QED BY <1>3

LEMMA SumOfZeros ==
    ASSUME NEW S, IsFiniteSet(S), NEW f, \A x \in S : f[x] = 0
    PROVE  SumFunctionOnSet(f, S) = 0
<1> DEFINE A == {T \in SUBSET S : SumFunctionOnSet(f, T) = 0}
<1>1. {} \in A
  BY SumEmpty
<1>2. ASSUME NEW T \in SUBSET S, NEW x \in S \ T, T \in A PROVE T \cup {x} \in A
  <2>1. IsFiniteSet(T) /\ x \notin T
    BY FS_Subset
  <2>2. NumbersOn(f, T \cup {x})
    BY <2>1, FS_AddElement DEF NumbersOn
  <2>3. SumFunctionOnSet(f, T \cup {x}) = f[x] + SumFunctionOnSet(f, T)
    BY <2>1, <2>2, SumOfAdded
  <2>4. QED BY <1>2, <2>3
<1>3. S \in A
  <2> HIDE DEF A
  <2>1. QED BY <1>1, <1>2, EverySubset
<1>4. QED BY <1>3

(* A sum over parts that have nothing in common, part by part: parts[k] is *)
(* the part of k, and share[k] the sum over it.                            *)
InParts(f, whole, K, parts, share) ==
    /\ IsFiniteSet(K)
    /\ \A k \in K : NumbersOn(f, parts[k]) /\ share[k] = SumFunctionOnSet(f, parts[k])
    /\ \A k, l \in K : k # l => parts[k] \cap parts[l] = {}
    /\ \A x : x \in whole <=> \E k \in K : x \in parts[k]

LEMMA SumOfParts ==
    ASSUME NEW f, NEW whole, NEW K, NEW parts, NEW share, InParts(f, whole, K, parts, share)
    PROVE  SumFunctionOnSet(share, K) = SumFunctionOnSet(f, whole) /\ NumbersOn(f, whole)
<1> USE DEF InParts
<1> DEFINE All(L) == UNION {parts[k] : k \in L}
           A == {L \in SUBSET K : /\ NumbersOn(f, All(L))
                                  /\ SumFunctionOnSet(share, L) = SumFunctionOnSet(f, All(L))}
<1>0. \A k \in K : share[k] \in Int
  BY SumType
<1>1. {} \in A
  <2>1. All({}) = {}
    OBVIOUS
  <2>2. NumbersOn(f, {})
    BY FS_EmptySet DEF NumbersOn
  <2> HIDE DEF All
  <2>3. QED BY <2>1, <2>2, SumEmpty
<1>2. ASSUME NEW L \in SUBSET K, NEW x \in K \ L, L \in A PROVE L \cup {x} \in A
  <2>1. All(L \cup {x}) = All(L) \cup parts[x] /\ All(L) \cap parts[x] = {}
    OBVIOUS
  <2> HIDE DEF All
  <2>2. NumbersOn(f, All(L) \cup parts[x])
    <3>1. IsFiniteSet(All(L)) /\ IsFiniteSet(parts[x])
      BY <1>2 DEF NumbersOn
    <3>2. IsFiniteSet(All(L) \cup parts[x])
      BY <3>1, FS_Union
    <3>3. QED BY <1>2, <3>2 DEF NumbersOn
  <2>3. SumFunctionOnSet(f, All(L) \cup parts[x]) = SumFunctionOnSet(f, All(L)) + share[x]
    BY <2>1, <2>2, SumOfUnion
  <2>4. IsFiniteSet(L) /\ x \notin L
    BY FS_Subset
  <2>5. NumbersOn(share, L \cup {x})
    BY <1>0, <2>4, FS_AddElement DEF NumbersOn
  <2>6. /\ SumFunctionOnSet(share, L \cup {x}) = share[x] + SumFunctionOnSet(share, L)
        /\ SumFunctionOnSet(share, L) \in Int /\ share[x] \in Int
    BY <2>4, <2>5, SumOfAdded
  <2>7. NumbersOn(f, All(L \cup {x})) /\ SumFunctionOnSet(f, All(L \cup {x})) = SumFunctionOnSet(f, All(L)) + share[x]
    BY <2>1, <2>2, <2>3, Zenon
  <2>8. SumFunctionOnSet(share, L \cup {x}) = SumFunctionOnSet(f, All(L)) + share[x]
    <3>1. SumFunctionOnSet(share, L) = SumFunctionOnSet(f, All(L))
      BY <1>2
    <3>2. QED BY <2>6, <3>1
  <2>9. SumFunctionOnSet(share, L \cup {x}) = SumFunctionOnSet(f, All(L \cup {x}))
    BY <2>7, <2>8, Zenon
  <2>10. L \cup {x} \in SUBSET K
    OBVIOUS
  <2>11. QED BY <2>7, <2>9, <2>10
<1>3. K \in A
  <2> HIDE DEF A
  <2>1. QED BY <1>1, <1>2, EverySubset
<1>4. All(K) = whole
  OBVIOUS
<1>5. QED BY <1>3, <1>4

(* The same of how many the parts and the whole have.                      *)
SizedParts(whole, K, parts, share) ==
    /\ IsFiniteSet(K)
    /\ \A k \in K : IsFiniteSet(parts[k]) /\ share[k] = Cardinality(parts[k])
    /\ \A k, l \in K : k # l => parts[k] \cap parts[l] = {}
    /\ \A x : x \in whole <=> \E k \in K : x \in parts[k]

LEMMA SizeOfParts ==
    ASSUME NEW whole, NEW K, NEW parts, NEW share, SizedParts(whole, K, parts, share)
    PROVE  SumFunctionOnSet(share, K) = Cardinality(whole) /\ IsFiniteSet(whole)
<1> DEFINE f == [x \in whole |-> 1]
<1>1. \A x \in whole : f[x] = 1
  OBVIOUS
<1> HIDE DEF f
<1>2. ASSUME NEW k \in K
      PROVE  NumbersOn(f, parts[k]) /\ share[k] = SumFunctionOnSet(f, parts[k])
  <2>1. IsFiniteSet(parts[k]) /\ share[k] = Cardinality(parts[k])
    BY DEF SizedParts
  <2>2. \A x \in parts[k] : x \in whole
    BY DEF SizedParts
  <2>3. \A x \in parts[k] : f[x] = 1
    BY <1>1, <2>2
  <2>4. NumbersOn(f, parts[k])
    BY <2>1, <2>3 DEF NumbersOn
  <2>5. SumFunctionOnSet(f, parts[k]) = Cardinality(parts[k])
    BY <2>1, <2>3, SumOfOnes
  <2>6. QED BY <2>1, <2>4, <2>5
<1>3. InParts(f, whole, K, parts, share)
  BY <1>2 DEF InParts, SizedParts
<1>4. SumFunctionOnSet(share, K) = SumFunctionOnSet(f, whole) /\ NumbersOn(f, whole)
  BY <1>3, SumOfParts
<1>5. IsFiniteSet(whole)
  BY <1>4 DEF NumbersOn
<1>6. SumFunctionOnSet(f, whole) = Cardinality(whole)
  BY <1>1, <1>5, SumOfOnes
<1>7. QED BY <1>4, <1>5, <1>6

(* The numbers from a to before b.                                         *)
LEMMA SizeOfInterval ==
    ASSUME NEW a \in Int, NEW b \in Int, a <= b
    PROVE  IsFiniteSet(a .. b - 1) /\ Cardinality(a .. b - 1) = b - a
<1>1. b - 1 \in Int
  OBVIOUS
<1>2. IsFiniteSet(a .. b - 1)
      /\ Cardinality(a .. b - 1) = IF a > b - 1 THEN 0 ELSE (b - 1) - a + 1
  BY <1>1, FS_Interval
<1>3. QED BY <1>2

-----------------------------------------------------------------------------
(***************************************************************************)
(* The least and the greatest of finitely many numbers.                    *)
(***************************************************************************)
LEMMA MaxIsThere ==
    ASSUME NEW S \in SUBSET Int, IsFiniteSet(S), S # {}
    PROVE  Max(S) \in S /\ \A y \in S : y <= Max(S)
<1> DEFINE A == {T \in SUBSET S : T = {} \/ \E x \in T : \A y \in T : x >= y}
<1>1. {} \in A
  OBVIOUS
<1>2. ASSUME NEW T \in SUBSET S, NEW z \in S \ T, T \in A PROVE T \cup {z} \in A
  <2>1. CASE T = {}
    BY <2>1
  <2>2. CASE T # {}
    <3>1. PICK x \in T : \A y \in T : x >= y
      BY <1>2, <2>2
    <3>2. CASE x >= z
      BY <3>1, <3>2
    <3>3. CASE z > x
      <4>1. \A y \in T \cup {z} : z >= y
        BY <3>1, <3>3
      <4>2. QED BY <4>1
    <3>4. QED BY <3>2, <3>3
  <2>3. QED BY <2>1, <2>2
<1>3. S \in A
  <2> HIDE DEF A
  <2>1. QED BY <1>1, <1>2, EverySubset
<1>4. \E x \in S : \A y \in S : x >= y
  BY <1>3
<1>5. Max(S) \in S /\ \A y \in S : Max(S) >= y
  BY <1>4 DEF Max
<1>6. QED BY <1>5

LEMMA MinIsThere ==
    ASSUME NEW S \in SUBSET Int, IsFiniteSet(S), S # {}
    PROVE  Min(S) \in S /\ \A y \in S : Min(S) <= y
<1> DEFINE A == {T \in SUBSET S : T = {} \/ \E x \in T : \A y \in T : x <= y}
<1>1. {} \in A
  OBVIOUS
<1>2. ASSUME NEW T \in SUBSET S, NEW z \in S \ T, T \in A PROVE T \cup {z} \in A
  <2>1. CASE T = {}
    BY <2>1
  <2>2. CASE T # {}
    <3>1. PICK x \in T : \A y \in T : x <= y
      BY <1>2, <2>2
    <3>2. CASE x <= z
      BY <3>1, <3>2
    <3>3. CASE z < x
      <4>1. \A y \in T \cup {z} : z <= y
        BY <3>1, <3>3
      <4>2. QED BY <4>1
    <3>4. QED BY <3>2, <3>3
  <2>3. QED BY <2>1, <2>2
<1>3. S \in A
  <2> HIDE DEF A
  <2>1. QED BY <1>1, <1>2, EverySubset
<1>4. \E x \in S : \A y \in S : x <= y
  BY <1>3
<1>5. QED BY <1>4 DEF Min

(* ... of two numbers.                                                     *)
LEMMA PairIsFinite == ASSUME NEW a, NEW b PROVE IsFiniteSet({a, b})
<1>1. IsFiniteSet({a}) /\ IsFiniteSet({b})
  BY FS_Singleton
<1>2. IsFiniteSet({a} \cup {b})
  BY <1>1, FS_Union
<1>3. {a} \cup {b} = {a, b}
  OBVIOUS
<1>4. QED BY <1>2, <1>3

LEMMA GreaterOfTwo ==
    ASSUME NEW a \in Int, NEW b \in Int
    PROVE  Max({a, b}) = IF a >= b THEN a ELSE b
<1>1. IsFiniteSet({a, b})
  BY PairIsFinite
<1>2. Max({a, b}) \in {a, b} /\ \A y \in {a, b} : y <= Max({a, b})
  BY <1>1, MaxIsThere
<1>3. QED BY <1>2

LEMMA LesserOfTwo ==
    ASSUME NEW a \in Int, NEW b \in Int
    PROVE  Min({a, b}) = IF a <= b THEN a ELSE b
<1>1. IsFiniteSet({a, b})
  BY PairIsFinite
<1>2. Min({a, b}) \in {a, b} /\ \A y \in {a, b} : Min({a, b}) <= y
  BY <1>1, MinIsThere
<1>3. QED BY <1>2

(* Of the positions in a list, and of the numbers that stand at them.      *)
LEMMA PositionsHaveEnds ==
    ASSUME NEW n \in Nat, NEW P \in SUBSET (1 .. n), P # {}
    PROVE  /\ Min(P) \in P /\ \A i \in P : Min(P) <= i
           /\ Max(P) \in P /\ \A i \in P : i <= Max(P)
<1>1. IsFiniteSet(1 .. n)
  BY FS_Interval
<1>2. IsFiniteSet(P)
  BY <1>1, FS_Subset
<1>3. P \in SUBSET Int
  OBVIOUS
<1>4. QED BY <1>2, <1>3, MaxIsThere, MinIsThere

-----------------------------------------------------------------------------
(***************************************************************************)
(* Filtered: the positions of the kept rows in their order.                *)
(***************************************************************************)
(* Positions in a list are finitely many, and so are those before one.     *)
LEMMA Positions ==
    ASSUME NEW len \in Nat, NEW P \in SUBSET (1 .. len)
    PROVE  IsFiniteSet(P) /\ Cardinality(P) \in Nat
<1>1. IsFiniteSet(1 .. len)
  BY FS_Interval
<1>2. IsFiniteSet(P)
  BY <1>1, FS_Subset
<1>3. QED BY <1>2, FS_CardinalityType

(* Where the n-th of some positions is.                                    *)
LEMMA NthIsThere ==
    ASSUME NEW len \in Nat, NEW P \in SUBSET (1 .. len), NEW n \in 1 .. Cardinality(P)
    PROVE  NthOf(P, n) \in P /\ Cardinality({k \in P : k < NthOf(P, n)}) = n - 1
<1> DEFINE UpTo(k) == {i \in P : i <= k}
           size(k) == Cardinality(UpTo(k))
           Enough == {k \in 0 .. len : n <= size(k)}
<1>1. \A k : UpTo(k) \in SUBSET P /\ UpTo(k) \in SUBSET (1 .. len)
  OBVIOUS
<1>2. Cardinality(P) \in Nat /\ n \in Nat /\ n >= 1 /\ n <= Cardinality(P)
  <2>1. Cardinality(P) \in Nat BY Positions
  <2>2. QED BY <2>1
<1>3. \A i \in P : i \in Int /\ i >= 1 /\ i <= len
  OBVIOUS
<1>4. UpTo(len) = P /\ UpTo(0) = {}
  <2>1. \A i \in P : i <= len BY <1>3
  <2>2. \A i \in P : ~(i <= 0) BY <1>3
  <2>3. UpTo(len) = P BY <2>1, Zenon
  <2>4. UpTo(0) = {} BY <2>2, Zenon
  <2>5. QED BY <2>3, <2>4
<1>5. ASSUME NEW k \in 1 .. len, k \notin P PROVE UpTo(k) = UpTo(k - 1)
  <2>1. \A i \in P : i <= k <=> i <= k - 1
    BY <1>3, <1>5
  <2>2. QED BY <2>1
<1>6. ASSUME NEW k \in 1 .. len, k \in P
      PROVE  /\ UpTo(k) = UpTo(k - 1) \cup {k} /\ k \notin UpTo(k - 1)
             /\ {i \in P : i < k} = UpTo(k - 1)
  <2>0. \A i \in P : i < k <=> i <= k - 1
    BY <1>3
  <2>1. \A i \in P : (i <= k) <=> (i <= k - 1 \/ i = k)
    BY <1>3
  <2>2. {i \in P : i < k} = UpTo(k - 1)
    BY <2>0, Zenon
  <2>3. k \notin UpTo(k - 1)
    <3>1. ~(k <= k - 1) OBVIOUS
    <3>2. QED BY <3>1, Zenon
  <2>4. UpTo(k) = UpTo(k - 1) \cup {k}
    <3>1. ASSUME NEW i PROVE i \in UpTo(k) <=> i \in UpTo(k - 1) \/ i = k
      <4>1. k <= k OBVIOUS
      <4>2. CASE i = k BY <4>1, <4>2, <1>6
      <4>3. CASE i # k
        <5>1. i \in P => (i <= k <=> i <= k - 1) BY <4>3, <2>1, Zenon
        <5>2. QED BY <5>1, <4>3, Zenon
      <4>4. QED BY <4>2, <4>3
    <3> HIDE DEF UpTo
    <3>2. QED BY <3>1, Zenon
  <2>5. QED BY <2>2, <2>3, <2>4
<1>7. \A k : IsFiniteSet(UpTo(k)) /\ size(k) \in Nat
  BY <1>1, Positions
<1> HIDE DEF UpTo
<1>8. size(0) = 0
  BY <1>4, FS_EmptySet
<1>9. ASSUME NEW k \in 1 .. len, k \in P PROVE size(k) = size(k - 1) + 1
  <2>1. UpTo(k) = UpTo(k - 1) \cup {k} /\ k \notin UpTo(k - 1) /\ IsFiniteSet(UpTo(k - 1))
    BY <1>6, <1>9, <1>7
  <2>2. QED BY <2>1, FS_AddElement
<1>10. len \in Enough
  BY <1>4, <1>2
<1>11. PICK k \in Enough : \A m \in Enough : k <= m
  <2>1. Enough \in SUBSET Nat
    OBVIOUS
  <2>2. Enough # {}
    BY <1>10
  <2> HIDE DEF Enough
  <2>3. QED BY <2>1, <2>2, LeastNumber
<1>12. k \in 1 .. len /\ n <= size(k)
  BY <1>8, <1>2, <1>11
<1>13. size(k - 1) < n
  <2>1. k - 1 \in 0 .. len /\ k - 1 \notin Enough
    BY <1>11, <1>12
  <2>2. ~(n <= size(k - 1))
    BY <2>1
  <2>3. size(k - 1) \in Nat
    BY <1>7
  <2> HIDE DEF size
  <2>4. QED BY <2>2, <2>3, <1>2
<1>14. k \in P
  <2>1. SUFFICES ASSUME k \notin P PROVE FALSE
    OBVIOUS
  <2>2. size(k) = size(k - 1)
    BY <2>1, <1>5, <1>12
  <2>3. size(k) \in Nat
    BY <1>7
  <2> HIDE DEF size
  <2>4. QED BY <2>2, <2>3, <1>12, <1>13, <1>2
<1>15. size(k - 1) = n - 1
  <2>1. size(k) = size(k - 1) + 1
    BY <1>9, <1>12, <1>14
  <2>2. size(k - 1) \in Nat
    BY <1>7
  <2> HIDE DEF size
  <2>3. QED BY <2>1, <2>2, <1>12, <1>13, <1>2
<1>16. Cardinality({i \in P : i < k}) = n - 1
  BY <1>6, <1>12, <1>14, <1>15
<1>17. QED BY <1>14, <1>16 DEF NthOf

(* Every position is the n-th for some n.                                  *)
LEMMA NthIsAll ==
    ASSUME NEW len \in Nat, NEW P \in SUBSET (1 .. len), NEW i \in P
    PROVE  \E n \in 1 .. Cardinality(P) : NthOf(P, n) = i
<1> DEFINE Before(k) == {j \in P : j < k}
           size(k) == Cardinality(Before(k))
           n == size(i) + 1
<1>1. \A k : Before(k) \in SUBSET P /\ IsFiniteSet(Before(k)) /\ size(k) \in Nat
  <2>1. \A k : Before(k) \in SUBSET P /\ Before(k) \in SUBSET (1 .. len)
    OBVIOUS
  <2>2. QED BY <2>1, Positions
<1>0. \A k \in P : k \in Int
  OBVIOUS
<1>2. \A k \in P : k \notin Before(k)
  BY <1>0
<1>3. \A j, k \in P : j < k => Before(j) \in SUBSET Before(k) /\ j \in Before(k)
  <2>1. \A h, j, k \in P : h < j /\ j < k => h < k
    BY <1>0
  <2>2. QED BY <2>1, Zenon
<1> HIDE DEF Before
<1>4. ASSUME NEW A, NEW B, IsFiniteSet(B), A \in SUBSET B, A # B
      PROVE  Cardinality(A) < Cardinality(B)
  <2>1. Cardinality(A) <= Cardinality(B) /\ Cardinality(A) # Cardinality(B)
    BY <1>4, FS_Subset
  <2>2. IsFiniteSet(A)
    BY <1>4, FS_Subset
  <2>3. Cardinality(A) \in Nat /\ Cardinality(B) \in Nat
    BY <1>4, <2>2, FS_CardinalityType
  <2>4. QED BY <2>1, <2>3
<1>5. size(i) < Cardinality(P)
  BY <1>1, <1>2, <1>4, Positions
<1>6. \A j, k \in P : j < k => size(j) < size(k)
  <2>1. SUFFICES ASSUME NEW j \in P, NEW k \in P, j < k PROVE size(j) < size(k)
    OBVIOUS
  <2>2. Before(j) \in SUBSET Before(k) /\ Before(j) # Before(k)
    BY <2>1, <1>3, <1>2
  <2>3. QED BY <2>2, <1>1, <1>4
<1>7. n \in 1 .. Cardinality(P)
  <2>1. size(i) \in Nat /\ Cardinality(P) \in Nat
    BY <1>1, Positions
  <2> HIDE DEF size
  <2>2. QED BY <2>1, <1>5
<1>8. NthOf(P, n) \in P /\ size(NthOf(P, n)) = n - 1
  <2>1. NthOf(P, n) \in P /\ Cardinality({k \in P : k < NthOf(P, n)}) = n - 1
    BY <1>7, NthIsThere
  <2>2. QED BY <2>1 DEF Before
<1>9. size(NthOf(P, n)) = size(i)
  <2>1. size(i) \in Nat BY <1>1
  <2> HIDE DEF size
  <2>2. QED BY <1>8, <2>1
<1>10. NthOf(P, n) = i
  <2>1. size(i) \in Nat BY <1>1
  <2>2. NthOf(P, n) \in Int /\ i \in Int BY <1>8, <1>0
  <2> HIDE DEF size, n
  <2>3. QED BY <1>6, <1>8, <1>9, <2>1, <2>2
<1>11. QED BY <1>7, <1>10

(* A filtered list is a list of the chosen rows: each of its places has    *)
(* one of its own in the list, and every place with a chosen row is kept.  *)
LEMMA FilteredRows ==
    ASSUME NEW S, NEW rows0 \in Seq(S), NEW chosen
    PROVE  LET kept == Filtered(rows0, chosen)
               at(n) == NthOf(KeptAt(rows0, chosen), n)
           IN  /\ kept \in Seq(S)
               /\ \A n \in DOMAIN kept : at(n) \in DOMAIN rows0 /\ rows0[at(n)] \in chosen /\ kept[n] = rows0[at(n)]
               /\ \A n, m \in DOMAIN kept : at(n) = at(m) => n = m
               /\ \A i \in DOMAIN rows0 : rows0[i] \in chosen => \E n \in DOMAIN kept : at(n) = i
<1> DEFINE P == KeptAt(rows0, chosen)
           kept == Filtered(rows0, chosen)
           at(n) == NthOf(P, n)
           N == Cardinality(P)
<1>1. P \in SUBSET (1 .. Len(rows0)) /\ Len(rows0) \in Nat /\ DOMAIN rows0 = 1 .. Len(rows0)
  BY DEF KeptAt
<1>2. N \in Nat
  BY <1>1, Positions
<1>3. kept = [n \in 1 .. N |-> rows0[at(n)]]
  BY DEF Filtered
<1>4. DOMAIN kept = 1 .. N /\ \A n \in 1 .. N : kept[n] = rows0[at(n)]
  BY <1>3
<1>5. \A n \in 1 .. N : at(n) \in P /\ Cardinality({k \in P : k < at(n)}) = n - 1
  BY <1>1, NthIsThere
<1>6. \A i \in P : \E n \in 1 .. N : at(n) = i
  BY <1>1, NthIsAll
<1>7. \A i : i \in P <=> i \in DOMAIN rows0 /\ rows0[i] \in chosen
  BY DEF KeptAt
<1> HIDE DEF P, at, N
<1>8. \A n \in 1 .. N : at(n) \in DOMAIN rows0 /\ rows0[at(n)] \in chosen
  BY <1>5, <1>7
<1>9. \A n \in 1 .. N : rows0[at(n)] \in S
  BY <1>8, <1>1
<1>10. kept \in Seq(S)
  BY <1>3, <1>9, <1>2
<1>11. \A n, m \in 1 .. N : at(n) = at(m) => n = m
  <2>1. SUFFICES ASSUME NEW n \in 1 .. N, NEW m \in 1 .. N, at(n) = at(m)
                 PROVE  n = m
    OBVIOUS
  <2>2. n - 1 = m - 1
    BY <1>5, <2>1
  <2>3. QED BY <2>2, <1>2
<1>12. /\ \A n \in DOMAIN kept : at(n) \in DOMAIN rows0 /\ rows0[at(n)] \in chosen /\ kept[n] = rows0[at(n)]
       /\ \A n, m \in DOMAIN kept : at(n) = at(m) => n = m
       /\ \A i \in DOMAIN rows0 : rows0[i] \in chosen => \E n \in DOMAIN kept : at(n) = i
  BY <1>4, <1>6, <1>7, <1>8, <1>11, Zenon
<1>13. QED BY <1>10, <1>12 DEF at, P

(* The rows of a filtered list are the chosen ones of the list.            *)
LEMMA FilteredSet ==
    ASSUME NEW S, NEW rows0 \in Seq(S), NEW chosen
    PROVE  /\ Filtered(rows0, chosen) \in Seq(S)
           /\ ToSet(Filtered(rows0, chosen)) = ToSet(rows0) \cap chosen
<1> DEFINE kept == Filtered(rows0, chosen)
           at(n) == NthOf(KeptAt(rows0, chosen), n)
<1>1. /\ kept \in Seq(S)
      /\ \A n \in DOMAIN kept : at(n) \in DOMAIN rows0 /\ rows0[at(n)] \in chosen /\ kept[n] = rows0[at(n)]
      /\ \A i \in DOMAIN rows0 : rows0[i] \in chosen => \E n \in DOMAIN kept : at(n) = i
  BY FilteredRows
<1> HIDE DEF kept, at
<1>2. ASSUME NEW r \in ToSet(kept) PROVE r \in ToSet(rows0) /\ r \in chosen
  BY <1>1, Zenon DEF ToSet
<1>3. ASSUME NEW r \in ToSet(rows0), r \in chosen PROVE r \in ToSet(kept)
  <2>1. PICK i \in DOMAIN rows0 : rows0[i] = r
    BY Zenon DEF ToSet
  <2>2. PICK n \in DOMAIN kept : at(n) = i
    BY <1>1, <1>3, <2>1
  <2>3. kept[n] = r
    BY <1>1, <2>1, <2>2
  <2>4. QED BY <2>3, Zenon DEF ToSet
<1>5. ToSet(kept) = ToSet(rows0) \cap chosen
  BY <1>2, <1>3, Zenon
<1>6. QED BY <1>1, <1>5 DEF kept

-----------------------------------------------------------------------------
(* A list that has grown by one.                                           *)
Extends(more, list, e) ==
           /\ DOMAIN list = 1 .. Len(list) /\ Len(list) \in Nat
           /\ DOMAIN more = 1 .. Len(list) + 1 /\ Len(more) = Len(list) + 1
           /\ more # <<>> /\ Last(more) = e /\ more[Len(list) + 1] = e
           /\ \A i \in 1 .. Len(list) : more[i] = list[i]
           /\ ToSet(more) = ToSet(list) \cup {e}
LEMMA Grown ==
    ASSUME NEW S, NEW list \in Seq(S), NEW e
    PROVE  Extends(Append(list, e), list, e) /\ (e \in S => Append(list, e) \in Seq(S))
<1> DEFINE n == Len(list)
           T == S \cup {e}
           more == Append(list, e)
<1>1. list \in Seq(T) /\ e \in T /\ n \in Nat /\ DOMAIN list = 1 .. n
  OBVIOUS
<1>2. /\ more \in Seq(T) /\ Len(more) = n + 1 /\ more[n + 1] = e
      /\ \A i \in 1 .. n : more[i] = list[i]
  BY <1>1, AppendProperties
<1> HIDE DEF more
<1>3. DOMAIN more = 1 .. n + 1 /\ more # <<>>
  BY <1>2
<1>4. Last(more) = e
  BY <1>2 DEF Last
<1>5. ToSet(more) = ToSet(list) \cup {e}
  <2>1. \A x : x \in ToSet(more) <=> \E i \in 1 .. n + 1 : x = more[i]
    BY <1>3 DEF ToSet
  <2>2. \A x : x \in ToSet(list) <=> \E i \in 1 .. n : x = list[i]
    BY <1>1 DEF ToSet
  <2>3. 1 .. n + 1 = (1 .. n) \cup {n + 1}
    BY <1>1
  <2> HIDE DEF n
  <2>4. QED BY <1>2, <2>1, <2>2, <2>3
<1>6. e \in S => more \in Seq(S)
  BY DEF more
<1>8. Extends(more, list, e)
  BY <1>1, <1>2, <1>3, <1>4, <1>5 DEF Extends
<1>7. QED BY <1>6, <1>8 DEF more
=============================================================================
