-------------------------------- MODULE Sums --------------------------------
(***************************************************************************)
(* Sums of a function over a finite set, as the community module Functions *)
(* defines them.  Every total the program keeps beside the records it is   *)
(* the total of is stated with one: supply, statistics, locks, volumes.    *)
(* The sum is a fold over an arbitrary order of the elements; here it is   *)
(* shown to exist, to be a number, and to follow from its parts whatever   *)
(* the order.  Induction is on a set first-order provers can be given: the *)
(* set of what satisfies the claim, or of its counterexamples.             *)
(***************************************************************************)
EXTENDS Integers, Sequences, FiniteSets, Functions, FiniteSetTheorems,
        WellFoundedInduction, TLAPS

\* A set of natural numbers that is not empty has a least element.
LEMMA LeastNat ==
  ASSUME NEW T, T \subseteq Nat, T # {}
  PROVE  \E n \in T : \A m \in T : n <= m
  <1> DEFINE R == OpToRel(<, Nat)
  <1>1. IsWellFoundedOn(R, Nat)
    BY NatLessThanWellFounded
  <1>2. PICK n \in T : \A m \in T : <<m, n>> \notin R
    BY <1>1, WFMin
  <1>3. ASSUME NEW m \in T PROVE n <= m
    <2>1. m \in Nat /\ n \in Nat
      OBVIOUS
    <2>2. ~(m < n)
      BY <1>2, <2>1 DEF OpToRel
    <2> QED
      BY <2>1, <2>2
  <1> QED
    BY <1>3

\* What holds of {}, and of a set as soon as it holds of the set without any
\* one of its elements, holds of every subset of a finite set; G is the set of
\* those it holds of.
LEMMA FiniteInduction ==
  ASSUME NEW S, IsFiniteSet(S), NEW G, {} \in G,
         \A s \in SUBSET S : s # {} /\ (\A x \in s : s \ {x} \in G) => s \in G
  PROVE  SUBSET S \subseteq G
  <1> DEFINE Bad == { s \in SUBSET S : s \notin G }
             Sizes == { Cardinality(s) : s \in Bad }
  <1> SUFFICES ASSUME Bad # {} PROVE FALSE
    OBVIOUS
  <1>1. \A s \in SUBSET S : IsFiniteSet(s) /\ Cardinality(s) \in Nat
    BY FS_Subset, FS_CardinalityType
  <1>2. Sizes \subseteq Nat /\ Sizes # {}
    BY <1>1
  <1>3. PICK n \in Sizes : \A m \in Sizes : n <= m
    BY <1>2, LeastNat
  <1>4. PICK s \in Bad : Cardinality(s) = n
    BY <1>3
  <1>5. ASSUME NEW x \in s PROVE s \ {x} \in G
    <2>1. s \ {x} \in SUBSET S
      OBVIOUS
    <2>2. Cardinality(s \ {x}) = Cardinality(s) - 1 /\ Cardinality(s) \in Nat
      BY <1>1, FS_RemoveElement
    <2>3. s \ {x} \notin Bad
      BY <1>3, <1>4, <2>2
    <2> QED
      BY <2>1, <2>3
  <1> QED
    BY <1>5

\* Subsets of S of at most n elements.
Small(S, n) == { s \in SUBSET S : Cardinality(s) <= n }

\* The element the fold takes next.
Pick(s) == CHOOSE x \in s : TRUE

\* g is a fold of f over the sets in D.
FoldedOn(g, f, D) ==
    g = [s \in D |-> IF s = {} THEN 0 ELSE f[Pick(s)] + g[s \ {Pick(s)}]]

\* There is something to pick.
LEMMA PickIn == ASSUME NEW s, s # {} PROVE Pick(s) \in s
  BY DEF Pick

\* The sum is the fold, a function that satisfies the equation of FoldedOn.
LEMMA SumIsFold == 
  ASSUME NEW f, NEW S
  PROVE SumFunctionOnSet(f, S) = (CHOOSE g : FoldedOn(g, f, SUBSET S))[S]
  BY DEF SumFunctionOnSet, FoldFunctionOnSet, MapThenFoldSet, FoldedOn, Pick

\* Taking the chosen element away leads to a smaller set.
LEMMA Smaller ==
  ASSUME NEW S, IsFiniteSet(S), NEW n \in Nat, NEW s \in Small(S, n + 1), s # {}
  PROVE  s \ {Pick(s)} \in Small(S, n)
  <1>1. s \in SUBSET S /\ Cardinality(s) <= n + 1
    BY DEF Small
  <1>2. IsFiniteSet(s)
    BY <1>1, FS_Subset
  <1>3. Cardinality(s \ {Pick(s)}) = Cardinality(s) - 1 /\ Cardinality(s) \in Nat
    BY <1>2, PickIn, FS_RemoveElement, FS_CardinalityType
  <1> QED
    BY <1>1, <1>3 DEF Small

\* A fold over the sets of n elements extends to those of one more.
LEMMA FoldStep ==
  ASSUME NEW f, NEW S, IsFiniteSet(S), NEW n \in Nat,
         NEW g, FoldedOn(g, f, Small(S, n))
  PROVE  \E h : FoldedOn(h, f, Small(S, n + 1))
  <1> DEFINE h == [s \in Small(S, n + 1) |->
                     IF s = {} THEN 0 ELSE f[Pick(s)] + g[s \ {Pick(s)}]]
  <1>1. Small(S, n) \subseteq Small(S, n + 1)
    <2>1. ASSUME NEW s \in Small(S, n) PROVE s \in Small(S, n + 1)
      <3>1. s \in SUBSET S /\ Cardinality(s) <= n
        BY DEF Small
      <3>2. Cardinality(s) \in Nat
        BY <3>1, FS_Subset, FS_CardinalityType
      <3> QED
        BY <3>1, <3>2 DEF Small
    <2> QED
      BY <2>1
  <1>2. \A s \in Small(S, n) : h[s] = g[s]
    BY <1>1 DEF FoldedOn
  <1>3. \A s \in Small(S, n + 1) :
           h[s] = IF s = {} THEN 0 ELSE f[Pick(s)] + h[s \ {Pick(s)}]
    BY <1>2, Smaller
  <1>4. h = [s \in Small(S, n + 1) |->
                IF s = {} THEN 0 ELSE f[Pick(s)] + h[s \ {Pick(s)}]]
    BY <1>3
  <1> QED
    BY <1>4 DEF FoldedOn

\* There is a fold over the empty set alone.
LEMMA FoldBase ==
  ASSUME NEW f, NEW S, IsFiniteSet(S)
  PROVE  \E h : FoldedOn(h, f, Small(S, 0))
  <1> DEFINE h == [s \in Small(S, 0) |-> 0]
  <1>1. ASSUME NEW s \in Small(S, 0) PROVE s = {}
    <2>1. IsFiniteSet(s) /\ Cardinality(s) <= 0
      BY FS_Subset DEF Small
    <2>2. Cardinality(s) = 0
      BY <2>1, FS_CardinalityType
    <2> QED
      BY <2>1, <2>2, FS_EmptySet
  <1>2. h = [s \in Small(S, 0) |-> IF s = {} THEN 0 ELSE f[Pick(s)] + h[s \ {Pick(s)}]]
    BY <1>1
  <1> QED
    BY <1>2 DEF FoldedOn

\* Induction on the bound, by its least counterexample.
LEMMA FoldsUpTo ==
  ASSUME NEW f, NEW S, IsFiniteSet(S)
  PROVE  \A n \in Nat : \E h : FoldedOn(h, f, Small(S, n))
  <1> DEFINE Bad == { n \in Nat : ~ \E h : FoldedOn(h, f, Small(S, n)) }
  <1> SUFFICES ASSUME Bad # {} PROVE FALSE
    OBVIOUS
  <1>1. PICK n \in Bad : \A m \in Bad : n <= m
    BY LeastNat
  <1>2. n # 0
    BY <1>1, FoldBase
  <1>3. n \in Nat /\ n - 1 \in Nat /\ n - 1 + 1 = n /\ n - 1 \notin Bad
    BY <1>1, <1>2
  <1>4. \E h : FoldedOn(h, f, Small(S, n - 1))
    BY <1>3
  <1>5. \E h : FoldedOn(h, f, Small(S, n - 1 + 1))
    BY <1>3, <1>4, FoldStep
  <1> QED
    BY <1>1, <1>3, <1>5

\* So the fold that CHOOSE names in the sum does exist.
LEMMA FoldExists ==
  ASSUME NEW f, NEW S, IsFiniteSet(S)
  PROVE  FoldedOn(CHOOSE g : FoldedOn(g, f, SUBSET S), f, SUBSET S)
  <1>1. Cardinality(S) \in Nat
    BY FS_CardinalityType
  <1>2. \A s \in SUBSET S : Cardinality(s) <= Cardinality(S)
    BY FS_Subset
  <1>3. Small(S, Cardinality(S)) = SUBSET S
    BY <1>2 DEF Small
  <1>4. \E h : FoldedOn(h, f, Small(S, Cardinality(S)))
    BY <1>1, FoldsUpTo
  <1>5. \E h : FoldedOn(h, f, SUBSET S)
    BY <1>3, <1>4
  <1> QED
    BY <1>5

\* Two folds of f agree wherever both are defined.
LEMMA FoldsAgree ==
  ASSUME NEW f, NEW S, NEW T, NEW g, NEW h, NEW U, IsFiniteSet(U),
         U \subseteq S, U \subseteq T,
         FoldedOn(g, f, SUBSET S), FoldedOn(h, f, SUBSET T)
  PROVE  g[U] = h[U]
  <1> DEFINE Bad == { n \in Nat : \E s \in SUBSET U : Cardinality(s) = n /\ g[s] # h[s] }
  <1> SUFFICES ASSUME Bad # {} PROVE FALSE
    BY FS_CardinalityType
  <1>1. PICK n \in Bad : \A m \in Bad : n <= m
    BY LeastNat
  <1>2. PICK s \in SUBSET U : Cardinality(s) = n /\ g[s] # h[s]
    BY <1>1
  <1>3. IsFiniteSet(s)
    BY FS_Subset
  <1>4. CASE s = {}
    BY <1>2, <1>4 DEF FoldedOn
  <1>5. CASE s # {}
    <2> DEFINE r == s \ {Pick(s)}
    <2>1. Cardinality(r) = n - 1 /\ Cardinality(r) \in Nat
      BY <1>2, <1>3, <1>5, PickIn, FS_RemoveElement, FS_CardinalityType, FS_Subset
    <2>2. r \in SUBSET U /\ n \in Nat
      BY <1>1
    <2>3. g[r] = h[r]
      BY <1>1, <2>1, <2>2
    <2>4. g[s] = f[Pick(s)] + g[r] /\ h[s] = f[Pick(s)] + h[r]
      BY <1>5 DEF FoldedOn
    <2> QED
      BY <1>2, <2>3, <2>4
  <1> QED
    BY <1>4, <1>5

-----------------------------------------------------------------------------
(* The sum of a function over a finite set.                                *)

\* Nothing adds up to zero: what every total starts from.
LEMMA SumEmpty == ASSUME NEW f PROVE SumFunctionOnSet(f, {}) = 0
  <1>1. IsFiniteSet({})
    BY FS_EmptySet
  <1> QED
    BY <1>1, SumIsFold, FoldExists DEF FoldedOn

\* The sum is the element the fold picks first and the sum of the others.
LEMMA SumPick ==
  ASSUME NEW f, NEW S, IsFiniteSet(S), S # {}
  PROVE  SumFunctionOnSet(f, S) = f[Pick(S)] + SumFunctionOnSet(f, S \ {Pick(S)})
  <1> DEFINE r == S \ {Pick(S)}
             g == CHOOSE k : FoldedOn(k, f, SUBSET S)
             h == CHOOSE k : FoldedOn(k, f, SUBSET r)
  <1>1. FoldedOn(g, f, SUBSET S)
    BY FoldExists
  <1>2. IsFiniteSet(r) /\ r \subseteq S /\ r \subseteq r
    BY FS_Subset
  <1>3. FoldedOn(h, f, SUBSET r)
    BY <1>2, FoldExists
  <1> HIDE DEF g, h, r
  <1>4. g[r] = h[r]
    BY <1>1, <1>2, <1>3, FoldsAgree
  <1>5. g[S] = f[Pick(S)] + g[r]
    BY <1>1 DEF FoldedOn, r
  <1>6. SumFunctionOnSet(f, S) = g[S] /\ SumFunctionOnSet(f, r) = h[r]
    BY SumIsFold DEF g, h, r
  <1> QED
    BY <1>4, <1>5, <1>6 DEF r

\* Functions that agree on a set have the same sum over it.
LEMMA SumSame ==
  ASSUME NEW f, NEW g, NEW S, IsFiniteSet(S), \A x \in S : f[x] = g[x]
  PROVE  SumFunctionOnSet(f, S) = SumFunctionOnSet(g, S)
  <1> DEFINE G == { s \in SUBSET S : SumFunctionOnSet(f, s) = SumFunctionOnSet(g, s) }
  <1>1. {} \in G
    BY SumEmpty
  <1>2. ASSUME NEW s \in SUBSET S, s # {}, \A x \in s : s \ {x} \in G
        PROVE  s \in G
    <2>1. Pick(s) \in s /\ IsFiniteSet(s)
      BY <1>2, PickIn, FS_Subset
    <2>2. f[Pick(s)] = g[Pick(s)] /\ s \ {Pick(s)} \in G
      BY <1>2, <2>1
    <2> QED
      BY <1>2, <2>1, <2>2, SumPick
  <1> HIDE DEF G
  <1>3. SUBSET S \subseteq G
    BY <1>1, <1>2, FiniteInduction
  <1> QED
    BY <1>3 DEF G

\* Integers add up to an integer.
LEMMA SumInt ==
  ASSUME NEW f, NEW S, IsFiniteSet(S), \A x \in S : f[x] \in Int
  PROVE  SumFunctionOnSet(f, S) \in Int
  <1> DEFINE G == { s \in SUBSET S : SumFunctionOnSet(f, s) \in Int }
  <1>1. {} \in G
    BY SumEmpty
  <1>2. ASSUME NEW s \in SUBSET S, s # {}, \A x \in s : s \ {x} \in G
        PROVE  s \in G
    <2>1. Pick(s) \in s /\ IsFiniteSet(s)
      BY <1>2, PickIn, FS_Subset
    <2>2. f[Pick(s)] \in Int /\ s \ {Pick(s)} \in G
      BY <1>2, <2>1
    <2> QED
      BY <1>2, <2>1, <2>2, SumPick
  <1> HIDE DEF G
  <1>3. SUBSET S \subseteq G
    BY <1>1, <1>2, FiniteInduction
  <1> QED
    BY <1>3 DEF G

\* The sum is any one element and the sum of the others.
LEMMA SumRemove ==
  ASSUME NEW f, NEW S, IsFiniteSet(S), \A x \in S : f[x] \in Int, NEW x \in S
  PROVE  SumFunctionOnSet(f, S) = f[x] + SumFunctionOnSet(f, S \ {x})
  <1> DEFINE G == { s \in SUBSET S : \A y \in s :
                      SumFunctionOnSet(f, s) = f[y] + SumFunctionOnSet(f, s \ {y}) }
  <1>1. {} \in G
    OBVIOUS
  <1>2. ASSUME NEW s \in SUBSET S, s # {}, \A y \in s : s \ {y} \in G, NEW y \in s
        PROVE  SumFunctionOnSet(f, s) = f[y] + SumFunctionOnSet(f, s \ {y})
    <2> DEFINE p == Pick(s)
               rest == (s \ {p}) \ {y}
    <2>1. p \in s /\ IsFiniteSet(s) /\ IsFiniteSet(rest)
      BY <1>2, PickIn, FS_Subset
    <2>2. SumFunctionOnSet(f, s) = f[p] + SumFunctionOnSet(f, s \ {p})
      BY <1>2, <2>1, SumPick
    <2>3. CASE y = p
      BY <2>2, <2>3
    <2>4. CASE y # p
      <3>1. SumFunctionOnSet(f, s \ {p}) = f[y] + SumFunctionOnSet(f, rest)
        BY <1>2, <2>1, <2>4
      <3>2. (s \ {y}) \ {p} = rest
        OBVIOUS
      <3>3. SumFunctionOnSet(f, s \ {y}) = f[p] + SumFunctionOnSet(f, rest)
        <4>1. p \in s \ {y} /\ s \ {y} \in G
          BY <1>2, <2>1, <2>4
        <4>2. SumFunctionOnSet(f, s \ {y}) = f[p] + SumFunctionOnSet(f, (s \ {y}) \ {p})
          BY <4>1
        <4> QED
          BY <3>2, <4>2
      <3>4. SumFunctionOnSet(f, rest) \in Int
        BY <2>1, SumInt
      <3>5. f[p] \in Int /\ f[y] \in Int
        BY <2>1
      <3> HIDE DEF p, rest
      <3> QED
        BY <2>2, <3>1, <3>3, <3>4, <3>5
    <2> QED
      BY <2>3, <2>4
  <1>3. \A s \in SUBSET S : s # {} /\ (\A y \in s : s \ {y} \in G) => s \in G
    BY <1>2
  <1> HIDE DEF G
  <1>4. SUBSET S \subseteq G
    BY <1>1, <1>3, FiniteInduction
  <1> QED
    BY <1>4 DEF G

\* One element more adds its value.
LEMMA SumAdd ==
  ASSUME NEW f, NEW S, IsFiniteSet(S), \A x \in S : f[x] \in Int,
         NEW x, x \notin S, f[x] \in Int
  PROVE  SumFunctionOnSet(f, S \cup {x}) = SumFunctionOnSet(f, S) + f[x]
  <1>1. IsFiniteSet(S \cup {x}) /\ (S \cup {x}) \ {x} = S
    BY FS_AddElement
  <1>2. SumFunctionOnSet(f, S \cup {x}) = f[x] + SumFunctionOnSet(f, S)
    <2>1. \A y \in S \cup {x} : f[y] \in Int
      OBVIOUS
    <2>2. SumFunctionOnSet(f, S \cup {x})
            = f[x] + SumFunctionOnSet(f, (S \cup {x}) \ {x})
      BY <1>1, <2>1, SumRemove
    <2> QED
      BY <1>1, <2>2
  <1>3. SumFunctionOnSet(f, S) \in Int
    BY SumInt
  <1> QED
    BY <1>2, <1>3

\* Changing the value of one element changes the sum by the difference.
LEMMA SumChange ==
  ASSUME NEW f, NEW g, NEW S, IsFiniteSet(S), NEW x \in S,
         \A y \in S : f[y] \in Int /\ g[y] \in Int,
         \A y \in S : y # x => g[y] = f[y]
  PROVE  SumFunctionOnSet(g, S) = SumFunctionOnSet(f, S) - f[x] + g[x]
  <1>1. IsFiniteSet(S \ {x})
    BY FS_Subset
  <1>2. SumFunctionOnSet(g, S \ {x}) = SumFunctionOnSet(f, S \ {x})
    BY <1>1, SumSame
  <1>3. /\ SumFunctionOnSet(f, S) = f[x] + SumFunctionOnSet(f, S \ {x})
        /\ SumFunctionOnSet(g, S) = g[x] + SumFunctionOnSet(g, S \ {x})
    BY SumRemove
  <1>4. SumFunctionOnSet(f, S \ {x}) \in Int
    BY <1>1, SumInt
  <1> QED
    BY <1>2, <1>3, <1>4

\* Natural numbers add up to a natural number.
LEMMA SumNat ==
  ASSUME NEW f, NEW S, IsFiniteSet(S), \A x \in S : f[x] \in Nat
  PROVE  SumFunctionOnSet(f, S) \in Nat
  <1> DEFINE G == { s \in SUBSET S : SumFunctionOnSet(f, s) \in Nat }
  <1>1. {} \in G
    BY SumEmpty
  <1>2. ASSUME NEW s \in SUBSET S, s # {}, \A x \in s : s \ {x} \in G
        PROVE  s \in G
    <2>1. Pick(s) \in s /\ IsFiniteSet(s)
      BY <1>2, PickIn, FS_Subset
    <2>2. f[Pick(s)] \in Nat /\ s \ {Pick(s)} \in G
      BY <1>2, <2>1
    <2> QED
      BY <1>2, <2>1, <2>2, SumPick
  <1> HIDE DEF G
  <1>3. SUBSET S \subseteq G
    BY <1>1, <1>2, FiniteInduction
  <1> QED
    BY <1>3 DEF G

\* Zeros add up to zero.
LEMMA SumZero ==
  ASSUME NEW f, NEW S, IsFiniteSet(S), \A x \in S : f[x] = 0
  PROVE  SumFunctionOnSet(f, S) = 0
  <1> DEFINE G == { s \in SUBSET S : SumFunctionOnSet(f, s) = 0 }
  <1>1. {} \in G
    BY SumEmpty
  <1>2. ASSUME NEW s \in SUBSET S, s # {}, \A x \in s : s \ {x} \in G
        PROVE  s \in G
    <2>1. Pick(s) \in s /\ IsFiniteSet(s)
      BY <1>2, PickIn, FS_Subset
    <2>2. f[Pick(s)] = 0 /\ s \ {Pick(s)} \in G
      BY <1>2, <2>1
    <2> QED
      BY <1>2, <2>1, <2>2, SumPick
  <1> HIDE DEF G
  <1>3. SUBSET S \subseteq G
    BY <1>1, <1>2, FiniteInduction
  <1> QED
    BY <1>3 DEF G

\* A new record adds its value to the total of the old ones, which stay what
\* they were.
LEMMA SumGrow ==
  ASSUME NEW f, NEW g, NEW S, IsFiniteSet(S), NEW x, x \notin S, g[x] \in Int,
         \A y \in S : f[y] \in Int /\ g[y] = f[y]
  PROVE  SumFunctionOnSet(g, S \cup {x}) = SumFunctionOnSet(f, S) + g[x]
  <1>1. SumFunctionOnSet(g, S) = SumFunctionOnSet(f, S)
    BY SumSame
  <1>2. \A y \in S : g[y] \in Int
    OBVIOUS
  <1>3. SumFunctionOnSet(g, S \cup {x}) = SumFunctionOnSet(g, S) + g[x]
    BY <1>2, SumAdd
  <1> QED
    BY <1>1, <1>3

\* A record that no longer counts takes its value out of the total.
LEMMA SumShrink ==
  ASSUME NEW f, NEW g, NEW S, IsFiniteSet(S), NEW x \in S, f[x] \in Int,
         \A y \in S \ {x} : f[y] \in Int /\ g[y] = f[y]
  PROVE  SumFunctionOnSet(g, S \ {x}) = SumFunctionOnSet(f, S) - f[x]
  <1>1. IsFiniteSet(S \ {x})
    BY FS_Subset
  <1>2. SumFunctionOnSet(g, S \ {x}) = SumFunctionOnSet(f, S \ {x})
    BY <1>1, SumSame
  <1>3. SumFunctionOnSet(f, S \ {x}) \in Int
    BY <1>1, SumInt
  <1>4. \A y \in S : f[y] \in Int
    OBVIOUS
  <1>5. SumFunctionOnSet(f, S) = f[x] + SumFunctionOnSet(f, S \ {x})
    BY <1>4, SumRemove
  <1> QED
    BY <1>2, <1>3, <1>5

\* The total of a function whose domain gains an element.
LEMMA TotalGrow ==
  ASSUME NEW f, NEW g, NEW S, IsFiniteSet(S), NEW x, x \notin S, g[x] \in Int,
         DOMAIN f = S, DOMAIN g = S \cup {x},
         \A y \in S : f[y] \in Int /\ g[y] = f[y]
  PROVE  SumFunction(g) = SumFunction(f) + g[x]
  BY SumGrow DEF SumFunction

\* The indices of a sequence, and those of one that is longer by one.
LEMMA Indices ==
  \A n \in Nat : /\ IsFiniteSet(1 .. n)
                 /\ 1 .. (n + 1) = (1 .. n) \cup {n + 1} /\ n + 1 \notin 1 .. n
  <1>1. \A m \in Nat : 1 .. (m + 1) = (1 .. m) \cup {m + 1} /\ m + 1 \notin 1 .. m
    OBVIOUS
  <1>2. \A m \in Nat : IsFiniteSet(1 .. m)
    BY FS_Interval
  <1> QED BY <1>1, <1>2

\* Two records change: the sum moves by what each of them does.
LEMMA SumChangeTwo ==
  ASSUME NEW f, NEW g, NEW S, IsFiniteSet(S), NEW a \in S, NEW b \in S, a # b,
         \A y \in S : f[y] \in Int /\ g[y] \in Int,
         \A y \in S : y # a /\ y # b => g[y] = f[y]
  PROVE  SumFunctionOnSet(g, S) = SumFunctionOnSet(f, S) - f[a] + g[a] - f[b] + g[b]
  <1>1. PICK h : h = [y \in S |-> IF y = a THEN g[a] ELSE f[y]]
    OBVIOUS
  <1>2. \A y \in S : h[y] \in Int
    BY <1>1
  <1>3. SumFunctionOnSet(h, S) = SumFunctionOnSet(f, S) - f[a] + h[a]
    <2>1. \A y \in S : y # a => h[y] = f[y]
      BY <1>1
    <2> QED
      BY <1>2, <2>1, SumChange
  <1>4. SumFunctionOnSet(g, S) = SumFunctionOnSet(h, S) - h[b] + g[b]
    <2>1. \A y \in S : y # b => g[y] = h[y]
      BY <1>1
    <2> QED
      BY <1>2, <2>1, SumChange
  <1>5. h[a] = g[a] /\ h[b] = f[b]
    BY <1>1
  <1>6. SumFunctionOnSet(f, S) \in Int /\ f[a] \in Int /\ g[a] \in Int
        /\ f[b] \in Int /\ g[b] \in Int
    BY SumInt
  <1> QED
    BY <1>3, <1>4, <1>5, <1>6

\* The sum over some of the elements is that over all of them of a function
\* which is zero elsewhere.
LEMMA SumWhere ==
  ASSUME NEW f, NEW g, NEW T, IsFiniteSet(T), NEW S \in SUBSET T,
         \A x \in S : f[x] \in Int, \A x \in T : g[x] = IF x \in S THEN f[x] ELSE 0
  PROVE  SumFunctionOnSet(f, S) = SumFunctionOnSet(g, T)
  <1> DEFINE G == { s \in SUBSET T :
                      SumFunctionOnSet(g, s) = SumFunctionOnSet(f, s \cap S) }
  <1>1. {} \in G
    <2>1. {} \cap S = {}
      OBVIOUS
    <2> QED
      BY <2>1, SumEmpty
  <1>2. ASSUME NEW s \in SUBSET T, s # {}, \A x \in s : s \ {x} \in G
        PROVE  SumFunctionOnSet(g, s) = SumFunctionOnSet(f, s \cap S)
    <2>1. PICK y : y = Pick(s)
      OBVIOUS
    <2>2. y \in s /\ IsFiniteSet(s) /\ IsFiniteSet(s \cap S)
      BY <1>2, <2>1, PickIn, FS_Subset
    <2>3. SumFunctionOnSet(g, s) = g[y] + SumFunctionOnSet(g, s \ {y})
      BY <1>2, <2>1, <2>2, SumPick
    <2>4. SumFunctionOnSet(g, s \ {y}) = SumFunctionOnSet(f, (s \ {y}) \cap S)
      BY <1>2, <2>2
    <2>5. CASE y \in S
      <3>1. (s \ {y}) \cap S = (s \cap S) \ {y}
        OBVIOUS
      <3>2. \A x \in s \cap S : f[x] \in Int
        OBVIOUS
      <3>3. y \in s \cap S
        BY <2>2, <2>5
      <3>4. SumFunctionOnSet(f, s \cap S)
               = f[y] + SumFunctionOnSet(f, (s \cap S) \ {y})
        BY <2>2, <3>2, <3>3, SumRemove
      <3>5. g[y] = f[y]
        BY <2>2, <2>5
      <3> QED
        BY <2>3, <2>4, <3>1, <3>4, <3>5
    <2>6. CASE y \notin S
      <3>1. (s \ {y}) \cap S = s \cap S
        BY <2>6
      <3>2. g[y] = 0
        BY <2>2, <2>6
      <3>3. SumFunctionOnSet(f, s \cap S) \in Int
        <4>1. \A x \in s \cap S : f[x] \in Int
          OBVIOUS
        <4> QED
          BY <2>2, <4>1, SumInt
      <3> QED
        BY <2>3, <2>4, <3>1, <3>2, <3>3
    <2> QED
      BY <2>5, <2>6
  <1>3. ASSUME NEW s \in SUBSET T, s # {}, \A x \in s : s \ {x} \in G
        PROVE  s \in G
    BY <1>2, <1>3
  <1> HIDE DEF G
  <1>4. SUBSET T \subseteq G
    BY <1>1, <1>3, FiniteInduction
  <1>5. T \cap S = S
    OBVIOUS
  <1> QED
    BY <1>4, <1>5 DEF G

=============================================================================
