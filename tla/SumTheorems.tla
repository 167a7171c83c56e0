----------------------------- MODULE SumTheorems -----------------------------
(***************************************************************************)
(* Sums over finite sets, as the modules compute them: a fold that takes   *)
(* elements off in an order it chooses.  Neither the order nor the         *)
(* induction may be taken for granted, so the smallest subset of which a   *)
(* claim fails stands in for induction.                                    *)
(***************************************************************************)
EXTENDS Integers, FiniteSets, SequencesExt, FiniteSetTheorems, WellFoundedInduction, TLAPS

Total(b, S) == MapThenSumSet(LAMBDA x : b[x], S)

(* The fold's own table of the totals of the subsets of S.                 *)
Sums(b, S, g) ==
  g = [s \in SUBSET S |->
         IF s = {} THEN 0 ELSE b[CHOOSE x \in s : TRUE] + g[s \ {CHOOSE x \in s : TRUE}]]

(* Among subsets of a finite set there is a smallest.                      *)
LEMMA SmallestSet ==
  ASSUME NEW S, IsFiniteSet(S), NEW F, F \subseteq SUBSET S, F # {}
  PROVE  \E T \in F : \A U \in F : U \subseteq T => U = T
<1>1. IsWellFoundedOn(StrictSubsetOrdering(S), SUBSET S)
  BY FS_StrictSubsetOrderingWellFounded, FS_FiniteSubsetsOfFinite
<1>2. PICK T \in F : \A U \in F : ~ (<<U, T>> \in StrictSubsetOrdering(S))
  BY <1>1, WFMin
<1> QED
  BY <1>2 DEF StrictSubsetOrdering

LEMMA LeastOf ==
  ASSUME NEW T, T \subseteq Nat, T # {}
  PROVE  \E x \in T : \A y \in T : x <= y
<1> DEFINE R == OpToRel(<, Nat)
<1>1. PICK x \in T : \A y \in T : ~ (<<y, x>> \in R)
  BY NatLessThanWellFounded, WFMin
<1>2. ASSUME NEW y \in T PROVE x <= y
  <2>1. ~(y < x)
    BY <1>1, <1>2 DEF OpToRel
  <2> QED
    BY <2>1
<1> QED
  BY <1>2

(* What holds of the empty set and survives one more element holds of all. *)
LEMMA ElementByElement ==
  ASSUME NEW S, IsFiniteSet(S), NEW G, {} \in G,
         \A T \in SUBSET S : \A x \in S \ T : T \in G => T \cup {x} \in G
  PROVE  S \in G
<1> SUFFICES ASSUME S \notin G PROVE FALSE
  OBVIOUS
<1> DEFINE F == {T \in SUBSET S : T \notin G}
<1>1. F \subseteq SUBSET S /\ F # {}
  OBVIOUS
<1>2. PICK T \in F : \A U \in F : U \subseteq T => U = T
  <2> HIDE DEF F
  <2> QED
    BY <1>1, SmallestSet
<1>3. PICK x \in T : TRUE
  BY <1>2
<1>4. T \ {x} \in G /\ T \ {x} \in SUBSET S /\ x \in S \ (T \ {x})
  BY <1>2, <1>3
<1>5. (T \ {x}) \cup {x} = T
  BY <1>3
<1>6. T \in G
  BY <1>4, <1>5
<1> QED
  BY <1>2, <1>6

LEMMA SumsAgree ==
  ASSUME NEW b, NEW S, NEW T \in SUBSET S, IsFiniteSet(S), NEW g, NEW h, Sums(b, S, g), Sums(b, T, h)
  PROVE  \A s \in SUBSET T : g[s] = h[s]
<1> SUFFICES ASSUME ~ \A s \in SUBSET T : g[s] = h[s] PROVE FALSE
  OBVIOUS
<1> DEFINE F == {s \in SUBSET T : g[s] # h[s]}
<1>1. F \subseteq SUBSET S /\ F # {}
  OBVIOUS
<1>2. PICK s \in F : \A u \in F : u \subseteq s => u = s
  <2> HIDE DEF F
  <2> QED
    BY <1>1, SmallestSet
<1> DEFINE c == CHOOSE x \in s : TRUE
<1>3. /\ g[s] = IF s = {} THEN 0 ELSE b[c] + g[s \ {c}]
      /\ h[s] = IF s = {} THEN 0 ELSE b[c] + h[s \ {c}]
  <2>1. s \in SUBSET S /\ s \in SUBSET T
    BY <1>2
  <2> QED
    BY <2>1, Zenon DEF Sums
<1>4. s # {} => c \in s
  OBVIOUS
<1>5. s # {} => g[s \ {c}] = h[s \ {c}]
  BY <1>2, <1>4
<1> QED
  BY <1>2, <1>3, <1>5

LEMMA SumsExist ==
  ASSUME NEW b, NEW S, IsFiniteSet(S)
  PROVE  \E g : Sums(b, S, g)
<1> SUFFICES ASSUME ~ \E g : Sums(b, S, g) PROVE FALSE
  OBVIOUS
<1> DEFINE F == {T \in SUBSET S : ~ \E g : Sums(b, T, g)}
<1>1. F \subseteq SUBSET S /\ F # {}
  OBVIOUS
<1>2. PICK T \in F : \A U \in F : U \subseteq T => U = T
  <2> HIDE DEF F
  <2> QED
    BY <1>1, SmallestSet
<1> DEFINE of(s) == (CHOOSE h : Sums(b, s, h))[s]
           c(s) == CHOOSE x \in s : TRUE
           g == [s \in SUBSET T |-> IF s = {} THEN 0 ELSE b[c(s)] + of(s \ {c(s)})]
<1>3. \A s \in SUBSET T : s # T => Sums(b, s, CHOOSE h : Sums(b, s, h))
  <2> SUFFICES ASSUME NEW s \in SUBSET T, s # T PROVE \E h : Sums(b, s, h)
    OBVIOUS
  <2> QED
    BY <1>2
<1>4. ASSUME NEW s \in SUBSET T, s # T PROVE of(s) = g[s]
  <2> DEFINE h == CHOOSE f : Sums(b, s, f)
  <2>1. Sums(b, s, h)
    BY <1>3, <1>4
  <2>2. h[s] = IF s = {} THEN 0 ELSE b[c(s)] + h[s \ {c(s)}]
    <3> HIDE DEF h
    <3> QED
      BY <2>1, Zenon DEF Sums
  <2>3. ASSUME s # {} PROVE h[s \ {c(s)}] = of(s \ {c(s)})
    <3> DEFINE u == s \ {c(s)}
               k == CHOOSE f : Sums(b, u, f)
    <3>1. c(s) \in s
      BY <2>3
    <3>2. u \in SUBSET T /\ u # T /\ u \in SUBSET s
      BY <3>1
    <3>3. Sums(b, u, k)
      BY <1>3, <3>2
    <3>4. IsFiniteSet(s)
      BY <1>2, FS_Subset
    <3> HIDE DEF h, k, u
    <3>5. h[u] = k[u]
      BY <2>1, <3>2, <3>3, <3>4, SumsAgree
    <3> QED
      BY <3>5 DEF k, u
  <2>4. h[s] = g[s]
    BY <2>2, <2>3
  <2> QED
    BY <2>4
<1>5. Sums(b, T, g)
  <2>1. ASSUME NEW s \in SUBSET T, s # {} PROVE of(s \ {c(s)}) = g[s \ {c(s)}]
    <3>1. c(s) \in s
      BY <2>1
    <3>2. s \ {c(s)} \in SUBSET T /\ s \ {c(s)} # T
      BY <3>1
    <3> HIDE DEF of, g, c
    <3> QED
      BY <1>4, <3>2
  <2>2. /\ g = [s \in SUBSET T |-> g[s]]
        /\ \A s \in SUBSET T : g[s] = IF s = {} THEN 0 ELSE b[c(s)] + of(s \ {c(s)})
    OBVIOUS
  <2> HIDE DEF of, g
  <2>3. g = [s \in SUBSET T |-> IF s = {} THEN 0 ELSE b[c(s)] + g[s \ {c(s)}]]
    <3>1. \A s \in SUBSET T : g[s] = IF s = {} THEN 0 ELSE b[c(s)] + g[s \ {c(s)}]
      BY <2>1, <2>2
    <3> HIDE DEF c
    <3> QED
      BY <2>2, <3>1
  <2> QED
    BY <2>3 DEF Sums
<1> QED
  BY <1>2, <1>5

LEMMA TotalUnfolds ==
  ASSUME NEW b, NEW S, IsFiniteSet(S)
  PROVE  Total(b, S) = IF S = {} THEN 0
                       ELSE b[CHOOSE x \in S : TRUE] + Total(b, S \ {CHOOSE x \in S : TRUE})
<1> DEFINE c == CHOOSE x \in S : TRUE
           g == CHOOSE f : Sums(b, S, f)
           h == CHOOSE f : Sums(b, S \ {c}, f)
<1>1. Total(b, S) = g[S] /\ Total(b, S \ {c}) = h[S \ {c}]
  BY DEF Total, MapThenSumSet, MapThenFoldSet, Sums
<1>2. Sums(b, S, g) /\ Sums(b, S \ {c}, h)
  BY SumsExist, FS_Subset, S \ {c} \in SUBSET S
<1> HIDE DEF g, h
<1>3. g[S] = IF S = {} THEN 0 ELSE b[c] + g[S \ {c}]
  BY <1>2, Zenon DEF Sums
<1>4. g[S \ {c}] = h[S \ {c}]
  BY <1>2, SumsAgree
<1> QED
  BY <1>1, <1>3, <1>4

LEMMA TotalEmpty ==
  ASSUME NEW b
  PROVE  Total(b, {}) = 0
BY TotalUnfolds, FS_EmptySet

(* Any element may be taken off first.                                     *)
LEMMA TotalRemove ==
  ASSUME NEW b, NEW S, IsFiniteSet(S), \A x \in S : b[x] \in Int
  PROVE  Total(b, S) \in Int /\ \A x \in S : Total(b, S) = b[x] + Total(b, S \ {x})
<1> DEFINE Ok(T) == Total(b, T) \in Int /\ \A x \in T : Total(b, T) = b[x] + Total(b, T \ {x})
           F == {T \in SUBSET S : ~Ok(T)}
<1> SUFFICES ASSUME ~Ok(S) PROVE FALSE
  OBVIOUS
<1>1. F \subseteq SUBSET S /\ F # {}
  <2> HIDE DEF Ok
  <2> QED
    OBVIOUS
<1>2. PICK T \in F : \A U \in F : U \subseteq T => U = T
  <2> HIDE DEF F
  <2> QED
    BY <1>1, SmallestSet
<1>3. T \in SUBSET S /\ IsFiniteSet(T) /\ ~Ok(T)
  <2> HIDE DEF Ok
  <2> QED
    BY <1>2, FS_Subset
<1>4. \A U \in SUBSET T : U # T => Ok(U)
  <2> HIDE DEF Ok
  <2> QED
    BY <1>2
<1> DEFINE c == CHOOSE x \in T : TRUE
<1>5. T # {}
  <2>1. Ok({})
    BY TotalEmpty
  <2> HIDE DEF Ok
  <2> QED
    BY <1>3, <2>1
<1>6. c \in T /\ b[c] \in Int
  BY <1>3, <1>5
<1>7. Total(b, T) = b[c] + Total(b, T \ {c})
  BY <1>3, <1>5, TotalUnfolds
<1> HIDE DEF c
<1>8. Total(b, T \ {c}) \in Int /\ \A x \in T \ {c} : Total(b, T \ {c}) = b[x] + Total(b, (T \ {c}) \ {x})
  <2>1. T \ {c} \in SUBSET T /\ T \ {c} # T
    BY <1>6
  <2> QED
    BY <1>4, <2>1
<1>9. ASSUME NEW x \in T, x # c PROVE Total(b, T) = b[x] + Total(b, T \ {x})
  <2>1. T \ {x} \in SUBSET T /\ T \ {x} # T /\ c \in T \ {x}
    BY <1>6, <1>9
  <2>2. Total(b, T \ {x}) \in Int /\ Total(b, T \ {x}) = b[c] + Total(b, (T \ {x}) \ {c})
    BY <1>4, <2>1
  <2>3. (T \ {x}) \ {c} = (T \ {c}) \ {x}
    OBVIOUS
  <2>4. Total(b, T \ {c}) = b[x] + Total(b, (T \ {x}) \ {c})
    BY <1>8, <1>9, <2>3
  <2>5. Total(b, (T \ {x}) \ {c}) \in Int
    <3>1. (T \ {x}) \ {c} \in SUBSET T /\ (T \ {x}) \ {c} # T
      BY <1>6
    <3> QED
      BY <1>4, <3>1
  <2>6. b[x] \in Int
    BY <1>3, <1>9
  <2> QED
    BY <1>6, <1>7, <2>2, <2>4, <2>5, <2>6
<1>10. Ok(T)
  BY <1>6, <1>7, <1>8, <1>9
<1> HIDE DEF Ok
<1> QED
  BY <1>3, <1>10

LEMMA TotalAdd ==
  ASSUME NEW b, NEW S, IsFiniteSet(S), NEW x, x \notin S, \A y \in S \cup {x} : b[y] \in Int
  PROVE  Total(b, S \cup {x}) = Total(b, S) + b[x] /\ Total(b, S) \in Int
<1>1. IsFiniteSet(S \cup {x}) /\ (S \cup {x}) \ {x} = S
  BY FS_AddElement
<1>2. Total(b, S \cup {x}) = b[x] + Total(b, (S \cup {x}) \ {x})
  BY <1>1, TotalRemove
<1>3. Total(b, S) \in Int /\ b[x] \in Int
  BY TotalRemove
<1>4. Total(b, S \cup {x}) = b[x] + Total(b, S)
  BY <1>1, <1>2
<1> QED
  BY <1>3, <1>4

(* The total of a set is that of its parts.                                *)
LEMMA TotalUnion ==
  ASSUME NEW b, NEW A, NEW B, IsFiniteSet(A), IsFiniteSet(B), A \cap B = {},
         \A x \in A \cup B : b[x] \in Int
  PROVE  /\ Total(b, A \cup B) = Total(b, A) + Total(b, B)
         /\ Total(b, A) \in Int /\ Total(b, B) \in Int
<1> DEFINE G == {T \in SUBSET B : Total(b, A \cup T) = Total(b, A) + Total(b, T)}
<1>0. Total(b, A) \in Int /\ Total(b, B) \in Int
  BY TotalRemove
<1>1. {} \in G
  <2>1. A \cup {} = A
    OBVIOUS
  <2> QED
    BY <1>0, <2>1, TotalEmpty
<1>2. ASSUME NEW T \in SUBSET B, NEW x \in B \ T, T \in G PROVE T \cup {x} \in G
  <2>1. IsFiniteSet(T) /\ IsFiniteSet(A \cup T) /\ x \notin T /\ x \notin A \cup T
    BY <1>2, FS_Subset, FS_Union
  <2>2. Total(b, T \cup {x}) = Total(b, T) + b[x] /\ Total(b, T) \in Int
    BY <2>1, TotalAdd
  <2>3. Total(b, (A \cup T) \cup {x}) = Total(b, A \cup T) + b[x]
    BY <2>1, TotalAdd
  <2>4. (A \cup T) \cup {x} = A \cup (T \cup {x}) /\ b[x] \in Int /\ T \cup {x} \in SUBSET B
    OBVIOUS
  <2>5. Total(b, A \cup T) = Total(b, A) + Total(b, T)
    BY <1>2
  <2>6. Total(b, A \cup (T \cup {x})) = Total(b, A) + Total(b, T \cup {x})
    <3>1. Total(b, A \cup (T \cup {x})) = Total(b, A \cup T) + b[x]
      BY <2>3, <2>4, Zenon
    <3>2. b[x] \in Int
      BY <2>4
    <3> QED
      BY <1>0, <2>2, <2>5, <3>1, <3>2
  <2> QED
    BY <2>4, <2>6
<1> HIDE DEF G
<1>3. B \in G
  BY <1>1, <1>2, ElementByElement
<1> QED
  BY <1>0, <1>3 DEF G

(* Charges alike add up alike.                                             *)
LEMMA TotalSame ==
  ASSUME NEW b, NEW d, NEW S, IsFiniteSet(S), \A x \in S : b[x] \in Int /\ d[x] = b[x]
  PROVE  Total(d, S) = Total(b, S)
<1> DEFINE G == {T \in SUBSET S : Total(d, T) = Total(b, T)}
<1>1. {} \in G
  BY TotalEmpty
<1>2. ASSUME NEW T \in SUBSET S, NEW x \in S \ T, T \in G PROVE T \cup {x} \in G
  <2>1. IsFiniteSet(T)
    BY FS_Subset
  <2>2. Total(b, T \cup {x}) = Total(b, T) + b[x]
    BY <2>1, TotalAdd
  <2>3. Total(d, T \cup {x}) = Total(d, T) + d[x]
    BY <2>1, TotalAdd
  <2> QED
    BY <1>2, <2>2, <2>3
<1> HIDE DEF G
<1>3. S \in G
  BY <1>1, <1>2, ElementByElement
<1> QED
  BY <1>3 DEF G

LEMMA TotalNat ==
  ASSUME NEW b, NEW S, IsFiniteSet(S), \A x \in S : b[x] \in Nat
  PROVE  Total(b, S) \in Nat
<1> DEFINE G == {T \in SUBSET S : Total(b, T) \in Nat}
<1>1. {} \in G
  BY TotalEmpty
<1>2. ASSUME NEW T \in SUBSET S, NEW x \in S \ T, T \in G PROVE T \cup {x} \in G
  <2>1. IsFiniteSet(T)
    BY FS_Subset
  <2>2. Total(b, T \cup {x}) = Total(b, T) + b[x]
    BY <2>1, TotalAdd
  <2> QED
    BY <1>2, <2>2
<1> HIDE DEF G
<1>3. S \in G
  BY <1>1, <1>2, ElementByElement
<1> QED
  BY <1>3 DEF G

LEMMA TotalZero ==
  ASSUME NEW b, NEW S, IsFiniteSet(S), \A x \in S : b[x] = 0
  PROVE  Total(b, S) = 0
<1> DEFINE G == {T \in SUBSET S : Total(b, T) = 0}
<1>1. {} \in G
  BY TotalEmpty
<1>2. ASSUME NEW T \in SUBSET S, NEW x \in S \ T, T \in G PROVE T \cup {x} \in G
  <2>1. IsFiniteSet(T)
    BY FS_Subset
  <2>2. Total(b, T \cup {x}) = Total(b, T) + b[x]
    BY <2>1, TotalAdd
  <2> QED
    BY <1>2, <2>2
<1> HIDE DEF G
<1>3. S \in G
  BY <1>1, <1>2, ElementByElement
<1> QED
  BY <1>3 DEF G

LEMMA TotalPart ==
  ASSUME NEW b, NEW S, IsFiniteSet(S), NEW A \in SUBSET S, \A x \in S : b[x] \in Nat
  PROVE  /\ Total(b, S) = Total(b, A) + Total(b, S \ A)
         /\ Total(b, A) \in Nat /\ Total(b, S \ A) \in Nat /\ Total(b, S) \in Nat
         /\ Total(b, A) <= Total(b, S)
<1>1. IsFiniteSet(A) /\ IsFiniteSet(S \ A) /\ A \cap (S \ A) = {} /\ A \cup (S \ A) = S
  BY FS_Subset, S \ A \in SUBSET S
<1>2. Total(b, A \cup (S \ A)) = Total(b, A) + Total(b, S \ A)
  BY <1>1, TotalUnion
<1>3. Total(b, A) \in Nat /\ Total(b, S \ A) \in Nat /\ Total(b, S) \in Nat
  BY <1>1, TotalNat
<1> QED
  BY <1>1, <1>2, <1>3

(* As many elements as the parts have together.                           *)
LEMMA TotalOfParts ==
  ASSUME NEW S, IsFiniteSet(S), NEW part, NEW n,
         \A x \in S : IsFiniteSet(part[x]) /\ n[x] = Cardinality(part[x]),
         \A x, y \in S : x # y => part[x] \cap part[y] = {}
  PROVE  /\ IsFiniteSet(UNION {part[x] : x \in S})
         /\ Cardinality(UNION {part[x] : x \in S}) = Total(n, S)
<1> DEFINE Whole(T) == UNION {part[x] : x \in T}
           G == {T \in SUBSET S : IsFiniteSet(Whole(T)) /\ Cardinality(Whole(T)) = Total(n, T)}
<1>1. {} \in G
  BY TotalEmpty, FS_EmptySet, Whole({}) = {}
<1>2. ASSUME NEW T \in SUBSET S, NEW x \in S \ T, T \in G PROVE T \cup {x} \in G
  <2>1. IsFiniteSet(Whole(T)) /\ Cardinality(Whole(T)) = Total(n, T)
    BY <1>2
  <2>2. Whole(T \cup {x}) = Whole(T) \cup part[x] /\ Whole(T) \cap part[x] = {}
    OBVIOUS
  <2>3. IsFiniteSet(part[x]) /\ n[x] = Cardinality(part[x]) /\ IsFiniteSet(T)
    BY FS_Subset
  <2>4. \A y \in S : n[y] \in Int
    BY FS_CardinalityType
  <2>5. Total(n, T \cup {x}) = Total(n, T) + n[x] /\ Total(n, T) \in Int
    BY <2>3, <2>4, TotalAdd
  <2> HIDE DEF Whole
  <2>6. /\ IsFiniteSet(Whole(T) \cup part[x]) /\ Cardinality(Whole(T) \cap part[x]) = 0
        /\ Cardinality(Whole(T) \cup part[x])
             = Cardinality(Whole(T)) + Cardinality(part[x]) - Cardinality(Whole(T) \cap part[x])
    BY <2>1, <2>2, <2>3, FS_Union, FS_EmptySet
  <2>7. Cardinality(Whole(T \cup {x})) = Total(n, T \cup {x})
    <3>1. Cardinality(Whole(T)) \in Nat /\ Cardinality(part[x]) \in Nat
      BY <2>1, <2>3, FS_CardinalityType
    <3>2. Cardinality(Whole(T \cup {x})) = Cardinality(Whole(T)) + Cardinality(part[x])
      <4>1. Cardinality(Whole(T) \cup part[x]) = Cardinality(Whole(T)) + Cardinality(part[x])
        BY <2>6, <3>1
      <4> QED
        BY <2>2, <4>1, Zenon
    <3> QED
      BY <2>1, <2>3, <2>5, <3>1, <3>2
  <2> QED
    BY <2>2, <2>6, <2>7
<1> HIDE DEF G
<1>3. S \in G
  BY <1>1, <1>2, ElementByElement
<1> QED
  BY <1>3 DEF G

(* Sets that have no element in common.                                    *)
LEMMA ApartCount ==
  ASSUME NEW A, NEW B, IsFiniteSet(A), IsFiniteSet(B), A \cap B = {}
  PROVE  /\ IsFiniteSet(A \cup B) /\ Cardinality(A \cup B) = Cardinality(A) + Cardinality(B)
         /\ Cardinality(A) \in Nat /\ Cardinality(B) \in Nat
<1>1. Cardinality(A) \in Nat /\ Cardinality(B) \in Nat
  BY FS_CardinalityType
<1>2. /\ IsFiniteSet(A \cup B)
      /\ Cardinality(A \cup B) = Cardinality(A) + Cardinality(B) - Cardinality({})
  BY FS_Union
<1>3. Cardinality({}) = 0
  BY FS_EmptySet
<1> QED
  BY <1>1, <1>2, <1>3

(* The sum of a function is that over its domain.                          *)
LEMMA SumIsTotal ==
  ASSUME NEW b
  PROVE  SumFunction(b) = Total(b, DOMAIN b)
BY DEF SumFunction, SumFunctionOnSet, FoldFunctionOnSet, Total, MapThenSumSet

=============================================================================
