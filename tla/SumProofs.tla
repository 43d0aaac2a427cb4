------------------------------ MODULE SumProofs ------------------------------
(***************************************************************************)
(* Facts about the two recursive definitions of Arithmetic, the sum over a  *)
(* finite set and the powers of two.  The induction they rest on is stated *)
(* with sets in place of predicates, and follows from the well-foundedness *)
(* of the natural numbers.                                                 *)
(***************************************************************************)
EXTENDS Arithmetic, FiniteSetTheorems, WellFoundedInduction, TLAPS

LEMMA Least ==
  ASSUME NEW T \in SUBSET Nat, T # {}
  PROVE  \E n \in T : \A m \in T : n <= m
<1> DEFINE R == {ss \in Nat \X Nat : ss[1] < ss[2]}
<1>1. IsWellFoundedOn(R, Nat)
  BY NatLessThanWellFounded DEF OpToRel
<1>2. \A m, n \in Nat : m < n => <<m, n>> \in R
  OBVIOUS
<1> HIDE DEF R
<1>3. PICK n \in T : \A m \in T : ~(<<m, n>> \in R)
  BY <1>1, WFMin
<1>4. ASSUME NEW m \in T PROVE n <= m
  <2>1. n \in Nat /\ m \in Nat /\ ~(m < n)
    BY <1>2, <1>3
  <2> QED BY <2>1
<1> QED BY <1>4

(* A set with 0 and the successors of its members has every number.        *)
LEMMA Inductive ==
  ASSUME NEW G, 0 \in G, \A n \in Nat : n \in G => n + 1 \in G
  PROVE  \A n \in Nat : n \in G
<1> SUFFICES ASSUME Nat \ G # {} PROVE FALSE
  OBVIOUS
<1>1. PICK n \in Nat \ G : \A m \in Nat \ G : n <= m
  <2>1. Nat \ G \in SUBSET Nat
    OBVIOUS
  <2> QED BY <2>1, Least
<1>2. n # 0 /\ n \in Nat
  OBVIOUS
<1>3. n - 1 \in Nat /\ (n - 1) + 1 = n /\ ~(n <= n - 1)
  BY <1>2
<1>4. n - 1 \in G
  BY <1>1, <1>3
<1> QED BY <1>3, <1>4

(* A family with the empty set that takes in one element after the other   *)
(* has every finite set.                                                   *)
LEMMA SetInductive ==
  ASSUME NEW S, IsFiniteSet(S), NEW G, {} \in G,
         \A T \in SUBSET S : \A x \in S \ T : T \in G => T \cup {x} \in G
  PROVE  S \in G
<1> DEFINE H == {n \in Nat : \A T \in SUBSET S : Cardinality(T) = n => T \in G}
<1>0. \A T \in SUBSET S : IsFiniteSet(T) /\ Cardinality(T) \in Nat
  BY FS_Subset, FS_CardinalityType
<1>1. 0 \in H
  BY <1>0, FS_EmptySet
<1>2. ASSUME NEW n \in Nat, n \in H PROVE n + 1 \in H
  <2> SUFFICES ASSUME NEW T \in SUBSET S, Cardinality(T) = n + 1 PROVE T \in G
    OBVIOUS
  <2>1. PICK x \in T : TRUE
    BY <1>0, FS_EmptySet
  <2>2. Cardinality(T \ {x}) = n
    <3>1. IsFiniteSet(T)
      BY <1>0
    <3>2. Cardinality(T \ {x}) = Cardinality(T) - 1
      BY <3>1, FS_RemoveElement
    <3> QED BY <3>2
  <2>3. T \ {x} \in G /\ x \in S \ (T \ {x}) /\ (T \ {x}) \cup {x} = T
    BY <1>2, <2>2
  <2> QED BY <2>3
<1> HIDE DEF H
<1>3. Cardinality(S) \in H
  BY <1>0, <1>1, <1>2, Inductive
<1> QED BY <1>3 DEF H

-----------------------------------------------------------------------------
(* The recursive function behind SumOver.                                  *)

Some(S) == CHOOSE x \in S : TRUE

SumUp(f, D, g) ==
  \A s \in D : g[s] = IF s = {} THEN 0 ELSE f[Some(s)] + g[s \ {Some(s)}]

LEMMA SomeType == ASSUME NEW S, S # {} PROVE Some(S) \in S
BY DEF Some

LEMMA SumUpExists ==
  ASSUME NEW S, IsFiniteSet(S), NEW f
  PROVE  \E g : g = [s \in SUBSET S |-> g[s]] /\ SumUp(f, SUBSET S, g)
<1> DEFINE D(n) == {s \in SUBSET S : Cardinality(s) <= n}
           H == {n \in Nat : \E g : g = [s \in D(n) |-> g[s]] /\ SumUp(f, D(n), g)}
<1>0. \A s \in SUBSET S : IsFiniteSet(s) /\ Cardinality(s) \in Nat
  BY FS_Subset, FS_CardinalityType
<1>1. \A s \in SUBSET S : s # {} =>
        /\ s \ {Some(s)} \in SUBSET S
        /\ Cardinality(s \ {Some(s)}) = Cardinality(s) - 1
  BY <1>0, SomeType, FS_RemoveElement
<1>2. 0 \in H
  <2> DEFINE g == [s \in D(0) |-> 0]
  <2>1. \A s \in D(0) : s = {}
    BY <1>0, FS_EmptySet
  <2>2. SumUp(f, D(0), g)
    BY <2>1 DEF SumUp
  <2>3. g = [s \in D(0) |-> g[s]]
    OBVIOUS
  <2> QED BY <2>2, <2>3
<1>3. ASSUME NEW n \in Nat, n \in H PROVE n + 1 \in H
  <2>1. PICK g : g = [s \in D(n) |-> g[s]] /\ SumUp(f, D(n), g)
    BY <1>3
  <2> DEFINE h == [s \in D(n + 1) |-> IF s \in D(n) THEN g[s] ELSE f[Some(s)] + g[s \ {Some(s)}]]
  <2>2. \A s \in D(n + 1) : s # {} => s \ {Some(s)} \in D(n)
    BY <1>0, <1>1
  <2>3. D(n) \subseteq D(n + 1) /\ {} \in D(n)
    BY <1>0, FS_EmptySet
  <2> HIDE DEF D
  <2>4. \A s \in D(n) : h[s] = g[s]
    BY <2>3
  <2>5. \A s \in D(n + 1) : s # {} => h[s] = f[Some(s)] + g[s \ {Some(s)}]
    BY <2>1 DEF SumUp
  <2>6. h[{}] = 0
    BY <2>1, <2>3, <2>4 DEF SumUp
  <2>7. h = [s \in D(n + 1) |-> h[s]]
    OBVIOUS
  <2> HIDE DEF h
  <2>8. SumUp(f, D(n + 1), h)
    BY <2>2, <2>4, <2>5, <2>6 DEF SumUp
  <2> QED BY <2>7, <2>8
<1>4. Cardinality(S) \in H /\ D(Cardinality(S)) = SUBSET S
  <2>1. D(Cardinality(S)) = SUBSET S
    BY <1>0, FS_Subset
  <2> HIDE DEF H, D
  <2> QED BY <1>0, <1>2, <1>3, <2>1, Inductive
<1> QED BY <1>4

LEMMA SumUpUnique ==
  ASSUME NEW S, IsFiniteSet(S), NEW T \in SUBSET S, NEW f, NEW g, NEW h,
         SumUp(f, SUBSET S, g), SumUp(f, SUBSET T, h)
  PROVE  \A s \in SUBSET T : g[s] = h[s]
<1> DEFINE H == {n \in Nat : \A s \in SUBSET T : Cardinality(s) = n => g[s] = h[s]}
<1>0. \A s \in SUBSET T : IsFiniteSet(s) /\ Cardinality(s) \in Nat
  BY FS_Subset, FS_CardinalityType
<1>1. 0 \in H
  BY <1>0, FS_EmptySet DEF SumUp
<1>2. ASSUME NEW n \in Nat, n \in H PROVE n + 1 \in H
  <2> SUFFICES ASSUME NEW s \in SUBSET T, Cardinality(s) = n + 1 PROVE g[s] = h[s]
    OBVIOUS
  <2>1. s # {} /\ Cardinality(s \ {Some(s)}) = n
    <3>1. IsFiniteSet(s) /\ s # {}
      BY <1>0, FS_EmptySet
    <3>2. Cardinality(s \ {Some(s)}) = Cardinality(s) - 1
      BY <3>1, SomeType, FS_RemoveElement
    <3> QED BY <3>1, <3>2
  <2>2. g[s \ {Some(s)}] = h[s \ {Some(s)}]
    BY <1>2, <2>1
  <2> QED BY <2>1, <2>2 DEF SumUp
<1> HIDE DEF H
<1>3. \A n \in Nat : n \in H
  BY <1>1, <1>2, Inductive
<1> QED BY <1>0, <1>3 DEF H

LEMMA SumOverIsSumUp ==
  ASSUME NEW S, IsFiniteSet(S), NEW f
  PROVE  \E g : SumUp(f, SUBSET S, g) /\ SumOver(f, S) = g[S]
<1> DEFINE Equation(g) ==
             g = [s \in SUBSET S |-> IF s = {} THEN 0 ELSE f[Some(s)] + g[s \ {Some(s)}]]
           iter == CHOOSE g : Equation(g)
<1>1. SumOver(f, S) = iter[S]
  BY DEF SumOver, MapThenSumSet, MapThenFoldSet, Some
<1>2. PICK g : g = [s \in SUBSET S |-> g[s]] /\ SumUp(f, SUBSET S, g)
  BY SumUpExists
<1>3. Equation(g)
  BY <1>2 DEF SumUp
<1>4. Equation(iter)
  <2> HIDE DEF Equation
  <2> QED BY <1>3
<1>5. SumUp(f, SUBSET S, iter)
  <2> HIDE DEF iter
  <2> QED BY <1>4 DEF SumUp
<1> QED BY <1>1, <1>5

LEMMA SumEmpty == ASSUME NEW f PROVE SumOver(f, {}) = 0
<1>1. IsFiniteSet({}) /\ {} \in SUBSET {}
  BY FS_EmptySet
<1> QED BY <1>1, SumOverIsSumUp DEF SumUp

LEMMA SumOfPart ==
  ASSUME NEW S, IsFiniteSet(S), NEW T \in SUBSET S, NEW f, NEW g, SumUp(f, SUBSET S, g)
  PROVE  SumOver(f, T) = g[T]
<1>1. IsFiniteSet(T)
  BY FS_Subset
<1>2. PICK h : SumUp(f, SUBSET T, h) /\ SumOver(f, T) = h[T]
  BY <1>1, SumOverIsSumUp
<1> QED BY <1>2, SumUpUnique

LEMMA SumSome ==
  ASSUME NEW S, IsFiniteSet(S), S # {}, NEW f
  PROVE  SumOver(f, S) = f[Some(S)] + SumOver(f, S \ {Some(S)})
<1>1. PICK g : SumUp(f, SUBSET S, g)
  BY SumUpExists
<1>2. SumOver(f, S) = g[S] /\ SumOver(f, S \ {Some(S)}) = g[S \ {Some(S)}]
  BY <1>1, SumOfPart
<1>3. S \in SUBSET S
  OBVIOUS
<1> QED BY <1>1, <1>2, <1>3 DEF SumUp

-----------------------------------------------------------------------------
(* What a sum of natural numbers obeys.                                    *)

LEMMA SumType ==
  ASSUME NEW S, IsFiniteSet(S), NEW f, \A x \in S : f[x] \in Nat
  PROVE  SumOver(f, S) \in Nat
<1> DEFINE H == {n \in Nat : \A T \in SUBSET S : Cardinality(T) = n => SumOver(f, T) \in Nat}
<1>0. \A T \in SUBSET S : IsFiniteSet(T) /\ Cardinality(T) \in Nat
  BY FS_Subset, FS_CardinalityType
<1>1. 0 \in H
  BY <1>0, FS_EmptySet, SumEmpty
<1>2. ASSUME NEW n \in Nat, n \in H PROVE n + 1 \in H
  <2> SUFFICES ASSUME NEW T \in SUBSET S, Cardinality(T) = n + 1 PROVE SumOver(f, T) \in Nat
    OBVIOUS
  <2>1. IsFiniteSet(T) /\ T # {}
    BY <1>0, FS_EmptySet
  <2>2. Cardinality(T \ {Some(T)}) = Cardinality(T) - 1 /\ Some(T) \in S
    BY <2>1, SomeType, FS_RemoveElement
  <2>3. SumOver(f, T \ {Some(T)}) \in Nat /\ f[Some(T)] \in Nat
    BY <1>2, <2>2
  <2> QED BY <2>1, <2>3, SumSome
<1> HIDE DEF H
<1>3. Cardinality(S) \in H
  BY <1>0, <1>1, <1>2, Inductive
<1> QED BY <1>3 DEF H

(* The order of the additions does not matter.                             *)
LEMMA SumRemove ==
  ASSUME NEW S, IsFiniteSet(S), NEW f, \A x \in S : f[x] \in Nat, NEW x \in S
  PROVE  SumOver(f, S) = f[x] + SumOver(f, S \ {x})
<1> DEFINE Splits(T) == \A y \in T : SumOver(f, T) = f[y] + SumOver(f, T \ {y})
           H == {n \in Nat : \A T \in SUBSET S : Cardinality(T) = n => Splits(T)}
<1>0. \A T \in SUBSET S : IsFiniteSet(T) /\ Cardinality(T) \in Nat /\ SumOver(f, T) \in Nat
  BY FS_Subset, FS_CardinalityType, SumType
<1>1. 0 \in H
  BY <1>0, FS_EmptySet
<1>2. ASSUME NEW n \in Nat, n \in H PROVE n + 1 \in H
  <2> SUFFICES ASSUME NEW T \in SUBSET S, Cardinality(T) = n + 1, NEW y \in T
               PROVE  SumOver(f, T) = f[y] + SumOver(f, T \ {y})
    OBVIOUS
  <2> DEFINE c == Some(T)
  <2>1. IsFiniteSet(T) /\ T # {} /\ c \in T
    BY <1>0, SomeType
  <2>2. SumOver(f, T) = f[c] + SumOver(f, T \ {c})
    BY <2>1, SumSome
  <2> HIDE DEF c
  <2>3. CASE y = c
    BY <2>2, <2>3
  <2>4. CASE y # c
    <3>1. Cardinality(T \ {c}) = n /\ Cardinality(T \ {y}) = n
      <4>1. Cardinality(T \ {c}) = Cardinality(T) - 1 /\ Cardinality(T \ {y}) = Cardinality(T) - 1
        BY <2>1, FS_RemoveElement
      <4> QED BY <4>1
    <3>2. Splits(T \ {c}) /\ Splits(T \ {y})
      BY <1>2, <3>1
    <3>3. /\ SumOver(f, T \ {c}) = f[y] + SumOver(f, (T \ {c}) \ {y})
          /\ SumOver(f, T \ {y}) = f[c] + SumOver(f, (T \ {y}) \ {c})
      BY <2>1, <2>4, <3>2
    <3>4. (T \ {c}) \ {y} = (T \ {y}) \ {c}
      OBVIOUS
    <3> DEFINE rest == SumOver(f, (T \ {y}) \ {c})
    <3>5. f[c] \in Nat /\ f[y] \in Nat /\ rest \in Nat
      BY <1>0, <2>1
    <3>6. SumOver(f, T) = f[c] + (f[y] + rest) /\ SumOver(f, T \ {y}) = f[c] + rest
      BY <2>2, <3>3, <3>4
    <3> HIDE DEF rest
    <3> QED BY <3>5, <3>6
  <2> QED BY <2>3, <2>4
<1> HIDE DEF H
<1>3. Cardinality(S) \in H
  BY <1>0, <1>1, <1>2, Inductive
<1> QED BY <1>3 DEF H

LEMMA SumAdd ==
  ASSUME NEW S, IsFiniteSet(S), NEW f, NEW x, x \notin S, \A y \in S \cup {x} : f[y] \in Nat
  PROVE  SumOver(f, S \cup {x}) = f[x] + SumOver(f, S)
<1>1. IsFiniteSet(S \cup {x}) /\ (S \cup {x}) \ {x} = S
  BY FS_AddElement
<1> QED BY <1>1, SumRemove

LEMMA SumSame ==
  ASSUME NEW S, IsFiniteSet(S), NEW f, NEW g, \A x \in S : f[x] \in Nat /\ g[x] = f[x]
  PROVE  SumOver(g, S) = SumOver(f, S)
<1> DEFINE G == {T \in SUBSET S : SumOver(g, T) = SumOver(f, T)}
<1>1. {} \in G
  BY SumEmpty
<1>2. ASSUME NEW T \in SUBSET S, NEW x \in S \ T, T \in G PROVE T \cup {x} \in G
  <2>1. IsFiniteSet(T)
    BY FS_Subset
  <2>2. /\ SumOver(f, T \cup {x}) = f[x] + SumOver(f, T)
        /\ SumOver(g, T \cup {x}) = g[x] + SumOver(g, T)
    BY <2>1, SumAdd
  <2> QED BY <1>2, <2>2
<1> HIDE DEF G
<1>3. S \in G
  BY <1>1, <1>2, SetInductive
<1> QED BY <1>3 DEF G

(* A term that changes makes the sum change by as much.                    *)
LEMMA SumChange ==
  ASSUME NEW S, IsFiniteSet(S), NEW f, NEW g, NEW c \in S,
         \A x \in S : f[x] \in Nat /\ g[x] \in Nat,
         \A x \in S : x # c => g[x] = f[x]
  PROVE  SumOver(g, S) + f[c] = SumOver(f, S) + g[c]
<1>1. IsFiniteSet(S \ {c})
  BY FS_Subset
<1>2. SumOver(g, S \ {c}) = SumOver(f, S \ {c}) /\ SumOver(f, S \ {c}) \in Nat
  BY <1>1, SumSame, SumType
<1>3. SumOver(f, S) = f[c] + SumOver(f, S \ {c})
  BY SumRemove
<1>4. SumOver(g, S) = g[c] + SumOver(g, S \ {c})
  BY SumRemove
<1>5. f[c] \in Nat /\ g[c] \in Nat
  OBVIOUS
<1> QED BY <1>2, <1>3, <1>4, <1>5

LEMMA SumDisjoint ==
  ASSUME NEW S, IsFiniteSet(S), NEW T, IsFiniteSet(T), S \cap T = {},
         NEW f, \A x \in S \cup T : f[x] \in Nat
  PROVE  SumOver(f, S \cup T) = SumOver(f, S) + SumOver(f, T)
<1> DEFINE G == {U \in SUBSET T : SumOver(f, S \cup U) = SumOver(f, S) + SumOver(f, U)}
<1>0. SumOver(f, S) \in Nat
  BY SumType
<1>1. {} \in G
  <2>1. S \cup {} = S
    OBVIOUS
  <2> QED BY <1>0, <2>1, SumEmpty
<1>2. ASSUME NEW U \in SUBSET T, NEW x \in T \ U, U \in G PROVE U \cup {x} \in G
  <2>1. IsFiniteSet(U) /\ IsFiniteSet(S \cup U) /\ S \cup (U \cup {x}) = (S \cup U) \cup {x}
    <3>1. IsFiniteSet(U)
      BY FS_Subset
    <3> QED BY <3>1, FS_Union
  <2>2. SumOver(f, (S \cup U) \cup {x}) = f[x] + SumOver(f, S \cup U)
    <3>1. x \notin S \cup U /\ \A y \in (S \cup U) \cup {x} : f[y] \in Nat
      OBVIOUS
    <3> QED BY <2>1, <3>1, SumAdd
  <2>3. SumOver(f, U \cup {x}) = f[x] + SumOver(f, U) /\ SumOver(f, U) \in Nat /\ f[x] \in Nat
    BY <2>1, SumAdd, SumType
  <2>4. SumOver(f, S \cup U) = SumOver(f, S) + SumOver(f, U)
    BY <1>2
  <2>5. SumOver(f, S \cup (U \cup {x})) = SumOver(f, S) + SumOver(f, U \cup {x})
    <3> DEFINE a == SumOver(f, S)
               b == SumOver(f, U)
    <3>1. SumOver(f, S \cup (U \cup {x})) = f[x] + (a + b)
      BY <2>1, <2>2, <2>4
    <3>2. a \in Nat /\ b \in Nat /\ f[x] \in Nat /\ SumOver(f, U \cup {x}) = f[x] + b
      BY <1>0, <2>3
    <3> HIDE DEF a, b
    <3>3. SumOver(f, S \cup (U \cup {x})) = a + SumOver(f, U \cup {x})
      BY <3>1, <3>2
    <3> QED BY <3>3 DEF a
  <2> QED BY <2>5
<1> HIDE DEF G
<1>3. T \in G
  BY <1>1, <1>2, SetInductive
<1> QED BY <1>3 DEF G

-----------------------------------------------------------------------------
(* Powers of two.                                                          *)

Doubles(g, n) == g[0] = 1 /\ \A i \in 1..n : g[i] = 2 * g[i - 1]

LEMMA DoublesExists ==
  ASSUME NEW n \in Nat PROVE \E g : Doubles(g, n) /\ \A i \in 0..n : g[i] \in Nat \ {0}
<1> DEFINE H == {k \in Nat : \E g : Doubles(g, k) /\ \A i \in 0..k : g[i] \in Nat \ {0}}
<1>1. 0 \in H
  <2> DEFINE g == [i \in {0} |-> 1]
  <2>1. Doubles(g, 0) /\ \A i \in 0..0 : g[i] \in Nat \ {0}
    BY DEF Doubles
  <2> QED BY <2>1
<1>2. ASSUME NEW k \in Nat, k \in H PROVE k + 1 \in H
  <2>1. PICK g : Doubles(g, k) /\ \A i \in 0..k : g[i] \in Nat \ {0}
    BY <1>2
  <2> DEFINE h == [i \in 0..(k + 1) |-> IF i <= k THEN g[i] ELSE 2 * g[k]]
  <2>2. \A i \in 0..k : h[i] = g[i]
    OBVIOUS
  <2>3. h[k + 1] = 2 * g[k] /\ g[k] \in Nat \ {0} /\ 0 \in 0..k
    BY <2>1
  <2> HIDE DEF h
  <2>4. ASSUME NEW i \in 1..(k + 1) PROVE h[i] = 2 * h[i - 1]
    <3>1. i - 1 \in 0..k /\ (i = k + 1 => i - 1 = k)
      OBVIOUS
    <3>2. CASE i = k + 1
      BY <2>2, <2>3, <3>1, <3>2
    <3>3. CASE i # k + 1
      <4>1. i \in 1..k /\ i \in 0..k
        BY <3>3
      <4> QED BY <2>1, <2>2, <3>1, <4>1 DEF Doubles
    <3> QED BY <3>2, <3>3
  <2>5. Doubles(h, k + 1)
    BY <2>1, <2>2, <2>3, <2>4 DEF Doubles
  <2>6. \A i \in 0..(k + 1) : h[i] \in Nat \ {0}
    <3> SUFFICES ASSUME NEW i \in 0..(k + 1) PROVE h[i] \in Nat \ {0}
      OBVIOUS
    <3>1. i \in 0..k \/ i = k + 1
      OBVIOUS
    <3> QED BY <2>1, <2>2, <2>3, <3>1
  <2> QED BY <2>5, <2>6
<1> HIDE DEF H
<1>3. n \in H
  BY <1>1, <1>2, Inductive
<1> QED BY <1>3 DEF H

LEMMA DoublesUnique ==
  ASSUME NEW m \in Nat, NEW n \in Nat, NEW g, NEW h, Doubles(g, m), Doubles(h, n)
  PROVE  \A i \in Nat : i <= m /\ i <= n => g[i] = h[i]
<1> DEFINE H == {i \in Nat : i <= m /\ i <= n => g[i] = h[i]}
<1>1. 0 \in H
  BY DEF Doubles
<1>2. ASSUME NEW i \in Nat, i \in H PROVE i + 1 \in H
  <2> SUFFICES ASSUME i + 1 <= m, i + 1 <= n PROVE g[i + 1] = h[i + 1]
    OBVIOUS
  <2>1. i + 1 \in 1..m /\ i + 1 \in 1..n /\ (i + 1) - 1 = i /\ g[i] = h[i]
    BY <1>2
  <2> QED BY <2>1 DEF Doubles
<1> HIDE DEF H
<1>3. \A i \in Nat : i \in H
  BY <1>1, <1>2, Inductive
<1> QED BY <1>3 DEF H

(* Pow2 is what its equation says.                                         *)
LEMMA Pow2Step == Pow2[0] = 1 /\ \A n \in Nat : Pow2[n + 1] = 2 * Pow2[n] /\ Pow2[n] \in Nat \ {0}
<1> DEFINE Equation(g) == g = [n \in Nat |-> IF n = 0 THEN 1 ELSE 2 * g[n - 1]]
           G(n) == CHOOSE g : Doubles(g, n) /\ \A i \in 0..n : g[i] \in Nat \ {0}
           p == [n \in Nat |-> G(n)[n]]
<1>1. \A n \in Nat : Doubles(G(n), n) /\ \A i \in 0..n : G(n)[i] \in Nat \ {0}
  BY DoublesExists
<1> HIDE DEF G
<1>2. p[0] = 1
  BY <1>1 DEF Doubles
<1>3. ASSUME NEW n \in Nat, n # 0 PROVE p[n] = 2 * p[n - 1]
  <2>1. n - 1 \in Nat /\ n \in 1..n /\ n - 1 <= n /\ n - 1 <= n - 1
    BY <1>3
  <2>2. G(n)[n] = 2 * G(n)[n - 1]
    BY <1>1, <2>1 DEF Doubles
  <2>3. G(n)[n - 1] = G(n - 1)[n - 1]
    BY <1>1, <2>1, DoublesUnique
  <2> QED BY <2>1, <2>2, <2>3
<1>4. \A n \in Nat : p[n] \in Nat \ {0}
  BY <1>1
<1>5. p = [n \in Nat |-> p[n]]
  OBVIOUS
<1> HIDE DEF p
<1>6. Equation(p)
  BY <1>2, <1>3, <1>5
<1>7. Pow2 = CHOOSE g : Equation(g)
  BY DEF Pow2
<1>8. Equation(Pow2)
  <2> HIDE DEF Equation
  <2> QED BY <1>6, <1>7
<1>9. Pow2[0] = 1 /\ \A n \in Nat : Pow2[n + 1] = 2 * Pow2[n]
  <2>1. \A n \in Nat : n + 1 \in Nat /\ n + 1 # 0 /\ (n + 1) - 1 = n
    OBVIOUS
  <2>2. 0 \in Nat
    OBVIOUS
  <2> QED BY <1>8, <2>1, <2>2
<1> DEFINE H == {n \in Nat : Pow2[n] \in Nat \ {0}}
<1>10. 0 \in H
  BY <1>9
<1>11. ASSUME NEW n \in Nat, n \in H PROVE n + 1 \in H
  BY <1>9, <1>11
<1>12. \A n \in Nat : n \in H
  <2> HIDE DEF H
  <2> QED BY <1>10, <1>11, Inductive
<1> QED BY <1>9, <1>12

LEMMA Pow2Grows ==
  ASSUME NEW n \in Nat
  PROVE  n < Pow2[n] /\ \A m \in Nat : m <= n => Pow2[m] <= Pow2[n]
<1> DEFINE H == {k \in Nat : k < Pow2[k] /\ \A m \in Nat : m <= k => Pow2[m] <= Pow2[k]}
<1>1. 0 \in H
  BY Pow2Step
<1>2. ASSUME NEW k \in Nat, k \in H PROVE k + 1 \in H
  <2>1. Pow2[k + 1] = 2 * Pow2[k] /\ Pow2[k] \in Nat /\ k < Pow2[k]
    BY <1>2, Pow2Step
  <2>2. ASSUME NEW m \in Nat, m <= k + 1 PROVE Pow2[m] <= Pow2[k + 1]
    <3>1. CASE m = k + 1
      BY <2>1, <3>1
    <3>2. CASE m <= k
      <4>1. Pow2[m] <= Pow2[k] /\ Pow2[m] \in Nat
        BY <1>2, <3>2, Pow2Step
      <4> QED BY <2>1, <4>1
    <3> QED BY <2>2, <3>1, <3>2
  <2> QED BY <2>1, <2>2
<1> HIDE DEF H
<1>3. n \in H
  BY <1>1, <1>2, Inductive
<1> QED BY <1>3 DEF H
=============================================================================
