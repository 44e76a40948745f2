----------------------------- MODULE FiniteSums -----------------------------
(***************************************************************************)
(* Induction over finite sets without a predicate as a parameter, and what *)
(* follows from it for sums over finite sets (MapThenSumSet).              *)
(***************************************************************************)
EXTENDS FiniteSetsExt, FiniteSetTheorems, TLAPS

(* A set of sets that contains the empty set and with each set those with  *)
(* one element more contains every finite set.                             *)
LEMMA FiniteInduction ==
  ASSUME NEW S, IsFiniteSet(S), NEW T, {} \in T,
         \A A \in SUBSET S : \A x \in S \ A : A \in T => A \cup {x} \in T
  PROVE  SUBSET S \subseteq T
<1> SUFFICES ASSUME ~(SUBSET S \subseteq T) PROVE FALSE
  OBVIOUS
<1> DEFINE R == OpToRel(<, Nat)
           Missing(n) == \E A \in SUBSET S : A \notin T /\ Cardinality(A) = n
           D == {n \in Nat : Missing(n)}
<1>1. D # {} /\ D \subseteq Nat
  BY FS_Subset, FS_CardinalityType
<1>2. PICK n \in D : \A m \in D : ~ (<<m, n>> \in R)
  BY <1>1, NatLessThanWellFounded, WFMin
<1>3. \A m \in D : ~ (m < n)
  BY <1>2 DEF OpToRel
<1>4. PICK A \in SUBSET S : A \notin T /\ Cardinality(A) = n
  OBVIOUS
<1>5. PICK x \in A : TRUE
  BY <1>4
<1>6. IsFiniteSet(A) /\ Cardinality(A \ {x}) = n - 1 /\ n - 1 < n /\ n \in Nat
  <2>1. IsFiniteSet(A)
    BY FS_Subset
  <2>2. Cardinality(A) \in Nat /\ Cardinality(A) # 0
    BY <2>1, FS_CardinalityType, FS_EmptySet, <1>5
  <2>3. Cardinality(A \ {x}) = Cardinality(A) - 1
    BY <2>1, FS_RemoveElement
  <2> HIDE DEF D
  <2> QED
    BY <2>1, <2>2, <2>3, <1>4
<1>7. A \ {x} \in SUBSET S /\ x \in S \ (A \ {x}) /\ (A \ {x}) \cup {x} = A
  BY <1>5
<1>8. A \ {x} \notin T
  BY <1>4, <1>7
<1>9. Cardinality(A \ {x}) \in Nat
  BY <1>6, FS_RemoveElement, FS_CardinalityType
<1>10. n - 1 \in D
  BY <1>6, <1>7, <1>8, <1>9
<1> QED
  BY <1>3, <1>6, <1>10

-----------------------------------------------------------------------------
(* The sum of g over a set, and the function the fold computes it with. *)

SumOver(g, S) == MapThenSumSet(LAMBDA x : g[x], S)

Pick(s) == CHOOSE x \in s : TRUE

(* h gives the sum of g over each set of the family D. *)
Sums(h, g, D) ==
  h = [s \in D |-> IF s = {} THEN 0 ELSE g[Pick(s)] + h[s \ {Pick(s)}]]

UpTo(n, S) == {A \in SUBSET S : Cardinality(A) <= n}

(* The member that is picked is one. *)
LEMMA PickIsMember ==
  ASSUME NEW s, s # {}
  PROVE  Pick(s) \in s
BY DEF Pick

(* Induction over the naturals, with a set for the predicate *)
LEMMA NatSetInduction ==
  ASSUME NEW T, 0 \in T, \A n \in Nat : n \in T => n + 1 \in T
  PROVE  Nat \subseteq T
<1> SUFFICES ASSUME ~(Nat \subseteq T) PROVE FALSE
  OBVIOUS
<1> DEFINE R == OpToRel(<, Nat)
           D == Nat \ T
<1>1. PICK n \in D : \A m \in D : ~ (<<m, n>> \in R)
  BY NatLessThanWellFounded, WFMin
<1>2. \A m \in D : ~ (m < n)
  BY <1>1 DEF OpToRel
<1>3. n # 0 /\ n - 1 \in Nat
  OBVIOUS
<1> QED
  BY <1>2, <1>3

(* Picking an element from a set leaves a smaller one. *)
LEMMA PickSmaller ==
  ASSUME NEW S, IsFiniteSet(S), NEW m \in Nat, NEW B \in UpTo(m + 1, S), B # {}
  PROVE  /\ Pick(B) \in S /\ B \in SUBSET S /\ IsFiniteSet(B)
         /\ \A x \in B : B \ {x} \in UpTo(m, S)
<1>1. B \in SUBSET S /\ Cardinality(B) <= m + 1
  BY DEF UpTo
<1>2. IsFiniteSet(B)
  BY <1>1, FS_Subset
<1>3. ASSUME NEW x \in B
      PROVE  B \ {x} \in UpTo(m, S)
  <2>1. Cardinality(B \ {x}) = Cardinality(B) - 1 /\ Cardinality(B) \in Nat
    BY <1>2, FS_RemoveElement, FS_CardinalityType
  <2>2. Cardinality(B \ {x}) <= m
    BY <1>1, <2>1
  <2> QED
    BY <1>1, <2>2 DEF UpTo
<1> QED
  BY <1>1, <1>2, <1>3, PickIsMember

(* There is a function that adds up every subset of up to n members. *)
LEMMA SumsUpTo ==
  ASSUME NEW S, IsFiniteSet(S), NEW g, NEW n \in Nat
  PROVE  \E h : Sums(h, g, UpTo(n, S))
<1> DEFINE T == {m \in Nat : \E h : Sums(h, g, UpTo(m, S))}
<1>1. \A A \in SUBSET S : IsFiniteSet(A) /\ Cardinality(A) \in Nat
  BY FS_Subset, FS_CardinalityType
<1>2. 0 \in T
  <2> DEFINE h == [s \in UpTo(0, S) |-> 0]
  <2>1. \A A \in UpTo(0, S) : A = {}
    BY <1>1, FS_EmptySet DEF UpTo
  <2>2. Sums(h, g, UpTo(0, S))
    BY <2>1, Zenon DEF Sums
  <2> QED
    BY <2>2
<1>3. ASSUME NEW m \in Nat, m \in T
      PROVE  m + 1 \in T
  <2>1. PICK h : Sums(h, g, UpTo(m, S))
    BY <1>3
  <2> DEFINE k == [s \in UpTo(m + 1, S) |->
                     IF s = {} THEN 0 ELSE g[Pick(s)] + h[s \ {Pick(s)}]]
  <2>2. ASSUME NEW s \in UpTo(m + 1, S), s # {}
        PROVE  s \ {Pick(s)} \in UpTo(m, S)
    BY <1>1, <2>2, PickIsMember, FS_RemoveElement DEF UpTo
  <2>3. UpTo(m, S) \subseteq UpTo(m + 1, S)
    BY <1>1 DEF UpTo
  <2>4. \A s \in UpTo(m, S) : k[s] = h[s]
    BY <2>1, <2>3, Zenon DEF Sums
  <2>5. Sums(k, g, UpTo(m + 1, S))
    BY <2>2, <2>4, Zenon DEF Sums
  <2> HIDE DEF k
  <2> QED
    BY <2>5
<1>4. Nat \subseteq T
  BY <1>2, <1>3, NatSetInduction
<1> QED
  BY <1>4

(* There is a function that adds up every subset of a finite set. *)
LEMMA SumsExist ==
  ASSUME NEW S, IsFiniteSet(S), NEW g
  PROVE  \E h : Sums(h, g, SUBSET S)
<1>1. Cardinality(S) \in Nat
  BY FS_CardinalityType
<1>2. UpTo(Cardinality(S), S) = SUBSET S
  BY FS_Subset DEF UpTo
<1> QED
  BY <1>1, <1>2, SumsUpTo

(* The function is unique, on the sets it is about. *)
LEMMA SumsAgree ==
  ASSUME NEW S, IsFiniteSet(S), NEW A \in SUBSET S, NEW g, NEW h, NEW k,
         Sums(h, g, SUBSET S), Sums(k, g, SUBSET A)
  PROVE  h[A] = k[A]
<1> DEFINE T == {m \in Nat : \A B \in UpTo(m, A) : h[B] = k[B]}
<1>1. \A B \in SUBSET A : IsFiniteSet(B) /\ Cardinality(B) \in Nat /\ B \in SUBSET S
  BY FS_Subset, FS_CardinalityType
<1>2. \A B \in SUBSET A : /\ h[B] = IF B = {} THEN 0 ELSE g[Pick(B)] + h[B \ {Pick(B)}]
                          /\ k[B] = IF B = {} THEN 0 ELSE g[Pick(B)] + k[B \ {Pick(B)}]
  BY <1>1, Zenon DEF Sums
<1>3. 0 \in T
  <2>1. \A B \in UpTo(0, A) : B = {}
    BY <1>1, FS_EmptySet DEF UpTo
  <2>2. {} \in SUBSET A
    OBVIOUS
  <2>3. h[{}] = k[{}]
    BY <1>2, <2>2, Zenon
  <2> QED
    BY <2>1, <2>3
<1>4. ASSUME NEW m \in Nat, m \in T
      PROVE  m + 1 \in T
  <2>1. ASSUME NEW B \in UpTo(m + 1, A)
        PROVE  h[B] = k[B]
    <3>1. B \in SUBSET A
      BY DEF UpTo
    <3>2. CASE B = {}
      BY <1>2, <3>1, <3>2, Zenon
    <3>3. CASE B # {}
      <4>1. B \ {Pick(B)} \in UpTo(m, A)
        BY <1>1, <3>3, PickIsMember, PickSmaller
      <4>2. h[B \ {Pick(B)}] = k[B \ {Pick(B)}]
        BY <1>4, <4>1
      <4> QED
        BY <1>2, <3>1, <3>3, <4>2, Zenon
    <3> QED
      BY <3>2, <3>3
  <2> QED
    BY <2>1
<1>5. Nat \subseteq T
  BY <1>3, <1>4, NatSetInduction
<1>6. A \in UpTo(Cardinality(A), A) /\ Cardinality(A) \in Nat
  BY <1>1 DEF UpTo
<1> QED
  BY <1>5, <1>6

(* What the fold of the community modules returns is the value of such a  *)
(* function: the recursive function it is defined by is one.              *)
LEMMA FoldIsSums ==
  ASSUME NEW S, NEW g, \E h : Sums(h, g, SUBSET S)
  PROVE  \E h : Sums(h, g, SUBSET S) /\ SumOver(g, S) = h[S]
BY DEF SumOver, MapThenSumSet, MapThenFoldSet, Sums, Pick

(* What the fold computes. *)
LEMMA SumIsFold ==
  ASSUME NEW S, IsFiniteSet(S), NEW g
  PROVE  \E h : Sums(h, g, SUBSET S) /\ SumOver(g, S) = h[S]
<1>1. \E h : Sums(h, g, SUBSET S)
  BY SumsExist
<1> QED
  BY <1>1, FoldIsSums

(* Nothing adds up to 0. *)
LEMMA SumEmpty ==
  ASSUME NEW g
  PROVE  SumOver(g, {}) = 0
<1>1. PICK h : Sums(h, g, SUBSET {}) /\ SumOver(g, {}) = h[{}]
  BY SumIsFold, FS_EmptySet
<1> QED
  BY <1>1, Zenon DEF Sums

(* The sum takes one member off the set, adds its value, and goes on with *)
(* the rest.                                                              *)
LEMMA SumPick ==
  ASSUME NEW S, IsFiniteSet(S), S # {}, NEW g
  PROVE  SumOver(g, S) = g[Pick(S)] + SumOver(g, S \ {Pick(S)})
<1> DEFINE A == S \ {Pick(S)}
<1>1. PICK h : Sums(h, g, SUBSET S) /\ SumOver(g, S) = h[S]
  BY SumIsFold
<1>2. IsFiniteSet(A)
  BY FS_RemoveElement
<1>3. PICK k : Sums(k, g, SUBSET A) /\ SumOver(g, A) = k[A]
  BY <1>2, SumIsFold
<1>4. h[A] = k[A]
  <2>1. A \in SUBSET S
    OBVIOUS
  <2> HIDE DEF A
  <2> QED
    BY <1>1, <1>3, <2>1, SumsAgree
<1>5. h[S] = g[Pick(S)] + h[A]
  BY <1>1, Zenon DEF Sums
<1> QED
  BY <1>1, <1>3, <1>4, <1>5

-----------------------------------------------------------------------------
(* Sums of natural numbers. *)

NatOn(g, S) == \A x \in S : g[x] \in Nat

(* Natural numbers add up to one. *)
LEMMA SumType ==
  ASSUME NEW S, IsFiniteSet(S), NEW g, NatOn(g, S)
  PROVE  SumOver(g, S) \in Nat
<1> DEFINE T == {m \in Nat : \A B \in UpTo(m, S) : SumOver(g, B) \in Nat}
<1>1. \A B \in SUBSET S : IsFiniteSet(B) /\ Cardinality(B) \in Nat
  BY FS_Subset, FS_CardinalityType
<1>2. 0 \in T
  <2>1. \A B \in UpTo(0, S) : B = {}
    BY <1>1, FS_EmptySet DEF UpTo
  <2>2. SumOver(g, {}) = 0
    BY SumEmpty
  <2>3. \A B \in UpTo(0, S) : SumOver(g, B) \in Nat
    BY <2>1, <2>2
  <2> QED
    BY <2>3
<1>3. ASSUME NEW m \in Nat, m \in T
      PROVE  m + 1 \in T
  <2>1. ASSUME NEW B \in UpTo(m + 1, S)
        PROVE  SumOver(g, B) \in Nat
    <3>1. B \in SUBSET S
      BY DEF UpTo
    <3>2. CASE B = {}
      BY <3>2, SumEmpty
    <3>3. CASE B # {}
      <4>1. B \ {Pick(B)} \in UpTo(m, S) /\ Pick(B) \in S
        BY <3>3, PickIsMember, PickSmaller
      <4>2. SumOver(g, B) = g[Pick(B)] + SumOver(g, B \ {Pick(B)})
        BY <1>1, <3>1, <3>3, SumPick
      <4>3. SumOver(g, B \ {Pick(B)}) \in Nat /\ g[Pick(B)] \in Nat
        BY <1>3, <4>1 DEF NatOn
      <4> QED
        BY <4>2, <4>3
    <3> QED
      BY <3>2, <3>3
  <2> QED
    BY <2>1
<1>4. Nat \subseteq T
  BY <1>2, <1>3, NatSetInduction
<1>5. S \in UpTo(Cardinality(S), S) /\ Cardinality(S) \in Nat
  BY <1>1 DEF UpTo
<1> QED
  BY <1>4, <1>5

(* The order in which the fold takes the elements does not matter. *)
LEMMA SumRemove ==
  ASSUME NEW S, IsFiniteSet(S), NEW g, NatOn(g, S), NEW y \in S
  PROVE  SumOver(g, S) = g[y] + SumOver(g, S \ {y})
<1> DEFINE Removes(B) == \A x \in B : SumOver(g, B) = g[x] + SumOver(g, B \ {x})
           T == {m \in Nat : \A B \in UpTo(m, S) : Removes(B)}
<1>1. \A B \in SUBSET S : IsFiniteSet(B) /\ Cardinality(B) \in Nat
  BY FS_Subset, FS_CardinalityType
<1>2. 0 \in T
  <2>1. \A B \in UpTo(0, S) : B = {}
    BY <1>1, FS_EmptySet DEF UpTo
  <2> QED
    BY <2>1
<1>3. ASSUME NEW m \in Nat, m \in T
      PROVE  m + 1 \in T
  <2>1. ASSUME NEW B \in UpTo(m + 1, S), NEW x \in B
        PROVE  SumOver(g, B) = g[x] + SumOver(g, B \ {x})
    <3> DEFINE p == Pick(B)
    <3>1. B \in SUBSET S /\ p \in B
      BY PickIsMember DEF UpTo
    <3>2. SumOver(g, B) = g[p] + SumOver(g, B \ {p})
      BY <1>1, <3>1, SumPick
    <3>3. CASE p = x
      BY <3>2, <3>3
    <3>4. CASE p # x
      <4>1. B \ {p} \in UpTo(m, S) /\ B \ {x} \in UpTo(m, S)
        BY <3>1, PickSmaller
      <4>2. x \in B \ {p} /\ p \in B \ {x}
        BY <3>1, <3>4
      <4>3. SumOver(g, B \ {p}) = g[x] + SumOver(g, (B \ {p}) \ {x})
        BY <1>3, <4>1, <4>2
      <4>4. SumOver(g, B \ {x}) = g[p] + SumOver(g, (B \ {x}) \ {p})
        BY <1>3, <4>1, <4>2
      <4>5. (B \ {p}) \ {x} = (B \ {x}) \ {p}
        OBVIOUS
      <4>6. g[p] \in Nat /\ g[x] \in Nat
        BY <3>1 DEF NatOn
      <4> DEFINE r == SumOver(g, (B \ {p}) \ {x})
      <4>7. r \in Nat
        <5>1. (B \ {p}) \ {x} \in SUBSET S
          BY <3>1
        <5> QED
          BY <1>1, <5>1, SumType DEF NatOn
      <4>8. SumOver(g, B) = g[p] + (g[x] + r) /\ SumOver(g, B \ {x}) = g[p] + r
        BY <3>2, <4>3, <4>4, <4>5
      <4>9. g[p] + (g[x] + r) = g[x] + (g[p] + r)
        <5> HIDE DEF p, r
        <5> QED
          BY <4>6, <4>7
      <4> QED
        BY <4>8, <4>9
    <3> QED
      BY <3>3, <3>4
  <2> QED
    BY <2>1
<1>4. Nat \subseteq T
  BY <1>2, <1>3, NatSetInduction
<1>5. S \in UpTo(Cardinality(S), S) /\ Cardinality(S) \in Nat
  BY <1>1 DEF UpTo
<1>6. Removes(S)
  BY <1>4, <1>5
<1> QED
  BY <1>6

(* One element more. *)
LEMMA SumAdd ==
  ASSUME NEW S, IsFiniteSet(S), NEW g, NEW y, y \notin S, NatOn(g, S), g[y] \in Nat
  PROVE  SumOver(g, S \cup {y}) = g[y] + SumOver(g, S)
<1>1. (S \cup {y}) \ {y} = S /\ y \in S \cup {y} /\ NatOn(g, S \cup {y})
  BY DEF NatOn
<1>2. IsFiniteSet(S \cup {y})
  BY FS_AddElement
<1> QED
  BY <1>1, <1>2, SumRemove

(* Sums of what is at most as large, element by element, over a set that   *)
(* is at most as large, are at most as large.                              *)
LEMMA SumMonotone ==
  ASSUME NEW S, IsFiniteSet(S), NEW A \in SUBSET S, NEW f, NEW g,
         NatOn(g, S), NatOn(f, A), \A x \in A : f[x] <= g[x]
  PROVE  SumOver(f, A) <= SumOver(g, S)
<1> DEFINE T == {B \in SUBSET S : SumOver(f, A \cap B) <= SumOver(g, B)}
<1>1. {} \in T
  <2>1. A \cap {} = {} /\ SumOver(f, {}) = 0 /\ SumOver(g, {}) = 0
    BY SumEmpty
  <2>2. SumOver(f, A \cap {}) <= SumOver(g, {})
    BY <2>1
  <2> QED
    BY <2>2
<1>2. ASSUME NEW B \in SUBSET S, NEW x \in S \ B, B \in T
      PROVE  B \cup {x} \in T
  <2>1. IsFiniteSet(B) /\ NatOn(g, B) /\ g[x] \in Nat
    BY FS_Subset DEF NatOn
  <2>2. IsFiniteSet(A \cap B) /\ NatOn(f, A \cap B)
    BY <2>1, FS_Subset DEF NatOn
  <2>3. SumOver(g, B \cup {x}) = g[x] + SumOver(g, B) /\ SumOver(g, B) \in Nat
    BY <2>1, SumAdd, SumType
  <2>4. SumOver(f, A \cap B) \in Nat /\ SumOver(f, A \cap B) <= SumOver(g, B)
    BY <1>2, <2>2, SumType
  <2>5. CASE x \in A
    <3>1. f[x] \in Nat /\ f[x] <= g[x] /\ x \notin A \cap B
      BY <2>5 DEF NatOn
    <3>2. SumOver(f, (A \cap B) \cup {x}) = f[x] + SumOver(f, A \cap B)
      BY <2>2, <3>1, SumAdd
    <3>3. A \cap (B \cup {x}) = (A \cap B) \cup {x}
      BY <2>5
    <3>4. f[x] + SumOver(f, A \cap B) <= g[x] + SumOver(g, B)
      BY <2>1, <2>3, <2>4, <3>1
    <3>5. SumOver(f, A \cap (B \cup {x})) <= SumOver(g, B \cup {x})
      BY <2>3, <3>2, <3>3, <3>4
    <3> QED
      BY <3>5
  <2>6. CASE x \notin A
    <3>1. A \cap (B \cup {x}) = A \cap B
      BY <2>6
    <3>2. SumOver(f, A \cap B) <= g[x] + SumOver(g, B)
      BY <2>1, <2>3, <2>4
    <3>3. SumOver(f, A \cap (B \cup {x})) <= SumOver(g, B \cup {x})
      BY <2>3, <3>1, <3>2
    <3> QED
      BY <3>3
  <2> QED
    BY <2>5, <2>6
<1>3. S \in T
  <2> HIDE DEF T
  <2>1. SUBSET S \subseteq T
    BY <1>1, <1>2, FiniteInduction
  <2> QED
    BY <2>1
<1>4. A \cap S = A
  OBVIOUS
<1> QED
  BY <1>3, <1>4

(* Sums of what is equal, element by element. *)
LEMMA SumEqual ==
  ASSUME NEW S, IsFiniteSet(S), NEW f, NEW g,
         NatOn(g, S), \A x \in S : f[x] = g[x]
  PROVE  SumOver(f, S) = SumOver(g, S)
<1>1. NatOn(f, S) /\ \A x \in S : f[x] <= g[x] /\ g[x] <= f[x]
  BY DEF NatOn
<1>2. SumOver(f, S) \in Nat /\ SumOver(g, S) \in Nat
  BY <1>1, SumType
<1>3. SumOver(f, S) <= SumOver(g, S) /\ SumOver(g, S) <= SumOver(f, S)
  BY <1>1, SumMonotone
<1> QED
  BY <1>2, <1>3

(* One summand changes. *)
LEMMA SumChange ==
  ASSUME NEW S, IsFiniteSet(S), NEW f, NEW g, NEW y \in S,
         NatOn(f, S), NatOn(g, S), \A x \in S \ {y} : f[x] = g[x]
  PROVE  SumOver(f, S) + g[y] = SumOver(g, S) + f[y]
<1>1. IsFiniteSet(S \ {y}) /\ NatOn(f, S \ {y}) /\ NatOn(g, S \ {y})
  BY FS_RemoveElement DEF NatOn
<1>2. SumOver(f, S \ {y}) = SumOver(g, S \ {y}) /\ SumOver(g, S \ {y}) \in Nat
  BY <1>1, SumEqual, SumType
<1>3. /\ SumOver(f, S) = f[y] + SumOver(f, S \ {y})
      /\ SumOver(g, S) = g[y] + SumOver(g, S \ {y})
  BY SumRemove
<1>4. f[y] \in Nat /\ g[y] \in Nat
  BY DEF NatOn
<1> QED
  BY <1>2, <1>3, <1>4

(* What is zero need not be summed. *)
LEMMA SumZeros ==
  ASSUME NEW S, IsFiniteSet(S), NEW A \in SUBSET S, NEW g,
         NatOn(g, S), \A x \in S \ A : g[x] = 0
  PROVE  SumOver(g, S) = SumOver(g, A)
<1> DEFINE T == {B \in SUBSET S : SumOver(g, B) = SumOver(g, A \cap B)}
<1>1. {} \in T
  <2>1. A \cap {} = {}
    OBVIOUS
  <2>2. SumOver(g, {}) = SumOver(g, A \cap {})
    BY <2>1
  <2> QED
    BY <2>2
<1>2. ASSUME NEW B \in SUBSET S, NEW x \in S \ B, B \in T
      PROVE  B \cup {x} \in T
  <2>1. IsFiniteSet(B) /\ NatOn(g, B) /\ g[x] \in Nat
    BY FS_Subset DEF NatOn
  <2>2. IsFiniteSet(A \cap B) /\ NatOn(g, A \cap B)
    BY <2>1, FS_Subset DEF NatOn
  <2>3. SumOver(g, B \cup {x}) = g[x] + SumOver(g, B) /\ SumOver(g, B) \in Nat
    BY <2>1, SumAdd, SumType
  <2>4. SumOver(g, B) = SumOver(g, A \cap B)
    BY <1>2
  <2>5. CASE x \in A
    <3>1. A \cap (B \cup {x}) = (A \cap B) \cup {x} /\ x \notin A \cap B
      BY <2>5
    <3>2. SumOver(g, (A \cap B) \cup {x}) = g[x] + SumOver(g, A \cap B)
      BY <2>1, <2>2, <3>1, SumAdd
    <3>3. SumOver(g, B \cup {x}) = SumOver(g, A \cap (B \cup {x}))
      BY <2>3, <2>4, <3>1, <3>2
    <3> QED
      BY <3>3
  <2>6. CASE x \notin A
    <3>1. A \cap (B \cup {x}) = A \cap B /\ g[x] = 0
      BY <2>6
    <3>2. \A m \in Nat : 0 + m = m
      OBVIOUS
    <3>3. SumOver(g, B \cup {x}) = SumOver(g, B)
      BY <2>3, <3>1, <3>2, Zenon
    <3> QED
      BY <2>4, <3>1, <3>3, Zenon
  <2> QED
    BY <2>5, <2>6
<1>3. S \in T
  <2> HIDE DEF T
  <2>1. SUBSET S \subseteq T
    BY <1>1, <1>2, FiniteInduction
  <2> QED
    BY <2>1
<1>4. A \cap S = A
  OBVIOUS
<1> QED
  BY <1>3, <1>4

(* Elements renamed without two of them getting the same name. *)
LEMMA SumImage ==
  ASSUME NEW S, IsFiniteSet(S), NEW f, NEW g,
         \A x, y \in S : f[x] = f[y] => x = y,
         \A x \in S : g[f[x]] \in Nat
  PROVE  /\ IsFiniteSet({f[x] : x \in S})
         /\ SumOver(g, {f[x] : x \in S}) = SumOver([x \in S |-> g[f[x]]], S)
<1> DEFINE Im(B) == {f[x] : x \in B}
           k == [x \in S |-> g[f[x]]]
           T == {B \in SUBSET S : IsFiniteSet(Im(B)) /\ SumOver(g, Im(B)) = SumOver(k, B)}
<1>0. \A B \in SUBSET S : NatOn(g, Im(B)) /\ NatOn(k, B) /\ IsFiniteSet(B)
  BY FS_Subset DEF NatOn
<1>1. {} \in T
  <2>1. Im({}) = {} /\ IsFiniteSet({})
    BY FS_EmptySet
  <2>2. SumOver(g, {}) = 0 /\ SumOver(k, {}) = 0
    BY SumEmpty
  <2> HIDE DEF Im, k
  <2>3. IsFiniteSet(Im({})) /\ SumOver(g, Im({})) = SumOver(k, {})
    BY <2>1, <2>2
  <2> QED
    BY <2>3
<1>2. ASSUME NEW B \in SUBSET S, NEW x \in S \ B, B \in T
      PROVE  B \cup {x} \in T
  <2>1. Im(B \cup {x}) = Im(B) \cup {f[x]} /\ f[x] \notin Im(B)
    OBVIOUS
  <2>2. g[f[x]] \in Nat /\ k[x] = g[f[x]]
    OBVIOUS
  <2>3. IsFiniteSet(Im(B)) /\ SumOver(g, Im(B)) = SumOver(k, B)
    BY <1>2
  <2> HIDE DEF Im, k
  <2>4. SumOver(g, Im(B) \cup {f[x]}) = g[f[x]] + SumOver(g, Im(B))
    BY <1>0, <2>1, <2>2, <2>3, SumAdd
  <2>5. SumOver(k, B \cup {x}) = k[x] + SumOver(k, B)
    BY <1>0, <2>2, SumAdd
  <2>6. IsFiniteSet(Im(B) \cup {f[x]})
    BY <2>3, FS_AddElement
  <2>7. /\ IsFiniteSet(Im(B \cup {x}))
        /\ SumOver(g, Im(B \cup {x})) = SumOver(k, B \cup {x})
    BY <2>1, <2>2, <2>3, <2>4, <2>5, <2>6
  <2> QED
    BY <2>7
<1>3. S \in T
  <2> HIDE DEF T
  <2>1. SUBSET S \subseteq T
    BY <1>1, <1>2, FiniteInduction
  <2> QED
    BY <2>1
<1> QED
  BY <1>3
=============================================================================
