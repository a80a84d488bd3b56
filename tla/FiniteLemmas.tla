----------------------------- MODULE FiniteLemmas -----------------------------
(***************************************************************************)
(* Facts about naturals and finite sets that the proofs of several parts   *)
(* rest on: least elements, the first n of an order, sums.  A statement    *)
(* about every number is proved from its least counterexample.             *)
(***************************************************************************)
EXTENDS Integers, FiniteSets, FiniteSetTheorems, WellFoundedInduction, TLAPS

\* A set of naturals that is not empty has a least element.
LEMMA LeastNatural ==
  ASSUME NEW S \in SUBSET Nat, S # {}
  PROVE  \E m \in S : \A n \in S : m <= n
<1>1. PICK m \in S : \A n \in S : ~(<<n, m>> \in OpToRel(<, Nat))
  BY NatLessThanWellFounded, WFMin
<1>2. \A n \in S : ~(n < m)
  BY <1>1 DEF OpToRel
<1> QED BY <1>2

\* Among ranked keys there are n that come before all the others.
LEMMA FirstOfRanked ==
  ASSUME NEW S, IsFiniteSet(S), NEW rank \in [S -> Nat]
  PROVE  \A n \in 0..Cardinality(S) :
           \E some \in SUBSET S : /\ Cardinality(some) = n
                                  /\ \A a \in some, b \in S \ some : rank[a] <= rank[b]
<1> DEFINE Has(n) == \E some \in SUBSET S : /\ Cardinality(some) = n
                                            /\ \A a \in some, b \in S \ some : rank[a] <= rank[b]
           bad == {n \in 0..Cardinality(S) : ~Has(n)}
<1>0. Cardinality(S) \in Nat
  BY FS_CardinalityType
<1>1. SUFFICES ASSUME bad # {} PROVE FALSE
  OBVIOUS
<1>2. bad \in SUBSET Nat
  BY <1>0
<1>3. PICK m \in bad : \A n \in bad : m <= n
  BY <1>1, <1>2, LeastNatural
<1>4. m # 0
  <2>1. Has(0)
    <3>1. {} \in SUBSET S /\ Cardinality({}) = 0
      BY FS_EmptySet
    <3> QED BY <3>1
  <2> QED BY <2>1, <1>3
<1>5. m - 1 \in 0..Cardinality(S) /\ m \in 1..Cardinality(S)
  BY <1>0, <1>3, <1>4
<1>6. Has(m - 1)
  <2>1. ~(m <= m - 1)
    BY <1>5, <1>0
  <2> QED BY <2>1, <1>3, <1>5
<1>7. PICK some \in SUBSET S : /\ Cardinality(some) = m - 1
                               /\ \A a \in some, b \in S \ some : rank[a] <= rank[b]
  BY <1>6
<1> DEFINE rest == S \ some
           ranks == {rank[x] : x \in rest}
<1>8. rest # {}
  BY <1>0, <1>5, <1>7
<1>9. ranks \in SUBSET Nat /\ ranks # {}
  BY <1>8
<1>10. PICK x \in rest : \A y \in rest : rank[x] <= rank[y]
  <2>1. PICK least \in ranks : \A n \in ranks : least <= n
    BY <1>9, LeastNatural
  <2> QED BY <2>1
<1>11. IsFiniteSet(some)
  BY <1>7, FS_Subset
<1>12. Cardinality(some \cup {x}) = m
  <2>1. Cardinality(some \cup {x}) = Cardinality(some) + 1
    BY <1>10, <1>11, FS_AddElement
  <2> QED BY <2>1, <1>5, <1>0, <1>7
<1>13. \A a \in some \cup {x}, b \in S \ (some \cup {x}) : rank[a] <= rank[b]
  BY <1>7, <1>10
<1>14. Has(m)
  BY <1>7, <1>10, <1>12, <1>13
<1> QED BY <1>3, <1>14

\* And so there are among keys in a strict total order.
LEMMA FirstOfOrdered ==
  ASSUME NEW S, IsFiniteSet(S), NEW order,
         \A a \in S : <<a, a>> \notin order,
         \A a, b, c \in S : <<a, b>> \in order /\ <<b, c>> \in order => <<a, c>> \in order,
         \A a, b \in S : a # b => <<a, b>> \in order \/ <<b, a>> \in order
  PROVE  \A n \in 0..Cardinality(S) :
           \E some \in SUBSET S : /\ Cardinality(some) = n
                                  /\ \A a \in some, b \in S \ some : <<a, b>> \in order
<1> DEFINE Older(a) == {b \in S : <<b, a>> \in order}
           rank == [a \in S |-> Cardinality(Older(a))]
<1>1. \A a \in S : IsFiniteSet(Older(a)) /\ Cardinality(Older(a)) \in Nat
  BY FS_Subset, FS_CardinalityType
<1>2. rank \in [S -> Nat]
  BY <1>1
<1>3. ASSUME NEW n \in 0..Cardinality(S)
      PROVE  \E some \in SUBSET S : /\ Cardinality(some) = n
                                    /\ \A a \in some, b \in S \ some : <<a, b>> \in order
  <2>1. PICK some \in SUBSET S : /\ Cardinality(some) = n
                                 /\ \A a \in some, b \in S \ some : rank[a] <= rank[b]
    <3> HIDE DEF rank
    <3> QED BY <1>2, FirstOfRanked
  <2>2. ASSUME NEW a \in some, NEW b \in S \ some PROVE <<a, b>> \in order
    <3>1. SUFFICES ASSUME <<b, a>> \in order PROVE FALSE
      BY <2>2
    <3>2. Older(b) \in SUBSET Older(a)
      BY <3>1
    <3>3. b \in Older(a) /\ b \notin Older(b)
      BY <3>1
    <3>4. Cardinality(Older(b)) <= Cardinality(Older(a)) /\ Cardinality(Older(b)) # Cardinality(Older(a))
      <4> HIDE DEF Older
      <4> QED BY <1>1, <3>2, <3>3, FS_Subset
    <3>5. Cardinality(Older(a)) <= Cardinality(Older(b))
      BY <2>1
    <3> QED BY <1>1, <3>4, <3>5
  <2> QED BY <2>1, <2>2
<1> QED BY <1>3

-----------------------------------------------------------------------------
(* Sums over finite sets                                                   *)

\* The table of all partial sums that MapThenSumSet builds.
Picked(s) == CHOOSE x \in s : TRUE
SumStep(f, S, g) ==
  [s \in SUBSET S |-> IF s = {} THEN 0 ELSE f[Picked(s)] + g[s \ {Picked(s)}]]
SumTable(f, S) == CHOOSE g : g = SumStep(f, S, g)
Total(f, S) == SumTable(f, S)[S]

\* What remains when an element is picked.
LEMMA PickedLess ==
  ASSUME NEW s, s # {}, IsFiniteSet(s)
  PROVE  /\ Picked(s) \in s /\ IsFiniteSet(s \ {Picked(s)})
         /\ Cardinality(s) \in Nat \ {0}
         /\ Cardinality(s \ {Picked(s)}) = Cardinality(s) - 1
<1>1. Picked(s) \in s
  BY DEF Picked
<1>2. Cardinality(s) \in Nat /\ Cardinality(s) # 0
  BY FS_CardinalityType, FS_EmptySet
<1> QED BY <1>1, <1>2, FS_RemoveElement

\* Two tables agree on the sets they have in common.
LEMMA TablesAgree ==
  ASSUME NEW S, IsFiniteSet(S), NEW T \in SUBSET S, NEW f,
         NEW g, g = SumStep(f, S, g), NEW h, h = SumStep(f, T, h)
  PROVE  \A s \in SUBSET T : g[s] = h[s]
<1> DEFINE bad == {n \in Nat : \E s \in SUBSET T : Cardinality(s) = n /\ g[s] # h[s]}
<1>0. \A s \in SUBSET T : s \in SUBSET S /\ IsFiniteSet(s) /\ Cardinality(s) \in Nat
  BY FS_Subset, FS_CardinalityType
<1>1. SUFFICES ASSUME bad # {} PROVE FALSE
  BY <1>0
<1>2. PICK n \in bad : \A m \in bad : n <= m
  <2>1. bad \in SUBSET Nat
    OBVIOUS
  <2> HIDE DEF bad
  <2> QED BY <1>1, <2>1, LeastNatural
<1>3. PICK s \in SUBSET T : Cardinality(s) = n /\ g[s] # h[s]
  BY <1>2
<1>4. g[s] = (IF s = {} THEN 0 ELSE f[Picked(s)] + g[s \ {Picked(s)}])
  BY <1>0 DEF SumStep
<1>5. h[s] = (IF s = {} THEN 0 ELSE f[Picked(s)] + h[s \ {Picked(s)}])
  BY DEF SumStep
<1>6. s # {}
  BY <1>3, <1>4, <1>5
<1> DEFINE rest == s \ {Picked(s)}
<1>7. rest \in SUBSET T /\ Cardinality(rest) = n - 1 /\ n - 1 \in Nat /\ n \in Nat
  BY <1>0, <1>3, <1>6, PickedLess
<1>8. g[rest] = h[rest]
  <2>1. ~(n <= n - 1)
    BY <1>7
  <2>2. n - 1 \notin bad
    BY <2>1, <1>2
  <2> QED BY <2>2, <1>7
<1> QED BY <1>3, <1>4, <1>5, <1>6, <1>8

\* There is such a table, and it holds naturals.
LEMMA TableExists ==
  ASSUME NEW S, IsFiniteSet(S), NEW f \in [S -> Nat]
  PROVE  \E g \in [SUBSET S -> Nat] : g = SumStep(f, S, g)
<1> DEFINE UpTo(n, g) == \A s \in SUBSET S : Cardinality(s) <= n => g[s] = SumStep(f, S, g)[s]
           bad == {n \in Nat : ~ \E g \in [SUBSET S -> Nat] : UpTo(n, g)}
<1>0. /\ \A s \in SUBSET S : IsFiniteSet(s) /\ Cardinality(s) \in Nat
                               /\ Cardinality(s) <= Cardinality(S)
      /\ Cardinality(S) \in Nat
  BY FS_Subset, FS_CardinalityType
<1>1. ASSUME NEW g \in [SUBSET S -> Nat] PROVE SumStep(f, S, g) \in [SUBSET S -> Nat]
  <2>1. ASSUME NEW s \in SUBSET S, s # {} PROVE f[Picked(s)] + g[s \ {Picked(s)}] \in Nat
    <3>1. Picked(s) \in S /\ s \ {Picked(s)} \in SUBSET S
      BY <2>1 DEF Picked
    <3>2. f[Picked(s)] \in Nat /\ g[s \ {Picked(s)}] \in Nat
      BY <3>1
    <3> QED BY <3>2
  <2> QED BY <2>1 DEF SumStep
<1>2. bad = {}
  <2>1. SUFFICES ASSUME bad # {} PROVE FALSE
    OBVIOUS
  <2>2. PICK n \in bad : \A m \in bad : n <= m
    <3>1. bad \in SUBSET Nat
      OBVIOUS
    <3> HIDE DEF bad
    <3> QED BY <2>1, <3>1, LeastNatural
  <2>3. n # 0
    <3>1. [s \in SUBSET S |-> 0] \in [SUBSET S -> Nat]
      OBVIOUS
    <3>2. \A s \in SUBSET S : Cardinality(s) <= 0 => s = {}
      BY <1>0, FS_EmptySet
    <3>3. UpTo(0, [s \in SUBSET S |-> 0])
      BY <3>2 DEF SumStep
    <3> QED BY <3>1, <3>3, <2>2
  <2>4. n \in Nat /\ n - 1 \in Nat /\ ~(n <= n - 1)
    BY <2>3
  <2>5. PICK g \in [SUBSET S -> Nat] : UpTo(n - 1, g)
    BY <2>2, <2>4
  <2> DEFINE next == SumStep(f, S, g)
  <2>6. next \in [SUBSET S -> Nat]
    BY <1>1
  <2>7. UpTo(n, next)
    <3>1. SUFFICES ASSUME NEW s \in SUBSET S, Cardinality(s) <= n, s # {}
                   PROVE  next[s] = SumStep(f, S, next)[s]
      BY DEF SumStep
    <3> DEFINE rest == s \ {Picked(s)}
    <3>2. rest \in SUBSET S /\ Cardinality(rest) = Cardinality(s) - 1 /\ Cardinality(s) \in Nat \ {0}
      BY <1>0, <3>1, PickedLess
    <3>3. Cardinality(rest) <= n - 1
      BY <3>1, <3>2, <2>4
    <3>4. g[rest] = next[rest]
      BY <2>5, <3>2, <3>3
    <3>5. next[s] = f[Picked(s)] + g[rest]
      BY <3>1 DEF SumStep
    <3>6. SumStep(f, S, next)[s] = f[Picked(s)] + next[rest]
      <4> HIDE DEF next
      <4> QED BY <3>1 DEF SumStep
    <3> QED BY <3>4, <3>5, <3>6
  <2> QED BY <2>2, <2>6, <2>7
<1>3. PICK g \in [SUBSET S -> Nat] : UpTo(Cardinality(S), g)
  BY <1>0, <1>2
<1>4. \A s \in SUBSET S : g[s] = SumStep(f, S, g)[s]
  BY <1>0, <1>3
<1>5. SumStep(f, S, g) \in [SUBSET S -> Nat]
  BY <1>1
<1>6. g = SumStep(f, S, g)
  BY <1>4, <1>5
<1> QED BY <1>6

\* The table of a finite set: its equation, its type, and that the table of a
\* part of the set says the same.
LEMMA TableIsSound ==
  ASSUME NEW S, IsFiniteSet(S), NEW f \in [S -> Nat]
  PROVE  /\ SumTable(f, S) = SumStep(f, S, SumTable(f, S))
         /\ SumTable(f, S) \in [SUBSET S -> Nat]
         /\ \A T \in SUBSET S : Total(f, T) = SumTable(f, S)[T]
<1> DEFINE table == SumTable(f, S)
<1>1. PICK g \in [SUBSET S -> Nat] : g = SumStep(f, S, g)
  BY TableExists
<1>2. table = SumStep(f, S, table)
  BY <1>1 DEF SumTable
<1> HIDE DEF table
<1>3. \A s \in SUBSET S : table[s] = g[s]
  BY <1>1, <1>2, TablesAgree
<1>4. table \in [SUBSET S -> Nat]
  <2>1. table = [s \in SUBSET S |-> table[s]]
    BY <1>2 DEF SumStep
  <2> QED BY <1>1, <1>3, <2>1
<1>5. ASSUME NEW T \in SUBSET S PROVE Total(f, T) = table[T]
  <2> DEFINE part == [s \in SUBSET T |-> table[s]]
             own == SumTable(f, T)
  <2>1. part = SumStep(f, T, part)
    <3>1. ASSUME NEW s \in SUBSET T
          PROVE  part[s] = (IF s = {} THEN 0 ELSE f[Picked(s)] + part[s \ {Picked(s)}])
      <4>1. s \in SUBSET S /\ s \ {Picked(s)} \in SUBSET T
        OBVIOUS
      <4>2. part[s] = table[s] /\ part[s \ {Picked(s)}] = table[s \ {Picked(s)}]
        BY <4>1
      <4>3. table[s] = (IF s = {} THEN 0 ELSE f[Picked(s)] + table[s \ {Picked(s)}])
        BY <1>2, <4>1 DEF SumStep
      <4> QED BY <4>2, <4>3
    <3> QED BY <3>1 DEF SumStep
  <2> HIDE DEF part
  <2>2. own = SumStep(f, T, own)
    BY <2>1 DEF SumTable
  <2> HIDE DEF own
  <2>3. table[T] = own[T]
    BY <1>2, <2>2, TablesAgree
  <2> QED BY <2>3 DEF Total, own
<1> QED BY <1>2, <1>4, <1>5 DEF table

\* A sum of naturals is a natural.
LEMMA TotalType ==
  ASSUME NEW S, IsFiniteSet(S), NEW f \in [S -> Nat]
  PROVE  Total(f, S) \in Nat
<1>1. SumTable(f, S) \in [SUBSET S -> Nat] /\ S \in SUBSET S
  BY TableIsSound
<1> QED BY <1>1 DEF Total

\* Whichever element is taken out, it takes its own value with it.
LEMMA TotalRemove ==
  ASSUME NEW S, IsFiniteSet(S), NEW f \in [S -> Nat]
  PROVE  \A T \in SUBSET S : \A x \in T : SumTable(f, S)[T] = f[x] + SumTable(f, S)[T \ {x}]
<1> DEFINE table == SumTable(f, S)
           Fails(T) == \E x \in T : table[T] # f[x] + table[T \ {x}]
           bad == {n \in Nat : \E T \in SUBSET S : Cardinality(T) = n /\ Fails(T)}
<1>0. /\ \A T \in SUBSET S : IsFiniteSet(T) /\ Cardinality(T) \in Nat
  BY FS_Subset, FS_CardinalityType
<1>1. table = SumStep(f, S, table) /\ table \in [SUBSET S -> Nat]
  BY TableIsSound
<1> HIDE DEF table
<1>2. SUFFICES ASSUME bad # {} PROVE FALSE
  BY <1>0 DEF table
<1>3. PICK n \in bad : \A m \in bad : n <= m
  <2>1. bad \in SUBSET Nat
    OBVIOUS
  <2> HIDE DEF bad
  <2> QED BY <1>2, <2>1, LeastNatural
<1>a. PICK T \in SUBSET S : Cardinality(T) = n /\ Fails(T)
  BY <1>3
<1>4. PICK x \in T : Cardinality(T) = n /\ table[T] # f[x] + table[T \ {x}]
  BY <1>a
<1> DEFINE c == Picked(T)
<1>5. c \in T /\ table[T] = f[c] + table[T \ {c}]
  BY <1>1, <1>4 DEF SumStep, Picked
<1>6. c # x
  BY <1>4, <1>5
<1> HIDE DEF c
<1>7. /\ T \ {c} \in SUBSET S /\ x \in T \ {c} /\ Cardinality(T \ {c}) = n - 1
      /\ T \ {x} \in SUBSET S /\ c \in T \ {x} /\ Cardinality(T \ {x}) = n - 1
      /\ n \in Nat /\ n - 1 \in Nat
  <2>1. IsFiniteSet(T) /\ n \in Nat /\ Cardinality(T) = n
    BY <1>0, <1>4
  <2>2. Cardinality(T \ {c}) = n - 1 /\ Cardinality(T \ {x}) = n - 1
    BY <2>1, <1>5, FS_RemoveElement
  <2>3. n # 0
    BY <2>1, <1>5, FS_EmptySet
  <2> QED BY <2>1, <2>2, <2>3, <1>5, <1>6
<1>8. ~Fails(T \ {c}) /\ ~Fails(T \ {x})
  <2>1. ~(n <= n - 1)
    BY <1>7
  <2>2. n - 1 \notin bad
    BY <2>1, <1>3
  <2> QED BY <2>2, <1>7
<1>9. /\ table[T \ {c}] = f[x] + table[(T \ {c}) \ {x}]
      /\ table[T \ {x}] = f[c] + table[(T \ {x}) \ {c}]
  BY <1>7, <1>8
<1>10. (T \ {c}) \ {x} = (T \ {x}) \ {c} /\ (T \ {c}) \ {x} \in SUBSET S
  OBVIOUS
<1>11. f[x] \in Nat /\ f[c] \in Nat /\ table[(T \ {c}) \ {x}] \in Nat
  BY <1>1, <1>5, <1>10
<1>12. table[T] = f[x] + table[T \ {x}]
  <2>1. PICK v \in Nat : v = table[(T \ {c}) \ {x}]
    BY <1>11
  <2>2. table[T] = f[c] + (f[x] + v) /\ table[T \ {x}] = f[c] + v
    BY <2>1, <1>5, <1>9, <1>10
  <2>3. f[c] + (f[x] + v) = f[x] + (f[c] + v)
    BY <1>11
  <2> QED BY <2>2, <2>3
<1> QED BY <1>4, <1>12

\* A part of the set has no more than the whole.
LEMMA TotalGrows ==
  ASSUME NEW S, IsFiniteSet(S), NEW f \in [S -> Nat], NEW T \in SUBSET S
  PROVE  Total(f, T) <= Total(f, S)
<1> DEFINE table == SumTable(f, S)
           bad == {n \in Nat : \E U \in SUBSET S : T \subseteq U /\ Cardinality(U) = n
                                                  /\ ~(table[T] <= table[U])}
<1>0. \A U \in SUBSET S : IsFiniteSet(U) /\ Cardinality(U) \in Nat
  BY FS_Subset, FS_CardinalityType
<1>a. table \in [SUBSET S -> Nat] /\ \A U \in SUBSET S : Total(f, U) = table[U]
  BY TableIsSound
<1>b. \A U \in SUBSET S : \A x \in U : table[U] = f[x] + table[U \ {x}]
  BY TotalRemove
<1>c. S \in SUBSET S
  OBVIOUS
<1>1. /\ table \in [SUBSET S -> Nat] /\ Total(f, T) = table[T] /\ Total(f, S) = table[S]
      /\ \A U \in SUBSET S : \A x \in U : table[U] = f[x] + table[U \ {x}]
  BY <1>a, <1>b, <1>c
<1> HIDE DEF table
<1>2. SUFFICES ASSUME bad # {} PROVE FALSE
  BY <1>0, <1>1
<1>3. PICK n \in bad : \A m \in bad : n <= m
  <2>1. bad \in SUBSET Nat
    OBVIOUS
  <2> HIDE DEF bad
  <2> QED BY <1>2, <2>1, LeastNatural
<1>4. PICK U \in SUBSET S : T \subseteq U /\ Cardinality(U) = n /\ ~(table[T] <= table[U])
  BY <1>3
<1>5. PICK x \in U : x \notin T
  <2>1. table[T] \in Nat
    BY <1>1
  <2>2. U # T
    BY <2>1, <1>4
  <2> QED BY <2>2, <1>4
<1> DEFINE rest == U \ {x}
<1>6. rest \in SUBSET S /\ T \subseteq rest /\ Cardinality(rest) = n - 1 /\ n \in Nat /\ n - 1 \in Nat
  <2>1. IsFiniteSet(U) /\ n \in Nat /\ Cardinality(U) = n /\ n # 0
    BY <1>0, <1>4, <1>5, FS_EmptySet
  <2>2. Cardinality(rest) = n - 1
    BY <2>1, FS_RemoveElement
  <2> QED BY <2>1, <2>2, <1>4, <1>5
<1>7. table[T] <= table[rest]
  <2>1. ~(n <= n - 1)
    BY <1>6
  <2>2. n - 1 \notin bad
    BY <2>1, <1>3
  <2> QED BY <2>2, <1>6
<1>8. table[U] = f[x] + table[rest] /\ f[x] \in Nat
  BY <1>1
<1>9. table[T] \in Nat /\ table[rest] \in Nat
  BY <1>1, <1>6
<1> QED BY <1>4, <1>7, <1>8, <1>9

================================================================================
