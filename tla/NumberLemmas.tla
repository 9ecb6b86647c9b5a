---------------------------- MODULE NumberLemmas ----------------------------
(***************************************************************************)
(* The facts about numbers the proofs of this project need and the library *)
(* states only with an operator parameter, or not at all: a non-empty set  *)
(* of natural numbers has a least element, and a sum over a finite set is   *)
(* the same in whatever order it is added up.                              *)
(***************************************************************************)
EXTENDS Integers, FiniteSetTheorems, TLAPS

Below(T, x) == {y \in T : y < x}

(* Every non-empty set of natural numbers has a least element: the sets     *)
(* Below(T, x) are finite, and finite sets are well founded under strict    *)
(* inclusion.  The search loops of the code (first unsent event, smallest   *)
(* sequence number) find something by this lemma.                           *)
LEMMA LeastOfNat ==
  ASSUME NEW T, T \subseteq Nat, T # {}
  PROVE  \E x \in T : \A y \in T : x <= y
<1> DEFINE F == {Below(T, x) : x \in T}
<1>0. \A z \in T : z \in Nat
  OBVIOUS
<1>1. F \subseteq FiniteSubsetsOf(Nat)
  <2>1. ASSUME NEW x \in T PROVE IsFiniteSet(Below(T, x))
    <3>1. x \in Nat /\ Below(T, x) \in SUBSET Nat
      BY DEF Below
    <3>2. \A s \in Below(T, x) : s <= x
      BY <3>1, <1>0 DEF Below
    <3>3. QED
      BY <3>1, <3>2, FS_BoundedSetOfNaturals
  <2>2. QED
    BY <2>1 DEF FiniteSubsetsOf, Below
<1>2. IsWellFoundedOn(StrictSubsetOrdering(Nat), FiniteSubsetsOf(Nat))
  BY FS_StrictSubsetOrderingWellFounded
<1>3. F # {}
  OBVIOUS
<1>4. PICK m \in F : \A b \in F : ~(<<b, m>> \in StrictSubsetOrdering(Nat))
  <2> HIDE DEF F
  <2> QED BY <1>1, <1>2, <1>3, WFMin
<1>5. PICK x \in T : m = Below(T, x)
  BY <1>4
<1>6. ASSUME NEW y \in T PROVE x <= y
  <2>1. SUFFICES ASSUME y < x PROVE FALSE
    OBVIOUS
  <2>2. y \in Below(T, x) /\ y \notin Below(T, y)
    BY <2>1 DEF Below
  <2>3. Below(T, y) \subseteq Below(T, x)
    <3>1. ASSUME NEW z \in Below(T, y) PROVE z \in T /\ z < x
      BY <2>1, <1>0 DEF Below
    <3>2. QED
      BY <3>1 DEF Below
  <2>4. <<Below(T, y), m>> \in StrictSubsetOrdering(Nat)
    BY <2>2, <2>3, <1>5 DEF StrictSubsetOrdering, Below
  <2>5. QED
    BY <2>4, <1>4
<1>7. QED
  BY <1>6

-----------------------------------------------------------------------------
(* Sums over finite sets, of the values a function has there.  The sum of   *)
(* the community modules is a recursive function on the subsets of the set  *)
(* which at each takes off the element CHOOSE picks; Adds(f, S, g) says     *)
(* that g is that function.                                                *)
Pick(s) == CHOOSE x \in s : TRUE

Adds(f, S, g) == g = [s \in SUBSET S |-> IF s = {} THEN 0 ELSE f[Pick(s)] + g[s \ {Pick(s)}]]

Total(f, S) == (CHOOSE g : Adds(f, S, g))[S]

LEMMA PickIn == ASSUME NEW s, s # {} PROVE Pick(s) \in s
BY DEF Pick

LEMMA AddsAt ==
  ASSUME NEW f, NEW S, NEW g, Adds(f, S, g), NEW s \in SUBSET S
  PROVE  /\ s = {} => g[s] = 0
         /\ s # {} => g[s] = f[Pick(s)] + g[s \ {Pick(s)}] /\ s \ {Pick(s)} \in SUBSET S
<1> DEFINE h == [t \in SUBSET S |-> IF t = {} THEN 0 ELSE f[Pick(t)] + g[t \ {Pick(t)}]]
<1>1. g = h
  BY DEF Adds
<1>2. h[s] = IF s = {} THEN 0 ELSE f[Pick(s)] + g[s \ {Pick(s)}]
  OBVIOUS
<1>3. QED
  BY <1>1, <1>2

LEMMA AddsEmpty == ASSUME NEW f, NEW S, NEW g, Adds(f, S, g) PROVE g[{}] = 0
<1>1. {} \in SUBSET S
  OBVIOUS
<1>2. QED
  BY <1>1, AddsAt

(* Induction on the size of a finite set, for a set of counterexamples.     *)
LEMMA SmallestSet ==
  ASSUME NEW W, W # {}, \A s \in W : IsFiniteSet(s)
  PROVE  \E s \in W : \A t \in W : t \subseteq s => t = s
<1> DEFINE Sizes_ == {Cardinality(s) : s \in W}
<1>1. Sizes_ \subseteq Nat /\ Sizes_ # {}
  BY FS_CardinalityType
<1>2. PICK n \in Sizes_ : \A m \in Sizes_ : n <= m
  <2> HIDE DEF Sizes_
  <2> QED BY <1>1, LeastOfNat
<1>3. PICK s \in W : n = Cardinality(s)
  OBVIOUS
<1>4. ASSUME NEW t \in W, t \subseteq s PROVE t = s
  <2>1. Cardinality(s) <= Cardinality(t)
    BY <1>2, <1>3
  <2>2. Cardinality(s) \in Nat /\ Cardinality(t) \in Nat /\ Cardinality(t) <= Cardinality(s)
    BY <1>4, FS_Subset, FS_CardinalityType
  <2>3. Cardinality(s) = Cardinality(t)
    BY <2>1, <2>2
  <2>4. QED
    BY <1>4, <2>3, FS_Subset
<1>5. QED
  BY <1>4

(* Two such functions agree on a finite set on which the values agree.      *)
LEMMA AddsAgree ==
  ASSUME NEW f, NEW S, NEW g, Adds(f, S, g),
         NEW e, NEW T, NEW h, Adds(e, T, h),
         NEW s, s \subseteq S, s \subseteq T, IsFiniteSet(s), \A x \in s : f[x] = e[x]
  PROVE  g[s] = h[s]
<1> DEFINE W == {t \in SUBSET s : g[t] # h[t]}
<1>1. W = {}
  <2> SUFFICES ASSUME W # {} PROVE FALSE
    OBVIOUS
  <2>1. PICK t \in W : \A u \in W : u \subseteq t => u = t
    <3>1. \A u \in W : IsFiniteSet(u)
      BY FS_Subset
    <3> HIDE DEF W
    <3> QED BY <3>1, SmallestSet
  <2>2. t # {}
    <3>1. g[{}] = 0
      BY AddsEmpty
    <3>2. h[{}] = 0
      BY AddsEmpty
    <3>3. QED
      BY <3>1, <3>2
  <2>3. Pick(t) \in t /\ t \ {Pick(t)} \in SUBSET s /\ t \ {Pick(t)} # t
    BY <2>2, PickIn
  <2>4. g[t \ {Pick(t)}] = h[t \ {Pick(t)}]
    BY <2>1, <2>3
  <2>5. g[t] = f[Pick(t)] + g[t \ {Pick(t)}]
    BY <2>2, AddsAt
  <2>6. h[t] = e[Pick(t)] + h[t \ {Pick(t)}]
    BY <2>2, AddsAt
  <2>7. QED
    BY <2>3, <2>4, <2>5, <2>6
<1>2. QED
  BY <1>1

(* There is such a function of every finite set.                            *)
LEMMA AddsRestrict ==
  ASSUME NEW f, NEW S, NEW g, Adds(f, S, g), NEW s, s \subseteq S
  PROVE  Adds(f, s, [t \in SUBSET s |-> g[t]])
<1> DEFINE h == [t \in SUBSET s |-> g[t]]
           k == [t \in SUBSET s |-> IF t = {} THEN 0 ELSE f[Pick(t)] + h[t \ {Pick(t)}]]
<1>1. ASSUME NEW t \in SUBSET s PROVE h[t] = k[t]
  <2>1. CASE t = {}
    BY <2>1, AddsAt
  <2>2. CASE t # {}
    <3>1. h[t] = g[t] /\ t \ {Pick(t)} \in SUBSET s /\ t \in SUBSET S
      OBVIOUS
    <3>2. g[t] = f[Pick(t)] + g[t \ {Pick(t)}]
      BY <2>2, <3>1, AddsAt
    <3>3. h[t \ {Pick(t)}] = g[t \ {Pick(t)}]
      BY <3>1
    <3>4. QED
      BY <2>2, <3>1, <3>2, <3>3
  <2>3. QED
    BY <2>1, <2>2
<1>2. h = k
  <2> HIDE DEF Pick
  <2>1. h = [t \in SUBSET s |-> h[t]] /\ k = [t \in SUBSET s |-> k[t]]
    OBVIOUS
  <2> HIDE DEF h, k
  <2> QED BY <1>1, <2>1
<1>3. QED
  BY <1>2 DEF Adds

LEMMA AddsExists ==
  ASSUME NEW f, NEW S, IsFiniteSet(S)
  PROVE  \E g : Adds(f, S, g)
<1> DEFINE W == {s \in SUBSET S : ~\E g : Adds(f, s, g)}
<1>1. W = {}
  <2> SUFFICES ASSUME W # {} PROVE FALSE
    OBVIOUS
  <2>1. PICK s \in W : \A t \in W : t \subseteq s => t = s
    <3>1. \A u \in W : IsFiniteSet(u)
      BY FS_Subset
    <3> HIDE DEF W
    <3> QED BY <3>1, SmallestSet
  <2> DEFINE part(t) == CHOOSE g : Adds(f, t, g)
  <2>2. ASSUME NEW t, t \subseteq s, t # s PROVE Adds(f, t, part(t))
    <3>1. \E g : Adds(f, t, g)
      BY <2>1, <2>2
    <3>2. QED
      BY <3>1
  <2> HIDE DEF part
  <2>3. ASSUME NEW t, t \subseteq s, t # s, NEW u, u \subseteq t
        PROVE  part(t)[u] = part(u)[u]
    <3>1. u \subseteq s /\ u # s /\ IsFiniteSet(u)
      BY <2>3, FS_Subset
    <3>2. Adds(f, t, part(t)) /\ Adds(f, u, part(u))
      BY <2>2, <2>3, <3>1
    <3>3. QED
      BY <2>3, <3>1, <3>2, AddsAgree
  <2> DEFINE sum(t) == IF t = {} THEN 0 ELSE f[Pick(t)] + part(t \ {Pick(t)})[t \ {Pick(t)}]
             g == [t \in SUBSET s |-> sum(t)]
             h == [t \in SUBSET s |-> IF t = {} THEN 0 ELSE f[Pick(t)] + g[t \ {Pick(t)}]]
  <2>4. ASSUME NEW t, t \subseteq s, t # s PROVE sum(t) = part(t)[t]
    <3>1. Adds(f, t, part(t)) /\ t \in SUBSET t
      BY <2>2, <2>4
    <3>2. CASE t = {}
      BY <3>1, <3>2, AddsAt
    <3>3. CASE t # {}
      <4>1. part(t)[t] = f[Pick(t)] + part(t)[t \ {Pick(t)}]
        BY <3>1, <3>3, AddsAt
      <4>2. part(t)[t \ {Pick(t)}] = part(t \ {Pick(t)})[t \ {Pick(t)}]
        BY <2>3, <2>4
      <4>3. QED
        BY <3>3, <4>1, <4>2
    <3>4. QED
      BY <3>2, <3>3
  <2>5. ASSUME NEW t \in SUBSET s PROVE g[t] = h[t]
    <3>1. CASE t = {}
      BY <3>1
    <3>2. CASE t # {}
      <4>1. Pick(t) \in t
        BY <3>2, PickIn
      <4>2. t \ {Pick(t)} \in SUBSET s /\ t \ {Pick(t)} # s
        BY <4>1
      <4>3. g[t \ {Pick(t)}] = part(t \ {Pick(t)})[t \ {Pick(t)}]
        <5>1. g[t \ {Pick(t)}] = sum(t \ {Pick(t)})
          BY <4>2
        <5> HIDE DEF sum
        <5> QED BY <4>2, <5>1, <2>4
      <4>4. QED
        BY <3>2, <4>3
    <3>3. QED
      BY <3>1, <3>2
  <2>6. g = h
    <3>1. g = [t \in SUBSET s |-> g[t]] /\ h = [t \in SUBSET s |-> h[t]]
      OBVIOUS
    <3> HIDE DEF g, h
    <3> QED BY <2>5, <3>1
  <2>7. Adds(f, s, g)
    BY <2>6 DEF Adds
  <2>8. QED
    BY <2>1, <2>7
<1>2. QED
  BY <1>1

LEMMA TotalOf ==
  ASSUME NEW f, NEW S, IsFiniteSet(S), NEW T, S \subseteq T, NEW e, NEW g, Adds(e, T, g),
         \A x \in S : f[x] = e[x]
  PROVE  g[S] = Total(f, S)
<1>1. PICK k : Adds(f, S, k)
  BY AddsExists
<1> DEFINE h == CHOOSE h : Adds(f, S, h)
<1>2. Adds(f, S, h)
  BY <1>1
<1>3. Total(f, S) = h[S]
  BY DEF Total
<1> HIDE DEF h
<1>4. QED
  BY <1>2, <1>3, AddsAgree

(* The sum depends on the values in the set alone.                          *)
LEMMA TotalSame ==
  ASSUME NEW f, NEW e, NEW S, IsFiniteSet(S), \A x \in S : f[x] = e[x]
  PROVE  Total(f, S) = Total(e, S)
<1>1. PICK g : Adds(e, S, g)
  BY AddsExists
<1>2. g[S] = Total(f, S)
  BY <1>1, TotalOf
<1>3. g[S] = Total(e, S)
  BY <1>1, TotalOf
<1>4. QED
  BY <1>2, <1>3

LEMMA TotalEmpty == ASSUME NEW f PROVE Total(f, {}) = 0
<1>1. IsFiniteSet({})
  BY FS_EmptySet
<1>2. PICK g : Adds(f, {}, g)
  BY <1>1, AddsExists
<1>3. g[{}] = 0
  BY <1>2, AddsEmpty
<1>4. g[{}] = Total(f, {})
  BY <1>1, <1>2, TotalOf
<1>5. QED
  BY <1>3, <1>4

LEMMA TotalPick ==
  ASSUME NEW f, NEW S, IsFiniteSet(S), S # {}
  PROVE  Total(f, S) = f[Pick(S)] + Total(f, S \ {Pick(S)})
<1>1. PICK g : Adds(f, S, g)
  BY AddsExists
<1>2. IsFiniteSet(S \ {Pick(S)})
  BY FS_Subset
<1>3. g[S] = Total(f, S)
  BY <1>1, TotalOf
<1>4. g[S \ {Pick(S)}] = Total(f, S \ {Pick(S)})
  BY <1>1, <1>2, TotalOf
<1>5. g[S] = f[Pick(S)] + g[S \ {Pick(S)}]
  <2>1. S \in SUBSET S
    OBVIOUS
  <2>2. QED
    BY <1>1, <2>1, AddsAt
<1>6. QED
  BY <1>3, <1>4, <1>5

(* A sum of natural numbers is one; a sum of integers is one.               *)
LEMMA TotalNat ==
  ASSUME NEW f, NEW S, IsFiniteSet(S), \A x \in S : f[x] \in Nat
  PROVE  Total(f, S) \in Nat
<1> DEFINE W == {s \in SUBSET S : Total(f, s) \notin Nat}
<1>1. W = {}
  <2> SUFFICES ASSUME W # {} PROVE FALSE
    OBVIOUS
  <2>1. PICK s \in W : \A t \in W : t \subseteq s => t = s
    <3>1. \A u \in W : IsFiniteSet(u)
      BY FS_Subset
    <3> HIDE DEF W
    <3> QED BY <3>1, SmallestSet
  <2>2. s # {}
    BY TotalEmpty
  <2>3. Pick(s) \in s /\ s \ {Pick(s)} # s /\ s \ {Pick(s)} \in SUBSET S
    BY <2>2, PickIn
  <2>4. Total(f, s \ {Pick(s)}) \in Nat /\ f[Pick(s)] \in Nat
    BY <2>1, <2>3
  <2>5. Total(f, s) = f[Pick(s)] + Total(f, s \ {Pick(s)})
    BY <2>2, FS_Subset, TotalPick
  <2>6. QED
    BY <2>4, <2>5
<1>2. QED
  BY <1>1

LEMMA TotalInt ==
  ASSUME NEW f, NEW S, IsFiniteSet(S), \A x \in S : f[x] \in Int
  PROVE  Total(f, S) \in Int
<1> DEFINE W == {s \in SUBSET S : Total(f, s) \notin Int}
<1>1. W = {}
  <2> SUFFICES ASSUME W # {} PROVE FALSE
    OBVIOUS
  <2>1. PICK s \in W : \A t \in W : t \subseteq s => t = s
    <3>1. \A u \in W : IsFiniteSet(u)
      BY FS_Subset
    <3> HIDE DEF W
    <3> QED BY <3>1, SmallestSet
  <2>2. s # {}
    BY TotalEmpty
  <2>3. Pick(s) \in s /\ s \ {Pick(s)} # s /\ s \ {Pick(s)} \in SUBSET S
    BY <2>2, PickIn
  <2>4. Total(f, s \ {Pick(s)}) \in Int /\ f[Pick(s)] \in Int
    BY <2>1, <2>3
  <2>5. Total(f, s) = f[Pick(s)] + Total(f, s \ {Pick(s)})
    BY <2>2, FS_Subset, TotalPick
  <2>6. QED
    BY <2>4, <2>5
<1>2. QED
  BY <1>1

(* Whichever element is taken off first, what is left adds up to the rest.  *)
LEMMA TotalWithout ==
  ASSUME NEW f, NEW S, IsFiniteSet(S), \A x \in S : f[x] \in Int, NEW x \in S
  PROVE  Total(f, S) = f[x] + Total(f, S \ {x})
<1> DEFINE W == {s \in SUBSET S : \E y \in s : Total(f, s) # f[y] + Total(f, s \ {y})}
<1>0. \A s \in SUBSET S : IsFiniteSet(s) /\ Total(f, s) \in Int
  BY FS_Subset, TotalInt
<1>1. W = {}
  <2> SUFFICES ASSUME W # {} PROVE FALSE
    OBVIOUS
  <2>1. PICK s \in W : \A t \in W : t \subseteq s => t = s
    <3>1. \A u \in W : IsFiniteSet(u)
      BY <1>0
    <3> HIDE DEF W
    <3> QED BY <3>1, SmallestSet
  <2>2. PICK y \in s : Total(f, s) # f[y] + Total(f, s \ {y})
    OBVIOUS
  <2> DEFINE c == Pick(s)
  <2>3. c \in s /\ Total(f, s) = f[c] + Total(f, s \ {c})
    BY <1>0, PickIn, TotalPick
  <2> HIDE DEF c
  <2>4. c # y
    BY <2>2, <2>3
  <2>5. /\ s \ {c} \in SUBSET S /\ s \ {y} \in SUBSET S
        /\ s \ {c} # s /\ s \ {y} # s
        /\ (s \ {c}) \ {y} = (s \ {y}) \ {c} /\ (s \ {c}) \ {y} \in SUBSET S
    BY <2>3
  <2>6. Total(f, s \ {c}) = f[y] + Total(f, (s \ {c}) \ {y})
    <3>1. s \ {c} \notin W /\ y \in s \ {c}
      BY <2>1, <2>4, <2>5
    <3>2. QED
      BY <2>5, <3>1
  <2>7. Total(f, s \ {y}) = f[c] + Total(f, (s \ {y}) \ {c})
    <3>1. s \ {y} \notin W /\ c \in s \ {y}
      BY <2>1, <2>3, <2>4, <2>5
    <3>2. QED
      BY <2>5, <3>1
  <2>8. /\ f[c] \in Int /\ f[y] \in Int /\ Total(f, (s \ {c}) \ {y}) \in Int
    BY <1>0, <2>3, <2>5
  <2> DEFINE v == Total(f, (s \ {c}) \ {y})
             fc == f[c]
             fy == f[y]
  <2>9. /\ Total(f, s) = fc + (fy + v) /\ Total(f, s \ {y}) = fc + v
        /\ fc \in Int /\ fy \in Int /\ v \in Int
    BY <2>3, <2>5, <2>6, <2>7, <2>8
  <2>10. Total(f, s) # fy + Total(f, s \ {y})
    BY <2>2
  <2> HIDE DEF v, fc, fy
  <2>11. QED
    BY <2>9, <2>10
<1>2. S \notin W
  BY <1>1
<1>3. QED
  BY <1>2

LEMMA TotalWith ==
  ASSUME NEW f, NEW S, IsFiniteSet(S), NEW x, x \notin S, \A y \in S \cup {x} : f[y] \in Int
  PROVE  Total(f, S \cup {x}) = f[x] + Total(f, S)
<1>1. IsFiniteSet(S \cup {x}) /\ x \in S \cup {x} /\ (S \cup {x}) \ {x} = S
  BY FS_AddElement
<1>2. Total(f, S \cup {x}) = f[x] + Total(f, (S \cup {x}) \ {x})
  BY <1>1, TotalWithout
<1>3. QED
  BY <1>1, <1>2
(* A sum is that of a part and of the rest.                                 *)
LEMMA TotalSplit ==
  ASSUME NEW f, NEW S, IsFiniteSet(S), \A x \in S : f[x] \in Int, NEW T, T \subseteq S
  PROVE  Total(f, S) = Total(f, T) + Total(f, S \ T)
<1> DEFINE W == {s \in SUBSET S : Total(f, s) # Total(f, s \cap T) + Total(f, s \ T)}
<1>0. \A s \in SUBSET S : IsFiniteSet(s) /\ Total(f, s) \in Int
  BY FS_Subset, TotalInt
<1>without. ASSUME NEW u \in SUBSET S, NEW x \in u PROVE Total(f, u) = f[x] + Total(f, u \ {x})
  <2>1. IsFiniteSet(u) /\ \A y \in u : f[y] \in Int
    BY <1>0
  <2> QED BY <2>1, TotalWithout
<1>1. W = {}
  <2> SUFFICES ASSUME W # {} PROVE FALSE
    OBVIOUS
  <2>1. PICK s \in W : \A t \in W : t \subseteq s => t = s
    <3>1. \A u \in W : IsFiniteSet(u)
      BY <1>0
    <3> HIDE DEF W
    <3> QED BY <3>1, SmallestSet
  <2>2. s # {}
    <3>1. {} \cap T = {} /\ {} \ T = {} /\ Total(f, {}) = 0
      BY TotalEmpty
    <3>2. Total(f, {}) = Total(f, {} \cap T) + Total(f, {} \ T)
      BY <3>1
    <3> QED BY <3>2
  <2>3. PICK x \in s : TRUE
    BY <2>2
  <2> DEFINE r == s \ {x}
  <2>4. /\ r \in SUBSET S /\ r # s /\ s \in SUBSET S
        /\ r \cap T \in SUBSET S /\ r \ T \in SUBSET S /\ s \cap T \in SUBSET S /\ s \ T \in SUBSET S
    OBVIOUS
  <2>5. Total(f, r) = Total(f, r \cap T) + Total(f, r \ T)
    BY <2>1, <2>4
  <2>6. Total(f, s) = f[x] + Total(f, r)
    BY <1>without, <2>4
  <2>7. /\ Total(f, r \cap T) \in Int /\ Total(f, r \ T) \in Int /\ f[x] \in Int
        /\ Total(f, s) # Total(f, s \cap T) + Total(f, s \ T)
    BY <1>0, <2>4
  <2>8. CASE x \in T
    <3>1. (s \cap T) \ {x} = r \cap T /\ s \ T = r \ T /\ x \in s \cap T
      BY <2>8
    <3>2. Total(f, s \cap T) = f[x] + Total(f, r \cap T)
      <4>1. Total(f, s \cap T) = f[x] + Total(f, (s \cap T) \ {x})
        <5> HIDE DEF r, W
        <5> QED BY <1>without, <2>4, <3>1
      <4> QED BY <3>1, <4>1
    <3>3. Total(f, s \ T) = Total(f, r \ T)
      BY <3>1
    <3> HIDE DEF r
    <3> QED BY <2>5, <2>6, <2>7, <3>2, <3>3
  <2>9. CASE x \notin T
    <3>1. (s \ T) \ {x} = r \ T /\ s \cap T = r \cap T /\ x \in s \ T
      BY <2>9
    <3>2. Total(f, s \ T) = f[x] + Total(f, r \ T)
      <4>1. Total(f, s \ T) = f[x] + Total(f, (s \ T) \ {x})
        <5> HIDE DEF r, W
        <5> QED BY <1>without, <2>4, <3>1
      <4> QED BY <3>1, <4>1
    <3>3. Total(f, s \cap T) = Total(f, r \cap T)
      BY <3>1
    <3> HIDE DEF r
    <3> QED BY <2>5, <2>6, <2>7, <3>2, <3>3
  <2> QED BY <2>8, <2>9
<1>2. S \notin W /\ S \cap T = T
  BY <1>1
<1>3. QED
  BY <1>2

(* Of natural numbers, a part adds up to no more than the whole.            *)
LEMMA TotalPart ==
  ASSUME NEW f, NEW S, IsFiniteSet(S), \A x \in S : f[x] \in Nat, NEW T, T \subseteq S
  PROVE  Total(f, T) <= Total(f, S)
<1>1. IsFiniteSet(T) /\ IsFiniteSet(S \ T)
  BY FS_Subset
<1>2. Total(f, T) \in Nat /\ Total(f, S \ T) \in Nat
  BY <1>1, TotalNat
<1>3. Total(f, S) = Total(f, T) + Total(f, S \ T)
  BY TotalSplit
<1>4. QED
  BY <1>2, <1>3
=============================================================================
