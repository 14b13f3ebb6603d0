---------------------------- MODULE CheckoutProofs ----------------------------
(***************************************************************************)
(* Theorems about the placing of orders, for any number of users, items,   *)
(* orders and faults, with and without a saga.                             *)
(***************************************************************************)
EXTENDS Checkout, FiniteSetTheorems, WellFoundedInduction, TLAPS

-----------------------------------------------------------------------------
(* A set of natural numbers has a least element, so that what holds of 0,   *)
(* and of n + 1 if of n, holds of all of them.  T is the set of those that  *)
(* it holds of: the lemma needs no operator for a parameter.                *)
LEMMA Smallest ==
  ASSUME NEW T \in SUBSET Nat, T # {}
  PROVE  \E m \in T : \A k \in T : m <= k
<1> DEFINE Less == {ss \in Nat \X Nat : ss[1] < ss[2]}
<1>1. IsWellFoundedOn(Less, Nat)
  BY NatLessThanWellFounded DEF OpToRel
<1>2. \A m, k \in Nat : k < m => <<k, m>> \in Less
  OBVIOUS
<1> HIDE DEF Less
<1>3. PICK m \in T : \A k \in T : ~ (<<k, m>> \in Less)
  BY <1>1, WFMin
<1>4. m \in Nat /\ \A k \in T : k \in Nat
  OBVIOUS
<1>5. ASSUME NEW k \in T PROVE m <= k
  <2>1. m \in Nat /\ k \in Nat /\ ~ (k < m)
    <3>1. ~ (<<k, m>> \in Less)
      BY <1>3
    <3>2. m \in Nat /\ k \in Nat
      OBVIOUS
    <3>3. QED
      BY <1>2, <3>1, <3>2
  <2>2. QED
    BY <2>1
<1> QED BY <1>5

(* The induction itself.                                                    *)
LEMMA Induction ==
  ASSUME NEW T, 0 \in T, \A n \in Nat : n \in T => n + 1 \in T
  PROVE  Nat \subseteq T
<1> SUFFICES ASSUME Nat \ T # {} PROVE FALSE
  OBVIOUS
<1>1. PICK m \in Nat \ T : \A k \in Nat \ T : m <= k
  BY Smallest
<1>2. m # 0 /\ m - 1 \in Nat
  BY <1>1
<1>3. m - 1 \in T
  BY <1>1, <1>2
<1> QED BY <1>1, <1>2, <1>3

-----------------------------------------------------------------------------
(* Sums over a set, as MapThenSumSet takes them: an element is picked, and  *)
(* what it is mapped to is added to the sum over the others.  g has the     *)
(* sums of f over the sets in D, or over the subsets of S.                  *)
Pick(s) == CHOOSE x \in s : TRUE
Below(S, n) == {s \in SUBSET S : Cardinality(s) <= n}
SumOn(D, f, g) == g = [s \in D |-> IF s = {} THEN 0 ELSE f[Pick(s)] + g[s \ {Pick(s)}]]
IsSum(S, f, g) == SumOn(SUBSET S, f, g)

(* What is picked is an element, and there is one less of them without it.  *)
LEMMA PickIsIn ==
  ASSUME NEW S, IsFiniteSet(S), NEW s \in SUBSET S, s # {}
  PROVE  /\ Pick(s) \in s /\ Pick(s) \in S
         /\ s \ {Pick(s)} \in SUBSET S
         /\ IsFiniteSet(s)
         /\ Cardinality(s) \in Nat
         /\ Cardinality(s) # 0
         /\ Cardinality(s \ {Pick(s)}) = Cardinality(s) - 1
<1>1. Pick(s) \in s
  BY DEF Pick
<1>2. IsFiniteSet(s)
  BY FS_Subset
<1>3. Cardinality(s) \in Nat /\ Cardinality(s) # 0
  BY <1>2, FS_CardinalityType, FS_EmptySet
<1>4. Cardinality(s \ {Pick(s)}) = Cardinality(s) - 1
  BY <1>1, <1>2, FS_RemoveElement
<1> HIDE DEF Pick
<1>5. QED
  BY <1>1, <1>2, <1>3, <1>4

(* What holds of the empty set, and of a set if without the picked element, *)
(* holds of every subset of a finite set.                                   *)
LEMMA PickInduction ==
  ASSUME NEW S, IsFiniteSet(S), NEW T, {} \in T,
         \A s \in SUBSET S : s # {} /\ s \ {Pick(s)} \in T => s \in T
  PROVE  SUBSET S \subseteq T
<1> DEFINE N == {n \in Nat : \A s \in SUBSET S : Cardinality(s) = n => s \in T}
<1>1. 0 \in N
  <2>1. ASSUME NEW s \in SUBSET S, Cardinality(s) = 0 PROVE s \in T
    BY <2>1, PickIsIn
  <2>2. QED
    BY <2>1
<1>2. ASSUME NEW n \in Nat, n \in N PROVE n + 1 \in N
  <2>1. ASSUME NEW s \in SUBSET S, Cardinality(s) = n + 1 PROVE s \in T
    <3>1. CASE s = {}
      BY <3>1
    <3>2. CASE s # {}
      <4>1. s \ {Pick(s)} \in SUBSET S /\ Cardinality(s \ {Pick(s)}) = n
        BY <2>1, <3>2, PickIsIn
      <4>2. s \ {Pick(s)} \in T
        BY <1>2, <4>1
      <4>3. QED
        BY <3>2, <4>2
    <3>3. QED
      BY <3>1, <3>2
  <2>2. QED
    BY <2>1
<1> HIDE DEF N
<1>3. Nat \subseteq N
  BY <1>1, <1>2, Induction
<1> USE DEF N
<1>4. ASSUME NEW s \in SUBSET S PROVE s \in T
  <2>1. Cardinality(s) \in Nat
    BY FS_Subset, FS_CardinalityType
  <2>2. QED
    BY <1>3, <2>1
<1>5. QED
  BY <1>4

(* There are sums over the subsets of a finite set.                         *)
LEMMA SumExists ==
  ASSUME NEW S, IsFiniteSet(S), NEW f
  PROVE  \E g : IsSum(S, f, g)
<1> DEFINE N == {n \in Nat : \E g : SumOn(Below(S, n), f, g)}
<1>1. 0 \in N
  <2> DEFINE g == [s \in Below(S, 0) |-> 0]
  <2>1. ASSUME NEW s \in Below(S, 0) PROVE s = {}
    <3>1. s \in SUBSET S /\ Cardinality(s) <= 0
      BY DEF Below
    <3>2. s # {} => Cardinality(s) \in Nat /\ Cardinality(s) # 0
      BY <3>1, PickIsIn
    <3>3. QED
      BY <3>1, <3>2
  <2>2. g = [s \in Below(S, 0) |-> IF s = {} THEN 0 ELSE f[Pick(s)] + g[s \ {Pick(s)}]]
    BY <2>1
  <2>3. SumOn(Below(S, 0), f, g)
    BY <2>2 DEF SumOn
  <2> HIDE DEF g
  <2>4. QED
    BY <2>3
<1>2. ASSUME NEW n \in Nat, n \in N PROVE n + 1 \in N
  <2>1. PICK g : SumOn(Below(S, n), f, g)
    BY <1>2
  <2> DEFINE k == [s \in Below(S, n + 1) |->
                     IF s = {} THEN 0 ELSE f[Pick(s)] + g[s \ {Pick(s)}]]
  <2>2. ASSUME NEW s \in Below(S, n + 1), s # {}
        PROVE  s \ {Pick(s)} \in Below(S, n)
    BY <2>2, PickIsIn DEF Below
  <2>3. ASSUME NEW s \in Below(S, n)
        PROVE  s \in Below(S, n + 1) /\ k[s] = g[s]
    <3>1. s \in Below(S, n + 1)
      <4>1. Cardinality(s) \in Nat
        BY FS_Subset, FS_CardinalityType DEF Below
      <4>2. QED
        BY <4>1 DEF Below
    <3>2. g[s] = IF s = {} THEN 0 ELSE f[Pick(s)] + g[s \ {Pick(s)}]
      BY <2>1 DEF SumOn
    <3>3. QED
      BY <3>1, <3>2
  <2>4. k = [s \in Below(S, n + 1) |->
               IF s = {} THEN 0 ELSE f[Pick(s)] + k[s \ {Pick(s)}]]
    <3>1. ASSUME NEW s \in Below(S, n + 1)
          PROVE  k[s] = IF s = {} THEN 0 ELSE f[Pick(s)] + k[s \ {Pick(s)}]
      <4>1. CASE s = {}
        BY <4>1
      <4>2. CASE s # {}
        <5>1. k[s \ {Pick(s)}] = g[s \ {Pick(s)}]
          BY <2>2, <2>3, <4>2
        <5>2. k[s] = f[Pick(s)] + g[s \ {Pick(s)}]
          BY <4>2
        <5> HIDE DEF k
        <5>3. QED
          BY <4>2, <5>1, <5>2
      <4>3. QED
        BY <4>1, <4>2
    <3>2. k = [s \in Below(S, n + 1) |-> k[s]]
      OBVIOUS
    <3> HIDE DEF k
    <3>3. QED
      BY <3>1, <3>2
  <2>5. SumOn(Below(S, n + 1), f, k)
    <3> HIDE DEF k
    <3>1. QED
      BY <2>4 DEF SumOn
  <2> HIDE DEF k
  <2>6. QED
    BY <2>5
<1> HIDE DEF N
<1>3. Nat \subseteq N
  BY <1>1, <1>2, Induction
<1> USE DEF N
<1>4. Cardinality(S) \in Nat
  BY FS_CardinalityType
<1>5. Below(S, Cardinality(S)) = SUBSET S
  <2>1. \A s \in SUBSET S : Cardinality(s) <= Cardinality(S)
    BY FS_Subset
  <2>2. QED
    BY <2>1 DEF Below
<1>6. PICK g : SumOn(Below(S, Cardinality(S)), f, g)
  BY <1>3, <1>4
<1>7. QED
  BY <1>5, <1>6 DEF IsSum

(* How a sum is taken.                                                      *)
LEMMA SumStep ==
  ASSUME NEW S, IsFiniteSet(S), NEW f, NEW g, IsSum(S, f, g)
  PROVE  /\ g[{}] = 0
         /\ \A s \in SUBSET S : s # {} => g[s] = f[Pick(s)] + g[s \ {Pick(s)}]
BY DEF IsSum, SumOn

(* f and h map the elements of S but o to the same numbers.                 *)
DifferAt(S, f, h, o) ==
  \A x \in S : f[x] \in Nat /\ h[x] \in Nat /\ (x # o => h[x] = f[x])

(* Then their sums differ by what they map o to.                            *)
LEMMA SumChanges ==
  ASSUME NEW S, IsFiniteSet(S), NEW f, NEW h, NEW g, NEW k, NEW o,
         DifferAt(S, f, h, o), IsSum(S, f, g), IsSum(S, h, k)
  PROVE  /\ g[S] \in Nat
         /\ o \in S => k[S] = g[S] + h[o] - f[o]
         /\ o \notin S => k[S] = g[S]
<1>1. /\ g[{}] = 0
      /\ \A s \in SUBSET S : s # {} => g[s] = f[Pick(s)] + g[s \ {Pick(s)}]
  BY SumStep
<1>2. /\ k[{}] = 0
      /\ \A s \in SUBSET S : s # {} => k[s] = h[Pick(s)] + k[s \ {Pick(s)}]
  BY SumStep
<1> DEFINE T == {s \in SUBSET S :
                   /\ g[s] \in Nat
                   /\ o \in s => k[s] = g[s] + h[o] - f[o]
                   /\ o \notin s => k[s] = g[s]}
<1>3. {} \in T
  BY <1>1, <1>2
<1>4. \A x \in S : f[x] \in Nat /\ h[x] \in Nat /\ (x # o => h[x] = f[x])
  BY DEF DifferAt
<1>5. ASSUME NEW s \in SUBSET S, s # {}, s \ {Pick(s)} \in T
      PROVE  s \in T
  <2>1. PICK x \in S : x = Pick(s) /\ x \in s
    BY <1>5, PickIsIn
  <2>2. PICK t \in SUBSET S : t = s \ {x} /\ t \in T
    BY <1>5, <2>1
  <2>3. g[s] = f[x] + g[t] /\ k[s] = h[x] + k[t]
    <3>1. g[s] = f[Pick(s)] + g[s \ {Pick(s)}]
      BY <1>1, <1>5
    <3>2. k[s] = h[Pick(s)] + k[s \ {Pick(s)}]
      BY <1>2, <1>5
    <3>3. QED
      BY <2>1, <2>2, <3>1, <3>2
  <2>4. g[s] \in Nat
    BY <1>4, <2>2, <2>3
  <2>5. CASE x = o
    BY <1>4, <2>1, <2>2, <2>3, <2>5
  <2>6. CASE x # o
    <3>1. h[x] = f[x] /\ f[x] \in Nat /\ g[t] \in Nat
      BY <1>4, <2>2, <2>6
    <3>2. o \in s <=> o \in t
      BY <2>2, <2>6
    <3>3. CASE o \in s
      <4>1. k[t] = g[t] + h[o] - f[o] /\ h[o] \in Nat /\ f[o] \in Nat
        BY <1>4, <2>2, <3>2, <3>3
      <4>2. k[s] = g[s] + h[o] - f[o]
        BY <2>3, <3>1, <4>1
      <4>3. QED
        BY <2>4, <3>3, <4>2
    <3>4. CASE o \notin s
      BY <2>2, <2>3, <2>4, <3>1, <3>2, <3>4
    <3>5. QED
      BY <3>3, <3>4
  <2>7. QED
    BY <2>4, <2>5, <2>6
<1> HIDE DEF T
<1>6. SUBSET S \subseteq T
  BY <1>3, <1>5, PickInduction
<1> USE DEF T
<1>7. S \in T
  BY <1>6
<1>8. QED
  BY <1>7

(* A sum of zeros is zero.                                                  *)
LEMMA SumOfNothing ==
  ASSUME NEW S, IsFiniteSet(S), NEW f, NEW g, IsSum(S, f, g), \A x \in S : f[x] = 0
  PROVE  g[S] = 0
<1> DEFINE T == {s \in SUBSET S : g[s] = 0}
<1>1. {} \in T
  BY SumStep
<1>2. ASSUME NEW s \in SUBSET S, s # {}, s \ {Pick(s)} \in T
      PROVE  s \in T
  <2>1. f[Pick(s)] = 0 /\ g[s \ {Pick(s)}] = 0
    BY <1>2, PickIsIn
  <2>2. g[s] = f[Pick(s)] + g[s \ {Pick(s)}]
    BY <1>2, SumStep
  <2>3. QED
    BY <2>1, <2>2
<1> HIDE DEF T
<1>3. SUBSET S \subseteq T
  BY <1>1, <1>2, PickInduction
<1> USE DEF T
<1>4. QED
  BY <1>3

(* A user has asked for finitely many orders.                               *)
LEMMA OrdersOfIsFinite ==
  ASSUME NEW u
  PROVE  IsFiniteSet(OrdersOf(u))
<1>1. IsFiniteSet(Orders)
  BY CheckoutAssumption
<1>2. OrdersOf(u) \subseteq Orders
  BY DEF OrdersOf
<1>3. QED
  BY <1>1, <1>2, FS_Subset

(* What is shipped for an order is the sum over its shipments ...           *)
LEMMA ShippedForIsSum ==
  ASSUME NEW t, NEW o, NEW i, IsFiniteSet(t[o])
  PROVE  \E g : /\ IsSum(t[o], [cart \in t[o] |-> cart[i]], g)
                /\ ShippedFor(t, o, i) = g[t[o]]
<1> DEFINE S == t[o]
           f == [cart \in S |-> cart[i]]
           Rec(k) == k = [s \in SUBSET S |->
                            IF s = {} THEN 0
                            ELSE (CHOOSE x \in s : TRUE)[i] + k[s \ {CHOOSE x \in s : TRUE}]]
<1>1. ASSUME NEW s \in SUBSET S, s # {}
      PROVE  f[Pick(s)] = Pick(s)[i]
  BY <1>1, PickIsIn
<1>2. \A g : IsSum(S, f, g) <=> Rec(g)
  <2> HIDE DEF f
  <2>1. QED
    BY <1>1 DEF IsSum, SumOn, Pick
<1>3. PICK k : IsSum(S, f, k)
  BY SumExists
<1>4. PICK g : g = CHOOSE h : Rec(h)
  OBVIOUS
<1>5. Rec(k)
  BY <1>2, <1>3
<1>6. Rec(g)
  <2> HIDE DEF Rec
  <2>1. QED
    BY <1>4, <1>5, Zenon
<1>7. ShippedFor(t, o, i) = g[S]
  BY <1>4 DEF ShippedFor, MapThenSumSet, MapThenFoldSet
<1>8. QED
  BY <1>2, <1>6, <1>7

(* ... and what is shipped to a user the sum over the orders of that user.  *)
LEMMA ShippedToIsSum ==
  ASSUME NEW t, NEW u, NEW i
  PROVE  \E g : /\ IsSum(OrdersOf(u), [o \in OrdersOf(u) |-> ShippedFor(t, o, i)], g)
                /\ ShippedTo(t, u, i) = g[OrdersOf(u)]
<1> DEFINE S == OrdersOf(u)
           f == [o \in S |-> ShippedFor(t, o, i)]
           Rec(k) == k = [s \in SUBSET S |->
                            IF s = {} THEN 0
                            ELSE ShippedFor(t, CHOOSE x \in s : TRUE, i)
                                   + k[s \ {CHOOSE x \in s : TRUE}]]
<1>1. IsFiniteSet(S)
  BY OrdersOfIsFinite
<1>2. ASSUME NEW s \in SUBSET S, s # {}
      PROVE  f[Pick(s)] = ShippedFor(t, Pick(s), i)
  BY <1>1, <1>2, PickIsIn
<1>3. \A g : IsSum(S, f, g) <=> Rec(g)
  <2> HIDE DEF f
  <2>1. QED
    BY <1>2 DEF IsSum, SumOn, Pick
<1>4. PICK k : IsSum(S, f, k)
  BY <1>1, SumExists
<1>5. PICK g : g = CHOOSE h : Rec(h)
  OBVIOUS
<1>6. Rec(k)
  BY <1>3, <1>4
<1>7. Rec(g)
  <2> HIDE DEF Rec
  <2>1. QED
    BY <1>5, <1>6, Zenon
<1>8. ShippedTo(t, u, i) = g[S]
  BY <1>5 DEF ShippedTo, MapThenSumSet, MapThenFoldSet
<1>9. QED
  BY <1>3, <1>7, <1>8

(* With no shipment the sum is zero, with one it is what that contains.     *)
LEMMA ShippedForValue ==
  ASSUME NEW t, NEW o, NEW i
  PROVE  /\ t[o] = {} => ShippedFor(t, o, i) = 0
         /\ \A c : t[o] = {c} /\ c[i] \in Nat => ShippedFor(t, o, i) = c[i]
<1>1. ASSUME t[o] = {}
      PROVE  ShippedFor(t, o, i) = 0
  <2>1. IsFiniteSet(t[o])
    BY <1>1, FS_EmptySet
  <2>2. PICK g : /\ IsSum(t[o], [cart \in t[o] |-> cart[i]], g)
                 /\ ShippedFor(t, o, i) = g[t[o]]
    BY <2>1, ShippedForIsSum
  <2>3. g[{}] = 0
    BY <2>1, <2>2, SumStep
  <2>4. QED
    BY <1>1, <2>2, <2>3
<1>2. ASSUME NEW c, t[o] = {c}, c[i] \in Nat
      PROVE  ShippedFor(t, o, i) = c[i]
  <2>1. IsFiniteSet(t[o])
    BY <1>2, FS_Singleton
  <2> DEFINE f == [cart \in t[o] |-> cart[i]]
  <2>2. PICK g : IsSum(t[o], f, g) /\ ShippedFor(t, o, i) = g[t[o]]
    BY <2>1, ShippedForIsSum
  <2>3. Pick(t[o]) = c /\ f[c] = c[i] /\ t[o] # {} /\ t[o] \ {c} = {}
    BY <1>2 DEF Pick
  <2> HIDE DEF f
  <2>4. g[{}] = 0
    BY <2>1, <2>2, SumStep
  <2>5. g[t[o]] = f[Pick(t[o])] + g[t[o] \ {Pick(t[o])}]
    BY <2>1, <2>2, <2>3, SumStep
  <2>6. QED
    BY <1>2, <2>2, <2>3, <2>4, <2>5
<1>3. QED
  BY <1>1, <1>2

(* Shipments for o change the sum of the user of o alone.                   *)
LEMMA ShippedToChanges ==
  ASSUME NEW t, NEW w, NEW o, NEW u, NEW i,
         \A p \in Orders : /\ ShippedFor(t, p, i) \in Nat
                           /\ ShippedFor(w, p, i) \in Nat
                           /\ p # o => w[p] = t[p]
  PROVE  /\ ShippedTo(t, u, i) \in Nat
         /\ o \in OrdersOf(u) =>
              ShippedTo(w, u, i) = ShippedTo(t, u, i) + ShippedFor(w, o, i) - ShippedFor(t, o, i)
         /\ o \notin OrdersOf(u) => ShippedTo(w, u, i) = ShippedTo(t, u, i)
<1> DEFINE S == OrdersOf(u)
           f == [p \in S |-> ShippedFor(t, p, i)]
           h == [p \in S |-> ShippedFor(w, p, i)]
<1>1. IsFiniteSet(S)
  BY OrdersOfIsFinite
<1>2. PICK g : IsSum(S, f, g) /\ ShippedTo(t, u, i) = g[S]
  BY ShippedToIsSum
<1>3. PICK k : IsSum(S, h, k) /\ ShippedTo(w, u, i) = k[S]
  BY ShippedToIsSum
<1>4. DifferAt(S, f, h, o)
  <2>1. ASSUME NEW x \in S
        PROVE  f[x] \in Nat /\ h[x] \in Nat /\ (x # o => h[x] = f[x])
    <3>1. x \in Orders
      BY DEF OrdersOf
    <3>2. w[x] = t[x] => ShippedFor(w, x, i) = ShippedFor(t, x, i)
      BY DEF ShippedFor
    <3>3. QED
      BY <3>1, <3>2
  <2> HIDE DEF S, f, h
  <2>2. QED
    BY <2>1 DEF DifferAt
<1>5. o \in S => f[o] = ShippedFor(t, o, i) /\ h[o] = ShippedFor(w, o, i)
  OBVIOUS
<1> HIDE DEF S, f, h
<1>6. /\ g[S] \in Nat
      /\ o \in S => k[S] = g[S] + h[o] - f[o]
      /\ o \notin S => k[S] = g[S]
  <2>1. IsSum(S, f, g) /\ IsSum(S, h, k)
    BY <1>2, <1>3
  <2>2. QED
    BY <1>1, <1>4, <2>1, SumChanges
<1> USE DEF S
<1>7. QED
  BY <1>2, <1>3, <1>5, <1>6

(* Without shipments nothing is shipped to anybody.                         *)
LEMMA NothingIsShippedTo ==
  ASSUME NEW t, NEW u, NEW i, \A o \in Orders : t[o] = {}
  PROVE  ShippedTo(t, u, i) = 0
<1> DEFINE S == OrdersOf(u)
           f == [p \in S |-> ShippedFor(t, p, i)]
<1>1. IsFiniteSet(S)
  BY OrdersOfIsFinite
<1>2. PICK g : IsSum(S, f, g) /\ ShippedTo(t, u, i) = g[S]
  BY ShippedToIsSum
<1>3. \A x \in S : f[x] = 0
  BY ShippedForValue DEF OrdersOf
<1> HIDE DEF S, f
<1>4. g[S] = 0
  BY <1>1, <1>2, <1>3, SumOfNothing
<1>5. QED
  BY <1>2, <1>4

USE CheckoutAssumption

-----------------------------------------------------------------------------
(* The branches that are left of a saga: items, and at the end the charge.  *)
Rest(t) ==
  /\ t \in Seq(Items \cup {Charge})
  /\ \A k \in 1 .. Len(t) : t[k] = Charge <=> k = Len(t)

Completed == {"paid", "shipped", "emptied", "done"}

(* An order is charged for the cart that it read and for nothing else, and  *)
(* is not taken on before it is charged: by the one call, or by its saga.   *)
ChargedOK(o) ==
  /\ \A k \in 1 .. Len(charges[o]) : charges[o][k] = orders[o].cart
  /\ orders[o].phase \in {"idle", "prepared"} => charges[o] = <<>>
  /\ orders[o].phase \in Completed =>
       IF useSaga THEN Succeeded(o) ELSE Len(charges[o]) = 1

SagaOK(o) ==
  o \in DOMAIN sagas =>
    /\ useSaga
    /\ orders[o].phase \notin {"idle", "prepared"}
    /\ Rest(sagas[o])
    /\ sagas[o] = <<>> => Len(charges[o]) > 0
    /\ faults = 0 => charges[o] = <<>> \/ (sagas[o] = <<>> /\ Len(charges[o]) = 1)

ShippedOK(o) ==
  /\ shipments[o] \subseteq {orders[o].cart}
  /\ orders[o].phase \in {"idle", "prepared", "submitted", "paid"} => shipments[o] = {}
  /\ orders[o].phase \in {"shipped", "emptied", "done"} => shipments[o] # {}
  /\ shipments[o] # {} => Len(charges[o]) > 0
  /\ o \in published => At(o, "done")

Typed ==
  /\ useSaga \in BOOLEAN /\ useSaga \in Deployments
  /\ orders \in [Orders -> [phase : Phases, cart : C!Contents]]
  /\ DOMAIN sagas \subseteq Orders
  /\ charges \in [Orders -> Seq(C!Contents)]
  /\ shipments \in [Orders -> SUBSET C!Contents]
  /\ published \subseteq Orders
  /\ faults \in 0 .. MaxFaults
  /\ overlap \in BOOLEAN

IInv ==
  /\ Typed
  /\ C!TypeOK
  /\ Inv!TypeOK
  /\ \A o \in Orders : ChargedOK(o) /\ SagaOK(o) /\ ShippedOK(o)

-----------------------------------------------------------------------------
(* A saga as it is submitted.                                               *)
LEMMA BranchesAreRest ==
  ASSUME NEW cart, NEW t \in Branches(cart)
  PROVE  Rest(t) /\ t # <<>>
<1> DEFINE wanted == {i \in Items : cart[i] > 0}
<1>1. Cardinality(wanted) \in Nat
  <2>1. IsFiniteSet(wanted)
    BY FS_Subset
  <2>2. QED
    BY <2>1, FS_CardinalityType
<1>2. PICK n \in Nat : n = Cardinality(wanted)
  BY <1>1
<1>3. PICK s \in [1 .. n -> wanted] : t = Append(s, Charge)
  BY <1>2 DEF Branches
<1>4. s \in [1 .. n -> Items]
  BY <1>3
<1> HIDE DEF wanted
<1>5. s \in Seq(Items) /\ Len(s) = n
  BY <1>2, <1>4
<1>6. s \in Seq(Items \cup {Charge})
  BY <1>5
<1>7. /\ t \in Seq(Items \cup {Charge}) /\ Len(t) = n + 1
      /\ t[n + 1] = Charge
  BY <1>2, <1>3, <1>5, <1>6
<1>8. \A k \in 1 .. n : t[k] = s[k] /\ s[k] \in Items
  BY <1>2, <1>3, <1>4, <1>5, <1>6
<1>9. \A k \in 1 .. Len(t) : t[k] = Charge <=> k = Len(t)
  <2>1. TAKE k \in 1 .. Len(t)
  <2>2. CASE k = n + 1
    BY <1>7, <2>2
  <2>3. CASE k \in 1 .. n
    BY <1>2, <1>7, <1>8, <2>3
  <2>4. QED
    BY <1>2, <1>7, <2>2, <2>3
<1>10. QED
  BY <1>2, <1>7, <1>9 DEF Rest

(* What is left when a branch has been called.                              *)
LEMMA TailIsRest ==
  ASSUME NEW t, Rest(t), t # <<>>
  PROVE  /\ Rest(Tail(t))
         /\ Head(t) = Charge <=> Tail(t) = <<>>
         /\ Head(t) # Charge => Head(t) \in Items
<1>1. t \in Seq(Items \cup {Charge})
  BY DEF Rest
<1>2. PICK n \in Nat : n = Len(t)
  BY <1>1
<1>3. n # 0
  BY <1>1, <1>2
<1>4. \A k \in 1 .. n : t[k] = Charge <=> k = n
  BY <1>2 DEF Rest
<1>5. PICK u : u = Tail(t)
  OBVIOUS
<1>6. u \in Seq(Items \cup {Charge}) /\ Len(u) = n - 1
  BY <1>1, <1>2, <1>3, <1>5
<1>7. \A k \in 1 .. n - 1 : u[k] = t[k + 1]
  BY <1>1, <1>2, <1>3, <1>5
<1>8. \A k \in 1 .. n - 1 : u[k] = Charge <=> k = n - 1
  <2>1. TAKE k \in 1 .. n - 1
  <2>2. k + 1 \in 1 .. n /\ (k + 1 = n <=> k = n - 1)
    BY <1>2, <2>1
  <2>3. QED
    BY <1>4, <1>7, <2>1, <2>2
<1>9. Rest(u)
  BY <1>6, <1>8 DEF Rest
<1>10. Head(t) = t[1] /\ t[1] \in Items \cup {Charge}
  BY <1>1, <1>2, <1>3
<1>11. t[1] = Charge <=> n = 1
  <2>1. 1 \in 1 .. n
    BY <1>2, <1>3
  <2>2. QED
    BY <1>2, <1>4, <2>1
<1>12. u = <<>> <=> n = 1
  <2>1. u = <<>> <=> Len(u) = 0
    BY <1>6
  <2>2. QED
    BY <1>2, <1>6, <2>1
<1>13. QED
  BY <1>5, <1>9, <1>10, <1>11, <1>12

(* One more charge for the cart of the order.                               *)
LEMMA ChargedEffect ==
  ASSUME Typed, NEW o \in Orders, Charged(o)
  PROVE  /\ charges' \in [Orders -> Seq(C!Contents)]
         /\ \A p \in Orders : p # o => charges'[p] = charges[p]
         /\ Len(charges'[o]) = Len(charges[o]) + 1
         /\ Len(charges[o]) \in Nat
         /\ \A k \in 1 .. Len(charges[o]) : charges'[o][k] = charges[o][k]
         /\ charges'[o][Len(charges[o]) + 1] = orders[o].cart
<1>1. charges[o] \in Seq(C!Contents) /\ orders[o].cart \in C!Contents
  BY DEF Typed
<1>2. charges' = [charges EXCEPT ![o] = Append(charges[o], orders[o].cart)]
  BY DEF Charged
<1>3. /\ charges'[o] = Append(charges[o], orders[o].cart)
      /\ \A p \in Orders : p # o => charges'[p] = charges[p]
  BY <1>2 DEF Typed
<1>4. charges' \in [Orders -> Seq(C!Contents)]
  BY <1>1, <1>2 DEF Typed
<1>5. QED
  BY <1>1, <1>3, <1>4

(* The phase of an order changes, and nothing else of the orders.           *)
LEMMA ToEffect ==
  ASSUME Typed, NEW o \in Orders, NEW phase \in Phases, To(o, phase)
  PROVE  /\ orders' \in [Orders -> [phase : Phases, cart : C!Contents]]
         /\ orders'[o].phase = phase
         /\ \A p \in Orders : /\ orders'[p].cart = orders[p].cart
                              /\ p # o => orders'[p] = orders[p]
BY DEF Typed, To

(* An order that a step does not touch, though a fault may happen.          *)
Same(o) ==
  /\ orders'[o] = orders[o] /\ charges'[o] = charges[o] /\ shipments'[o] = shipments[o]
  /\ o \in DOMAIN sagas' <=> o \in DOMAIN sagas
  /\ o \in DOMAIN sagas => sagas'[o] = sagas[o]
  /\ o \in published' <=> o \in published
  /\ faults' = 0 => faults = 0
  /\ UNCHANGED useSaga

(* An order that is not touched stays as it should be.                     *)
LEMMA SameKeeps ==
  ASSUME NEW o, ChargedOK(o), SagaOK(o), ShippedOK(o), Same(o)
  PROVE  (ChargedOK(o) /\ SagaOK(o) /\ ShippedOK(o))'
<1>1. ChargedOK(o)'
  BY DEF Same, ChargedOK, Succeeded
<1>2. SagaOK(o)'
  BY DEF Same, SagaOK
<1>3. ShippedOK(o)'
  BY DEF Same, ShippedOK, At
<1>4. QED
  BY <1>1, <1>2, <1>3

(* A call is answered, or it is a fault, and faults are counted.           *)
LEMMA FaultCounts ==
  ASSUME faults \in 0 .. MaxFaults, Fault \/ Called
  PROVE  faults' \in 0 .. MaxFaults /\ (faults' = 0 => faults = 0) /\ (Fault => faults' # 0)
BY DEF Fault, Called

-----------------------------------------------------------------------------
(* What an addition leaves in the cart is a cart, with every store.         *)
LEMMA StoredIsContents ==
  ASSUME C!TypeOK,
         NEW a \in [user : Users, item : Items, quantity : Quantities, read : C!Contents]
  PROVE  C!Stored(a) \in C!Contents
<1>1. /\ a.user \in Users /\ a.item \in Items
      /\ a.quantity \in Nat /\ a.read \in [Items -> Nat]
      /\ carts[a.user] \in [Items -> Nat]
  BY DEF C!TypeOK, C!Contents
<1>2. C!RedisStored(a) \in [Items -> Nat]
  BY <1>1 DEF C!RedisStored
<1>3. C!AlloyStored(a) \in [Items -> Nat]
  BY <1>1 DEF C!AlloyStored
<1>4. C!SpannerStored(a) \in [Items -> Nat]
  BY <1>1 DEF C!SpannerStored
<1>5. CASE store = "redis"
  BY <1>2, <1>5 DEF C!Stored, C!Contents
<1>6. CASE store = "alloydb"
  BY <1>3, <1>6 DEF C!Stored, C!Contents
<1>7. CASE store = "spanner"
  BY <1>4, <1>7 DEF C!Stored, C!Contents
<1>8. QED
  BY <1>5, <1>6, <1>7 DEF C!TypeOK

(* The additions that are left when one of them has ended.                  *)
LEMMA AdditionEnds ==
  ASSUME C!TypeOK, NEW r, adding' = [x \in DOMAIN adding \ {r} |-> adding[x]]
  PROVE  /\ DOMAIN adding' \subseteq Requests
         /\ \A x \in DOMAIN adding' :
              adding'[x] \in
                [user : Users, item : Items, quantity : Quantities, read : C!Contents]
BY DEF C!TypeOK

(* AddItem up to its read keeps the types of the carts.                    *)
LEMMA AddItemKeeps ==
  ASSUME C!TypeOK, NEW r \in Requests, NEW u \in Users, NEW i \in Items,
         NEW q \in Quantities, C!AddItem(r, u, i, q)
  PROVE  C!TypeOK'
<1>1. carts[u] \in C!Contents
  BY DEF C!TypeOK
<1>2. [user |-> u, item |-> i, quantity |-> q, read |-> carts[u]] \in
        [user : Users, item : Items, quantity : Quantities, read : C!Contents]
  BY <1>1
<1>3. DOMAIN adding' \subseteq Requests
  BY DEF C!TypeOK, C!AddItem
<1>4. \A x \in DOMAIN adding' :
        adding'[x] \in
          [user : Users, item : Items, quantity : Quantities, read : C!Contents]
  BY <1>2 DEF C!TypeOK, C!AddItem
<1>5. QED
  BY <1>3, <1>4 DEF C!TypeOK, C!AddItem

(* AddItem from its write on keeps the types of the carts.                 *)
LEMMA SetCartKeeps ==
  ASSUME C!TypeOK, NEW r \in Requests, C!SetCart(r)
  PROVE  C!TypeOK'
<1>1. PICK a \in [user : Users, item : Items, quantity : Quantities, read : C!Contents] :
        a = adding[r]
  BY DEF C!TypeOK, C!SetCart
<1>2. PICK stored \in C!Contents : stored = C!Stored(a)
  BY StoredIsContents
<1>3. /\ carts' = [carts EXCEPT ![a.user] = stored]
      /\ added' = [added EXCEPT ![a.user][a.item] = @ + a.quantity]
      /\ UNCHANGED <<store, raced>>
  BY <1>1, <1>2 DEF C!SetCart
<1>4. carts' \in [Users -> C!Contents]
  BY <1>3 DEF C!TypeOK
<1>5. added' \in [Users -> C!Contents]
  <2>1. added[a.user] \in [Items -> Nat] /\ a.item \in Items /\ a.quantity \in Nat
    BY DEF C!TypeOK, C!Contents
  <2>2. [added[a.user] EXCEPT ![a.item] = @ + a.quantity] \in C!Contents
    BY <2>1 DEF C!Contents
  <2>3. QED
    BY <1>3, <2>2 DEF C!TypeOK
<1>6. /\ DOMAIN adding' \subseteq Requests
      /\ \A x \in DOMAIN adding' :
           adding'[x] \in
             [user : Users, item : Items, quantity : Quantities, read : C!Contents]
  BY AdditionEnds DEF C!SetCart
<1>7. QED
  BY <1>3, <1>4, <1>5, <1>6 DEF C!TypeOK

(* AddItem that fails keeps the types of the carts.                        *)
LEMMA AddFailsKeeps ==
  ASSUME C!TypeOK, NEW r \in Requests, C!AddFails(r)
  PROVE  C!TypeOK'
BY AdditionEnds DEF C!TypeOK, C!AddFails

(* EmptyCart keeps the types of the carts.                                 *)
LEMMA EmptyCartKeeps ==
  ASSUME C!TypeOK, NEW u \in Users, C!EmptyCart(u)
  PROVE  C!TypeOK'
<1>1. C!NoItems \in C!Contents
  BY DEF C!NoItems, C!Contents
<1>2. carts' \in [Users -> C!Contents]
  BY <1>1 DEF C!TypeOK, C!EmptyCart
<1>3. raced' \in BOOLEAN
  BY DEF C!TypeOK, C!EmptyCart
<1>4. QED
  BY <1>2, <1>3 DEF C!TypeOK, C!EmptyCart

(* The changes of stock of a saga carry no caller, and every product has    *)
(* one: they are refused, and the inventory stays as it is.                 *)
LEMMA InventoryRefuses ==
  ASSUME Inv!TypeOK, NEW o, NEW i, NEW delta, NEW rep,
         Inv!ChangeInventoryProductStock(o, NoCaller, i, delta, rep)
  PROVE  rep = "Internal" /\ UNCHANGED invVars
<1>1. i \in DOMAIN inventory => inventory[i].owner = System
  BY DEF Inv!TypeOK, Inv!IsMap, Inv!Entry, Inv!Owners
<1>2. QED
  BY <1>1 DEF Inv!ChangeInventoryProductStock, Inv!inventoryVars, invVars

(* A step that does not touch the inventory keeps its types.               *)
LEMMA InventoryStays ==
  ASSUME Inv!TypeOK, UNCHANGED invVars
  PROVE  Inv!TypeOK'
BY DEF Inv!TypeOK, Inv!IsMap, invVars

(* A step that does not touch the carts keeps their types.                 *)
LEMMA CartStays ==
  ASSUME C!TypeOK, UNCHANGED cartVars
  PROVE  C!TypeOK'
BY DEF C!TypeOK, cartVars

-----------------------------------------------------------------------------
(* What is true of every order.                                             *)
OrderOK(o) == ChargedOK(o) /\ SagaOK(o) /\ ShippedOK(o)

(* A step of order o keeps the invariant if it leaves the services, the     *)
(* other orders and the types as they should be, and o as it should be.     *)
StepOf(o) ==
  /\ Typed' /\ C!TypeOK' /\ Inv!TypeOK'
  /\ \A p \in Orders : p # o => Same(p)
  /\ OrderOK(o)'

(* A step of one order keeps the invariant.                                *)
LEMMA StepKeeps ==
  ASSUME IInv, NEW o \in Orders, StepOf(o)
  PROVE  IInv'
<1>1. ASSUME NEW p \in Orders
      PROVE  OrderOK(p)'
  <2>1. CASE p = o
    BY <2>1 DEF StepOf
  <2>2. CASE p # o
    <3>1. ChargedOK(p) /\ SagaOK(p) /\ ShippedOK(p) /\ Same(p)
      BY <2>2 DEF IInv, StepOf
    <3>2. QED
      BY <3>1, SameKeeps DEF OrderOK
  <2>3. QED
    BY <2>1, <2>2
<1>2. QED
  BY <1>1 DEF IInv, StepOf, OrderOK

(* The cart is read, or the order fails.                                   *)
LEMMA PrepareKeeps ==
  ASSUME IInv, NEW o \in Orders, prepareOrderItemsAndShippingQuoteFromCart(o)
  PROVE  IInv'
<1> USE DEF prepareOrderItemsAndShippingQuoteFromCart
<1>1. Typed /\ OrderOK(o) /\ orders[o].phase = "idle" /\ o \in DOMAIN orders
  BY DEF IInv, At, OrderOK, Typed
<1>2. faults' \in 0 .. MaxFaults /\ (faults' = 0 => faults = 0)
  BY <1>1, FaultCounts DEF NotCalled, Typed
<1>3. o \notin DOMAIN sagas /\ charges[o] = <<>> /\ shipments[o] = {} /\ o \notin published
  BY <1>1 DEF OrderOK, SagaOK, ChargedOK, ShippedOK, At
<1>4. /\ orders' \in [Orders -> [phase : Phases, cart : C!Contents]]
      /\ orders'[o].phase \in {"prepared", "failed"}
      /\ \A p \in Orders : p # o => orders'[p] = orders[p]
  <2>1. CASE orders' = [orders EXCEPT ![o] =
                          [phase |-> "prepared", cart |-> C!GetCart(UserOf[o])]]
    <3>1. C!GetCart(UserOf[o]) \in C!Contents
      BY DEF IInv, C!TypeOK, C!GetCart
    <3>2. QED
      BY <1>1, <2>1, <3>1 DEF Typed, Phases
  <2>2. CASE To(o, "failed")
    BY <1>1, <2>2, ToEffect DEF Phases
  <2>3. QED
    BY <2>1, <2>2
<1>5. C!TypeOK' /\ Inv!TypeOK'
  BY CartStays, InventoryStays DEF IInv
<1>6. overlap' \in BOOLEAN
  BY <1>1 DEF Typed
<1>7. Typed'
  BY <1>1, <1>2, <1>4, <1>6 DEF Typed, serviceVars
<1>8. \A p \in Orders : p # o => Same(p)
  BY <1>2, <1>4 DEF Same, serviceVars
<1>9. OrderOK(o)'
  <2>1. charges'[o] = <<>> /\ o \notin DOMAIN sagas' /\ shipments'[o] = {} /\ o \notin published'
    BY <1>3 DEF serviceVars
  <2>2. QED
    BY <1>4, <2>1 DEF OrderOK, ChargedOK, SagaOK, ShippedOK, Completed
<1>10. QED
  BY <1>5, <1>7, <1>8, <1>9, StepKeeps DEF StepOf

(* The one charge of an order that is placed without a saga.               *)
LEMMA ChargeCardKeeps ==
  ASSUME IInv, NEW o \in Orders, chargeCard(o)
  PROVE  IInv'
<1> USE DEF chargeCard
<1>1. /\ Typed /\ OrderOK(o) /\ orders[o].phase = "prepared" /\ ~useSaga
      /\ UNCHANGED <<useSaga, overlap, sagas, shipments, published, cartVars, invVars>>
  BY DEF IInv, At, OrderOK
<1>2. faults' \in 0 .. MaxFaults /\ (faults' = 0 => faults = 0)
  BY <1>1, FaultCounts DEF Lost, Typed
<1>3. o \notin DOMAIN sagas /\ charges[o] = <<>> /\ shipments[o] = {} /\ o \notin published
  BY <1>1 DEF OrderOK, SagaOK, ChargedOK, ShippedOK, At
<1>4. PICK phase \in {"paid", "failed"} :
        /\ To(o, phase)
        /\ Charged(o) \/ (phase = "failed" /\ UNCHANGED charges)
  BY DEF Declined
<1>5. /\ orders' \in [Orders -> [phase : Phases, cart : C!Contents]]
      /\ orders'[o].phase = phase /\ orders'[o].cart = orders[o].cart
      /\ \A p \in Orders : p # o => orders'[p] = orders[p]
  BY <1>1, <1>4, ToEffect DEF Phases
<1>6. /\ charges' \in [Orders -> Seq(C!Contents)]
      /\ \A p \in Orders : p # o => charges'[p] = charges[p]
      /\ \/ charges'[o] = <<>> /\ phase = "failed"
         \/ Len(charges'[o]) = 1 /\ charges'[o][1] = orders[o].cart
  <2>1. CASE Charged(o)
    <3>1. Len(charges[o]) = 0
      BY <1>3
    <3>2. /\ charges' \in [Orders -> Seq(C!Contents)]
          /\ \A p \in Orders : p # o => charges'[p] = charges[p]
          /\ Len(charges'[o]) = Len(charges[o]) + 1
          /\ charges'[o][Len(charges[o]) + 1] = orders[o].cart
      BY <1>1, <2>1, ChargedEffect
    <3>3. QED
      BY <3>1, <3>2
  <2>2. CASE phase = "failed" /\ UNCHANGED charges
    BY <1>1, <1>3, <2>2 DEF Typed
  <2>3. QED
    BY <1>4, <2>1, <2>2
<1>7. C!TypeOK' /\ Inv!TypeOK'
  BY <1>1, CartStays, InventoryStays DEF IInv
<1>8. Typed'
  BY <1>1, <1>2, <1>5, <1>6 DEF Typed
<1>9. \A p \in Orders : p # o => Same(p)
  BY <1>1, <1>2, <1>5, <1>6 DEF Same
<1>10. ChargedOK(o)'
  BY <1>1, <1>5, <1>6 DEF ChargedOK, Completed
<1>11. SagaOK(o)' /\ ShippedOK(o)'
  BY <1>1, <1>3, <1>4, <1>5 DEF SagaOK, ShippedOK
<1>12. QED
  BY <1>7, <1>8, <1>9, <1>10, <1>11, StepKeeps DEF StepOf, OrderOK

(* The saga is submitted, or the order fails.                              *)
LEMMA PlaceOrderSagaKeeps ==
  ASSUME IInv, NEW o \in Orders, placeOrderSaga(o)
  PROVE  IInv'
<1> USE DEF placeOrderSaga
<1>1. /\ Typed /\ OrderOK(o) /\ orders[o].phase = "prepared" /\ useSaga
      /\ UNCHANGED <<useSaga, overlap, charges, shipments, published, cartVars, invVars>>
  BY DEF IInv, At, OrderOK
<1>2. faults' \in 0 .. MaxFaults /\ (faults' = 0 => faults = 0)
  BY <1>1, FaultCounts DEF NotCalled, Typed
<1>3. o \notin DOMAIN sagas /\ charges[o] = <<>> /\ shipments[o] = {} /\ o \notin published
  BY <1>1 DEF OrderOK, SagaOK, ChargedOK, ShippedOK, At
<1>4. PICK phase \in {"submitted", "failed"} :
        /\ To(o, phase)
        /\ \/ /\ phase = "submitted"
              /\ \E todo \in Branches(orders[o].cart) :
                   sagas' = [x \in DOMAIN sagas \cup {o} |-> IF x = o THEN todo ELSE sagas[x]]
           \/ UNCHANGED sagas
  OBVIOUS
<1>5. /\ orders' \in [Orders -> [phase : Phases, cart : C!Contents]]
      /\ orders'[o].phase = phase /\ orders'[o].cart = orders[o].cart
      /\ \A p \in Orders : p # o => orders'[p] = orders[p]
  BY <1>1, <1>4, ToEffect DEF Phases
<1>6. /\ DOMAIN sagas' \subseteq Orders
      /\ \A p \in Orders : p # o => (p \in DOMAIN sagas' <=> p \in DOMAIN sagas)
      /\ \A p \in DOMAIN sagas : p # o => sagas'[p] = sagas[p]
      /\ o \in DOMAIN sagas' => Rest(sagas'[o]) /\ sagas'[o] # <<>>
  <2>1. ASSUME NEW todo \in Branches(orders[o].cart),
               sagas' = [x \in DOMAIN sagas \cup {o} |-> IF x = o THEN todo ELSE sagas[x]]
        PROVE  <1>6
    <3>1. Rest(todo) /\ todo # <<>>
      BY BranchesAreRest
    <3>2. QED
      BY <1>1, <2>1, <3>1 DEF Typed
  <2>2. CASE UNCHANGED sagas
    BY <1>1, <1>3, <2>2 DEF Typed
  <2>3. QED
    BY <1>4, <2>1, <2>2
<1>7. C!TypeOK' /\ Inv!TypeOK'
  BY <1>1, CartStays, InventoryStays DEF IInv
<1>8. Typed'
  BY <1>1, <1>2, <1>5, <1>6 DEF Typed
<1>9. \A p \in Orders : p # o => Same(p)
  BY <1>1, <1>2, <1>5, <1>6 DEF Same
<1>10. ChargedOK(o)' /\ ShippedOK(o)'
  BY <1>1, <1>3, <1>4, <1>5 DEF ChargedOK, ShippedOK, Completed
<1>11. SagaOK(o)'
  BY <1>1, <1>3, <1>4, <1>5, <1>6 DEF SagaOK
<1>12. QED
  BY <1>7, <1>8, <1>9, <1>10, <1>11, StepKeeps DEF StepOf, OrderOK

(* The order goes on only if its saga has called all its branches.         *)
LEMMA SagaReturnsKeeps ==
  ASSUME IInv, NEW o \in Orders, SagaReturns(o)
  PROVE  IInv'
<1> USE DEF SagaReturns
<1>1. /\ Typed /\ OrderOK(o) /\ orders[o].phase = "submitted"
      /\ UNCHANGED <<useSaga, overlap, serviceVars, faults, cartVars, invVars>>
  BY DEF IInv, At, OrderOK
<1>2. UNCHANGED <<sagas, charges, shipments, published>>
  BY <1>1 DEF serviceVars
<1>3. PICK phase \in {"paid", "failed"} :
        To(o, phase) /\ (phase = "paid" => Succeeded(o))
  OBVIOUS
<1>4. /\ orders' \in [Orders -> [phase : Phases, cart : C!Contents]]
      /\ orders'[o].phase = phase /\ orders'[o].cart = orders[o].cart
      /\ \A p \in Orders : p # o => orders'[p] = orders[p]
  BY <1>1, <1>3, ToEffect DEF Phases
<1>5. C!TypeOK' /\ Inv!TypeOK'
  BY <1>1, CartStays, InventoryStays DEF IInv
<1>6. Typed'
  BY <1>1, <1>2, <1>4 DEF Typed
<1>7. \A p \in Orders : p # o => Same(p)
  BY <1>1, <1>2, <1>4 DEF Same
<1>8. ChargedOK(o)'
  <2>1. phase = "paid" => useSaga /\ Succeeded(o)
    BY <1>1, <1>3 DEF OrderOK, SagaOK, Succeeded
  <2>2. QED
    BY <1>1, <1>2, <1>4, <2>1 DEF OrderOK, ChargedOK, Completed, Succeeded
<1>9. SagaOK(o)'
  BY <1>1, <1>2, <1>4 DEF OrderOK, SagaOK
<1>10. ShippedOK(o)'
  BY <1>1, <1>2, <1>4 DEF OrderOK, ShippedOK, At
<1>11. QED
  BY <1>5, <1>6, <1>7, <1>8, <1>9, <1>10, StepKeeps DEF StepOf, OrderOK

(* An order that goes on, or fails, after it was charged.                   *)
LEMMA ChargedStays ==
  ASSUME NEW o, OrderOK(o), orders[o].phase \in Completed,
         UNCHANGED <<useSaga, charges, sagas>>,
         orders'[o].cart = orders[o].cart, orders'[o].phase \in Completed \cup {"failed"},
         faults' = 0 => faults = 0
  PROVE  ChargedOK(o)' /\ SagaOK(o)' /\ Len(charges[o]) > 0
<1>1. ChargedOK(o)'
  BY DEF OrderOK, ChargedOK, Completed, Succeeded
<1>2. SagaOK(o)'
  BY DEF OrderOK, SagaOK, Completed
<1>3. IF useSaga THEN o \in DOMAIN sagas /\ sagas[o] = <<>> ELSE Len(charges[o]) = 1
  BY DEF OrderOK, ChargedOK, Succeeded
<1>4. Len(charges[o]) > 0
  <2>1. CASE useSaga
    BY <1>3, <2>1 DEF OrderOK, SagaOK
  <2>2. CASE ~useSaga
    <3>1. Len(charges[o]) = 1
      BY <1>3, <2>2, Zenon
    <3>2. QED
      BY <3>1
  <2>3. QED
    BY <2>1, <2>2
<1>5. QED
  BY <1>1, <1>2, <1>4

(* What is shipped is the cart that the order keeps.                       *)
LEMMA ShipOrderKeeps ==
  ASSUME IInv, NEW o \in Orders, shipOrder(o)
  PROVE  IInv'
<1> USE DEF shipOrder
<1>1. /\ Typed /\ OrderOK(o) /\ orders[o].phase = "paid"
      /\ UNCHANGED <<useSaga, overlap, sagas, charges, published, cartVars, invVars>>
  BY DEF IInv, At, OrderOK
<1>2. faults' \in 0 .. MaxFaults /\ (faults' = 0 => faults = 0)
  BY <1>1, FaultCounts DEF Lost, NotCalled, Typed
<1>3. PICK phase \in {"shipped", "failed"} :
        /\ To(o, phase)
        /\ Shipped(o) \/ (phase = "failed" /\ UNCHANGED shipments)
  OBVIOUS
<1>4. /\ orders' \in [Orders -> [phase : Phases, cart : C!Contents]]
      /\ orders'[o].phase = phase /\ orders'[o].cart = orders[o].cart
      /\ \A p \in Orders : p # o => orders'[p] = orders[p]
  BY <1>1, <1>3, ToEffect DEF Phases
<1>5. shipments[o] = {} /\ o \notin published
  BY <1>1 DEF OrderOK, ShippedOK, At
<1>6. /\ shipments' \in [Orders -> SUBSET C!Contents]
      /\ \A p \in Orders : p # o => shipments'[p] = shipments[p]
      /\ \/ shipments'[o] = {} /\ phase = "failed"
         \/ shipments'[o] = {orders[o].cart}
  <2>1. CASE Shipped(o)
    BY <1>1, <1>5, <2>1 DEF Shipped, ToShip, Typed
  <2>2. CASE phase = "failed" /\ UNCHANGED shipments
    BY <1>1, <1>5, <2>2 DEF Typed
  <2>3. QED
    BY <1>3, <2>1, <2>2
<1>7. C!TypeOK' /\ Inv!TypeOK'
  BY <1>1, CartStays, InventoryStays DEF IInv
<1>8. Typed'
  BY <1>1, <1>2, <1>4, <1>6 DEF Typed
<1>9. \A p \in Orders : p # o => Same(p)
  BY <1>1, <1>2, <1>4, <1>6 DEF Same
<1>10. ChargedOK(o)' /\ SagaOK(o)' /\ Len(charges[o]) > 0
  BY <1>1, <1>2, <1>3, <1>4, ChargedStays DEF Completed
<1>11. ShippedOK(o)'
  BY <1>1, <1>3, <1>4, <1>5, <1>6, <1>10 DEF ShippedOK
<1>12. QED
  BY <1>7, <1>8, <1>9, <1>10, <1>11, StepKeeps DEF StepOf, OrderOK

(* Emptying the cart of the user does not touch that of the order.         *)
LEMMA EmptyUserCartKeeps ==
  ASSUME IInv, NEW o \in Orders, emptyUserCart(o)
  PROVE  IInv'
<1> USE DEF emptyUserCart
<1>1. /\ Typed /\ OrderOK(o) /\ orders[o].phase = "shipped" /\ To(o, "emptied")
      /\ UNCHANGED <<useSaga, overlap, sagas, charges, shipments, published, invVars>>
  BY DEF IInv, At, OrderOK, serviceVars
<1>2. faults' \in 0 .. MaxFaults /\ (faults' = 0 => faults = 0)
  BY <1>1, FaultCounts DEF NotCalled, Typed
<1>3. /\ orders' \in [Orders -> [phase : Phases, cart : C!Contents]]
      /\ orders'[o].phase = "emptied" /\ orders'[o].cart = orders[o].cart
      /\ \A p \in Orders : p # o => orders'[p] = orders[p]
  BY <1>1, ToEffect DEF Phases
<1>4. C!TypeOK'
  <2>1. UserOf[o] \in Users
    OBVIOUS
  <2>2. QED
    BY <2>1, CartStays, EmptyCartKeeps DEF IInv
<1>5. Inv!TypeOK'
  BY <1>1, InventoryStays DEF IInv
<1>6. Typed'
  BY <1>1, <1>2, <1>3 DEF Typed
<1>7. \A p \in Orders : p # o => Same(p)
  BY <1>1, <1>2, <1>3 DEF Same
<1>8. ChargedOK(o)' /\ SagaOK(o)' /\ Len(charges[o]) > 0
  BY <1>1, <1>2, <1>3, ChargedStays DEF Completed
<1>9. ShippedOK(o)'
  BY <1>1, <1>3, <1>8 DEF OrderOK, ShippedOK, At
<1>10. QED
  BY <1>4, <1>5, <1>6, <1>7, <1>8, <1>9, StepKeeps DEF StepOf, OrderOK

(* An order is published after it was shipped.                             *)
LEMMA PublishKeeps ==
  ASSUME IInv, NEW o \in Orders, publishCompletedOrder(o)
  PROVE  IInv'
<1> USE DEF publishCompletedOrder
<1>1. /\ Typed /\ OrderOK(o) /\ orders[o].phase = "emptied" /\ To(o, "done")
      /\ UNCHANGED <<useSaga, overlap, sagas, charges, shipments, cartVars, invVars>>
  BY DEF IInv, At, OrderOK
<1>2. faults' \in 0 .. MaxFaults /\ (faults' = 0 => faults = 0)
  BY <1>1, FaultCounts DEF NotCalled, Typed
<1>3. /\ orders' \in [Orders -> [phase : Phases, cart : C!Contents]]
      /\ orders'[o].phase = "done" /\ orders'[o].cart = orders[o].cart
      /\ \A p \in Orders : p # o => orders'[p] = orders[p]
  BY <1>1, ToEffect DEF Phases
<1>4. /\ published' \subseteq Orders
      /\ \A p \in Orders : p # o => (p \in published' <=> p \in published)
  BY <1>1 DEF Typed
<1>5. C!TypeOK' /\ Inv!TypeOK'
  BY <1>1, CartStays, InventoryStays DEF IInv
<1>6. Typed'
  BY <1>1, <1>2, <1>3, <1>4 DEF Typed
<1>7. \A p \in Orders : p # o => Same(p)
  BY <1>1, <1>2, <1>3, <1>4 DEF Same
<1>8. ChargedOK(o)' /\ SagaOK(o)' /\ Len(charges[o]) > 0
  BY <1>1, <1>2, <1>3, ChargedStays DEF Completed
<1>9. ShippedOK(o)'
  BY <1>1, <1>3, <1>8 DEF OrderOK, ShippedOK, At
<1>10. QED
  BY <1>5, <1>6, <1>7, <1>8, <1>9, StepKeeps DEF StepOf, OrderOK

-----------------------------------------------------------------------------
(* A branch of a saga that changed nothing will be called again.            *)
LEMMA NothingKeeps ==
  ASSUME IInv, UNCHANGED <<useSaga, orders, serviceVars, faults, overlap, cartVars, invVars>>
  PROVE  IInv'
<1>1. Typed /\ C!TypeOK /\ Inv!TypeOK
  BY DEF IInv
<1>2. UNCHANGED <<sagas, charges, shipments, published>>
  BY DEF serviceVars
<1>3. Typed'
  BY <1>1, <1>2 DEF Typed
<1>4. C!TypeOK' /\ Inv!TypeOK'
  BY <1>1, CartStays, InventoryStays
<1>5. ASSUME NEW o \in Orders
      PROVE  (ChargedOK(o) /\ SagaOK(o) /\ ShippedOK(o))'
  <2>1. Same(o)
    BY <1>2 DEF Same
  <2>2. QED
    BY <2>1, SameKeeps DEF IInv
<1>6. QED
  BY <1>3, <1>4, <1>5 DEF IInv

(* A change of stock is refused, and will be called again.                 *)
LEMMA CallInventoryKeeps ==
  ASSUME IInv, NEW o \in Orders, CallBranch(o), CallInventory(o)
  PROVE  IInv'
<1>1. PICK rep : /\ Inv!ChangeInventoryProductStock(o, NoCaller, Head(sagas[o]),
                      -orders[o].cart[Head(sagas[o])], rep)
                 /\ BranchAnswered(o, rep)
                 /\ UNCHANGED <<charges, faults>>
  BY DEF CallInventory
<1>2. rep = "Internal" /\ UNCHANGED invVars
  BY <1>1, InventoryRefuses DEF IInv
<1>3. UNCHANGED sagas
  BY <1>1, <1>2 DEF BranchAnswered
<1>4. QED
  BY <1>1, <1>2, <1>3, NothingKeeps DEF CallBranch, serviceVars

(* DTM calls the payment: once, or again if the answer was lost.           *)
LEMMA CallPaymentKeeps ==
  ASSUME IInv, NEW o \in Orders, CallBranch(o), CallPayment(o)
  PROVE  IInv'
<1>1. /\ Typed /\ OrderOK(o) /\ o \in DOMAIN sagas /\ SagaOK(o)
      /\ sagas[o] # <<>> /\ Head(sagas[o]) = Charge
      /\ UNCHANGED <<useSaga, overlap, orders, shipments, published, cartVars, invVars>>
  BY DEF IInv, OrderOK, CallBranch, CallPayment
<1>2. /\ Rest(sagas[o]) /\ useSaga
      /\ orders[o].phase \notin {"idle", "prepared"}
      /\ faults = 0 => charges[o] = <<>>
  BY <1>1 DEF SagaOK
<1>3. Tail(sagas[o]) = <<>> /\ Rest(Tail(sagas[o]))
  BY <1>1, <1>2, TailIsRest
<1>4. faults' \in 0 .. MaxFaults /\ (faults' = 0 => faults = 0)
  BY <1>1, FaultCounts DEF CallPayment, Lost, Typed
<1>5. CASE Called /\ UNCHANGED charges /\ BranchAnswered(o, "Unknown")
  BY <1>1, <1>5, NothingKeeps DEF BranchAnswered, Called, serviceVars
<1>6. CASE Charged(o) /\ (\/ Called /\ BranchAnswered(o, "OK")
                          \/ Lost /\ BranchAnswered(o, "Unavailable"))
  <2>1. /\ charges' \in [Orders -> Seq(C!Contents)]
        /\ \A p \in Orders : p # o => charges'[p] = charges[p]
        /\ Len(charges'[o]) = Len(charges[o]) + 1
        /\ Len(charges[o]) \in Nat
        /\ \A k \in 1 .. Len(charges[o]) : charges'[o][k] = charges[o][k]
        /\ charges'[o][Len(charges[o]) + 1] = orders[o].cart
    BY <1>1, <1>6, ChargedEffect
  <2>2. /\ DOMAIN sagas' = DOMAIN sagas
        /\ \A p \in DOMAIN sagas : p # o => sagas'[p] = sagas[p]
        /\ \/ Called /\ sagas'[o] = <<>>
           \/ Lost /\ sagas'[o] = sagas[o]
    BY <1>1, <1>3, <1>6 DEF BranchAnswered
  <2>3. Typed'
    <3>1. UNCHANGED <<useSaga, overlap, orders, shipments, published>>
      BY <1>1
    <3>2. QED
      BY <1>1, <1>4, <2>1, <2>2, <3>1 DEF Typed
  <2>4. \A p \in Orders : p # o => Same(p)
    BY <1>1, <1>4, <2>1, <2>2 DEF Same
  <2>5. ChargedOK(o)'
    <3>1. \A k \in 1 .. Len(charges'[o]) : charges'[o][k] = orders[o].cart
      <4>1. \A k \in 1 .. Len(charges[o]) : charges[o][k] = orders[o].cart
        BY <1>1 DEF OrderOK, ChargedOK
      <4>2. PICK n \in Nat : n = Len(charges[o])
        BY <2>1
      <4>3. \A k \in 1 .. n + 1 : k \in 1 .. n \/ k = n + 1
        BY <4>2
      <4>4. QED
        BY <2>1, <4>1, <4>2, <4>3
    <3>2. Succeeded(o) => Succeeded(o)'
      BY <1>1 DEF Succeeded
    <3>3. QED
      BY <1>1, <1>2, <3>1, <3>2 DEF OrderOK, ChargedOK, Completed
  <2>6. SagaOK(o)'
    <3>1. Rest(sagas'[o])
      BY <1>2, <1>3, <2>2
    <3>2. Len(charges'[o]) > 0
      BY <2>1
    <3>3. faults' = 0 => sagas'[o] = <<>> /\ Len(charges'[o]) = 1
      <4>1. SUFFICES ASSUME faults' = 0
                     PROVE  sagas'[o] = <<>> /\ Len(charges'[o]) = 1
        OBVIOUS
      <4>2. Len(charges[o]) = 0
        BY <1>2, <1>4, <4>1
      <4>3. ~Lost
        BY <1>1, <4>1, FaultCounts DEF Lost, Typed
      <4>4. QED
        BY <2>1, <2>2, <4>2, <4>3
    <3>4. QED
      BY <1>1, <1>2, <3>1, <3>2, <3>3 DEF SagaOK
  <2>7. ShippedOK(o)'
    BY <1>1, <2>1 DEF OrderOK, ShippedOK, At
  <2>8. C!TypeOK' /\ Inv!TypeOK'
    BY <1>1, CartStays, InventoryStays DEF IInv
  <2>9. QED
    BY <2>3, <2>4, <2>5, <2>6, <2>7, <2>8, StepKeeps DEF StepOf, OrderOK
<1>7. QED
  BY <1>5, <1>6 DEF CallPayment

(* The checkout service ends: what it had charged and shipped stays so.     *)
LEMMA CrashKeeps ==
  ASSUME IInv, Crash
  PROVE  IInv'
<1>1. /\ Typed
      /\ UNCHANGED <<useSaga, overlap, sagas, charges, shipments, published, cartVars, invVars>>
  BY DEF IInv, Crash, serviceVars
<1>2. faults' \in 0 .. MaxFaults /\ (faults' = 0 => faults = 0)
  BY <1>1, FaultCounts DEF Crash, Typed
<1>3. /\ orders' \in [Orders -> [phase : Phases, cart : C!Contents]]
      /\ \A o \in Orders :
           /\ orders'[o].cart = orders[o].cart
           /\ \/ orders'[o].phase = orders[o].phase
              \/ orders'[o].phase = "gone" /\ orders[o].phase \notin {"idle", "done"}
  <2>1. /\ DOMAIN orders' = Orders
        /\ orders' = [o \in Orders |-> orders'[o]]
        /\ \A o \in Orders : \/ orders'[o] = orders[o]
                             \/ /\ orders[o].phase \notin {"idle", "done"}
                                /\ orders'[o] = [orders[o] EXCEPT !.phase = "gone"]
    BY DEF Crash, Answered
  <2>2. ASSUME NEW o \in Orders
        PROVE  /\ orders'[o] \in [phase : Phases, cart : C!Contents]
               /\ orders'[o].cart = orders[o].cart
               /\ \/ orders'[o].phase = orders[o].phase
                  \/ orders'[o].phase = "gone" /\ orders[o].phase \notin {"idle", "done"}
    <3>1. orders[o] \in [phase : Phases, cart : C!Contents]
      BY <1>1 DEF Typed
    <3>2. [orders[o] EXCEPT !.phase = "gone"] \in [phase : Phases, cart : C!Contents]
      BY <3>1 DEF Phases
    <3>3. [orders[o] EXCEPT !.phase = "gone"].cart = orders[o].cart
      BY <3>1
    <3>4. [orders[o] EXCEPT !.phase = "gone"].phase = "gone"
      BY <3>1
    <3>5. QED
      BY <2>1, <3>1, <3>2, <3>3, <3>4
  <2>3. QED
    BY <2>1, <2>2
<1>4. Typed'
  BY <1>1, <1>2, <1>3 DEF Typed
<1>5. C!TypeOK' /\ Inv!TypeOK'
  BY <1>1, CartStays, InventoryStays DEF IInv
<1>6. ASSUME NEW o \in Orders
      PROVE  (ChargedOK(o) /\ SagaOK(o) /\ ShippedOK(o))'
  <2>1. ChargedOK(o) /\ SagaOK(o) /\ ShippedOK(o)
    BY DEF IInv
  <2>2. ChargedOK(o)'
    BY <1>1, <1>3, <2>1 DEF ChargedOK, Completed, Succeeded
  <2>3. SagaOK(o)'
    BY <1>1, <1>2, <1>3, <2>1 DEF SagaOK
  <2>4. ShippedOK(o)'
    BY <1>1, <1>3, <2>1 DEF ShippedOK, At
  <2>5. QED
    BY <2>2, <2>3, <2>4
<1>7. QED
  BY <1>4, <1>5, <1>6 DEF IInv

(* Customers change their carts, and not the orders that have read them.    *)
LEMMA ShoppingKeeps ==
  ASSUME IInv, Shopping
  PROVE  IInv'
<1>1. /\ Typed /\ C!TypeOK /\ Inv!TypeOK
      /\ UNCHANGED <<useSaga, overlap, orders, sagas, charges, shipments, published, faults>>
      /\ UNCHANGED invVars
  BY DEF IInv, Shopping, serviceVars
<1>2. C!TypeOK'
  BY <1>1, AddItemKeeps, SetCartKeeps, AddFailsKeeps, EmptyCartKeeps DEF Shopping
<1>3. Typed'
  BY <1>1 DEF Typed
<1>4. Inv!TypeOK'
  BY <1>1, InventoryStays
<1>5. ASSUME NEW o \in Orders
      PROVE  (ChargedOK(o) /\ SagaOK(o) /\ ShippedOK(o))'
  <2>1. Same(o)
    BY <1>1 DEF Same
  <2>2. QED
    BY <2>1, SameKeeps DEF IInv
<1>6. QED
  BY <1>2, <1>3, <1>4, <1>5 DEF IInv

-----------------------------------------------------------------------------
(* The invariant holds in the beginning ...                                *)
LEMMA InitIInv == Init => IInv
<1> SUFFICES ASSUME Init
             PROVE  IInv
  OBVIOUS
<1>1. C!NoItems \in C!Contents
  BY DEF C!NoItems, C!Contents
<1>2. C!TypeOK
  <2>1. C!Init
    BY DEF Init
  <2>2. QED
    BY <1>1, <2>1 DEF C!Init, C!TypeOK
<1>3. Inv!TypeOK
  <2>1. Inv!Init
    BY DEF Init
  <2>2. \A i \in DOMAIN InitialLevel :
          i \in Items /\ InitialLevel[i] \in Inv!Int64 /\ InitialLevel[i] \in Int
    BY DEF Inv!Int64
  <2>3. Inv!IsMap(inventory, Items, Inv!Entry)
    BY <2>1, <2>2 DEF Inv!Init, Inv!InitialInventory, Inv!IsMap, Inv!Entry, Inv!Owners
  <2>4. outbox \subseteq Inv!Events
    <3>1. PICK topics \in [DOMAIN InitialLevel -> {{"topic"}}] :
            outbox = UNION {Inv!EventsOn(topics[i], i, InitialLevel[i]) : i \in DOMAIN InitialLevel}
      BY <2>1 DEF Inv!Init, Inv!Announcements
    <3>2. \A i \in DOMAIN InitialLevel :
            Inv!EventsOn(topics[i], i, InitialLevel[i]) \subseteq Inv!Events
      BY <2>2 DEF Inv!EventsOn, Inv!Events, Inv!Severity, Inv!Severities
    <3>3. QED
      BY <3>1, <3>2
  <2>5. QED
    BY <2>1, <2>3, <2>4 DEF Inv!Init, Inv!TypeOK, Inv!Empty, Inv!IsMap
<1>4. Typed
  <2>1. useSaga \in BOOLEAN /\ useSaga \in Deployments
    BY DEF Init
  <2>2. orders \in [Orders -> [phase : Phases, cart : C!Contents]]
    BY <1>1 DEF Init, Phases
  <2>3. charges \in [Orders -> Seq(C!Contents)]
    <3>1. <<>> \in Seq(C!Contents)
      OBVIOUS
    <3>2. QED
      BY <3>1 DEF Init
  <2>4. shipments \in [Orders -> SUBSET C!Contents] /\ DOMAIN sagas \subseteq Orders
    BY DEF Init
  <2>5. published = {} /\ overlap = FALSE
    BY DEF Init
  <2>6. faults = 0 /\ 0 \in 0 .. MaxFaults
    BY DEF Init
  <2>7. QED
    BY <2>1, <2>2, <2>3, <2>4, <2>5, <2>6 DEF Typed
<1>5. ASSUME NEW o \in Orders
      PROVE  ChargedOK(o) /\ SagaOK(o) /\ ShippedOK(o)
  <2>1. /\ orders[o].phase = "idle" /\ charges[o] = <<>> /\ shipments[o] = {}
        /\ o \notin published /\ o \notin DOMAIN sagas
    BY DEF Init
  <2>2. QED
    BY <2>1 DEF ChargedOK, SagaOK, ShippedOK, Completed
<1>6. QED
  BY <1>2, <1>3, <1>4, <1>5 DEF IInv

(* ... and every step keeps it.                                            *)
LEMMA NextKeepsIInv == IInv /\ [Next]_vars => IInv'
<1> SUFFICES ASSUME IInv, [Next]_vars
             PROVE  IInv'
  OBVIOUS
<1>1. ASSUME NEW o \in Orders, PlaceOrder(o)
      PROVE  IInv'
  BY <1>1, PrepareKeeps, ChargeCardKeeps, PlaceOrderSagaKeeps, SagaReturnsKeeps,
     ShipOrderKeeps, EmptyUserCartKeeps, PublishKeeps DEF PlaceOrder
<1>2. ASSUME NEW o \in Orders, CallBranch(o)
      PROVE  IInv'
  BY <1>2, CallInventoryKeeps, CallPaymentKeeps DEF CallBranch
<1>3. CASE UNCHANGED vars
  BY <1>3, NothingKeeps DEF vars
<1>4. QED
  BY <1>1, <1>2, <1>3, CrashKeeps, ShoppingKeeps DEF Next

(* The invariant that the other theorems follow from: an order is charged   *)
(* for the cart it read before anything of it is shipped, and no saga goes  *)
(* without its charge.                                                      *)
THEOREM InvariantAlways == Spec => []IInv
<1>1. QED
  BY InitIInv, NextKeepsIInv, PTL DEF Spec

(* Every variable of checkout, the carts and the inventory keeps its type.  *)
THEOREM TypeCorrect == Spec => []TypeOK
<1>1. IInv => TypeOK
  <2> SUFFICES ASSUME IInv
               PROVE  TypeOK
    OBVIOUS
  <2>1. \A o \in DOMAIN sagas : sagas[o] \in Seq(Items \cup {Charge})
    BY DEF IInv, Typed, SagaOK, Rest
  <2>2. QED
    BY <2>1 DEF IInv, Typed, TypeOK
<1>2. QED
  BY <1>1, InvariantAlways, PTL

(* What PlaceOrder ships is what the customer was charged for, whatever is  *)
(* put into the cart meanwhile and whichever answers are lost.              *)
THEOREM ShippedIsChargedAlways == Spec => []ShippedIsCharged
<1>1. IInv => ShippedIsCharged
  <2> SUFFICES ASSUME IInv, NEW o \in Orders, NEW cart \in shipments[o]
               PROVE  \E k \in 1 .. Len(charges[o]) : charges[o][k] = cart
    BY DEF ShippedIsCharged
  <2>1. cart = orders[o].cart /\ Len(charges[o]) > 0
    BY DEF IInv, ShippedOK
  <2>2. Len(charges[o]) \in Nat
    BY DEF IInv, Typed
  <2>3. 1 \in 1 .. Len(charges[o]) /\ charges[o][1] = orders[o].cart
    BY <2>1, <2>2 DEF IInv, ChargedOK
  <2>4. QED
    BY <2>1, <2>3
<1>2. QED
  BY <1>1, InvariantAlways, PTL

(* An order that is published was shipped once, and charged once, unless an *)
(* answer to DTM was lost; and never is it published without a charge.      *)
THEOREM PublishedOnceAlways == Spec => []PublishedOnce
<1>1. IInv => PublishedOnce
  <2> SUFFICES ASSUME IInv, NEW o \in published
               PROVE  /\ Cardinality(shipments[o]) = 1
                      /\ Len(charges[o]) = 1 \/ (useSaga /\ faults > 0 /\ Len(charges[o]) > 1)
    BY DEF PublishedOnce
  <2>1. /\ o \in Orders /\ Typed /\ ChargedOK(o) /\ SagaOK(o) /\ ShippedOK(o)
        /\ orders[o].phase = "done"
    BY DEF IInv, Typed, ShippedOK, At
  <2>2. shipments[o] = {orders[o].cart}
    BY <2>1 DEF ShippedOK
  <2>3. Cardinality(shipments[o]) = 1
    BY <2>2, FS_Singleton
  <2>4. Len(charges[o]) \in Nat /\ faults \in Nat
    BY <2>1 DEF Typed
  <2>5. CASE ~useSaga
    BY <2>1, <2>3, <2>5 DEF ChargedOK, Completed
  <2>6. CASE useSaga
    <3>1. o \in DOMAIN sagas /\ sagas[o] = <<>>
      BY <2>1, <2>6 DEF ChargedOK, Completed, Succeeded
    <3>2. PICK n \in Nat : n = Len(charges[o])
      BY <2>4
    <3>3. n > 0
      BY <2>1, <3>1, <3>2 DEF SagaOK
    <3>4. faults = 0 => n = 1
      <4>1. charges[o] # <<>>
        BY <3>2, <3>3
      <4>2. QED
        BY <2>1, <3>1, <3>2, <4>1 DEF SagaOK
    <3>5. n = 1 \/ (faults > 0 /\ n > 1)
      BY <2>4, <3>3, <3>4
    <3>6. QED
      BY <2>3, <2>6, <3>2, <3>5, Zenon
  <2>7. QED
    BY <2>5, <2>6
<1>2. QED
  BY <1>1, InvariantAlways, PTL

-----------------------------------------------------------------------------
(* What SoldOnce is about: nothing fails, a user places one order at a      *)
(* time, and no cart is emptied during an addition where that undoes it.    *)
Undisturbed == faults = 0 /\ ~overlap /\ (store = "spanner" \/ ~raced)

(* The cart was read, and nothing of it has been shipped.                   *)
Reading(o) == orders[o].phase \in {"prepared", "submitted", "paid"}

(* No order of the user waits for its cart to be emptied.                   *)
NoneToEmpty(u) == \A o \in Orders : UserOf[o] = u => ~At(o, "shipped")

OneAtATime ==
  \A o, p \in Orders :
    UserOf[o] = UserOf[p] /\ BeingPlaced(o) /\ BeingPlaced(p) => o = p

(* What was added pays for what was shipped, together with the cart that an *)
(* order has read; and, unless the cart is about to be emptied, with what   *)
(* is in it and what an addition has read and will write back.              *)
ReadIsAdded(o) ==
  \A i \in Items : Sold(UserOf[o], i) + orders[o].cart[i] <= added[UserOf[o]][i]
CartIsAdded(u) ==
  \A i \in Items : Sold(u, i) + carts[u][i] <= added[u][i]
WrittenIsAdded(r) ==
  \A i \in Items : Sold(adding[r].user, i) + adding[r].read[i] <= added[adding[r].user][i]

SoldInv ==
  /\ OneAtATime
  /\ \A u \in Users, i \in Items : Sold(u, i) <= added[u][i]
  /\ \A o \in Orders : Reading(o) => ReadIsAdded(o)
  /\ \A u \in Users : NoneToEmpty(u) => CartIsAdded(u)
  /\ \A r \in DOMAIN adding :
       store # "spanner" /\ NoneToEmpty(adding[r].user) => WrittenIsAdded(r)

-----------------------------------------------------------------------------
(* What has been shipped for an order is nothing, or its cart.              *)
LEMMA ShippedForOrder ==
  ASSUME IInv, NEW o \in Orders, NEW i \in Items
  PROVE  /\ ShippedFor(shipments, o, i) \in Nat
         /\ shipments[o] = {} => ShippedFor(shipments, o, i) = 0
         /\ shipments[o] # {} => ShippedFor(shipments, o, i) = orders[o].cart[i]
<1>1. orders[o].cart \in C!Contents
  BY DEF IInv, Typed
<1>2. PICK c \in C!Contents : c = orders[o].cart
  BY <1>1
<1>3. c[i] \in Nat
  BY DEF C!Contents
<1>4. shipments[o] = {} \/ shipments[o] = {c}
  BY <1>2 DEF IInv, ShippedOK
<1>5. CASE shipments[o] = {}
  <2>1. ShippedFor(shipments, o, i) = 0
    BY <1>5, ShippedForValue
  <2>2. QED
    BY <1>5, <2>1
<1>6. CASE shipments[o] = {c}
  <2>1. ShippedFor(shipments, o, i) = c[i]
    BY <1>3, <1>6, ShippedForValue
  <2>2. shipments[o] # {}
    BY <1>6
  <2>3. QED
    BY <1>2, <1>3, <2>1, <2>2
<1>7. QED
  BY <1>4, <1>5, <1>6

(* The numbers that the invariant adds up.                                  *)
LEMMA SoldIsNat ==
  ASSUME IInv, NEW u \in Users, NEW i \in Items
  PROVE  Sold(u, i) \in Nat /\ carts[u][i] \in Nat /\ added[u][i] \in Nat
<1>1. carts[u] \in [Items -> Nat] /\ added[u] \in [Items -> Nat]
  BY DEF IInv, C!TypeOK, C!Contents
<1>2. \A p \in Orders : ShippedFor(shipments, p, i) \in Nat
  BY ShippedForOrder
<1>3. ShippedTo(shipments, u, i) \in Nat
  BY <1>2, ShippedToChanges
<1>4. QED
  BY <1>1, <1>3 DEF Sold

(* A shipment for o makes a difference to the user of o alone.              *)
LEMMA SoldChanges ==
  ASSUME IInv, NEW o \in Orders, shipments[o] = {}, NEW c \in C!Contents,
         shipments' = [shipments EXCEPT ![o] = {c}],
         NEW u \in Users, NEW i \in Items
  PROVE  Sold(u, i)' = IF UserOf[o] = u THEN Sold(u, i) + c[i] ELSE Sold(u, i)
<1>1. c[i] \in Nat
  BY DEF C!Contents
<1>2. PICK w : w = shipments'
  OBVIOUS
<1>3. w[o] = {c} /\ \A p \in Orders : p # o => w[p] = shipments[p]
  BY <1>2 DEF IInv, Typed
<1>4. ShippedFor(w, o, i) = c[i] /\ ShippedFor(shipments, o, i) = 0
  BY <1>1, <1>3, ShippedForValue
<1>5. \A p \in Orders : /\ ShippedFor(shipments, p, i) \in Nat
                        /\ ShippedFor(w, p, i) \in Nat
                        /\ p # o => w[p] = shipments[p]
  <2>1. ASSUME NEW p \in Orders
        PROVE  /\ ShippedFor(shipments, p, i) \in Nat
               /\ ShippedFor(w, p, i) \in Nat
    <3>1. ShippedFor(shipments, p, i) \in Nat
      BY ShippedForOrder
    <3>2. p # o => ShippedFor(w, p, i) = ShippedFor(shipments, p, i)
      BY <1>3 DEF ShippedFor
    <3>3. QED
      BY <1>1, <1>4, <3>1, <3>2
  <2>2. QED
    BY <1>3, <2>1
<1>6. /\ ShippedTo(shipments, u, i) \in Nat
      /\ o \in OrdersOf(u) => ShippedTo(w, u, i) =
           ShippedTo(shipments, u, i) + ShippedFor(w, o, i) - ShippedFor(shipments, o, i)
      /\ o \notin OrdersOf(u) => ShippedTo(w, u, i) = ShippedTo(shipments, u, i)
  BY <1>5, ShippedToChanges
<1>7. Sold(u, i) = ShippedTo(shipments, u, i) /\ Sold(u, i)' = ShippedTo(w, u, i)
  BY <1>2 DEF Sold
<1>8. o \in OrdersOf(u) <=> UserOf[o] = u
  BY DEF OrdersOf
<1>9. QED
  BY <1>1, <1>4, <1>6, <1>7, <1>8

-----------------------------------------------------------------------------
(* The cart of u is emptied: nothing of it is left to pay for, and nothing  *)
(* that an addition has read of it will be written, or the user is raced.   *)
LEMMA EmptiedStays ==
  ASSUME IInv, SoldInv, NEW u \in Users, C!EmptyCart(u), Undisturbed',
         UNCHANGED shipments,
         \A o \in Orders : /\ orders'[o].cart = orders[o].cart
                           /\ BeingPlaced(o)' => BeingPlaced(o)
                           /\ Reading(o)' => Reading(o)
                           /\ UserOf[o] # u /\ At(o, "shipped") => At(o, "shipped")'
  PROVE  SoldInv'
<1>1. /\ carts' = [carts EXCEPT ![u] = C!NoItems]
      /\ UNCHANGED <<store, adding, added>>
      /\ store # "spanner" => \A r \in DOMAIN adding : adding[r].user # u
  BY DEF C!EmptyCart, Undisturbed
<1>2. /\ \A i \in Items : carts'[u][i] = 0
      /\ \A v \in Users : v # u => carts'[v] = carts[v]
  BY <1>1 DEF IInv, C!TypeOK, C!NoItems
<1>3. \A v, i : Sold(v, i)' = Sold(v, i)
  BY DEF Sold
<1>4. \A v : v # u /\ NoneToEmpty(v)' => NoneToEmpty(v)
  BY DEF NoneToEmpty
<1>5. OneAtATime'
  BY DEF SoldInv, OneAtATime
<1>6. \A v \in Users, i \in Items : Sold(v, i)' <= added'[v][i]
  BY <1>1, <1>3 DEF SoldInv
<1>7. ASSUME NEW o \in Orders, Reading(o)'
      PROVE  ReadIsAdded(o)'
  <2>1. ReadIsAdded(o)
    BY <1>7 DEF SoldInv
  <2>2. QED
    BY <1>1, <1>3, <2>1 DEF ReadIsAdded
<1>8. ASSUME NEW v \in Users, NoneToEmpty(v)'
      PROVE  CartIsAdded(v)'
  <2>1. CASE v = u
    <3>1. ASSUME NEW i \in Items
          PROVE  Sold(v, i)' + carts'[v][i] <= added'[v][i]
      <4>1. Sold(v, i) \in Nat /\ Sold(v, i) <= added[v][i]
        BY SoldIsNat DEF SoldInv
      <4>2. QED
        BY <1>1, <1>2, <1>3, <2>1, <4>1
    <3>2. QED
      BY <3>1 DEF CartIsAdded
  <2>2. CASE v # u
    <3>1. CartIsAdded(v)
      BY <1>4, <1>8, <2>2 DEF SoldInv
    <3>2. QED
      BY <1>1, <1>2, <1>3, <2>2, <3>1 DEF CartIsAdded
  <2>3. QED
    BY <2>1, <2>2
<1>9. ASSUME NEW r \in DOMAIN adding', (store # "spanner" /\ NoneToEmpty(adding[r].user))'
      PROVE  WrittenIsAdded(r)'
  <2>1. WrittenIsAdded(r)
    BY <1>1, <1>4, <1>9 DEF SoldInv
  <2>2. QED
    BY <1>1, <1>3, <2>1 DEF WrittenIsAdded
<1>10. QED
  BY <1>5, <1>6, <1>7, <1>8, <1>9 DEF SoldInv

(* What an addition has read is paid for if the cart is.                    *)
LEMMA AddItemSold ==
  ASSUME IInv, SoldInv, NEW r \in Requests, NEW u \in Users, NEW i \in Items,
         NEW q \in Quantities, C!AddItem(r, u, i, q), UNCHANGED <<orders, shipments>>
  PROVE  SoldInv'
<1>1. UNCHANGED <<store, carts, added>>
  BY DEF C!AddItem
<1>2. /\ DOMAIN adding' = DOMAIN adding \cup {r}
      /\ adding'[r].user = u /\ adding'[r].read = carts[u]
      /\ \A x \in DOMAIN adding : x # r => adding'[x] = adding[x]
  BY DEF C!AddItem
<1>3. \A v, j : Sold(v, j)' = Sold(v, j)
  BY DEF Sold
<1>4. \A v : NoneToEmpty(v)' <=> NoneToEmpty(v)
  BY DEF NoneToEmpty, At
<1>5. OneAtATime'
  BY DEF SoldInv, OneAtATime, BeingPlaced
<1>6. \A v \in Users, j \in Items : Sold(v, j)' <= added'[v][j]
  BY <1>1, <1>3 DEF SoldInv
<1>7. \A o \in Orders : Reading(o)' => ReadIsAdded(o)'
  BY <1>1, <1>3 DEF SoldInv, Reading, ReadIsAdded
<1>8. \A v \in Users : NoneToEmpty(v)' => CartIsAdded(v)'
  BY <1>1, <1>3, <1>4 DEF SoldInv, CartIsAdded
<1>9. ASSUME NEW x \in DOMAIN adding', (store # "spanner" /\ NoneToEmpty(adding[x].user))'
      PROVE  WrittenIsAdded(x)'
  <2>1. CASE x = r
    <3>1. NoneToEmpty(u)
      BY <1>2, <1>4, <1>9, <2>1
    <3>2. CartIsAdded(u)
      BY <3>1 DEF SoldInv
    <3>3. QED
      BY <1>1, <1>2, <1>3, <2>1, <3>2 DEF CartIsAdded, WrittenIsAdded
  <2>2. CASE x # r
    <3>1. x \in DOMAIN adding /\ adding'[x] = adding[x]
      BY <1>2, <1>9, <2>2
    <3>2. WrittenIsAdded(x)
      BY <1>1, <1>4, <1>9, <3>1 DEF SoldInv
    <3>3. QED
      BY <1>1, <1>3, <3>1, <3>2 DEF WrittenIsAdded
  <2>3. QED
    BY <2>1, <2>2
<1>10. QED
  BY <1>5, <1>6, <1>7, <1>8, <1>9 DEF SoldInv

(* An addition that fails has nothing to write any more.                    *)
LEMMA AddFailsSold ==
  ASSUME IInv, SoldInv, NEW r \in Requests, C!AddFails(r), UNCHANGED <<orders, shipments>>
  PROVE  SoldInv'
<1>1. UNCHANGED <<store, carts, added>>
  BY DEF C!AddFails
<1>2. \A x \in DOMAIN adding' : x \in DOMAIN adding /\ adding'[x] = adding[x]
  BY DEF C!AddFails
<1>3. \A v, j : Sold(v, j)' = Sold(v, j)
  BY DEF Sold
<1>4. \A v : NoneToEmpty(v)' <=> NoneToEmpty(v)
  BY DEF NoneToEmpty, At
<1>5. OneAtATime'
  BY DEF SoldInv, OneAtATime, BeingPlaced
<1>6. \A v \in Users, j \in Items : Sold(v, j)' <= added'[v][j]
  BY <1>1, <1>3 DEF SoldInv
<1>7. \A o \in Orders : Reading(o)' => ReadIsAdded(o)'
  BY <1>1, <1>3 DEF SoldInv, Reading, ReadIsAdded
<1>8. \A v \in Users : NoneToEmpty(v)' => CartIsAdded(v)'
  BY <1>1, <1>3, <1>4 DEF SoldInv, CartIsAdded
<1>9. ASSUME NEW x \in DOMAIN adding', (store # "spanner" /\ NoneToEmpty(adding[x].user))'
      PROVE  WrittenIsAdded(x)'
  <2>1. WrittenIsAdded(x)
    BY <1>1, <1>2, <1>4, <1>9 DEF SoldInv
  <2>2. QED
    BY <1>1, <1>2, <1>3, <1>9, <2>1 DEF WrittenIsAdded
<1>10. QED
  BY <1>5, <1>6, <1>7, <1>8, <1>9 DEF SoldInv

(* What an addition writes is what it read, or what is in the cart, and the *)
(* quantity that is added at the same moment.                               *)
LEMMA SetCartSold ==
  ASSUME IInv, SoldInv, NEW r \in Requests, C!SetCart(r), UNCHANGED <<orders, shipments>>
  PROVE  SoldInv'
<1>1. r \in DOMAIN adding /\ C!TypeOK /\ UNCHANGED store
  BY DEF IInv, C!SetCart
<1>2. PICK a \in [user : Users, item : Items, quantity : Quantities, read : C!Contents] :
        a = adding[r]
  BY <1>1 DEF C!TypeOK
<1>3. PICK u \in Users, item \in Items, q \in Nat :
        u = a.user /\ item = a.item /\ q = a.quantity
  OBVIOUS
<1>4. \A x \in DOMAIN adding' : x \in DOMAIN adding /\ adding'[x] = adding[x]
  BY DEF C!SetCart
<1>5. /\ carts' = [carts EXCEPT ![u] = C!Stored(a)]
      /\ added' = [added EXCEPT ![u][item] = @ + q]
  BY <1>2, <1>3 DEF C!SetCart
<1>6. carts[u] \in [Items -> Nat] /\ added[u] \in [Items -> Nat] /\ a.read \in [Items -> Nat]
  BY <1>1 DEF C!TypeOK, C!Contents
<1>7. /\ carts'[u] = C!Stored(a)
      /\ \A v \in Users : v # u => carts'[v] = carts[v] /\ added'[v] = added[v]
      /\ added'[u] = [added[u] EXCEPT ![item] = @ + q]
  BY <1>1, <1>5 DEF C!TypeOK
<1>8. /\ \A j \in Items : added'[u][j] = IF j = item THEN added[u][j] + q ELSE added[u][j]
      /\ \A v \in Users, j \in Items : added[v][j] <= added'[v][j]
  <2>1. \A j \in Items : added'[u][j] = IF j = item THEN added[u][j] + q ELSE added[u][j]
    BY <1>6, <1>7
  <2>2. ASSUME NEW v \in Users, NEW j \in Items
        PROVE  added[v][j] <= added'[v][j]
    <3>1. added[v][j] \in Nat
      BY <1>1 DEF C!TypeOK, C!Contents
    <3>2. CASE v = u
      BY <2>1, <3>1, <3>2
    <3>3. CASE v # u
      BY <1>7, <3>1, <3>3
    <3>4. QED
      BY <3>2, <3>3
  <2>3. QED
    BY <2>1, <2>2
<1>9. \A v \in Users, j \in Items :
        /\ Sold(v, j)' = Sold(v, j)
        /\ Sold(v, j) \in Nat /\ carts[v][j] \in Nat
        /\ added[v][j] \in Nat /\ added'[v][j] \in Nat
  <2>1. ASSUME NEW v \in Users, NEW j \in Items
        PROVE  Sold(v, j) \in Nat /\ carts[v][j] \in Nat
               /\ added[v][j] \in Nat /\ added'[v][j] \in Nat
    <3>1. Sold(v, j) \in Nat /\ carts[v][j] \in Nat /\ added[v][j] \in Nat
      BY SoldIsNat
    <3>2. added'[v][j] = added[v][j] \/ added'[v][j] = added[v][j] + q
      BY <1>7, <1>8
    <3>3. QED
      BY <3>1, <3>2
  <2>2. \A v, j : Sold(v, j)' = Sold(v, j)
    BY DEF Sold
  <2>3. QED
    BY <2>1, <2>2
<1>10. \A v : NoneToEmpty(v)' <=> NoneToEmpty(v)
  BY DEF NoneToEmpty, At
<1>11. OneAtATime'
  BY DEF SoldInv, OneAtATime, BeingPlaced
<1>12. ASSUME NEW v \in Users, NEW j \in Items
       PROVE  Sold(v, j)' <= added'[v][j]
  <2>1. Sold(v, j) <= added[v][j]
    BY DEF SoldInv
  <2>2. QED
    BY <1>8, <1>9, <2>1
<1>13. ASSUME NEW o \in Orders, Reading(o)'
       PROVE  ReadIsAdded(o)'
  <2>1. UserOf[o] \in Users /\ orders[o].cart \in [Items -> Nat]
    BY DEF IInv, Typed, C!Contents
  <2>2. ReadIsAdded(o)
    BY <1>13 DEF SoldInv, Reading
  <2>3. ASSUME NEW j \in Items
        PROVE  Sold(UserOf[o], j)' + orders'[o].cart[j] <= added'[UserOf[o]][j]
    <3>1. orders[o].cart[j] \in Nat
      BY <2>1
    <3>2. Sold(UserOf[o], j) + orders[o].cart[j] <= added[UserOf[o]][j]
      BY <2>2 DEF ReadIsAdded
    <3>3. QED
      BY <1>8, <1>9, <2>1, <3>1, <3>2
  <2>4. QED
    BY <2>3 DEF ReadIsAdded
<1>14. ASSUME NEW v \in Users, NoneToEmpty(v)'
       PROVE  CartIsAdded(v)'
  <2>1. CartIsAdded(v)
    BY <1>10, <1>14 DEF SoldInv
  <2>2. CASE v # u
    BY <1>7, <1>9, <2>1, <2>2 DEF CartIsAdded
  <2>3. CASE v = u
    <3>1. \A j \in Items : /\ Sold(u, j) + carts[u][j] <= added[u][j]
                           /\ Sold(u, j) \in Nat /\ carts[u][j] \in Nat
                           /\ added[u][j] \in Nat /\ a.read[j] \in Nat
      BY <1>6, <1>9, <2>1, <2>3 DEF CartIsAdded
    <3>2. store # "spanner" => \A j \in Items : Sold(u, j) + a.read[j] <= added[u][j]
      <4>1. adding[r].user = u /\ adding[r].read = a.read
        BY <1>2, <1>3
      <4>2. store # "spanner" => WrittenIsAdded(r)
        BY <1>1, <1>10, <1>14, <2>3, <4>1 DEF SoldInv
      <4>3. QED
        BY <4>1, <4>2 DEF WrittenIsAdded
    <3>3. ASSUME NEW j \in Items
          PROVE  Sold(u, j) + C!Stored(a)[j] <= added'[u][j]
      <4>1. CASE store = "redis"
        <5>1. C!Stored(a) = [a.read EXCEPT ![item] = @ + q]
          BY <1>3, <4>1 DEF C!Stored, C!RedisStored
        <5>2. C!Stored(a)[j] = IF j = item THEN a.read[j] + q ELSE a.read[j]
          BY <1>6, <5>1
        <5>3. QED
          BY <1>8, <3>1, <3>2, <4>1, <5>2
      <4>2. CASE store = "alloydb"
        <5>1. C!Stored(a) = [carts[u] EXCEPT ![item] = a.read[item] + q]
          BY <1>3, <4>2 DEF C!Stored, C!AlloyStored
        <5>2. C!Stored(a)[j] = IF j = item THEN a.read[j] + q ELSE carts[u][j]
          BY <1>6, <5>1
        <5>3. QED
          BY <1>8, <3>1, <3>2, <4>2, <5>2
      <4>3. CASE store = "spanner"
        <5>1. C!Stored(a) = [carts[u] EXCEPT ![item] = @ + q]
          BY <1>3, <4>3 DEF C!Stored, C!SpannerStored
        <5>2. C!Stored(a)[j] = IF j = item THEN carts[u][j] + q ELSE carts[u][j]
          BY <1>6, <5>1
        <5>3. QED
          BY <1>8, <3>1, <5>2
      <4>4. QED
        BY <1>1, <4>1, <4>2, <4>3 DEF C!TypeOK
    <3>4. QED
      BY <1>7, <1>9, <2>3, <3>3 DEF CartIsAdded
  <2>4. QED
    BY <2>2, <2>3
<1>15. ASSUME NEW x \in DOMAIN adding', (store # "spanner" /\ NoneToEmpty(adding[x].user))'
       PROVE  WrittenIsAdded(x)'
  <2>1. x \in DOMAIN adding /\ adding'[x] = adding[x]
    BY <1>4, <1>15
  <2>2. adding[x].user \in Users /\ adding[x].read \in [Items -> Nat]
    BY <1>1, <2>1 DEF C!TypeOK, C!Contents
  <2>3. WrittenIsAdded(x)
    BY <1>1, <1>10, <1>15, <2>1 DEF SoldInv
  <2>4. ASSUME NEW j \in Items
        PROVE  Sold(adding[x].user, j)' + adding'[x].read[j] <= added'[adding[x].user][j]
    <3>1. adding[x].read[j] \in Nat
      BY <2>2
    <3>2. Sold(adding[x].user, j) + adding[x].read[j] <= added[adding[x].user][j]
      BY <2>3 DEF WrittenIsAdded
    <3>3. QED
      BY <1>8, <1>9, <2>1, <2>2, <3>1, <3>2
  <2>5. QED
    BY <2>1, <2>4 DEF WrittenIsAdded
<1>16. QED
  BY <1>11, <1>12, <1>13, <1>14, <1>15 DEF SoldInv

-----------------------------------------------------------------------------
(* A step that ships nothing, reads no cart and changes none.               *)
LEMMA SoldStays ==
  ASSUME SoldInv, UNCHANGED <<shipments, cartVars>>,
         \A o \in Orders : /\ orders'[o].cart = orders[o].cart
                           /\ BeingPlaced(o)' => BeingPlaced(o)
                           /\ Reading(o)' => Reading(o)
                           /\ At(o, "shipped") => At(o, "shipped")'
  PROVE  SoldInv'
<1> USE DEF cartVars
<1>1. \A u, i : Sold(u, i)' = Sold(u, i)
  BY DEF Sold
<1>2. \A u : NoneToEmpty(u)' => NoneToEmpty(u)
  BY DEF NoneToEmpty
<1>3. OneAtATime'
  BY DEF SoldInv, OneAtATime
<1>4. \A u \in Users, i \in Items : Sold(u, i)' <= added'[u][i]
  BY <1>1 DEF SoldInv
<1>5. ASSUME NEW o \in Orders, Reading(o)'
      PROVE  ReadIsAdded(o)'
  <2>1. ReadIsAdded(o)
    BY <1>5 DEF SoldInv
  <2>2. QED
    BY <1>1, <2>1 DEF ReadIsAdded
<1>6. ASSUME NEW u \in Users, NoneToEmpty(u)'
      PROVE  CartIsAdded(u)'
  <2>1. CartIsAdded(u)
    BY <1>2, <1>6 DEF SoldInv
  <2>2. QED
    BY <1>1, <2>1 DEF CartIsAdded
<1>7. ASSUME NEW r \in DOMAIN adding', (store # "spanner" /\ NoneToEmpty(adding[r].user))'
      PROVE  WrittenIsAdded(r)'
  <2>1. WrittenIsAdded(r)
    BY <1>2, <1>7 DEF SoldInv
  <2>2. QED
    BY <1>1, <2>1 DEF WrittenIsAdded
<1>8. QED
  BY <1>3, <1>4, <1>5, <1>6, <1>7 DEF SoldInv

(* The cart that an order reads was added, and not shipped before.          *)
LEMMA PrepareSold ==
  ASSUME IInv, SoldInv, NEW o \in Orders, prepareOrderItemsAndShippingQuoteFromCart(o),
         Undisturbed'
  PROVE  SoldInv'
<1> USE DEF prepareOrderItemsAndShippingQuoteFromCart
<1>1. /\ Typed /\ UserOf[o] \in Users
      /\ UNCHANGED <<shipments, store, carts, adding, added>>
  BY DEF IInv, serviceVars, cartVars
<1>2. orders' = [orders EXCEPT ![o] = [phase |-> "prepared", cart |-> carts[UserOf[o]]]]
  <2>1. ~NotCalled
    BY <1>1, FaultCounts DEF NotCalled, Undisturbed, Typed
  <2>2. QED
    BY <2>1 DEF C!GetCart
<1>3. /\ orders'[o].phase = "prepared" /\ orders'[o].cart = carts[UserOf[o]]
      /\ \A p \in Orders : p # o => orders'[p] = orders[p]
  BY <1>1, <1>2 DEF Typed
<1>4. \A p \in Orders : UserOf[p] = UserOf[o] => ~BeingPlaced(p)
  BY DEF Undisturbed
<1>5. \A p \in Orders : p # o => (BeingPlaced(p)' <=> BeingPlaced(p))
  BY <1>3 DEF BeingPlaced
<1>6. \A u, i : Sold(u, i)' = Sold(u, i)
  BY <1>1 DEF Sold
<1>7. \A u : NoneToEmpty(u)' => NoneToEmpty(u)
  <2>1. ~At(o, "shipped")
    BY DEF At
  <2>2. QED
    BY <1>3, <2>1 DEF NoneToEmpty, At
<1>8. OneAtATime'
  BY <1>4, <1>5 DEF SoldInv, OneAtATime
<1>9. \A u \in Users, i \in Items : Sold(u, i)' <= added'[u][i]
  BY <1>1, <1>6 DEF SoldInv
<1>10. ASSUME NEW p \in Orders, Reading(p)'
       PROVE  ReadIsAdded(p)'
  <2>1. CASE p = o
    <3>1. NoneToEmpty(UserOf[o])
      BY <1>4 DEF NoneToEmpty, At, BeingPlaced
    <3>2. CartIsAdded(UserOf[o])
      BY <1>1, <3>1 DEF SoldInv
    <3>3. QED
      BY <1>1, <1>3, <1>6, <2>1, <3>2 DEF CartIsAdded, ReadIsAdded
  <2>2. CASE p # o
    <3>1. ReadIsAdded(p)
      BY <1>3, <1>10, <2>2 DEF SoldInv, Reading
    <3>2. QED
      BY <1>1, <1>3, <1>6, <2>2, <3>1 DEF ReadIsAdded
  <2>3. QED
    BY <2>1, <2>2
<1>11. ASSUME NEW u \in Users, NoneToEmpty(u)'
       PROVE  CartIsAdded(u)'
  <2>1. CartIsAdded(u)
    BY <1>7, <1>11 DEF SoldInv
  <2>2. QED
    BY <1>1, <1>6, <2>1 DEF CartIsAdded
<1>12. ASSUME NEW r \in DOMAIN adding', (store # "spanner" /\ NoneToEmpty(adding[r].user))'
       PROVE  WrittenIsAdded(r)'
  <2>1. WrittenIsAdded(r)
    BY <1>1, <1>7, <1>12 DEF SoldInv
  <2>2. QED
    BY <1>1, <1>6, <2>1 DEF WrittenIsAdded
<1>13. QED
  BY <1>8, <1>9, <1>10, <1>11, <1>12 DEF SoldInv

(* What is shipped was paid for by what was added when the cart was read.   *)
LEMMA ShipSold ==
  ASSUME IInv, SoldInv, NEW o \in Orders, shipOrder(o), Undisturbed'
  PROVE  SoldInv'
<1> USE DEF shipOrder
<1>1. /\ Typed /\ UserOf[o] \in Users /\ orders[o].phase = "paid"
      /\ UNCHANGED <<store, carts, adding, added>>
  BY DEF IInv, At, cartVars
<1>2. Shipped(o) /\ To(o, "shipped")
  BY <1>1, FaultCounts DEF Lost, NotCalled, Undisturbed, Typed
<1>3. /\ orders'[o].phase = "shipped"
      /\ \A p \in Orders : orders'[p].cart = orders[p].cart /\ (p # o => orders'[p] = orders[p])
  BY <1>1, <1>2, ToEffect DEF Phases
<1>4. shipments[o] = {}
  BY <1>1 DEF IInv, ShippedOK
<1>5. PICK c \in C!Contents : c = orders[o].cart
  BY <1>1 DEF Typed
<1>6. shipments' = [shipments EXCEPT ![o] = {c}]
  BY <1>2, <1>4, <1>5 DEF Shipped, ToShip
<1>7. \A u \in Users, i \in Items :
        Sold(u, i)' = IF UserOf[o] = u THEN Sold(u, i) + c[i] ELSE Sold(u, i)
  BY <1>4, <1>6, SoldChanges
<1>8. Reading(o) /\ BeingPlaced(o)
  BY <1>1 DEF Reading, BeingPlaced
<1>9. \A p \in Orders : BeingPlaced(p)' <=> BeingPlaced(p)
  BY <1>1, <1>3 DEF BeingPlaced
<1>10. OneAtATime'
  BY <1>9 DEF SoldInv, OneAtATime
<1>11. \A u \in Users : NoneToEmpty(u)' => u # UserOf[o] /\ NoneToEmpty(u)
  BY <1>1, <1>3 DEF NoneToEmpty, At
<1>12. ASSUME NEW u \in Users, NEW i \in Items
       PROVE  Sold(u, i)' <= added'[u][i]
  <2>1. CASE u = UserOf[o]
    <3>1. Sold(u, i) + c[i] <= added[u][i]
      BY <1>5, <1>8, <2>1 DEF SoldInv, ReadIsAdded
    <3>2. QED
      BY <1>1, <1>7, <2>1, <3>1
  <2>2. CASE u # UserOf[o]
    BY <1>1, <1>7, <2>2 DEF SoldInv
  <2>3. QED
    BY <2>1, <2>2
<1>13. ASSUME NEW p \in Orders, Reading(p)'
       PROVE  ReadIsAdded(p)'
  <2>1. p # o
    BY <1>3, <1>13 DEF Reading
  <2>2. Reading(p) /\ BeingPlaced(p)
    BY <1>3, <1>13, <2>1 DEF Reading, BeingPlaced
  <2>3. UserOf[p] # UserOf[o] /\ UserOf[p] \in Users
    BY <1>8, <2>1, <2>2 DEF SoldInv, OneAtATime
  <2>4. ReadIsAdded(p)
    BY <2>2 DEF SoldInv
  <2>5. QED
    BY <1>1, <1>3, <1>7, <2>3, <2>4 DEF ReadIsAdded
<1>14. ASSUME NEW u \in Users, NoneToEmpty(u)'
       PROVE  CartIsAdded(u)'
  <2>1. CartIsAdded(u) /\ u # UserOf[o]
    BY <1>11, <1>14 DEF SoldInv
  <2>2. QED
    BY <1>1, <1>7, <2>1 DEF CartIsAdded
<1>15. ASSUME NEW r \in DOMAIN adding', (store # "spanner" /\ NoneToEmpty(adding[r].user))'
       PROVE  WrittenIsAdded(r)'
  <2>1. adding[r].user \in Users
    BY <1>1, <1>15 DEF IInv, C!TypeOK
  <2>2. WrittenIsAdded(r) /\ adding[r].user # UserOf[o]
    BY <1>1, <1>11, <1>15, <2>1 DEF SoldInv
  <2>3. QED
    BY <1>1, <1>7, <2>1, <2>2 DEF WrittenIsAdded
<1>16. QED
  BY <1>10, <1>12, <1>13, <1>14, <1>15 DEF SoldInv

(* What has been shipped leaves the cart, and is not written back.          *)
LEMMA EmptySold ==
  ASSUME IInv, SoldInv, NEW o \in Orders, emptyUserCart(o), Undisturbed'
  PROVE  SoldInv'
<1> USE DEF emptyUserCart
<1>1. /\ Typed /\ UserOf[o] \in Users /\ orders[o].phase = "shipped" /\ To(o, "emptied")
      /\ UNCHANGED shipments
  BY DEF IInv, At, serviceVars
<1>2. C!EmptyCart(UserOf[o])
  BY <1>1, FaultCounts DEF NotCalled, Undisturbed, Typed
<1>3. /\ orders'[o].phase = "emptied"
      /\ \A p \in Orders : orders'[p].cart = orders[p].cart /\ (p # o => orders'[p] = orders[p])
  BY <1>1, ToEffect DEF Phases
<1>4. \A p \in Orders : /\ BeingPlaced(p)' => BeingPlaced(p)
                        /\ Reading(p)' => Reading(p)
  BY <1>3 DEF BeingPlaced, Reading
<1>5. \A p \in Orders : UserOf[p] # UserOf[o] /\ At(p, "shipped") => At(p, "shipped")'
  BY <1>3 DEF At
<1>6. QED
  BY <1>1, <1>2, <1>3, <1>4, <1>5, EmptiedStays

(* An empty cart is paid for, as long as what was in it is not written back.*)
LEMMA ShoppingSold ==
  ASSUME IInv, SoldInv, Shopping, Undisturbed'
  PROVE  SoldInv'
<1>1. /\ UNCHANGED <<orders, shipments>>
      /\ \A o \in Orders : /\ orders'[o].cart = orders[o].cart
                           /\ BeingPlaced(o)' => BeingPlaced(o)
                           /\ Reading(o)' => Reading(o)
                           /\ At(o, "shipped") => At(o, "shipped")'
  BY DEF Shopping, serviceVars, BeingPlaced, Reading, At
<1>2. ASSUME NEW u \in Users, C!EmptyCart(u)
      PROVE  SoldInv'
  BY <1>1, <1>2, EmptiedStays
<1>3. ASSUME NEW r \in Requests, C!SetCart(r)
      PROVE  SoldInv'
  BY <1>1, <1>3, SetCartSold
<1>4. ASSUME NEW r \in Requests, NEW u \in Users, NEW i \in Items, NEW q \in Quantities,
             C!AddItem(r, u, i, q)
      PROVE  SoldInv'
  BY <1>1, <1>4, AddItemSold
<1>5. ASSUME NEW r \in Requests, C!AddFails(r)
      PROVE  SoldInv'
  BY <1>1, <1>5, AddFailsSold
<1>6. QED
  BY <1>2, <1>3, <1>4, <1>5 DEF Shopping

-----------------------------------------------------------------------------
(* In the beginning nothing was shipped, and no cart holds anything.        *)
LEMMA InitSold ==
  ASSUME Init
  PROVE  SoldInv
<1>1. /\ \A o \in Orders : orders[o].phase = "idle" /\ shipments[o] = {}
      /\ C!Init
  BY DEF Init
<1>2. /\ \A u \in Users, i \in Items : carts[u][i] = 0 /\ added[u][i] = 0
      /\ DOMAIN adding = {}
  BY <1>1 DEF C!Init, C!NoItems
<1>3. \A u, i : Sold(u, i) = 0
  BY <1>1, NothingIsShippedTo DEF Sold
<1>4. OneAtATime /\ \A o \in Orders : ~Reading(o)
  BY <1>1 DEF OneAtATime, BeingPlaced, Reading
<1>5. \A u \in Users : CartIsAdded(u)
  BY <1>2, <1>3 DEF CartIsAdded
<1>6. \A u \in Users, i \in Items : Sold(u, i) <= added[u][i]
  BY <1>2, <1>3
<1>7. QED
  BY <1>2, <1>4, <1>5, <1>6 DEF SoldInv

(* What has disturbed the carts or the orders is not forgotten.             *)
Remembered ==
  /\ UNCHANGED faults \/ Fault
  /\ overlap => overlap'
  /\ raced => raced'
  /\ UNCHANGED store

(* No step forgets a fault, an overlap or a race.                           *)
LEMMA NextRemembers ==
  ASSUME IInv, [Next]_vars
  PROVE  Remembered
<1>1. overlap \in BOOLEAN /\ raced \in BOOLEAN
  BY DEF IInv, Typed, C!TypeOK
<1>2. ASSUME NEW o \in Orders, PlaceOrder(o)
      PROVE  Remembered
  <2>1. CASE prepareOrderItemsAndShippingQuoteFromCart(o)
    BY <1>1, <2>1
    DEF prepareOrderItemsAndShippingQuoteFromCart, Called, NotCalled, cartVars, Remembered
  <2>2. CASE chargeCard(o)
    BY <2>2 DEF chargeCard, Called, Lost, cartVars, Remembered
  <2>3. CASE placeOrderSaga(o)
    BY <2>3 DEF placeOrderSaga, Called, NotCalled, cartVars, Remembered
  <2>4. CASE SagaReturns(o)
    BY <2>4 DEF SagaReturns, cartVars, Remembered
  <2>5. CASE shipOrder(o)
    BY <2>5 DEF shipOrder, Called, Lost, NotCalled, cartVars, Remembered
  <2>6. CASE emptyUserCart(o)
    BY <1>1, <2>6 DEF emptyUserCart, Called, NotCalled, C!EmptyCart, cartVars, Remembered
  <2>7. CASE publishCompletedOrder(o)
    BY <2>7 DEF publishCompletedOrder, Called, NotCalled, cartVars, Remembered
  <2>8. QED
    BY <1>2, <2>1, <2>2, <2>3, <2>4, <2>5, <2>6, <2>7 DEF PlaceOrder
<1>3. ASSUME NEW o \in Orders, CallBranch(o)
      PROVE  Remembered
  BY <1>3 DEF CallBranch, CallInventory, CallPayment, Called, Lost, cartVars, Remembered
<1>4. CASE Crash
  BY <1>4 DEF Crash, cartVars, Remembered
<1>5. CASE Shopping
  BY <1>1, <1>5
  DEF Shopping, C!AddItem, C!SetCart, C!AddFails, C!EmptyCart, Remembered
<1>6. CASE UNCHANGED vars
  BY <1>6 DEF vars, cartVars, Remembered
<1>7. QED
  BY <1>2, <1>3, <1>4, <1>5, <1>6 DEF Next

(* An undisturbed history was undisturbed before its last step.            *)
LEMMA UndisturbedBefore ==
  ASSUME IInv, [Next]_vars, Undisturbed'
  PROVE  Undisturbed /\ ~Fault
<1>1. Remembered
  BY NextRemembers
<1>2. faults \in 0 .. MaxFaults /\ faults' = 0
  BY DEF IInv, Typed, Undisturbed
<1>3. faults = 0 /\ ~Fault
  BY <1>1, <1>2, FaultCounts DEF Remembered
<1>4. QED
  BY <1>1, <1>3 DEF Remembered, Undisturbed

(* An order that goes on without reading a cart or shipping.                *)
LEMMA GoesOnSold ==
  ASSUME IInv, SoldInv, NEW o \in Orders, NEW phase \in Phases \ {"prepared"}, To(o, phase),
         orders[o].phase # "shipped",
         phase \in {"submitted", "paid"} => Reading(o), phase # "shipped",
         UNCHANGED <<shipments, cartVars>>
  PROVE  SoldInv'
<1>1. /\ orders'[o].phase = phase
      /\ \A p \in Orders : orders'[p].cart = orders[p].cart /\ (p # o => orders'[p] = orders[p])
  BY ToEffect DEF IInv
<1>2. \A p \in Orders : /\ BeingPlaced(p)' => BeingPlaced(p)
                        /\ Reading(p)' => Reading(p)
                        /\ At(p, "shipped") => At(p, "shipped")'
  BY <1>1 DEF BeingPlaced, Reading, At
<1>3. QED
  BY <1>1, <1>2, SoldStays

(* Every step of an undisturbed history keeps what was added enough.       *)
LEMMA NextKeepsSold ==
  ASSUME IInv, [Next]_vars, Undisturbed => SoldInv
  PROVE  (Undisturbed => SoldInv)'
<1> SUFFICES ASSUME Undisturbed'
             PROVE  SoldInv'
  OBVIOUS
<1>1. SoldInv /\ ~Fault
  BY UndisturbedBefore
<1>2. ASSUME NEW o \in Orders, PlaceOrder(o)
      PROVE  SoldInv'
  <2>1. CASE prepareOrderItemsAndShippingQuoteFromCart(o)
    BY <1>1, <2>1, PrepareSold
  <2>2. CASE chargeCard(o)
    <3>1. Reading(o) /\ orders[o].phase # "shipped" /\ UNCHANGED <<shipments, cartVars>>
      BY <2>2 DEF chargeCard, At, Reading
    <3>2. To(o, "paid") \/ To(o, "failed")
      BY <2>2 DEF chargeCard, Declined
    <3>3. QED
      BY <1>1, <3>1, <3>2, GoesOnSold DEF Phases
  <2>3. CASE placeOrderSaga(o)
    <3>1. Reading(o) /\ orders[o].phase # "shipped" /\ UNCHANGED <<shipments, cartVars>>
      BY <2>3 DEF placeOrderSaga, At, Reading
    <3>2. To(o, "submitted") \/ To(o, "failed")
      BY <2>3 DEF placeOrderSaga
    <3>3. QED
      BY <1>1, <3>1, <3>2, GoesOnSold DEF Phases
  <2>4. CASE SagaReturns(o)
    <3>1. Reading(o) /\ orders[o].phase # "shipped" /\ UNCHANGED <<shipments, cartVars>>
      BY <2>4 DEF SagaReturns, At, Reading, serviceVars
    <3>2. To(o, "paid") \/ To(o, "failed")
      BY <2>4 DEF SagaReturns
    <3>3. QED
      BY <1>1, <3>1, <3>2, GoesOnSold DEF Phases
  <2>5. CASE shipOrder(o)
    BY <1>1, <2>5, ShipSold
  <2>6. CASE emptyUserCart(o)
    BY <1>1, <2>6, EmptySold
  <2>7. CASE publishCompletedOrder(o)
    <3>1. orders[o].phase # "shipped" /\ UNCHANGED <<shipments, cartVars>> /\ To(o, "done")
      BY <2>7 DEF publishCompletedOrder, At
    <3>2. QED
      BY <1>1, <3>1, GoesOnSold DEF Phases
  <2>8. QED
    BY <1>2, <2>1, <2>2, <2>3, <2>4, <2>5, <2>6, <2>7 DEF PlaceOrder
<1>3. ASSUME UNCHANGED <<orders, shipments, cartVars>>
      PROVE  SoldInv'
  <2>1. \A o \in Orders : /\ orders'[o].cart = orders[o].cart
                          /\ BeingPlaced(o)' => BeingPlaced(o)
                          /\ Reading(o)' => Reading(o)
                          /\ At(o, "shipped") => At(o, "shipped")'
    BY <1>3 DEF BeingPlaced, Reading, At
  <2>2. QED
    BY <1>1, <1>3, <2>1, SoldStays
<1>4. ASSUME NEW o \in Orders, CallBranch(o)
      PROVE  SoldInv'
  BY <1>3, <1>4 DEF CallBranch
<1>5. CASE UNCHANGED vars
  BY <1>3, <1>5 DEF vars, serviceVars
<1>6. CASE Shopping
  BY <1>1, <1>6, ShoppingSold
<1>7. CASE Crash
  BY <1>1, <1>7 DEF Crash
<1>8. QED
  BY <1>2, <1>4, <1>5, <1>6, <1>7 DEF Next

(* Without faults, and one order at a time, a customer is shipped at most   *)
(* what they added to their cart, for any number of orders one after the    *)
(* other and any shopping meanwhile.                                        *)
THEOREM SoldOnceAlways == Spec => []SoldOnce
<1>1. Init => (Undisturbed => SoldInv)
  BY InitSold
<1>2. IInv /\ [Next]_vars /\ (Undisturbed => SoldInv) => (Undisturbed => SoldInv)'
  BY NextKeepsSold
<1>3. (Undisturbed => SoldInv) => SoldOnce
  BY DEF Undisturbed, SoldInv, SoldOnce
<1>4. QED
  BY <1>1, <1>2, <1>3, InvariantAlways, PTL DEF Spec

-----------------------------------------------------------------------------
(* What customers and orders do to the carts is what the cart service may   *)
(* do, and nothing else.                                                    *)
LEMMA NextUsesCart == [Next]_vars => [C!Next]_cartVars
<1> SUFFICES ASSUME [Next]_vars
             PROVE  C!Next \/ UNCHANGED cartVars
  OBVIOUS
<1>1. CASE Shopping
  BY <1>1 DEF Shopping, C!Next
<1>2. ASSUME NEW o \in Orders, emptyUserCart(o)
      PROVE  C!Next \/ UNCHANGED cartVars
  <2>1. UserOf[o] \in Users
    OBVIOUS
  <2>2. QED
    BY <1>2, <2>1 DEF emptyUserCart, C!Next
<1>3. ASSUME NEW o \in Orders, PlaceOrder(o), ~emptyUserCart(o)
      PROVE  UNCHANGED cartVars
  BY <1>3 DEF PlaceOrder, prepareOrderItemsAndShippingQuoteFromCart, chargeCard, placeOrderSaga,
              SagaReturns, shipOrder, publishCompletedOrder
<1>4. CASE Crash
  BY <1>4 DEF Crash
<1>5. ASSUME NEW o \in Orders, CallBranch(o)
      PROVE  UNCHANGED cartVars
  BY <1>5 DEF CallBranch
<1>6. CASE UNCHANGED vars
  BY <1>6 DEF vars
<1>7. QED
  BY <1>1, <1>2, <1>3, <1>4, <1>5, <1>6 DEF Next

(* The carts, between the customers and the orders, are those of Cart.      *)
THEOREM CheckoutUsesCart == Spec => C!Spec
<1>1. Init => C!Init
  BY DEF Init
<1>2. [Next]_vars => C!Next \/ UNCHANGED C!cartVars
  BY NextUsesCart DEF C!cartVars, cartVars
<1>3. QED
  BY <1>1, <1>2, PTL DEF Spec, C!Spec

(* No order takes anything out of the stock: without DTM the inventory is   *)
(* not called, and a branch of a saga that calls it carries no caller, so   *)
(* that the inventory refuses it.                                           *)
THEOREM NoOrderTakesStock == Spec => [][UNCHANGED invVars]_vars
<1>1. ASSUME IInv, [Next]_vars
      PROVE  UNCHANGED invVars
  <2>1. ASSUME NEW o \in Orders, CallInventory(o)
        PROVE  UNCHANGED invVars
    <3>1. Inv!TypeOK
      BY <1>1 DEF IInv
    <3>2. QED
      BY <2>1, <3>1, InventoryRefuses DEF CallInventory
  <2>2. ASSUME NEW o \in Orders, CallPayment(o)
        PROVE  UNCHANGED invVars
    BY <2>2 DEF CallPayment
  <2>3. ASSUME NEW o \in Orders, PlaceOrder(o)
        PROVE  UNCHANGED invVars
    BY <2>3 DEF PlaceOrder, prepareOrderItemsAndShippingQuoteFromCart, chargeCard, placeOrderSaga,
                SagaReturns, shipOrder, emptyUserCart, publishCompletedOrder
  <2>4. CASE Crash \/ Shopping
    BY <2>4 DEF Crash, Shopping
  <2>5. CASE UNCHANGED vars
    BY <2>5 DEF vars
  <2>6. QED
    BY <1>1, <2>1, <2>2, <2>3, <2>4, <2>5 DEF Next, CallBranch
<1>2. QED
  BY <1>1, InvariantAlways, PTL DEF Spec
=============================================================================
