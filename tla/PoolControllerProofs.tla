------------------------ MODULE PoolControllerProofs ------------------------
(***************************************************************************)
(* coil-ipam-controller for every pool, number of nodes and requests, and  *)
(* kind and number of faults.                                              *)
(*                                                                         *)
(* First what AllocateBlock computes: an index is inside one subnet, means *)
(* the same addresses when subnets are appended, and two indexes share     *)
(* none.  Induction over the subnets is by a least counterexample.  Then   *)
(* the state machine: PoolGuard is not inductive; what the code relies on  *)
(* is that reconciler, cache and API server have ever later versions of    *)
(* the pool (LifeOK), and that from the resync of a pool under deletion on *)
(* no worker creates a block of it (GuardOK).                              *)
(***************************************************************************)
EXTENDS PoolController, WellFoundedInduction, FiniteSetTheorems, TLAPS

-----------------------------------------------------------------------------
(* Indexes and subnets *)

\* A non-empty set of naturals has a least element: what NextClear, and the
\* loop over the subnets, stop at.
LEMMA LowestIsLeast ==
  ASSUME NEW S \in SUBSET Nat, S # {}
  PROVE  /\ Lowest(S) \in S
         /\ \A j \in S : Lowest(S) <= j
<1> DEFINE LT == {ss \in Nat \X Nat : ss[1] < ss[2]}
<1>1. IsWellFoundedOn(LT, Nat)
  BY NatLessThanWellFounded, Zenon DEF OpToRel
<1> HIDE DEF LT
<1>2. PICK x \in S : \A y \in S : ~ (<<y, x>> \in LT)
  BY <1>1, WFMin, Zenon
<1>3. ASSUME NEW y \in S
      PROVE  x <= y
  <2>1. <<y, x>> \in Nat \X Nat
    OBVIOUS
  <2>2. y < x => <<y, x>> \in LT
    BY <2>1 DEF LT
  <2> QED
    BY <1>2, <2>2
<1> QED
  BY <1>3 DEF Lowest

\* bitset.NextClear(0) answers a clear bit, or the length of the bitset.
LEMMA NextClearTyped ==
  ASSUME NEW S \in SUBSET Index
  PROVE  NextClear(S) \in (0 .. N) \ S
<1>1. N \in Nat
  BY ConstantsAssumption
<1>2. (0 .. N) \ S \in SUBSET Nat /\ N \in (0 .. N) \ S
  BY <1>1 DEF Index
<1> QED
  BY <1>2, LowestIsLeast DEF NextClear

\* The specs that the webhook lets through.
Valid == {spec \in Specs : validate(spec)}

\* The number of blocks of a subnet fits uint.
LEMMA SizeTyped ==
  ASSUME NEW spec \in Valid, NEW k \in DOMAIN spec.subnets
  PROVE  /\ size(spec, k) \in 0 .. 2^UintBits - 1
         /\ size(spec, k) <= 2^(HostBits(spec.subnets[k]) - spec.bits)
<1> DEFINE p == 2^(HostBits(spec.subnets[k]) - spec.bits)
           q == 2^UintBits
<1>1. q \in Int /\ q > 0
  BY ConstantsAssumption, PowersAssumption
<1>2. HostBits(spec.subnets[k]) - spec.bits \in Nat
  <2>1. spec \in [bits: Int, subnets: Seq(Nets)] /\ Validate(spec.subnets[k], spec.bits)
    BY ConstantsAssumption DEF Valid, validate
  <2>2. spec.subnets[k] \in Nets
    BY <2>1
  <2> QED
    BY <2>1, <2>2 DEF Nets, HostBits, Has, Validate, Families
<1>3. p \in Int
  BY <1>2
<1>4. p > 0
  BY PowersAssumption DEF Valid
<1> HIDE DEF p, q
<1>5. p % q \in 0 .. q - 1 /\ p % q <= p
  BY <1>1, <1>3, <1>4
<1> QED
  BY <1>5 DEF p, q, size

\* currentIndex is the recurrence that the loop of AllocateBlock computes: the
\* recursive function exists, because each value depends on the previous one.
LEMMA CurrentIndexRecurrence ==
  ASSUME NEW spec \in Valid
  PROVE  currentIndex(spec) =
            [k \in DOMAIN spec.subnets |->
                IF k = 1 THEN 0
                ELSE (currentIndex(spec)[k - 1] + size(spec, k - 1)) % 2^UintBits]
<1> DEFINE n == Len(spec.subnets)
           D == DOMAIN spec.subnets
           q == 2^UintBits
           sz == [k \in D |-> size(spec, k)]
           Sol(g, m) == \A k \in 1 .. m :
                g[k] = IF k = 1 THEN 0 ELSE (g[k - 1] + sz[k - 1]) % q
           T == {m \in 0 .. n : ~ \E g \in [1 .. m -> Nat] : Sol(g, m)}
<1>1. n \in Nat /\ D = 1 .. n
  BY ConstantsAssumption DEF Valid
<1>2. q \in Nat \ {0}
  BY ConstantsAssumption, PowersAssumption
<1>3. sz \in [D -> Nat]
  BY <1>2, SizeTyped
<1> HIDE DEF q, sz, n, D
<1>4. T = {}
  <2>1. SUFFICES ASSUME T # {} PROVE FALSE
    OBVIOUS
  <2>0. T \in SUBSET Nat /\ T \subseteq 0 .. n
    BY <1>1
  <2> HIDE DEF T
  <2>2. PICK m \in T : \A j \in T : m <= j
    BY <2>0, <2>1, LowestIsLeast
  <2>3. CASE m = 0
    <3>1. [k \in 1 .. 0 |-> 0] \in [1 .. 0 -> Nat]
      OBVIOUS
    <3>2. \A g : Sol(g, 0)
      OBVIOUS
    <3>3. 0 \notin T
      BY <3>1, <3>2 DEF T
    <3> QED
      BY <2>2, <2>3, <3>3
  <2>4. CASE m # 0
    <3>1. m \in Nat /\ m - 1 \in 0 .. n /\ m - 1 \notin T
      BY <1>1, <2>0, <2>2, <2>4
    <3>2. PICK g \in [1 .. m - 1 -> Nat] : Sol(g, m - 1)
      BY <3>1 DEF T
    <3> DEFINE v == IF m = 1 THEN 0 ELSE (g[m - 1] + sz[m - 1]) % q
               h == [k \in 1 .. m |-> IF k = m THEN v ELSE g[k]]
    <3>3. m = 1 \/ (m - 1 \in 1 .. m - 1 /\ m - 1 \in D)
      BY <1>1, <2>0, <2>2, <2>4
    <3>4. v \in Nat
      BY <1>2, <1>3, <3>2, <3>3
    <3> HIDE DEF v
    <3>5. h \in [1 .. m -> Nat]
      BY <3>1, <3>2, <3>4
    <3>6. Sol(h, m)
      <4>1. ASSUME NEW k \in 1 .. m
            PROVE  h[k] = IF k = 1 THEN 0 ELSE (h[k - 1] + sz[k - 1]) % q
        <5>1. CASE k = m
          BY <5>1, <3>1, <3>2 DEF v
        <5>2. CASE k # m
          <6>1. k \in 1 .. m - 1 /\ (k = 1 \/ k - 1 \in 1 .. m - 1)
            BY <5>2, <3>1
          <6> QED
            BY <6>1, <5>2, <3>1, <3>2
        <5> QED
          BY <5>1, <5>2
      <4> QED
        BY <4>1
    <3> QED
      BY <2>2, <3>5, <3>6 DEF T
  <2> QED
    BY <2>3, <2>4
<1>5. PICK g \in [1 .. n -> Nat] : Sol(g, n)
  <2>1. n \in 0 .. n
    BY <1>1
  <2> QED
    BY <1>4, <2>1
<1>6. g = [k \in D |-> IF k = 1 THEN 0
                       ELSE (g[k - 1] + size(spec, k - 1)) % q]
  <2>1. \A k \in 1 .. n : k = 1 \/ k - 1 \in D
    BY <1>1
  <2>2. \A k \in D : sz[k] = size(spec, k)
    BY DEF sz
  <2>3. ASSUME NEW k \in D
        PROVE  g[k] = IF k = 1 THEN 0 ELSE (g[k - 1] + size(spec, k - 1)) % q
    BY <1>1, <1>5, <2>1, <2>2
  <2> QED
    BY <1>1, <1>5, <2>3
<1> QED
  BY <1>6, Zenon DEF currentIndex, q, D

\* What a valid spec is made of.
LEMMA ValidTyped ==
  ASSUME NEW spec \in Valid
  PROVE  /\ spec \in Specs
         /\ spec.bits \in Nat
         /\ spec.subnets \in Seq(Nets)
         /\ DOMAIN spec.subnets = 1 .. Len(spec.subnets)
         /\ Len(spec.subnets) \in Nat
         /\ \A k \in DOMAIN spec.subnets :
               /\ spec.subnets[k] \in Nets
               /\ Validate(spec.subnets[k], spec.bits)
<1>1. spec \in [bits: Int, subnets: Seq(Nets)] /\ validate(spec) /\ spec \in Specs
  BY ConstantsAssumption DEF Valid
<1> QED
  BY <1>1 DEF validate

\* currentIndex fits uint.
LEMMA CurrentIndexTyped ==
  ASSUME NEW spec \in Valid
  PROVE  \A k \in DOMAIN spec.subnets :
            currentIndex(spec)[k] \in 0 .. 2^UintBits - 1
<1> DEFINE D == DOMAIN spec.subnets
           q == 2^UintBits
           cur == currentIndex(spec)
           sz == [k \in D |-> size(spec, k)]
           T == {k \in D : cur[k] \notin 0 .. q - 1}
<1>1. D = 1 .. Len(spec.subnets) /\ Len(spec.subnets) \in Nat
  BY ValidTyped
<1>2. q \in Nat \ {0}
  BY ConstantsAssumption, PowersAssumption
<1>3. sz \in [D -> Nat] /\ \A k \in D : sz[k] = size(spec, k)
  BY <1>2, SizeTyped
<1>4. \A k \in D : cur[k] = IF k = 1 THEN 0 ELSE (cur[k - 1] + size(spec, k - 1)) % q
  BY CurrentIndexRecurrence
<1> HIDE DEF D, q, cur, sz
<1>5. SUFFICES ASSUME T # {} PROVE FALSE
  BY DEF cur, D, q
<1>6. T \in SUBSET Nat
  BY <1>1
<1>7. PICK k \in T : \A j \in T : k <= j
  BY <1>5, <1>6, LowestIsLeast
<1>8. k \in D /\ cur[k] \notin 0 .. q - 1
  BY <1>7
<1>9. k # 1
  BY <1>2, <1>4, <1>8
<1>10. k - 1 \in D /\ k - 1 \notin T
  BY <1>1, <1>7, <1>8, <1>9
<1>11. cur[k - 1] \in Nat /\ sz[k - 1] \in Nat
  BY <1>2, <1>3, <1>10
<1>12. cur[k] = (cur[k - 1] + sz[k - 1]) % q
  BY <1>3, <1>4, <1>8, <1>9, <1>10
<1> QED
  BY <1>2, <1>8, <1>11, <1>12

\* A spec that validateUpdate lets follow another: subnets are appended.
Extends(spec, old) ==
    /\ spec.bits = old.bits
    /\ Len(old.subnets) <= Len(spec.subnets)
    /\ \A i \in DOMAIN old.subnets : spec.subnets[i] = old.subnets[i]

\* The indexes of a subnet stay when others are appended.
LEMMA CurrentIndexKept ==
  ASSUME NEW spec \in Valid, NEW old \in Valid, Extends(spec, old)
  PROVE  \A k \in DOMAIN old.subnets :
            /\ k \in DOMAIN spec.subnets
            /\ size(spec, k) = size(old, k)
            /\ currentIndex(spec)[k] = currentIndex(old)[k]
<1> DEFINE D == DOMAIN old.subnets
           c == currentIndex(spec)
           d == currentIndex(old)
           T == {k \in D : c[k] # d[k]}
<1>1. D \subseteq DOMAIN spec.subnets /\ D = 1 .. Len(old.subnets)
  BY ValidTyped DEF Extends
<1>2. \A k \in D : size(spec, k) = size(old, k)
  BY DEF Extends, size
<1>3. \A k \in D : c[k] = IF k = 1 THEN 0 ELSE (c[k - 1] + size(spec, k - 1)) % 2^UintBits
  BY <1>1, CurrentIndexRecurrence
<1>4. \A k \in D : d[k] = IF k = 1 THEN 0 ELSE (d[k - 1] + size(old, k - 1)) % 2^UintBits
  BY CurrentIndexRecurrence
<1>5. Len(old.subnets) \in Nat
  BY ValidTyped
<1> HIDE DEF D, c, d
<1>6. T = {}
  <2>1. SUFFICES ASSUME T # {} PROVE FALSE
    OBVIOUS
  <2>2. T \in SUBSET Nat
    BY <1>1, <1>5
  <2>3. PICK k \in T : \A j \in T : k <= j
    BY <2>1, <2>2, LowestIsLeast
  <2>4. k \in D /\ c[k] # d[k]
    BY <2>3
  <2>5. k # 1
    BY <1>3, <1>4, <2>4
  <2>6. k - 1 \in D /\ k - 1 \notin T
    BY <1>1, <1>5, <2>3, <2>4, <2>5
  <2>7. c[k - 1] = d[k - 1] /\ size(spec, k - 1) = size(old, k - 1)
    BY <1>2, <2>6
  <2> QED
    BY <1>3, <1>4, <2>4, <2>5, <2>7
<1> QED
  BY <1>1, <1>2, <1>6 DEF c, d, D

\* The subnet that AllocateBlock takes a block from, and the block's place in
\* it.  A sum that wraps around makes the loop skip the subnet, so the place is
\* never outside.
Source(spec, i) == Lowest(subnetsOf(spec, i))

\* The place is inside the subnet.
LEMMA SourceTyped ==
  ASSUME NEW spec \in Valid, NEW i \in Nat, subnetsOf(spec, i) # {}
  PROVE  /\ Source(spec, i) \in DOMAIN spec.subnets
         /\ Source(spec, i) \in subnetsOf(spec, i)
         /\ \A j \in subnetsOf(spec, i) : Source(spec, i) <= j
         /\ i - currentIndex(spec)[Source(spec, i)] \in Nat
         /\ i - currentIndex(spec)[Source(spec, i)] < size(spec, Source(spec, i))
<1> DEFINE D == DOMAIN spec.subnets
           q == 2^UintBits
           cur == currentIndex(spec)
           S == subnetsOf(spec, i)
           k == Source(spec, i)
           sk == size(spec, k)
           sj == size(spec, k - 1)
<1>1. D = 1 .. Len(spec.subnets) /\ Len(spec.subnets) \in Nat
  BY ValidTyped
<1>2. q \in Nat \ {0}
  BY ConstantsAssumption, PowersAssumption
<1>3. S \in SUBSET Nat /\ S \subseteq D
  BY <1>1 DEF subnetsOf
<1>4. k \in S /\ \A j \in S : k <= j
  BY <1>3, LowestIsLeast DEF Source
<1>5. k \in D /\ i < (cur[k] + sk) % q
  BY <1>4 DEF subnetsOf
<1>6. cur[k] \in 0 .. q - 1 /\ sk \in 0 .. q - 1
  BY <1>5, CurrentIndexTyped, SizeTyped
<1>7. i >= cur[k]
  <2>1. CASE k = 1
    BY <1>5, <2>1, CurrentIndexRecurrence
  <2>2. CASE k # 1
    <3>1. k - 1 \in D /\ k - 1 \notin S
      BY <1>1, <1>4, <1>5, <2>2
    <3>2. cur[k] = (cur[k - 1] + sj) % q
      BY <1>5, <2>2, CurrentIndexRecurrence
    <3>3. ~ (i < (cur[k - 1] + sj) % q)
      BY <3>1 DEF subnetsOf
    <3> HIDE DEF cur, q, sj, k, D, S
    <3> QED
      BY <1>2, <1>6, <3>2, <3>3
  <2> QED
    BY <2>1, <2>2
<1>8. i - cur[k] < sk
  <2> HIDE DEF cur, q, sk, k, D, S
  <2>1. CASE cur[k] + sk < q
    <3>1. (cur[k] + sk) % q = cur[k] + sk
      BY <1>2, <1>6, <2>1
    <3> QED
      BY <1>5, <1>6, <3>1
  <2>2. CASE cur[k] + sk >= q
    <3>1. (cur[k] + sk) % q = cur[k] + sk - q
      BY <1>2, <1>6, <2>2
    <3> QED
      BY <1>2, <1>5, <1>6, <1>7, <3>1
  <2> QED
    BY <1>2, <1>6, <2>1, <2>2
<1> QED
  BY <1>4, <1>5, <1>6, <1>7, <1>8

\* GetBlock gives addresses inside the subnet.
LEMMA GetBlockInside ==
  ASSUME NEW ss \in Nets, NEW b \in Nat, Validate(ss, b),
         NEW p \in Nat, 2^b > 0, NEW m \in Nat,
         m * 2^b = 2^HostBits(ss), p < m
  PROVE  GetBlock(ss, p, b) \in Nets /\ Inside(GetBlock(ss, p, b), ss)
<1> DEFINE w == 2^b
           g == GetBlock(ss, p, b)
<1>1. w \in Nat \ {0}
  OBVIOUS
<1>2. p * w \in Nat /\ (p + 1) * w <= m * w
  BY <1>1
<1>3. p * w + w <= m * w
  BY <1>1, <1>2
<1>4. ASSUME NEW f \in Families, ss[f] # None
      PROVE  /\ g[f] \in [base: Nat, host: Nat]
             /\ Addresses(g[f]) \subseteq Addresses(ss[f])
  <2>1. ss[f] \in [base: Nat, host: Nat]
    BY <1>4 DEF Nets
  <2>2. g[f] = [base |-> ss[f].base + p * w, host |-> b]
    BY <1>4 DEF GetBlock, Has
  <2>3. HostBits(ss) = ss[f].host
    BY <1>4 DEF Validate, Has, HostBits, Families
  <2>4. Addresses(g[f]) = ss[f].base + p * w .. ss[f].base + p * w + w - 1
    BY <2>2 DEF Addresses
  <2>5. Addresses(ss[f]) = ss[f].base .. ss[f].base + m * w - 1
    BY <2>3 DEF Addresses
  <2> DEFINE x == p * w
             y == m * w
             z == ss[f].base
  <2>6. x \in Nat /\ y \in Nat /\ z \in Nat /\ x + w <= y
    BY <1>1, <1>2, <1>3, <2>1
  <2> HIDE DEF w, g, x, y, z
  <2>7. z + x .. z + x + w - 1 \subseteq z .. z + y - 1
    BY <1>1, <2>6
  <2>8. [base |-> z + x, host |-> b] \in [base: Nat, host: Nat]
    BY <2>6
  <2> QED
    BY <2>2, <2>4, <2>5, <2>7, <2>8 DEF x, y, z
<1>5. ASSUME NEW f \in Families, ss[f] = None
      PROVE  g[f] = None
  BY <1>5 DEF GetBlock, Has
<1>6. g = [f \in Families |-> g[f]]
  BY DEF GetBlock
<1>7. None \notin [base: Nat, host: Nat]
  BY ConstantsAssumption
<1> HIDE DEF g
<1>8. g \in Nets
  BY <1>4, <1>5, <1>6 DEF Nets
<1>9. \A f \in Families : Has(g, f) = Has(ss, f)
  BY <1>4, <1>5, <1>7 DEF Has
<1> QED
  BY <1>4, <1>8, <1>9 DEF Inside, Has, g

\* Two places in a subnet have no address in common.
LEMMA GetBlockDisjoint ==
  ASSUME NEW ss \in Nets, NEW b \in Nat, 2^b > 0,
         NEW p \in Nat, NEW r \in Nat, p # r
  PROVE  ~ Overlap(GetBlock(ss, p, b), GetBlock(ss, r, b))
<1> DEFINE w == 2^b
           g == GetBlock(ss, p, b)
           h == GetBlock(ss, r, b)
<1>1. w \in Nat \ {0}
  OBVIOUS
<1>2. p * w + w <= r * w \/ r * w + w <= p * w
  <2>1. CASE p + 1 <= r
    <3>1. (p + 1) * w <= r * w
      BY <1>1, <2>1
    <3> QED
      BY <1>1, <3>1
  <2>2. CASE r + 1 <= p
    <3>1. (r + 1) * w <= p * w
      BY <1>1, <2>2
    <3> QED
      BY <1>1, <3>1
  <2> QED
    BY <2>1, <2>2
<1>3. p * w \in Nat /\ r * w \in Nat
  BY <1>1
<1>4. SUFFICES ASSUME NEW f \in Families, Has(g, f), Has(h, f)
               PROVE  Addresses(g[f]) \cap Addresses(h[f]) = {}
  BY DEF Overlap
<1>5. ss[f] \in [base: Nat, host: Nat]
  BY <1>4 DEF GetBlock, Has, Nets
<1> DEFINE x == p * w
           y == r * w
           z == ss[f].base
<1>6. /\ Addresses(g[f]) = z + x .. z + x + w - 1
      /\ Addresses(h[f]) = z + y .. z + y + w - 1
  BY <1>4 DEF GetBlock, Has, Addresses
<1>7. x \in Nat /\ y \in Nat /\ z \in Nat /\ (x + w <= y \/ y + w <= x)
  BY <1>2, <1>3, <1>5
<1> HIDE DEF w, x, y, z, g, h
<1> QED
  BY <1>1, <1>6, <1>7

\* The addresses AllocateBlock gives a block lie inside one subnet of the pool.
LEMMA CarveInside ==
  ASSUME NEW spec \in Valid, NEW i \in Nat, subnetsOf(spec, i) # {}
  PROVE  /\ carve(spec, i) \in Nets
         /\ Inside(carve(spec, i), spec.subnets[Source(spec, i)])
<1> DEFINE k == Source(spec, i)
           ss == spec.subnets[k]
           p == i - currentIndex(spec)[k]
           m == 2^(HostBits(ss) - spec.bits)
<1>1. k \in DOMAIN spec.subnets /\ p \in Nat /\ p < size(spec, k)
  BY SourceTyped
<1>2. ss \in Nets /\ Validate(ss, spec.bits) /\ spec.bits \in Nat
  BY <1>1, ValidTyped
<1>3. HostBits(ss) - spec.bits \in Nat
  BY <1>2 DEF Nets, HostBits, Has, Validate, Families
<1>4. m \in Int /\ m > 0 /\ m * 2^spec.bits = 2^HostBits(ss) /\ 2^spec.bits > 0
  BY <1>1, <1>3, PowersAssumption DEF Valid
<1>5. size(spec, k) \in Nat /\ size(spec, k) <= m
  BY <1>1, SizeTyped, ConstantsAssumption, PowersAssumption
<1>6. p < m /\ m \in Nat
  BY <1>1, <1>4, <1>5
<1>7. carve(spec, i) = GetBlock(ss, p, spec.bits)
  BY DEF carve, Source
<1> HIDE DEF k, ss, p, m
<1>8. carve(spec, i) \in Nets /\ Inside(carve(spec, i), ss)
  BY <1>1, <1>2, <1>4, <1>6, <1>7, GetBlockInside
<1> QED
  BY <1>8 DEF ss, k

\* An index means the same addresses when subnets are appended to the pool.
LEMMA CarveKept ==
  ASSUME NEW spec \in Valid, NEW old \in Valid, Extends(spec, old),
         NEW i \in Nat, subnetsOf(old, i) # {}
  PROVE  subnetsOf(spec, i) # {} /\ carve(spec, i) = carve(old, i)
<1> DEFINE k == Source(old, i)
           l == Source(spec, i)
<1>1. k \in DOMAIN old.subnets /\ k \in subnetsOf(old, i)
         /\ \A j \in subnetsOf(old, i) : k <= j
  BY SourceTyped
<1>2. \A j \in DOMAIN old.subnets : j \in subnetsOf(old, i) <=> j \in subnetsOf(spec, i)
  BY CurrentIndexKept DEF subnetsOf
<1>3. k \in subnetsOf(spec, i)
  BY <1>1, <1>2
<1>4. l \in DOMAIN spec.subnets /\ l \in subnetsOf(spec, i)
         /\ \A j \in subnetsOf(spec, i) : l <= j
  BY <1>3, SourceTyped
<1>5. l \in DOMAIN old.subnets
  BY <1>1, <1>3, <1>4, ValidTyped
<1>6. l = k
  BY <1>1, <1>2, <1>3, <1>4, <1>5, ValidTyped
<1>7. spec.subnets[k] = old.subnets[k] /\ spec.bits = old.bits
         /\ currentIndex(spec)[k] = currentIndex(old)[k]
  BY <1>1, CurrentIndexKept DEF Extends
<1> QED
  BY <1>3, <1>6, <1>7 DEF carve, Source

\* No two subnets of a pool have an address in common.  The webhook does not
\* ask for it: it is for the user to see to.
Disjoint(spec) ==
    \A k, l \in DOMAIN spec.subnets :
       k # l => ~ Overlap(spec.subnets[k], spec.subnets[l])

\* Blocks of two indexes have no address in common.
LEMMA CarveDisjoint ==
  ASSUME NEW spec \in Valid, Disjoint(spec), NEW i \in Nat, NEW j \in Nat, i # j,
         subnetsOf(spec, i) # {}, subnetsOf(spec, j) # {}
  PROVE  ~ Overlap(carve(spec, i), carve(spec, j))
<1> DEFINE k == Source(spec, i)
           l == Source(spec, j)
           s == spec.subnets[k]
           t == spec.subnets[l]
<1>1. k \in DOMAIN spec.subnets /\ l \in DOMAIN spec.subnets
  BY SourceTyped
<1>2. CASE k = l
  <2> DEFINE p == i - currentIndex(spec)[k]
             r == j - currentIndex(spec)[k]
  <2>1. p \in Nat /\ r \in Nat
    BY <1>2, SourceTyped
  <2>2. currentIndex(spec)[k] \in Int
    BY <1>1, CurrentIndexTyped, ConstantsAssumption
  <2>3. p # r
    BY <2>2
  <2>4. s \in Nets /\ spec.bits \in Nat
    BY <1>1, ValidTyped
  <2>5. 2^spec.bits > 0
    BY PowersAssumption DEF Valid
  <2>6. carve(spec, i) = GetBlock(s, p, spec.bits)
          /\ carve(spec, j) = GetBlock(s, r, spec.bits)
    BY <1>2 DEF carve, Source
  <2> HIDE DEF p, r, s
  <2> QED
    BY <2>1, <2>3, <2>4, <2>5, <2>6, GetBlockDisjoint
<1>3. CASE k # l
  <2>1. ~ Overlap(s, t)
    BY <1>1, <1>3 DEF Disjoint
  <2>2. Inside(carve(spec, i), s) /\ Inside(carve(spec, j), t)
    BY CarveInside
  <2> HIDE DEF s, t
  <2> QED
    BY <2>1, <2>2 DEF Overlap, Inside
<1> QED
  BY <1>2, <1>3

-----------------------------------------------------------------------------
(* How many blocks there is room for *)

\* The blocks of the first k subnets, without overflow: the function that Room
\* defines.
LEMMA RoomSums ==
  ASSUME NEW spec \in Valid
  PROVE  \E f \in [0 .. Len(spec.subnets) -> Nat] :
            /\ f[0] = 0
            /\ \A k \in 1 .. Len(spec.subnets) :
                  f[k] = f[k - 1] + 2^(HostBits(spec.subnets[k]) - spec.bits)
            /\ Room(spec) = f[Len(spec.subnets)]
<1> DEFINE n == Len(spec.subnets)
           P == [k \in 1 .. n |-> 2^(HostBits(spec.subnets[k]) - spec.bits)]
           Sol(g, m) == g[0] = 0 /\ \A k \in 1 .. m : g[k] = g[k - 1] + P[k]
           T == {m \in 0 .. n : ~ \E g \in [0 .. m -> Nat] : Sol(g, m)}
           F(g) == [k \in 0 .. n |-> IF k = 0 THEN 0 ELSE g[k - 1] +
                       2^(HostBits(spec.subnets[k]) - spec.bits)]
           f == CHOOSE g : g = F(g)
<1>1. n \in Nat /\ DOMAIN spec.subnets = 1 .. n
  BY ValidTyped
<1>2. P \in [1 .. n -> Nat]
  <2> SUFFICES ASSUME NEW k \in 1 .. n
               PROVE  2^(HostBits(spec.subnets[k]) - spec.bits) \in Nat
    OBVIOUS
  <2>1. HostBits(spec.subnets[k]) - spec.bits \in Nat
    BY <1>1, ValidTyped DEF Nets, HostBits, Has, Validate, Families
  <2>2. 2^(HostBits(spec.subnets[k]) - spec.bits) \in Int
    BY <2>1
  <2> QED
    BY <1>1, <2>2, PowersAssumption DEF Valid
<1>3. \A k \in 1 .. n : P[k] = 2^(HostBits(spec.subnets[k]) - spec.bits)
  OBVIOUS
<1> HIDE DEF P
<1>4. T = {}
  <2>1. SUFFICES ASSUME T # {} PROVE FALSE
    OBVIOUS
  <2>2. T \in SUBSET Nat /\ T \subseteq 0 .. n
    BY <1>1
  <2> HIDE DEF T, n
  <2>3. PICK m \in T : \A j \in T : m <= j
    BY <2>1, <2>2, LowestIsLeast
  <2>4. CASE m = 0
    <3>1. [k \in 0 .. 0 |-> 0] \in [0 .. 0 -> Nat] /\ Sol([k \in 0 .. 0 |-> 0], 0)
      OBVIOUS
    <3>2. 0 \notin T
      BY <3>1 DEF T
    <3> QED
      BY <2>3, <2>4, <3>2
  <2>5. CASE m # 0
    <3>1. m \in Nat /\ m \in 1 .. n /\ m - 1 \in 0 .. n /\ m - 1 \notin T
      BY <1>1, <2>2, <2>3, <2>5
    <3>2. PICK g \in [0 .. m - 1 -> Nat] : Sol(g, m - 1)
      BY <3>1 DEF T
    <3> DEFINE h == [k \in 0 .. m |-> IF k = m THEN g[m - 1] + P[m] ELSE g[k]]
    <3>3. g[m - 1] + P[m] \in Nat
      BY <1>2, <3>1, <3>2
    <3>4. h \in [0 .. m -> Nat]
      BY <3>1, <3>2, <3>3
    <3>5. h[0] = 0
      BY <3>1, <3>2
    <3>6. ASSUME NEW k \in 1 .. m PROVE h[k] = h[k - 1] + P[k]
      <4>1. CASE k = m
        BY <4>1, <3>1
      <4>2. CASE k # m
        <5>1. k \in 1 .. m - 1 /\ k - 1 \in 0 .. m - 1
          BY <4>2, <3>1
        <5> QED
          BY <5>1, <4>2, <3>1, <3>2
      <4> QED
        BY <4>1, <4>2
    <3> QED
      BY <2>3, <3>4, <3>5, <3>6 DEF T
  <2> QED
    BY <2>4, <2>5
<1>5. PICK g \in [0 .. n -> Nat] : Sol(g, n)
  <2>1. n \in 0 .. n
    BY <1>1
  <2> QED
    BY <1>4, <2>1
<1>6. g = F(g)
  <2>1. ASSUME NEW k \in 0 .. n
        PROVE  g[k] = IF k = 0 THEN 0 ELSE g[k - 1] +
                         2^(HostBits(spec.subnets[k]) - spec.bits)
    BY <1>1, <1>3, <1>5
  <2> QED
    BY <1>5, <2>1
<1>7. f = F(f)
  BY <1>6, Zenon
<1>8. Room(spec) = f[n]
  BY Zenon DEF Room
<1> HIDE DEF f
<1>9. \A k \in 0 .. n : f[k] = g[k]
  <2> DEFINE D == {k \in 0 .. n : f[k] # g[k]}
  <2>1. SUFFICES ASSUME D # {} PROVE FALSE
    OBVIOUS
  <2>2. D \in SUBSET Nat
    BY <1>1
  <2>3. PICK k \in D : \A j \in D : k <= j
    BY <2>1, <2>2, LowestIsLeast
  <2>4. k \in 0 .. n /\ f[k] # g[k]
    BY <2>3
  <2>5. f[k] = F(f)[k] /\ g[k] = F(g)[k]
    BY <1>6, <1>7
  <2>6. k # 0
    BY <2>4, <2>5
  <2>7. k - 1 \in 0 .. n /\ k - 1 \notin D
    BY <1>1, <2>3, <2>4, <2>6
  <2>8. f[k - 1] = g[k - 1]
    BY <2>7
  <2> QED
    BY <2>4, <2>5, <2>8
<1>10. Room(spec) = g[n] /\ \A k \in 1 .. n :
          g[k] = g[k - 1] + 2^(HostBits(spec.subnets[k]) - spec.bits)
  BY <1>1, <1>3, <1>5, <1>8, <1>9
<1> QED
  BY <1>5, <1>10

\* The loop of AllocateBlock skips every subnet only for an index beyond all of
\* them, unless their blocks are too many for uint.
LEMMA BeyondRoom ==
  ASSUME NEW spec \in Valid, NEW i \in Nat, subnetsOf(spec, i) = {},
         Room(spec) < 2^UintBits
  PROVE  Room(spec) \in Nat /\ Room(spec) <= i
<1> DEFINE n == Len(spec.subnets)
           q == 2^UintBits
           P(k) == 2^(HostBits(spec.subnets[k]) - spec.bits)
           cur == currentIndex(spec)
<1>1. n \in Nat \ {0} /\ DOMAIN spec.subnets = 1 .. n
  <2>1. spec.subnets # <<>>
    BY DEF Valid, validate
  <2> QED
    BY <2>1, ValidTyped
<1>2. q \in Nat \ {0}
  BY ConstantsAssumption, PowersAssumption
<1>3. PICK f \in [0 .. n -> Nat] :
         /\ f[0] = 0
         /\ \A k \in 1 .. n : f[k] = f[k - 1] + P(k)
         /\ Room(spec) = f[n]
  BY RoomSums
<1>4. ASSUME NEW k \in 1 .. n
      PROVE  P(k) \in Nat /\ size(spec, k) = P(k) % q
  <2>1. k - 1 \in 0 .. n
    BY <1>1
  <2>2. HostBits(spec.subnets[k]) - spec.bits \in Nat
    BY <1>1, ValidTyped DEF Nets, HostBits, Has, Validate, Families
  <2>3. P(k) \in Int /\ P(k) > 0
    BY <1>1, <2>2, PowersAssumption DEF Valid
  <2> QED
    BY <2>3 DEF size
<1>5. \A k \in 1 .. n : cur[k] = IF k = 1 THEN 0 ELSE (cur[k - 1] + size(spec, k - 1)) % q
  BY <1>1, CurrentIndexRecurrence
<1>6. ~ (i < (cur[n] + size(spec, n)) % q)
  BY <1>1 DEF subnetsOf
<1>7. f[n] < q
  BY <1>3
<1> HIDE DEF n, q, P, cur
<1>8. \A k \in 0 .. n : f[k] <= f[n]
  <2> DEFINE D == {m \in 0 .. n : ~ (f[n - m] <= f[n])}
  <2>1. D = {}
    <3>1. SUFFICES ASSUME D # {} PROVE FALSE
      OBVIOUS
    <3>2. D \in SUBSET Nat
      BY <1>1
    <3>3. PICK m \in D : \A j \in D : m <= j
      BY <3>1, <3>2, LowestIsLeast
    <3>4. m \in 0 .. n /\ ~ (f[n - m] <= f[n])
      BY <3>3
    <3>5. m # 0
      BY <1>1, <1>3, <3>4
    <3>6. m - 1 \in 0 .. n /\ m - 1 \notin D
      <4>1. m - 1 \in 0 .. n /\ ~ (m <= m - 1)
        BY <1>1, <3>4, <3>5
      <4> HIDE DEF D
      <4> QED
        BY <3>3, <4>1
    <3>7. f[n - (m - 1)] <= f[n]
      BY <3>6
    <3>8. n - (m - 1) \in 1 .. n /\ (n - (m - 1)) - 1 = n - m /\ n - m \in 0 .. n
      BY <1>1, <3>4, <3>5
    <3>9. f[n - (m - 1)] = f[n - m] + P(n - (m - 1))
      BY <1>3, <3>8
    <3>10. f[n - m] \in Nat /\ f[n - (m - 1)] \in Nat /\ f[n] \in Nat
      BY <1>1, <1>3, <3>8
    <3> QED
      BY <1>4, <3>4, <3>7, <3>8, <3>9, <3>10
  <2>2. ASSUME NEW k \in 0 .. n PROVE f[k] <= f[n]
    <3>1. n - k \in 0 .. n /\ n - (n - k) = k
      BY <1>1
    <3> QED
      BY <2>1, <3>1
  <2> QED
    BY <2>2
<1>9. ASSUME NEW k \in 1 .. n
      PROVE  /\ size(spec, k) = P(k)
             /\ k - 1 \in 0 .. n /\ f[k - 1] \in Nat /\ P(k) \in Nat
             /\ f[k] = f[k - 1] + P(k) /\ (f[k - 1] + P(k)) % q = f[k]
  <2>1. k - 1 \in 0 .. n /\ k \in 0 .. n
    BY <1>1
  <2>2. f[k] = f[k - 1] + P(k) /\ f[k] < q /\ f[k] \in Nat /\ f[k - 1] \in Nat
    BY <1>2, <1>3, <1>7, <1>8, <2>1, <1>1
  <2>3. P(k) \in Nat /\ P(k) < q
    BY <1>2, <1>4, <2>2
  <2>4. P(k) % q = P(k)
    BY <1>2, <2>3
  <2>5. f[k] % q = f[k]
    BY <1>2, <2>2
  <2> QED
    BY <1>4, <2>1, <2>2, <2>3, <2>4, <2>5
<1>10. \A k \in 1 .. n : cur[k] = f[k - 1]
  <2> DEFINE D == {k \in 1 .. n : cur[k] # f[k - 1]}
  <2>1. SUFFICES ASSUME D # {} PROVE FALSE
    OBVIOUS
  <2>2. D \in SUBSET Nat
    BY <1>1
  <2>3. PICK k \in D : \A j \in D : k <= j
    BY <2>1, <2>2, LowestIsLeast
  <2>4. k \in 1 .. n /\ cur[k] # f[k - 1]
    BY <2>3
  <2>5. k # 1
    BY <1>3, <1>5, <2>4
  <2>6. k - 1 \in 1 .. n /\ k - 1 \notin D
    BY <1>1, <2>3, <2>4, <2>5
  <2>7. cur[k - 1] = f[(k - 1) - 1]
    BY <2>6
  <2>8. cur[k] = (f[(k - 1) - 1] + P(k - 1)) % q
    BY <1>5, <1>9, <2>4, <2>5, <2>6, <2>7
  <2> QED
    BY <1>9, <2>4, <2>6, <2>8
<1>11. n \in 1 .. n
  BY <1>1
<1>12. (cur[n] + size(spec, n)) % q = f[n]
  BY <1>9, <1>10, <1>11
<1> QED
  BY <1>3, <1>6, <1>11, <1>12, <1>1

\* A clear bit that is the lowest has as many set bits below it.
LEMMA BitsBelowNextClear ==
  ASSUME NEW S \in SUBSET Index
  PROVE  Cardinality(S) \in Nat /\ NextClear(S) \in Nat /\ NextClear(S) <= Cardinality(S)
<1> DEFINE m == NextClear(S)
<1>1. N \in Nat
  BY ConstantsAssumption
<1>2. m \in 0 .. N
  BY NextClearTyped
<1>3. \A j \in (0 .. N) \ S : m <= j
  <2>1. (0 .. N) \ S \in SUBSET Nat /\ N \in (0 .. N) \ S
    BY <1>1 DEF Index
  <2> QED
    BY <2>1, LowestIsLeast DEF NextClear
<1> HIDE DEF m
<1>4. 0 .. m - 1 \subseteq S
  BY <1>1, <1>2, <1>3
<1>5. IsFiniteSet(S)
  <2>1. IsFiniteSet(0 .. N - 1)
    BY <1>1, FS_Interval
  <2> QED
    BY <2>1, FS_Subset DEF Index
<1>6. Cardinality(0 .. m - 1) = m
  BY <1>1, <1>2, FS_Interval
<1>7. Cardinality(0 .. m - 1) <= Cardinality(S) /\ Cardinality(S) \in Nat
  BY <1>4, <1>5, FS_Subset, FS_CardinalityType
<1> QED
  BY <1>2, <1>1, <1>6, <1>7 DEF m

-----------------------------------------------------------------------------
(* The inductive invariant *)

\* What a thread at a label has: AllocateBlock an object with a bitset, which
\* is not in the manager any more if DropPool came in between.
WorkersOK ==
    /\ br.pc # "idle" => br.u \in Reqs
    /\ br.pc = "create" => br.idx \in Index /\ br.nets \in Nets
    /\ br.pc \in {"lock", "create"} => br.own # None \/ bits # None
    /\ br.own # None => dropped
    /\ ap.pc \in {"isUsed", "fin"} => ap.ap.st = "deleting"
    /\ gc.pc = "delete" => gc.cur \in Index

\* A pool that exists has a valid spec; bound on the incarnations.
SpecsOK ==
    /\ pool.st # "absent" => pool.spec \in Valid
    /\ cpool.st # "absent" => cpool.spec \in Valid
    /\ pool.gen <= failed.count + 1

\* p is an earlier state of the AddressPool than q.
Before(p, q) ==
    /\ p.gen <= q.gen
    /\ p.gen = q.gen =>
          /\ p.st = "deleting" => q.st # "live"
          /\ p.st = "absent" => q.st = "absent"

\* The reconciler has an earlier version of the pool than the cache, the cache
\* than the API server.  The cache has seen the deletion of a pool that is
\* gone, or was before it was created again: only a reconciler that has seen it
\* removes the finalizer.
LifeOK ==
    /\ Before(cpool, pool)
    /\ cpool.gen < pool.gen => cpool.st # "live" /\ pool.st # "absent"
    /\ cpool.gen = pool.gen =>
          /\ pool.st = "absent" => cpool.st # "live"
          /\ pool.st # "absent" /\ cpool.st # "absent" =>
                Extends(pool.spec, cpool.spec)
    /\ ap.pc # "idle" => Before(ap.ap, cpool)

\* The pool under deletion that the reconciler is about to remove is the one
\* that exists.
Removing ==
    /\ ap.pc \in {"isUsed", "fin"}
    /\ pool.gen = ap.ap.gen
    /\ pool.st = "deleting"

\* From the resync on no block is created; none is left when IsUsed has said so.
GuardOK ==
    \/ dropped
    \/ /\ pool.st = "absent" => Used = {} /\ br.pc # "create"
       /\ Removing => br.pc # "create" /\ (ap.pc = "fin" => Used = {})

\* The addresses of each block are those of its index in the pool as it is now.
CarvedOK ==
    \/ dropped
    \/ /\ \A i \in Used : subnetsOf(pool.spec, i) # {}
                          /\ blk[i].nets = carve(pool.spec, i)
       /\ br.pc = "create" => /\ subnetsOf(pool.spec, br.idx) # {}
                              /\ br.nets = carve(pool.spec, br.idx)

\* TypeOK in parts: the API server, the informers, the process, observations.
TypeApi ==
    /\ pool \in PoolObject
    /\ blk \in BlockMap
    /\ req \in [Reqs -> RequestState]
    /\ nodes \subseteq Nodes

TypeCaches ==
    /\ cpool \in PoolObject
    /\ cblk \in BlockMap
    /\ creq \in [Reqs -> RequestState]
    /\ gone \in BOOLEAN
    /\ apq \in BOOLEAN
    /\ brq \subseteq Reqs

TypeMem ==
    /\ bits \in (SUBSET Index) \cup {None}
    /\ br \in BRWorker
    /\ ap \in APWorker
    /\ gc \in GCWorker

TypeObs ==
    /\ failed \in [count: 0 .. MaxFaults, left: SUBSET {"bits", "request"}]
    /\ dropped \in BOOLEAN

IInv ==
    /\ TypeApi /\ TypeCaches /\ TypeMem /\ TypeObs
    /\ WorkersOK /\ SpecsOK /\ LifeOK /\ GuardOK /\ CarvedOK
    /\ BitsCoverBlocks /\ StaleBitResynced

-----------------------------------------------------------------------------
(* Facts used by several actions *)

\* A worker that waits for its queue is typed.
LEMMA IdleTyped ==
  brIdle \in BRWorker /\ apIdle \in APWorker /\ gcIdle \in GCWorker
BY ConstantsAssumption DEF brIdle, apIdle, gcIdle, noPool, BRWorker, APWorker,
   GCWorker, PoolObject

\* A list of the blocks is a bitset.
LEMMA UsedTyped == Used \in SUBSET Index /\ Used # None
BY ConstantsAssumption DEF Used

\* The block that createBlock writes.
LEMMA NewBlockTyped ==
  ASSUME IInv, br.pc = "create"
  PROVE  /\ newBlock \in BlockObject
         /\ [blk EXCEPT ![br.idx] = newBlock] \in BlockMap
<1>1. newBlock \in BlockObject
  BY DEF IInv, WorkersOK, newBlock, BlockObject
<1> QED
  BY <1>1 DEF IInv, TypeApi, BlockMap

\* Appending is a preorder.
LEMMA ExtendsRefl ==
  ASSUME NEW spec \in Valid
  PROVE  Extends(spec, spec)
BY ValidTyped DEF Extends

\* Updates may follow each other.
LEMMA ExtendsTrans ==
  ASSUME NEW r \in Valid, NEW s \in Valid, NEW t \in Valid,
         Extends(r, s), Extends(s, t)
  PROVE  Extends(r, t)
<1>1. DOMAIN t.subnets \subseteq DOMAIN s.subnets
  BY ValidTyped DEF Extends
<1>2. Len(t.subnets) <= Len(r.subnets)
  BY ValidTyped DEF Extends
<1> QED
  BY <1>1, <1>2 DEF Extends

\* What the webhook lets follow a valid spec is valid and extends it.
LEMMA UpdateExtends ==
  ASSUME NEW old \in Valid, NEW spec \in Specs, validateUpdate(spec, old)
  PROVE  spec \in Valid /\ Extends(spec, old)
<1>1. Extends(spec, old)
  BY DEF validateUpdate, Extends
<1>2. spec \in [bits: Int, subnets: Seq(Nets)]
  BY ConstantsAssumption
<1>3. old.subnets # <<>> /\ Len(old.subnets) \in Nat /\ old.subnets \in Seq(Nets)
  BY ValidTyped DEF Valid, validate
<1>4. spec.subnets # <<>>
  <2>1. Len(old.subnets) > 0
    BY <1>3
  <2>2. Len(spec.subnets) > 0
    BY <1>1, <1>2, <1>3, <2>1 DEF Extends
  <2> QED
    BY <2>2
<1>5. \A i \in DOMAIN spec.subnets : Validate(spec.subnets[i], spec.bits)
  BY ValidTyped DEF validateUpdate
<1>6. spec.bits >= 0
  BY ValidTyped DEF validateUpdate
<1> QED
  BY <1>1, <1>4, <1>5, <1>6 DEF Valid, validate

\* A cache that is brought up to date.
LEMMA InSync ==
  ASSUME TypeApi, SpecsOK
  PROVE  Before(pool, pool) /\ (pool.st # "absent" => Extends(pool.spec, pool.spec))
BY ExtendsRefl DEF TypeApi, SpecsOK, PoolObject, Before

-----------------------------------------------------------------------------
(* The steps *)

\* Reading the caches changes no object, and gives the worker a request.
LEMMA BRStartKeeps ==
  ASSUME IInv, NEW u \in Reqs, BRStart(u)
  PROVE  IInv'
<1>1. TypeCaches'
  BY ConstantsAssumption DEF IInv, BRStart, caches, TypeCaches, WorkersOK
<1>2. TypeMem'
  <2>1. /\ [brIdle EXCEPT !.pc = "grant", !.u = u] \in BRWorker
        /\ [brIdle EXCEPT !.pc = "getPool", !.u = u] \in BRWorker
    BY DEF brIdle, BRWorker
  <2> QED
    BY <2>1 DEF IInv, BRStart, TypeMem
<1>3. WorkersOK'
  BY ConstantsAssumption DEF IInv, BRStart, brIdle, TypeMem, WorkersOK,
                             BRWorker
<1>4. GuardOK'
  <2>1. br'.pc # "create"
    BY DEF BRStart, brIdle
  <2>2. UNCHANGED <<pool, Used, ap, dropped>>
    BY DEF BRStart, api, Used
  <2> QED
    BY <2>1, <2>2 DEF IInv, GuardOK, Removing
<1>5. CarvedOK'
  BY ConstantsAssumption DEF IInv, BRStart, brIdle, api, TypeApi, TypeMem,
                             WorkersOK, GuardOK, CarvedOK, Used, BRWorker
<1>6. TypeApi' /\ TypeObs' /\ SpecsOK' /\ LifeOK' /\ BitsCoverBlocks' /\
       StaleBitResynced'
  BY DEF IInv, BRStart, api, caches, TypeApi, TypeObs, SpecsOK, LifeOK,
         Before, BitsCoverBlocks, Used, StaleBitResynced
<1> QED
  BY <1>1, <1>2, <1>3, <1>4, <1>5, <1>6 DEF IInv

\* A List error takes the request off the queue and changes nothing else.
LEMMA BRListFailsKeeps ==
  ASSUME IInv, NEW u \in Reqs, BRListFails(u)
  PROVE  IInv'
<1>1. TypeCaches'
  BY ConstantsAssumption DEF IInv, BRListFails, caches, TypeCaches
<1>2. TypeObs'
  BY ConstantsAssumption DEF IInv, BRListFails, FailsLeaving, MayFail, TypeObs
<1>3. SpecsOK'
  BY ConstantsAssumption DEF IInv, BRListFails, FailsLeaving, api, caches,
                             MayFail, TypeApi, TypeCaches, TypeObs, SpecsOK,
                             PoolObject
<1>4. BitsCoverBlocks'
  BY ConstantsAssumption DEF IInv, BRListFails, FailsLeaving, api, MayFail,
                             TypeApi, TypeMem, WorkersOK, BitsCoverBlocks,
                             Used
<1>5. TypeApi' /\ TypeMem' /\ WorkersOK' /\ LifeOK' /\ GuardOK' /\
       CarvedOK' /\ StaleBitResynced'
  BY DEF IInv, BRListFails, api, caches, TypeApi, TypeMem, WorkersOK, LifeOK,
         Before, GuardOK, Removing, Used, CarvedOK, StaleBitResynced
<1> QED
  BY <1>1, <1>2, <1>3, <1>4, <1>5 DEF IInv

\* getPool builds the bitset from all blocks of the API server.
LEMMA BRGetPoolKeeps ==
  ASSUME IInv, BRGetPool
  PROVE  IInv'
<1>1. TypeMem'
  BY ConstantsAssumption DEF IInv, BRGetPool, getPool, TypeMem, BRWorker, Used
<1>2. WorkersOK'
  BY ConstantsAssumption DEF IInv, BRGetPool, getPool, TypeMem, WorkersOK,
                             BRWorker, Used
<1>3. GuardOK'
  BY ConstantsAssumption DEF IInv, BRGetPool, api, TypeApi, TypeCaches,
                             TypeMem, WorkersOK, LifeOK, Before, GuardOK,
                             Removing, Used, BRWorker
<1>4. CarvedOK'
  BY ConstantsAssumption DEF IInv, BRGetPool, api, TypeApi, TypeMem,
                             WorkersOK, GuardOK, CarvedOK, Used, BRWorker
<1>5. BitsCoverBlocks'
  BY ConstantsAssumption DEF IInv, BRGetPool, getPool, api, TypeApi, TypeMem,
                             WorkersOK, BitsCoverBlocks, Used
<1>6. StaleBitResynced'
  BY ConstantsAssumption DEF IInv, BRGetPool, getPool, api, caches, queues,
                             TypeApi, TypeMem, WorkersOK, StaleBitResynced,
                             Used
<1>7. TypeApi' /\ TypeCaches' /\ TypeObs' /\ SpecsOK' /\ LifeOK'
  BY DEF IInv, BRGetPool, api, caches, queues, TypeApi, TypeCaches, TypeObs,
         SpecsOK, LifeOK, Before
<1> QED
  BY <1>1, <1>2, <1>3, <1>4, <1>5, <1>6, <1>7 DEF IInv

\* A failing getPool leaves the bitset as it is and requeues the request.
LEMMA BRGetPoolFailsKeeps ==
  ASSUME IInv, BRGetPoolFails
  PROVE  IInv'
<1>1. TypeCaches'
  BY ConstantsAssumption DEF IInv, BRGetPoolFails, RequeueBR, caches,
                             TypeCaches, WorkersOK
<1>2. TypeMem'
  BY ConstantsAssumption DEF IInv, BRGetPoolFails, getPoolFails, RequeueBR,
                             brIdle, TypeMem, BRWorker, Used
<1>3. TypeObs'
  BY ConstantsAssumption DEF IInv, BRGetPoolFails, getPoolFails, Fails,
                             FailsLeaving, MayFail, TypeObs
<1>4. WorkersOK'
  BY ConstantsAssumption DEF IInv, BRGetPoolFails, getPoolFails, RequeueBR,
                             brIdle, TypeMem, WorkersOK, BRWorker, Used
<1>5. SpecsOK'
  BY ConstantsAssumption DEF IInv, BRGetPoolFails, getPoolFails, api, caches,
                             Fails, FailsLeaving, MayFail, TypeApi,
                             TypeCaches, TypeObs, SpecsOK, PoolObject
<1>6. GuardOK'
  BY ConstantsAssumption DEF IInv, BRGetPoolFails, RequeueBR, api, brIdle,
                             TypeApi, TypeCaches, TypeMem, WorkersOK, LifeOK,
                             Before, GuardOK, Removing, Used, BRWorker
<1>7. CarvedOK'
  BY ConstantsAssumption DEF IInv, BRGetPoolFails, RequeueBR, api, brIdle,
                             TypeApi, TypeMem, WorkersOK, GuardOK, CarvedOK,
                             Used, BRWorker
<1>8. BitsCoverBlocks'
  BY ConstantsAssumption DEF IInv, BRGetPoolFails, getPoolFails, api, Fails,
                             FailsLeaving, MayFail, TypeApi, TypeMem,
                             WorkersOK, BitsCoverBlocks, Used
<1>9. StaleBitResynced'
  BY ConstantsAssumption DEF IInv, BRGetPoolFails, getPoolFails, RequeueBR,
                             api, caches, TypeApi, TypeMem, WorkersOK,
                             StaleBitResynced, Used
<1>10. TypeApi' /\ LifeOK'
  BY DEF IInv, BRGetPoolFails, api, caches, TypeApi, LifeOK, Before
<1> QED
  BY <1>1, <1>2, <1>3, <1>4, <1>5, <1>6, <1>7, <1>8, <1>9, <1>10 DEF IInv

\* AllocateBlock takes the lowest clear index if the subnets of the cached pool
\* reach that far.  A cached pool that is live is the one that exists, and the
\* existing one extends it, so the addresses are right for it.
LEMMA BRAllocateKeeps ==
  ASSUME IInv, BRAllocate
  PROVE  IInv'
<1> DEFINE next == NextClear(ownBits)
           spec == cpool.spec
           chosen == [br EXCEPT !.pc = "create", !.idx = next,
                                !.nets = carve(spec, next)]
<1>1. ownBits \in SUBSET Index
  BY DEF IInv, BRAllocate, ownBits, TypeMem, BRWorker, WorkersOK
<1>2. next \in 0 .. N
  BY <1>1, NextClearTyped
<1>3. spec \in Valid
  BY DEF IInv, BRAllocate, SpecsOK
<1>4. CASE br' = [br EXCEPT !.pc = "refuse", !.own = None]
  <2>1. br' \in BRWorker /\ br'.pc = "refuse" /\ br'.own = None /\ br'.u = br.u
    BY <1>4 DEF IInv, TypeMem, BRWorker
  <2>2. TypeMem' /\ WorkersOK' /\ GuardOK' /\ CarvedOK'
    BY <2>1 DEF IInv, BRAllocate, api, TypeMem, WorkersOK, GuardOK, Removing,
       CarvedOK, Used
  <2>3. TypeApi' /\ TypeCaches' /\ TypeObs' /\ SpecsOK' /\ LifeOK'
        /\ BitsCoverBlocks' /\ StaleBitResynced'
    BY DEF IInv, BRAllocate, api, caches, queues, TypeApi, TypeCaches, TypeObs,
       SpecsOK, LifeOK, Before, BitsCoverBlocks, Used, StaleBitResynced
  <2> QED
    BY <2>2, <2>3 DEF IInv
<1>5. CASE br' = chosen /\ cpool.st # "deleting" /\ subnetsOf(spec, next) # {}
  <2>1. cpool.st = "live"
    BY <1>5 DEF IInv, BRAllocate, TypeCaches, PoolObject
  <2>2. next # N
    BY <1>3, <1>5, IndexAssumption DEF Valid
  <2>3. next \in Index /\ next \in Nat
    BY <1>2, <2>2, ConstantsAssumption DEF Index
  <2>4. carve(spec, next) \in Nets
    BY <1>3, <1>5, <2>3, CarveInside
  <2>5. /\ cpool.gen = pool.gen
        /\ pool.st # "absent"
        /\ Extends(pool.spec, spec)
        /\ ~ Removing
    BY <2>1 DEF IInv, LifeOK, Before, Removing, WorkersOK, TypeApi, TypeCaches,
       TypeMem, APWorker, PoolObject
  <2>6. pool.spec \in Valid
    BY <2>5 DEF IInv, SpecsOK
  <2>7. subnetsOf(pool.spec, next) # {} /\ carve(pool.spec, next) = carve(spec, next)
    BY <1>3, <1>5, <2>3, <2>5, <2>6, CarveKept
  <2> HIDE DEF next, spec
  <2>8. br' \in BRWorker /\ br'.pc = "create" /\ br'.idx = next
          /\ br'.nets = carve(spec, next) /\ br'.own = br.own /\ br'.u = br.u
    BY <1>5, <2>3, <2>4 DEF IInv, TypeMem, BRWorker
  <2>9. TypeMem' /\ WorkersOK'
    BY <2>3, <2>4, <2>8 DEF IInv, BRAllocate, TypeMem, WorkersOK
  <2>10. GuardOK'
    BY <2>5, <2>8 DEF IInv, BRAllocate, api, GuardOK, Removing
  <2>11. CarvedOK'
    BY <2>7, <2>8 DEF IInv, BRAllocate, api, CarvedOK, Used
  <2>12. TypeApi' /\ TypeCaches' /\ TypeObs' /\ SpecsOK' /\ LifeOK'
         /\ BitsCoverBlocks' /\ StaleBitResynced'
    BY DEF IInv, BRAllocate, api, caches, queues, TypeApi, TypeCaches, TypeObs,
       SpecsOK, LifeOK, Before, BitsCoverBlocks, Used, StaleBitResynced
  <2> QED
    BY <2>9, <2>10, <2>11, <2>12 DEF IInv
<1> QED
  BY <1>4, <1>5 DEF BRAllocate

\* Without the pool in the cache the request is requeued.
LEMMA BRAllocateFailsKeeps ==
  ASSUME IInv, BRAllocateFails
  PROVE  IInv'
<1>1. TypeCaches'
  BY ConstantsAssumption DEF IInv, BRAllocateFails, RequeueBR, caches,
                             TypeCaches, WorkersOK
<1>2. TypeMem'
  BY ConstantsAssumption DEF IInv, BRAllocateFails, RequeueBR, brIdle,
                             TypeMem, BRWorker
<1>3. WorkersOK'
  BY ConstantsAssumption DEF IInv, BRAllocateFails, RequeueBR, brIdle,
                             TypeMem, WorkersOK, BRWorker
<1>4. GuardOK'
  BY ConstantsAssumption DEF IInv, BRAllocateFails, RequeueBR, api, brIdle,
                             TypeApi, TypeCaches, TypeMem, WorkersOK, LifeOK,
                             Before, GuardOK, Removing, Used, BRWorker
<1>5. CarvedOK'
  BY ConstantsAssumption DEF IInv, BRAllocateFails, RequeueBR, api, brIdle,
                             TypeApi, TypeMem, WorkersOK, GuardOK, CarvedOK,
                             Used, BRWorker
<1>6. StaleBitResynced'
  BY ConstantsAssumption DEF IInv, BRAllocateFails, RequeueBR, api, caches,
                             TypeApi, TypeMem, WorkersOK, StaleBitResynced,
                             Used
<1>7. TypeApi' /\ TypeObs' /\ SpecsOK' /\ LifeOK' /\ BitsCoverBlocks'
  BY DEF IInv, BRAllocateFails, api, caches, TypeApi, TypeObs, SpecsOK,
         LifeOK, Before, BitsCoverBlocks, Used
<1> QED
  BY <1>1, <1>2, <1>3, <1>4, <1>5, <1>6, <1>7 DEF IInv

\* The block is created with the addresses of its index, then its bit is set,
\* under p.mu: a pool that is being removed has no such worker.
LEMMA BRCreateKeeps ==
  ASSUME IInv, BRCreate
  PROVE  IInv'
<1>1. TypeApi'
  BY NewBlockTyped DEF IInv, BRCreate, TypeApi
<1>2. TypeMem'
  <2>1. br' \in BRWorker
    BY IdleTyped DEF IInv, BRCreate, BRWorker, brIdle, WorkersOK
  <2>2. br.own = None => bits \in SUBSET Index /\ br.idx \in Index
    BY DEF IInv, BRCreate, TypeMem, WorkersOK
  <2>3. bits' \in (SUBSET Index) \cup {None}
    BY <2>2 DEF IInv, BRCreate, TypeMem, SetBit
  <2> QED
    BY <2>1, <2>3 DEF IInv, BRCreate, TypeMem
<1>3. WorkersOK'
  BY ConstantsAssumption DEF IInv, BRCreate, SetBit, brIdle, TypeMem,
                             WorkersOK, BRWorker, Used
<1>4. GuardOK'
  BY ConstantsAssumption DEF IInv, BRCreate, newBlock, brIdle, api, TypeApi,
                             TypeCaches, TypeMem, WorkersOK, LifeOK, Before,
                             GuardOK, Removing, Used, BRWorker, BlockMap,
                             BlockObject
<1>5. CarvedOK'
  BY ConstantsAssumption DEF IInv, BRCreate, newBlock, brIdle, api, TypeApi,
                             TypeMem, WorkersOK, GuardOK, CarvedOK, Used,
                             BRWorker, BlockMap, BlockObject
<1>6. BitsCoverBlocks'
  BY ConstantsAssumption DEF IInv, BRCreate, newBlock, SetBit, api, TypeApi,
                             TypeMem, WorkersOK, BitsCoverBlocks, Used,
                             BlockMap, BlockObject
<1>7. StaleBitResynced'
  <2>1. br.idx \in Index /\ newBlock # None
    BY NewBlockTyped, ConstantsAssumption DEF IInv, BRCreate, WorkersOK
  <2>2. blk' = [blk EXCEPT ![br.idx] = newBlock] /\ DOMAIN blk = Index
    BY DEF IInv, BRCreate, TypeApi, BlockMap
  <2>3. br.own = None => bits # None
    BY DEF IInv, BRCreate, WorkersOK
  <2> QED
    BY <2>1, <2>2, <2>3 DEF IInv, BRCreate, SetBit, caches, queues,
       StaleBitResynced
<1>8. TypeCaches' /\ TypeObs' /\ SpecsOK' /\ LifeOK'
  BY DEF IInv, BRCreate, caches, queues, api, TypeCaches, TypeObs, SpecsOK,
         LifeOK, Before
<1> QED
  BY <1>1, <1>2, <1>3, <1>4, <1>5, <1>6, <1>7, <1>8 DEF IInv

\* The bit stays clear; if the block was created, that is recorded.
LEMMA BRCreateFailsKeeps ==
  ASSUME IInv, BRCreateFails
  PROVE  IInv'
<1>1. TypeApi'
  BY NewBlockTyped DEF IInv, BRCreateFails, TypeApi
<1>2. TypeCaches'
  BY ConstantsAssumption DEF IInv, BRCreateFails, RequeueBR, caches,
                             TypeCaches, WorkersOK
<1>3. TypeMem'
  BY ConstantsAssumption DEF IInv, BRCreateFails, RequeueBR, brIdle, TypeMem,
                             BRWorker
<1>4. TypeObs'
  BY ConstantsAssumption DEF IInv, BRCreateFails, Fails, FailsLeaving,
                             MayFail, TypeObs
<1>5. WorkersOK'
  BY ConstantsAssumption DEF IInv, BRCreateFails, RequeueBR, brIdle, TypeMem,
                             WorkersOK, BRWorker
<1>6. SpecsOK'
  BY ConstantsAssumption DEF IInv, BRCreateFails, Fails, FailsLeaving, caches,
                             MayFail, TypeApi, TypeCaches, TypeObs, SpecsOK,
                             PoolObject
<1>7. GuardOK'
  BY ConstantsAssumption DEF IInv, BRCreateFails, newBlock, RequeueBR, brIdle,
                             TypeApi, TypeCaches, TypeMem, WorkersOK, LifeOK,
                             Before, GuardOK, Removing, Used, BRWorker,
                             BlockMap, BlockObject
<1>8. CarvedOK'
  BY ConstantsAssumption DEF IInv, BRCreateFails, newBlock, RequeueBR, brIdle,
                             TypeApi, TypeMem, WorkersOK, GuardOK, CarvedOK,
                             Used, BRWorker, BlockMap, BlockObject
<1>9. BitsCoverBlocks'
  BY ConstantsAssumption DEF IInv, BRCreateFails, Fails, FailsLeaving,
                             newBlock, MayFail, TypeApi, TypeMem, WorkersOK,
                             BitsCoverBlocks, Used, BlockMap, BlockObject
<1>10. StaleBitResynced'
  BY ConstantsAssumption DEF IInv, BRCreateFails, newBlock, RequeueBR, caches,
                             TypeApi, TypeMem, WorkersOK, StaleBitResynced,
                             Used, BlockMap, BlockObject
<1>11. LifeOK'
  BY DEF IInv, BRCreateFails, caches, LifeOK, Before
<1> QED
  BY <1>1, <1>2, <1>3, <1>4, <1>5, <1>6, <1>7, <1>8, <1>9, <1>10,
     <1>11 DEF IInv

\* The answer ends the reconciliation.
LEMMA BRStatusKeeps ==
  ASSUME IInv, BRStatus
  PROVE  IInv'
<1>1. TypeApi'
  BY ConstantsAssumption DEF IInv, BRStatus, answer, api, TypeApi,
                             RequestState
<1>2. TypeMem'
  BY ConstantsAssumption DEF IInv, BRStatus, brIdle, TypeMem, BRWorker
<1>3. WorkersOK'
  BY ConstantsAssumption DEF IInv, BRStatus, brIdle, TypeMem, WorkersOK,
                             BRWorker
<1>4. GuardOK'
  BY ConstantsAssumption DEF IInv, BRStatus, brIdle, api, TypeApi, TypeCaches,
                             TypeMem, WorkersOK, LifeOK, Before, GuardOK,
                             Removing, Used, BRWorker, RequestState
<1>5. CarvedOK'
  BY ConstantsAssumption DEF IInv, BRStatus, brIdle, api, TypeApi, TypeMem,
                             WorkersOK, GuardOK, CarvedOK, Used, BRWorker
<1>6. TypeCaches' /\ TypeObs' /\ SpecsOK' /\ LifeOK' /\ BitsCoverBlocks' /\
       StaleBitResynced'
  BY DEF IInv, BRStatus, caches, queues, api, TypeCaches, TypeObs, SpecsOK,
         LifeOK, Before, BitsCoverBlocks, Used, StaleBitResynced
<1> QED
  BY <1>1, <1>2, <1>3, <1>4, <1>5, <1>6 DEF IInv

\* A conflict or an error requeues the request, answered or not.
LEMMA BRStatusFailsKeeps ==
  ASSUME IInv, BRStatusFails
  PROVE  IInv'
<1>1. TypeApi'
  BY ConstantsAssumption DEF IInv, BRStatusFails, answer, TypeApi,
                             RequestState
<1>2. TypeCaches'
  BY ConstantsAssumption DEF IInv, BRStatusFails, RequeueBR, caches,
                             TypeCaches, WorkersOK
<1>3. TypeMem'
  BY ConstantsAssumption DEF IInv, BRStatusFails, RequeueBR, brIdle, TypeMem,
                             BRWorker
<1>4. TypeObs'
  BY ConstantsAssumption DEF IInv, BRStatusFails, Fails, FailsLeaving,
                             MayFail, TypeObs
<1>5. WorkersOK'
  BY ConstantsAssumption DEF IInv, BRStatusFails, RequeueBR, brIdle, TypeMem,
                             WorkersOK, BRWorker
<1>6. SpecsOK'
  BY ConstantsAssumption DEF IInv, BRStatusFails, Fails, caches, FailsLeaving,
                             MayFail, TypeApi, TypeCaches, TypeObs, SpecsOK,
                             PoolObject
<1>7. GuardOK'
  BY ConstantsAssumption DEF IInv, BRStatusFails, RequeueBR, brIdle, TypeApi,
                             TypeCaches, TypeMem, WorkersOK, LifeOK, Before,
                             GuardOK, Removing, Used, BRWorker, RequestState
<1>8. CarvedOK'
  BY ConstantsAssumption DEF IInv, BRStatusFails, RequeueBR, brIdle, TypeApi,
                             TypeMem, WorkersOK, GuardOK, CarvedOK, Used,
                             BRWorker
<1>9. BitsCoverBlocks'
  BY ConstantsAssumption DEF IInv, BRStatusFails, Fails, FailsLeaving,
                             MayFail, TypeApi, TypeMem, WorkersOK,
                             BitsCoverBlocks, Used
<1>10. StaleBitResynced'
  BY ConstantsAssumption DEF IInv, BRStatusFails, RequeueBR, caches, TypeApi,
                             TypeMem, WorkersOK, StaleBitResynced, Used
<1>11. LifeOK'
  BY DEF IInv, BRStatusFails, caches, LifeOK, Before
<1> QED
  BY <1>1, <1>2, <1>3, <1>4, <1>5, <1>6, <1>7, <1>8, <1>9, <1>10,
     <1>11 DEF IInv

\* The reconciler starts with the pool as the cache has it.
LEMMA APStartKeeps ==
  ASSUME IInv, APStart
  PROVE  IInv'
<1>1. TypeCaches'
  BY ConstantsAssumption DEF IInv, APStart, caches, TypeCaches
<1>2. TypeMem'
  BY ConstantsAssumption DEF IInv, APStart, TypeMem, APWorker, PoolObject,
                             TypeCaches
<1>3. WorkersOK'
  BY ConstantsAssumption DEF IInv, APStart, TypeMem, WorkersOK, APWorker,
                             PoolObject
<1>4. LifeOK'
  BY ConstantsAssumption DEF IInv, APStart, api, caches, TypeApi, TypeCaches,
                             TypeMem, WorkersOK, LifeOK, Before, APWorker,
                             PoolObject
<1>5. GuardOK'
  BY ConstantsAssumption DEF IInv, APStart, api, TypeApi, TypeCaches, TypeMem,
                             WorkersOK, LifeOK, Before, GuardOK, Removing,
                             Used, APWorker, PoolObject
<1>6. StaleBitResynced'
  BY ConstantsAssumption DEF IInv, APStart, api, caches, TypeApi, TypeMem,
                             WorkersOK, StaleBitResynced, Used, APWorker,
                             PoolObject
<1>7. TypeApi' /\ TypeObs' /\ SpecsOK' /\ CarvedOK' /\ BitsCoverBlocks'
  BY DEF IInv, APStart, api, caches, TypeApi, TypeObs, SpecsOK, CarvedOK,
         Used, BitsCoverBlocks
<1> QED
  BY <1>1, <1>2, <1>3, <1>4, <1>5, <1>6, <1>7 DEF IInv

\* The worker keeps the object that DropPool removes, which is recorded.
LEMMA APDropPoolKeeps ==
  ASSUME IInv, APDropPool
  PROVE  IInv'
<1>1. TypeMem'
  <2>1. br' \in BRWorker
    BY DEF IInv, APDropPool, TypeMem, BRWorker
  <2> QED
    BY <2>1, IdleTyped DEF IInv, APDropPool, TypeMem
<1>2. TypeObs'
  BY ConstantsAssumption DEF IInv, APDropPool, TypeObs
<1>3. WorkersOK'
  BY ConstantsAssumption DEF IInv, APDropPool, apIdle, noPool, TypeMem,
                             WorkersOK, BRWorker, APWorker, PoolObject, Used
<1>4. SpecsOK'
  BY ConstantsAssumption DEF IInv, APDropPool, api, caches, TypeApi,
                             TypeCaches, TypeObs, SpecsOK, PoolObject
<1>5. LifeOK'
  BY ConstantsAssumption DEF IInv, APDropPool, apIdle, api, caches, noPool,
                             TypeApi, TypeCaches, TypeMem, WorkersOK, LifeOK,
                             Before, APWorker, PoolObject
<1>6. GuardOK'
  <2>1. ~ Removing'
    BY DEF APDropPool, apIdle, Removing
  <2>2. UNCHANGED <<pool, Used>>
    BY DEF APDropPool, api, Used
  <2>3. dropped' \/ br'.pc = br.pc
    BY DEF APDropPool
  <2>4. dropped => dropped'
    BY DEF APDropPool
  <2> QED
    BY <2>1, <2>2, <2>3, <2>4 DEF IInv, GuardOK
<1>7. CarvedOK'
  BY ConstantsAssumption DEF IInv, APDropPool, api, TypeApi, TypeMem,
                             WorkersOK, GuardOK, CarvedOK, Used, BRWorker
<1>8. BitsCoverBlocks'
  BY ConstantsAssumption DEF IInv, APDropPool, api, TypeApi, TypeMem,
                             WorkersOK, BitsCoverBlocks, Used
<1>9. StaleBitResynced'
  BY ConstantsAssumption DEF IInv, APDropPool, apIdle, api, caches, queues,
                             noPool, TypeApi, TypeMem, WorkersOK,
                             StaleBitResynced, Used, APWorker, PoolObject
<1>10. TypeApi' /\ TypeCaches'
  BY DEF IInv, APDropPool, api, caches, queues, TypeApi, TypeCaches
<1> QED
  BY <1>1, <1>2, <1>3, <1>4, <1>5, <1>6, <1>7, <1>8, <1>9, <1>10 DEF IInv

\* getPool again, in SyncPool.
LEMMA APGetPoolKeeps ==
  ASSUME IInv, APGetPool
  PROVE  IInv'
<1>1. TypeMem'
  BY ConstantsAssumption DEF IInv, APGetPool, getPool, TypeMem, APWorker,
                             PoolObject, Used
<1>2. WorkersOK'
  BY ConstantsAssumption DEF IInv, APGetPool, getPool, TypeMem, WorkersOK,
                             APWorker, PoolObject, Used
<1>3. LifeOK'
  BY ConstantsAssumption DEF IInv, APGetPool, api, caches, TypeApi,
                             TypeCaches, TypeMem, WorkersOK, LifeOK, Before,
                             APWorker, PoolObject
<1>4. GuardOK'
  BY ConstantsAssumption DEF IInv, APGetPool, api, TypeApi, TypeCaches,
                             TypeMem, WorkersOK, LifeOK, Before, GuardOK,
                             Removing, Used, APWorker, PoolObject
<1>5. BitsCoverBlocks'
  BY ConstantsAssumption DEF IInv, APGetPool, getPool, api, TypeApi, TypeMem,
                             WorkersOK, BitsCoverBlocks, Used
<1>6. StaleBitResynced'
  BY ConstantsAssumption DEF IInv, APGetPool, getPool, api, caches, queues,
                             TypeApi, TypeMem, WorkersOK, StaleBitResynced,
                             Used, APWorker, PoolObject
<1>7. TypeApi' /\ TypeCaches' /\ TypeObs' /\ SpecsOK' /\ CarvedOK'
  BY DEF IInv, APGetPool, api, caches, queues, TypeApi, TypeCaches, TypeObs,
         SpecsOK, CarvedOK, Used
<1> QED
  BY <1>1, <1>2, <1>3, <1>4, <1>5, <1>6, <1>7 DEF IInv

\* A failing getPool requeues the pool: a stale bit is still to be resynced.
LEMMA APGetPoolFailsKeeps ==
  ASSUME IInv, APGetPoolFails
  PROVE  IInv'
<1>1. TypeCaches'
  BY ConstantsAssumption DEF IInv, APGetPoolFails, RequeueAP, caches,
                             TypeCaches
<1>2. TypeMem'
  BY ConstantsAssumption DEF IInv, APGetPoolFails, getPoolFails, RequeueAP,
                             apIdle, noPool, TypeMem, APWorker, PoolObject,
                             Used
<1>3. TypeObs'
  BY ConstantsAssumption DEF IInv, APGetPoolFails, getPoolFails, Fails,
                             FailsLeaving, MayFail, TypeObs
<1>4. WorkersOK'
  BY ConstantsAssumption DEF IInv, APGetPoolFails, getPoolFails, RequeueAP,
                             apIdle, noPool, TypeMem, WorkersOK, APWorker,
                             PoolObject, Used
<1>5. SpecsOK'
  BY ConstantsAssumption DEF IInv, APGetPoolFails, getPoolFails, api, caches,
                             Fails, FailsLeaving, MayFail, TypeApi,
                             TypeCaches, TypeObs, SpecsOK, PoolObject
<1>6. LifeOK'
  BY ConstantsAssumption DEF IInv, APGetPoolFails, RequeueAP, api, caches,
                             apIdle, noPool, TypeApi, TypeCaches, TypeMem,
                             WorkersOK, LifeOK, Before, APWorker, PoolObject
<1>7. GuardOK'
  BY ConstantsAssumption DEF IInv, APGetPoolFails, RequeueAP, api, apIdle,
                             noPool, TypeApi, TypeCaches, TypeMem, WorkersOK,
                             LifeOK, Before, GuardOK, Removing, Used,
                             APWorker, PoolObject
<1>8. BitsCoverBlocks'
  BY ConstantsAssumption DEF IInv, APGetPoolFails, getPoolFails, api, Fails,
                             FailsLeaving, MayFail, TypeApi, TypeMem,
                             WorkersOK, BitsCoverBlocks, Used
<1>9. StaleBitResynced'
  BY ConstantsAssumption DEF IInv, APGetPoolFails, getPoolFails, RequeueAP,
                             api, caches, apIdle, noPool, TypeApi, TypeMem,
                             WorkersOK, StaleBitResynced, Used, APWorker,
                             PoolObject
<1>10. TypeApi' /\ CarvedOK'
  BY DEF IInv, APGetPoolFails, api, TypeApi, CarvedOK, Used
<1> QED
  BY <1>1, <1>2, <1>3, <1>4, <1>5, <1>6, <1>7, <1>8, <1>9, <1>10 DEF IInv

\* Under p.mu the bits become those of the blocks; a pool under deletion has no
\* creating worker from here on.
LEMMA APSyncBlocksKeeps ==
  ASSUME IInv, APSyncBlocks
  PROVE  IInv'
<1>1. TypeMem'
  BY ConstantsAssumption DEF IInv, APSyncBlocks, SyncFree, resynced, apIdle,
                             Locked, noPool, TypeMem, APWorker, PoolObject,
                             Used
<1>2. TypeObs'
  BY ConstantsAssumption DEF IInv, APSyncBlocks, TypeObs
<1>3. WorkersOK'
  BY ConstantsAssumption DEF IInv, APSyncBlocks, SyncFree, resynced, apIdle,
                             Locked, noPool, TypeMem, WorkersOK, APWorker,
                             PoolObject, Used
<1>4. SpecsOK'
  BY ConstantsAssumption DEF IInv, APSyncBlocks, api, caches, TypeApi,
                             TypeCaches, TypeObs, SpecsOK, PoolObject
<1>5. LifeOK'
  BY ConstantsAssumption DEF IInv, APSyncBlocks, SyncFree, apIdle, api,
                             caches, Locked, noPool, TypeApi, TypeCaches,
                             TypeMem, WorkersOK, LifeOK, Before, APWorker,
                             PoolObject
<1>6. GuardOK'
  BY ConstantsAssumption DEF IInv, APSyncBlocks, SyncFree, apIdle, api,
                             Locked, noPool, TypeApi, TypeCaches, TypeMem,
                             WorkersOK, LifeOK, Before, GuardOK, Removing,
                             Used, APWorker, PoolObject
<1>7. BitsCoverBlocks'
  BY ConstantsAssumption DEF IInv, APSyncBlocks, resynced, api, TypeApi,
                             TypeMem, WorkersOK, BitsCoverBlocks, Used
<1>8. StaleBitResynced'
  BY ConstantsAssumption DEF IInv, APSyncBlocks, SyncFree, resynced, apIdle,
                             api, caches, queues, Locked, noPool, TypeApi,
                             TypeMem, WorkersOK, StaleBitResynced, Used,
                             APWorker, PoolObject
<1>9. TypeApi' /\ TypeCaches' /\ CarvedOK'
  BY DEF IInv, APSyncBlocks, api, caches, queues, TypeApi, TypeCaches,
         CarvedOK, Used
<1> QED
  BY <1>1, <1>2, <1>3, <1>4, <1>5, <1>6, <1>7, <1>8, <1>9 DEF IInv

\* ClearAll without the list is recorded, and the pool requeued.
LEMMA APSyncFailsKeeps ==
  ASSUME IInv, APSyncFails
  PROVE  IInv'
<1>1. TypeCaches'
  BY ConstantsAssumption DEF IInv, APSyncFails, RequeueAP, caches, TypeCaches
<1>2. TypeMem'
  BY ConstantsAssumption DEF IInv, APSyncFails, SyncFree, RequeueAP, Locked,
                             apIdle, noPool, TypeMem, APWorker, PoolObject,
                             Used
<1>3. TypeObs'
  BY ConstantsAssumption DEF IInv, APSyncFails, FailsLeaving, MayFail, TypeObs
<1>4. WorkersOK'
  BY ConstantsAssumption DEF IInv, APSyncFails, SyncFree, RequeueAP, Locked,
                             apIdle, noPool, TypeMem, WorkersOK, APWorker,
                             PoolObject, Used
<1>5. SpecsOK'
  BY ConstantsAssumption DEF IInv, APSyncFails, FailsLeaving, api, caches,
                             MayFail, TypeApi, TypeCaches, TypeObs, SpecsOK,
                             PoolObject
<1>6. LifeOK'
  BY ConstantsAssumption DEF IInv, APSyncFails, SyncFree, RequeueAP, api,
                             caches, Locked, apIdle, noPool, TypeApi,
                             TypeCaches, TypeMem, WorkersOK, LifeOK, Before,
                             APWorker, PoolObject
<1>7. GuardOK'
  BY ConstantsAssumption DEF IInv, APSyncFails, SyncFree, RequeueAP, api,
                             Locked, apIdle, noPool, TypeApi, TypeCaches,
                             TypeMem, WorkersOK, LifeOK, Before, GuardOK,
                             Removing, Used, APWorker, PoolObject
<1>8. BitsCoverBlocks'
  BY ConstantsAssumption DEF IInv, APSyncFails, FailsLeaving, api, MayFail,
                             TypeApi, TypeMem, WorkersOK, BitsCoverBlocks,
                             Used
<1>9. StaleBitResynced'
  BY ConstantsAssumption DEF IInv, APSyncFails, SyncFree, RequeueAP, api,
                             caches, Locked, apIdle, noPool, TypeApi, TypeMem,
                             WorkersOK, StaleBitResynced, Used, APWorker,
                             PoolObject
<1>10. TypeApi' /\ CarvedOK'
  BY DEF IInv, APSyncFails, api, TypeApi, CarvedOK, Used
<1> QED
  BY <1>1, <1>2, <1>3, <1>4, <1>5, <1>6, <1>7, <1>8, <1>9, <1>10 DEF IInv

\* Nobody creates a block of a pool that is being removed, so what the list says
\* stays true.
LEMMA APIsUsedKeeps ==
  ASSUME IInv, APIsUsed
  PROVE  IInv'
<1>1. TypeMem'
  BY ConstantsAssumption DEF IInv, APIsUsed, InUse, apIdle, noPool, TypeMem,
                             APWorker, PoolObject
<1>2. WorkersOK'
  BY ConstantsAssumption DEF IInv, APIsUsed, InUse, apIdle, noPool, TypeMem,
                             WorkersOK, APWorker, PoolObject
<1>3. LifeOK'
  BY ConstantsAssumption DEF IInv, APIsUsed, InUse, apIdle, api, caches,
                             noPool, TypeApi, TypeCaches, TypeMem, WorkersOK,
                             LifeOK, Before, APWorker, PoolObject
<1>4. GuardOK'
  BY ConstantsAssumption DEF IInv, APIsUsed, InUse, apIdle, api, noPool,
                             TypeApi, TypeCaches, TypeMem, WorkersOK, LifeOK,
                             Before, GuardOK, Removing, Used, APWorker,
                             PoolObject
<1>5. StaleBitResynced'
  BY ConstantsAssumption DEF IInv, APIsUsed, InUse, apIdle, api, caches,
                             queues, noPool, TypeApi, TypeMem, WorkersOK,
                             StaleBitResynced, Used, APWorker, PoolObject
<1>6. TypeApi' /\ TypeCaches' /\ TypeObs' /\ SpecsOK' /\ CarvedOK' /\
       BitsCoverBlocks'
  BY DEF IInv, APIsUsed, api, caches, queues, TypeApi, TypeCaches, TypeObs,
         SpecsOK, CarvedOK, Used, BitsCoverBlocks
<1> QED
  BY <1>1, <1>2, <1>3, <1>4, <1>5, <1>6 DEF IInv

\* The pool is requeued.
LEMMA APIsUsedFailsKeeps ==
  ASSUME IInv, APIsUsedFails
  PROVE  IInv'
<1>1. TypeCaches'
  BY ConstantsAssumption DEF IInv, APIsUsedFails, RequeueAP, caches,
                             TypeCaches
<1>2. TypeMem'
  BY ConstantsAssumption DEF IInv, APIsUsedFails, RequeueAP, apIdle, noPool,
                             TypeMem, APWorker, PoolObject
<1>3. TypeObs'
  BY ConstantsAssumption DEF IInv, APIsUsedFails, Fails, FailsLeaving,
                             MayFail, TypeObs
<1>4. WorkersOK'
  BY ConstantsAssumption DEF IInv, APIsUsedFails, RequeueAP, apIdle, noPool,
                             TypeMem, WorkersOK, APWorker, PoolObject
<1>5. SpecsOK'
  BY ConstantsAssumption DEF IInv, APIsUsedFails, Fails, api, caches,
                             FailsLeaving, MayFail, TypeApi, TypeCaches,
                             TypeObs, SpecsOK, PoolObject
<1>6. LifeOK'
  BY ConstantsAssumption DEF IInv, APIsUsedFails, RequeueAP, api, caches,
                             apIdle, noPool, TypeApi, TypeCaches, TypeMem,
                             WorkersOK, LifeOK, Before, APWorker, PoolObject
<1>7. GuardOK'
  BY ConstantsAssumption DEF IInv, APIsUsedFails, RequeueAP, api, apIdle,
                             noPool, TypeApi, TypeCaches, TypeMem, WorkersOK,
                             LifeOK, Before, GuardOK, Removing, Used,
                             APWorker, PoolObject
<1>8. BitsCoverBlocks'
  BY ConstantsAssumption DEF IInv, APIsUsedFails, Fails, api, FailsLeaving,
                             MayFail, TypeApi, TypeMem, WorkersOK,
                             BitsCoverBlocks, Used
<1>9. StaleBitResynced'
  BY ConstantsAssumption DEF IInv, APIsUsedFails, RequeueAP, api, caches,
                             apIdle, noPool, TypeApi, TypeMem, WorkersOK,
                             StaleBitResynced, Used, APWorker, PoolObject
<1>10. TypeApi' /\ CarvedOK'
  BY DEF IInv, APIsUsedFails, api, TypeApi, CarvedOK, Used
<1> QED
  BY <1>1, <1>2, <1>3, <1>4, <1>5, <1>6, <1>7, <1>8, <1>9, <1>10 DEF IInv

\* The pool that goes is the one the reconciler started with, so it has no block.
LEMMA APRemoveFinalizerKeeps ==
  ASSUME IInv, APRemoveFinalizer
  PROVE  IInv'
<1>1. TypeApi'
  BY ConstantsAssumption DEF IInv, APRemoveFinalizer, poolRemoved, api,
                             TypeApi, PoolObject
<1>2. TypeMem'
  BY ConstantsAssumption DEF IInv, APRemoveFinalizer, apIdle, noPool, TypeMem,
                             APWorker, PoolObject
<1>3. WorkersOK'
  BY ConstantsAssumption DEF IInv, APRemoveFinalizer, apIdle, noPool, TypeMem,
                             WorkersOK, APWorker, PoolObject
<1>4. SpecsOK'
  BY ConstantsAssumption DEF IInv, APRemoveFinalizer, poolRemoved, caches,
                             api, TypeApi, TypeCaches, TypeObs, SpecsOK,
                             PoolObject
<1>5. LifeOK'
  BY ConstantsAssumption DEF IInv, APRemoveFinalizer, poolRemoved, apIdle,
                             caches, noPool, api, TypeApi, TypeCaches,
                             TypeMem, WorkersOK, LifeOK, Before, APWorker,
                             PoolObject
<1>6. GuardOK'
  BY ConstantsAssumption DEF IInv, APRemoveFinalizer, poolRemoved, apIdle,
                             noPool, api, TypeApi, TypeCaches, TypeMem,
                             WorkersOK, LifeOK, Before, GuardOK, Removing,
                             Used, APWorker, PoolObject
<1>7. CarvedOK'
  BY ConstantsAssumption DEF IInv, APRemoveFinalizer, poolRemoved, api,
                             TypeApi, TypeMem, WorkersOK, GuardOK, CarvedOK,
                             Used, PoolObject, Removing, LifeOK
<1>8. StaleBitResynced'
  BY ConstantsAssumption DEF IInv, APRemoveFinalizer, apIdle, caches, queues,
                             noPool, api, TypeApi, TypeMem, WorkersOK,
                             StaleBitResynced, Used, APWorker, PoolObject
<1>9. TypeCaches' /\ TypeObs' /\ BitsCoverBlocks'
  BY DEF IInv, APRemoveFinalizer, caches, queues, api, TypeCaches, TypeObs,
         BitsCoverBlocks, Used
<1> QED
  BY <1>1, <1>2, <1>3, <1>4, <1>5, <1>6, <1>7, <1>8, <1>9 DEF IInv

\* The same if the answer is lost.
LEMMA APRemoveFinalizerFailsKeeps ==
  ASSUME IInv, APRemoveFinalizerFails
  PROVE  IInv'
<1>1. TypeApi'
  BY ConstantsAssumption DEF IInv, APRemoveFinalizerFails, poolRemoved,
                             TypeApi, PoolObject
<1>2. TypeCaches'
  BY ConstantsAssumption DEF IInv, APRemoveFinalizerFails, RequeueAP, caches,
                             TypeCaches
<1>3. TypeMem'
  BY ConstantsAssumption DEF IInv, APRemoveFinalizerFails, RequeueAP, apIdle,
                             noPool, TypeMem, APWorker, PoolObject
<1>4. TypeObs'
  BY ConstantsAssumption DEF IInv, APRemoveFinalizerFails, Fails,
                             FailsLeaving, MayFail, TypeObs
<1>5. WorkersOK'
  BY ConstantsAssumption DEF IInv, APRemoveFinalizerFails, RequeueAP, apIdle,
                             noPool, TypeMem, WorkersOK, APWorker, PoolObject
<1>6. SpecsOK'
  <2>1. pool'.gen = pool.gen /\ (pool'.st = "absent" \/ pool' = pool)
    BY DEF IInv, APRemoveFinalizerFails, poolRemoved, TypeApi, PoolObject
  <2>2. failed'.count \in Nat /\ failed'.count >= failed.count
    BY DEF IInv, APRemoveFinalizerFails, Fails, FailsLeaving, TypeObs
  <2> QED
    BY <2>1, <2>2 DEF IInv, APRemoveFinalizerFails, caches, SpecsOK, TypeObs,
       TypeApi, PoolObject
<1>7. LifeOK'
  <2>1. CASE pool' = pool
    BY <2>1 DEF IInv, APRemoveFinalizerFails, RequeueAP, apIdle, caches, LifeOK,
       Before
  <2>2. CASE pool' # pool
    <3>1. ap.pc = "fin" /\ pool = ap.ap /\ pool' = poolRemoved
      BY <2>2 DEF APRemoveFinalizerFails
    <3>2. cpool.gen = pool.gen /\ cpool.st # "live"
      BY <3>1 DEF IInv, TypeApi, TypeCaches, PoolObject, WorkersOK, LifeOK, Before
    <3> QED
      BY <3>1, <3>2 DEF IInv, APRemoveFinalizerFails, RequeueAP, apIdle, caches,
         poolRemoved, TypeApi, TypeCaches, PoolObject, LifeOK, Before
  <2> QED
    BY <2>1, <2>2
<1>8. GuardOK'
  BY ConstantsAssumption DEF IInv, APRemoveFinalizerFails, poolRemoved,
                             RequeueAP, apIdle, noPool, TypeApi, TypeCaches,
                             TypeMem, WorkersOK, LifeOK, Before, GuardOK,
                             Removing, Used, APWorker, PoolObject
<1>9. CarvedOK'
  BY ConstantsAssumption DEF IInv, APRemoveFinalizerFails, poolRemoved,
                             TypeApi, TypeMem, WorkersOK, GuardOK, CarvedOK,
                             Used, PoolObject, Removing, LifeOK
<1>10. BitsCoverBlocks'
  BY ConstantsAssumption DEF IInv, APRemoveFinalizerFails, Fails,
                             FailsLeaving, MayFail, TypeApi, TypeMem,
                             WorkersOK, BitsCoverBlocks, Used
<1>11. StaleBitResynced'
  BY ConstantsAssumption DEF IInv, APRemoveFinalizerFails, RequeueAP, caches,
                             apIdle, noPool, TypeApi, TypeMem, WorkersOK,
                             StaleBitResynced, Used, APWorker, PoolObject
<1> QED
  BY <1>1, <1>2, <1>3, <1>4, <1>5, <1>6, <1>7, <1>8, <1>9, <1>10,
     <1>11 DEF IInv

\* The collector remembers blocks by index and node.
LEMMA GCListKeeps ==
  ASSUME IInv, GCList
  PROVE  IInv'
<1>1. TypeMem'
  <2> DEFINE T == {[i |-> i, n |-> Owner(cblk[i])] :
                       i \in {j \in Index : cblk[j] # None}}
  <2>1. ASSUME NEW i \in Index, cblk[i] # None
        PROVE  Owner(cblk[i]) \in Nodes
    BY <2>1, ConstantsAssumption DEF IInv, TypeCaches, BlockMap, BlockObject, Owner
  <2>2. T \subseteq [i: Index, n: Nodes]
    BY <2>1
  <2> HIDE DEF T
  <2>3. [gcIdle EXCEPT !.pc = "nodes", !.todo = T] \in GCWorker
    BY <2>2 DEF gcIdle, GCWorker
  <2> QED
    BY <2>3 DEF IInv, GCList, TypeMem, T
<1>2. WorkersOK'
  BY ConstantsAssumption DEF IInv, GCList, gcIdle, Owner, TypeMem, WorkersOK,
                             GCWorker
<1>3. TypeApi' /\ TypeCaches' /\ TypeObs' /\ SpecsOK' /\ LifeOK' /\
       GuardOK' /\ CarvedOK' /\ BitsCoverBlocks' /\ StaleBitResynced'
  BY DEF IInv, GCList, api, caches, queues, TypeApi, TypeCaches, TypeObs,
         SpecsOK, LifeOK, Before, GuardOK, Removing, Used, CarvedOK,
         BitsCoverBlocks, StaleBitResynced
<1> QED
  BY <1>1, <1>2, <1>3 DEF IInv

\* It keeps those without a node.
LEMMA GCNodesKeeps ==
  ASSUME IInv, GCNodes
  PROVE  IInv'
<1>1. TypeMem'
  BY ConstantsAssumption DEF IInv, GCNodes, GCContinue, orphans, gcIdle,
                             TypeMem, GCWorker
<1>2. WorkersOK'
  BY ConstantsAssumption DEF IInv, GCNodes, GCContinue, orphans, gcIdle,
                             TypeMem, WorkersOK, GCWorker
<1>3. TypeApi' /\ TypeCaches' /\ TypeObs' /\ SpecsOK' /\ LifeOK' /\
       GuardOK' /\ CarvedOK' /\ BitsCoverBlocks' /\ StaleBitResynced'
  BY DEF IInv, GCNodes, api, caches, queues, TypeApi, TypeCaches, TypeObs,
         SpecsOK, LifeOK, Before, GuardOK, Removing, Used, CarvedOK,
         BitsCoverBlocks, StaleBitResynced
<1> QED
  BY <1>1, <1>2, <1>3 DEF IInv

\* A block may go with its finalizer; its deletion is an event.
LEMMA GCRemoveFinalizerKeeps ==
  ASSUME IInv, NEW i \in Index, GCRemoveFinalizer(i)
  PROVE  IInv'
<1>1. TypeApi'
  <2>1. ASSUME blk[i] # None
        PROVE  [blk EXCEPT ![i].fin = FALSE] \in BlockMap
    BY <2>1 DEF IInv, TypeApi, BlockMap, BlockObject
  <2> QED
    BY <2>1 DEF IInv, GCRemoveFinalizer, Remove, TypeApi, BlockMap
<1>2. TypeCaches'
  BY ConstantsAssumption DEF IInv, GCRemoveFinalizer, Remove, queues, caches,
                             TypeCaches
<1>3. TypeMem'
  BY ConstantsAssumption DEF IInv, GCRemoveFinalizer, TypeMem, GCWorker
<1>4. WorkersOK'
  BY ConstantsAssumption DEF IInv, GCRemoveFinalizer, TypeMem, WorkersOK,
                             GCWorker
<1>5. GuardOK'
  BY ConstantsAssumption DEF IInv, GCRemoveFinalizer, Remove, api, TypeApi,
                             TypeCaches, TypeMem, WorkersOK, LifeOK, Before,
                             GuardOK, Removing, Used, BlockMap, BlockObject,
                             GCWorker
<1>6. CarvedOK'
  BY ConstantsAssumption DEF IInv, GCRemoveFinalizer, Remove, api, TypeApi,
                             TypeMem, WorkersOK, GuardOK, CarvedOK, Used,
                             BlockMap, BlockObject
<1>7. BitsCoverBlocks'
  BY ConstantsAssumption DEF IInv, GCRemoveFinalizer, Remove, api, TypeApi,
                             TypeMem, WorkersOK, BitsCoverBlocks, Used,
                             BlockMap, BlockObject
<1>8. StaleBitResynced'
  <2>1. ASSUME NEW j \in Index, blk'[j] = None
        PROVE  blk[j] = None \/ gone'
    <3>1. CASE blk' = [blk EXCEPT ![i].fin = FALSE] /\ blk[i] # None
      BY <2>1, <3>1, ConstantsAssumption DEF IInv, TypeApi, BlockMap, BlockObject
    <3> QED
      BY <2>1, <3>1 DEF IInv, GCRemoveFinalizer, Remove, TypeApi, BlockMap
  <2>2. gone => gone'
    BY DEF GCRemoveFinalizer, Remove
  <2> QED
    BY <2>1, <2>2 DEF IInv, GCRemoveFinalizer, queues, StaleBitResynced
<1>9. TypeObs' /\ SpecsOK' /\ LifeOK'
  BY DEF IInv, GCRemoveFinalizer, api, caches, TypeObs, SpecsOK, LifeOK,
         Before
<1> QED
  BY <1>1, <1>2, <1>3, <1>4, <1>5, <1>6, <1>7, <1>8, <1>9 DEF IInv

\* So is that of a block without finalizer.
LEMMA GCDeleteKeeps ==
  ASSUME IInv, GCDelete
  PROVE  IInv'
<1>1. TypeApi'
  <2> DEFINE i == gc.cur
  <2>1. i \in Index
    BY DEF IInv, GCDelete, WorkersOK
  <2>2. ASSUME blk[i] # None
        PROVE  [blk EXCEPT ![i].del = TRUE] \in BlockMap
    BY <2>1, <2>2 DEF IInv, TypeApi, BlockMap, BlockObject
  <2> QED
    BY <2>1, <2>2 DEF IInv, GCDelete, Remove, TypeApi, BlockMap
<1>2. TypeCaches'
  BY ConstantsAssumption DEF IInv, GCDelete, Remove, queues, caches,
                             TypeCaches
<1>3. TypeMem'
  BY ConstantsAssumption DEF IInv, GCDelete, GCContinue, gcIdle, TypeMem,
                             GCWorker
<1>4. WorkersOK'
  BY ConstantsAssumption DEF IInv, GCDelete, GCContinue, gcIdle, TypeMem,
                             WorkersOK, GCWorker
<1>5. GuardOK'
  BY ConstantsAssumption DEF IInv, GCDelete, Remove, api, TypeApi, TypeCaches,
                             TypeMem, WorkersOK, LifeOK, Before, GuardOK,
                             Removing, Used, BlockMap, BlockObject, GCWorker
<1>6. CarvedOK'
  BY ConstantsAssumption DEF IInv, GCDelete, Remove, api, TypeApi, TypeMem,
                             WorkersOK, GuardOK, CarvedOK, Used, BlockMap,
                             BlockObject
<1>7. BitsCoverBlocks'
  BY ConstantsAssumption DEF IInv, GCDelete, Remove, api, TypeApi, TypeMem,
                             WorkersOK, BitsCoverBlocks, Used, BlockMap,
                             BlockObject
<1>8. StaleBitResynced'
  <2> DEFINE i == gc.cur
  <2>1. ASSUME NEW j \in Index, blk'[j] = None
        PROVE  blk[j] = None \/ gone'
    <3>1. CASE blk' = [blk EXCEPT ![i].del = TRUE] /\ blk[i] # None
      <4>1. blk \in BlockMap
        BY DEF IInv, TypeApi
      <4>2. i = j => [blk[i] EXCEPT !.del = TRUE] \in BlockObject
        BY <2>1, <3>1, <4>1 DEF BlockMap, BlockObject
      <4>3. i # j => blk'[j] = blk[j]
        BY <2>1, <3>1, <4>1 DEF BlockMap
      <4>4. i = j => blk'[j] = [blk[i] EXCEPT !.del = TRUE]
        BY <2>1, <3>1, <4>1 DEF BlockMap
      <4> QED
        BY <2>1, <4>2, <4>3, <4>4, ConstantsAssumption
    <3> QED
      BY <2>1, <3>1 DEF IInv, GCDelete, Remove, TypeApi, BlockMap
  <2>2. gone => gone'
    BY DEF GCDelete, Remove
  <2> QED
    BY <2>1, <2>2 DEF IInv, GCDelete, queues, StaleBitResynced
<1>9. TypeObs' /\ SpecsOK' /\ LifeOK'
  BY DEF IInv, GCDelete, api, caches, TypeObs, SpecsOK, LifeOK, Before
<1> QED
  BY <1>1, <1>2, <1>3, <1>4, <1>5, <1>6, <1>7, <1>8, <1>9 DEF IInv

\* A new leader has no bitset and no worker.
LEMMA GCFailsKeeps ==
  ASSUME IInv, GCFails
  PROVE  IInv'
<1>1. TypeCaches'
  BY ConstantsAssumption DEF IInv, GCFails, Restart, Pending, TypeCaches,
                             WorkersOK, TypeApi
<1>2. TypeMem'
  BY ConstantsAssumption DEF IInv, GCFails, Restart, brIdle, apIdle, gcIdle,
                             noPool, TypeMem, BRWorker, APWorker, PoolObject,
                             GCWorker, Used
<1>3. TypeObs'
  BY ConstantsAssumption DEF IInv, GCFails, MayFail, Restart, TypeObs
<1>4. WorkersOK'
  BY ConstantsAssumption DEF IInv, GCFails, Restart, brIdle, apIdle, gcIdle,
                             noPool, TypeMem, WorkersOK, BRWorker, APWorker,
                             PoolObject, GCWorker, Used
<1>5. SpecsOK'
  BY ConstantsAssumption DEF IInv, GCFails, MayFail, Restart, api, TypeApi,
                             TypeCaches, TypeObs, SpecsOK, PoolObject
<1>6. LifeOK'
  BY InSync DEF IInv, GCFails, Restart, api, apIdle, TypeApi, PoolObject, LifeOK,
     Before
<1>7. GuardOK'
  BY ConstantsAssumption DEF IInv, GCFails, Restart, api, brIdle, apIdle,
                             noPool, TypeApi, TypeCaches, TypeMem, WorkersOK,
                             LifeOK, Before, GuardOK, Removing, Used,
                             BRWorker, APWorker, PoolObject, GCWorker
<1>8. CarvedOK'
  BY ConstantsAssumption DEF IInv, GCFails, Restart, api, brIdle, TypeApi,
                             TypeMem, WorkersOK, GuardOK, CarvedOK, Used,
                             BRWorker
<1>9. BitsCoverBlocks'
  BY ConstantsAssumption DEF IInv, GCFails, MayFail, Restart, api, TypeApi,
                             TypeMem, WorkersOK, BitsCoverBlocks, Used
<1>10. StaleBitResynced'
  BY ConstantsAssumption DEF IInv, GCFails, Restart, api, apIdle, noPool,
                             TypeApi, TypeMem, WorkersOK, StaleBitResynced,
                             Used, APWorker, PoolObject
<1>11. TypeApi'
  BY DEF IInv, GCFails, api, TypeApi
<1> QED
  BY <1>1, <1>2, <1>3, <1>4, <1>5, <1>6, <1>7, <1>8, <1>9, <1>10,
     <1>11 DEF IInv

\* The same, although a Create call may still be carried out.
LEMMA CrashKeeps ==
  ASSUME IInv, Crash
  PROVE  IInv'
<1>1. TypeApi'
  BY NewBlockTyped DEF IInv, Crash, TypeApi
<1>2. TypeCaches'
  BY <1>1 DEF IInv, Crash, Restart, Pending, TypeApi, TypeCaches
<1>3. TypeMem'
  BY ConstantsAssumption DEF IInv, Crash, Restart, brIdle, apIdle, gcIdle,
                             noPool, TypeMem, BRWorker, APWorker, PoolObject,
                             GCWorker, Used
<1>4. TypeObs'
  BY ConstantsAssumption DEF IInv, Crash, MayFail, Restart, TypeObs
<1>5. WorkersOK'
  BY ConstantsAssumption DEF IInv, Crash, Restart, brIdle, apIdle, gcIdle,
                             noPool, TypeMem, WorkersOK, BRWorker, APWorker,
                             PoolObject, GCWorker, Used
<1>6. SpecsOK'
  BY ConstantsAssumption DEF IInv, Crash, MayFail, Restart, TypeApi,
                             TypeCaches, TypeObs, SpecsOK, PoolObject
<1>7. LifeOK'
  BY InSync DEF IInv, Crash, Restart, apIdle, TypeApi, PoolObject, LifeOK, Before
<1>8. GuardOK'
  BY ConstantsAssumption DEF IInv, Crash, newBlock, Restart, brIdle, apIdle,
                             noPool, TypeApi, TypeCaches, TypeMem, WorkersOK,
                             LifeOK, Before, GuardOK, Removing, Used,
                             BRWorker, BlockMap, BlockObject, APWorker,
                             PoolObject, GCWorker
<1>9. CarvedOK'
  BY ConstantsAssumption DEF IInv, Crash, newBlock, Restart, brIdle, TypeApi,
                             TypeMem, WorkersOK, GuardOK, CarvedOK, Used,
                             BRWorker, BlockMap, BlockObject
<1>10. BitsCoverBlocks'
  BY ConstantsAssumption DEF IInv, Crash, MayFail, newBlock, Restart, TypeApi,
                             TypeMem, WorkersOK, BitsCoverBlocks, Used,
                             BlockMap, BlockObject
<1>11. StaleBitResynced'
  BY ConstantsAssumption DEF IInv, Crash, newBlock, Restart, apIdle, noPool,
                             TypeApi, TypeMem, WorkersOK, StaleBitResynced,
                             Used, BlockMap, BlockObject, APWorker, PoolObject
<1> QED
  BY <1>1, <1>2, <1>3, <1>4, <1>5, <1>6, <1>7, <1>8, <1>9, <1>10,
     <1>11 DEF IInv

\* The cache catches up with the pool.
LEMMA ObservePoolKeeps ==
  ASSUME IInv, ObservePool
  PROVE  IInv'
<1>1. TypeCaches'
  BY ConstantsAssumption DEF IInv, ObservePool, TypeCaches, TypeApi
<1>2. SpecsOK'
  BY ConstantsAssumption DEF IInv, ObservePool, api, TypeApi, TypeCaches,
                             TypeObs, SpecsOK
<1>3. LifeOK'
  BY InSync DEF IInv, ObservePool, api, TypeApi, TypeCaches, TypeMem, APWorker,
     PoolObject, LifeOK, Before
<1>4. StaleBitResynced'
  BY ConstantsAssumption DEF IInv, ObservePool, api, TypeApi, TypeMem,
                             WorkersOK, StaleBitResynced, Used
<1>5. TypeApi' /\ TypeMem' /\ TypeObs' /\ WorkersOK' /\ GuardOK' /\
       CarvedOK' /\ BitsCoverBlocks'
  BY DEF IInv, ObservePool, api, TypeApi, TypeMem, TypeObs, WorkersOK,
         GuardOK, Removing, Used, CarvedOK, BitsCoverBlocks
<1> QED
  BY <1>1, <1>2, <1>3, <1>4, <1>5 DEF IInv

\* A deletion event becomes a queued resync.
LEMMA ObserveBlocksKeeps ==
  ASSUME IInv, ObserveBlocks
  PROVE  IInv'
<1>1. TypeCaches'
  BY ConstantsAssumption DEF IInv, ObserveBlocks, wakes, TypeCaches, TypeApi
<1>2. StaleBitResynced'
  BY ConstantsAssumption DEF IInv, ObserveBlocks, wakes, api, TypeApi,
                             TypeMem, WorkersOK, StaleBitResynced, Used
<1>3. TypeApi' /\ TypeMem' /\ TypeObs' /\ WorkersOK' /\ SpecsOK' /\
       LifeOK' /\ GuardOK' /\ CarvedOK' /\ BitsCoverBlocks'
  BY DEF IInv, ObserveBlocks, api, TypeApi, TypeMem, TypeObs, WorkersOK,
         SpecsOK, LifeOK, Before, GuardOK, Removing, Used, CarvedOK,
         BitsCoverBlocks
<1> QED
  BY <1>1, <1>2, <1>3 DEF IInv

\* Pending requests are queued.
LEMMA ObserveRequestsKeeps ==
  ASSUME IInv, ObserveRequests
  PROVE  IInv'
<1>1. TypeCaches'
  BY ConstantsAssumption DEF IInv, ObserveRequests, passes, Pending,
                             TypeCaches, TypeApi
<1>2. TypeApi' /\ TypeMem' /\ TypeObs' /\ WorkersOK' /\ SpecsOK' /\
       LifeOK' /\ GuardOK' /\ CarvedOK' /\ BitsCoverBlocks' /\
       StaleBitResynced'
  BY DEF IInv, ObserveRequests, api, TypeApi, TypeMem, TypeObs, WorkersOK,
         SpecsOK, LifeOK, Before, GuardOK, Removing, Used, CarvedOK,
         BitsCoverBlocks, StaleBitResynced
<1> QED
  BY <1>1, <1>2 DEF IInv

\* Requests of coild touch neither pool nor blocks.
LEMMA CreateRequestKeeps ==
  ASSUME IInv, NEW u \in Reqs, CreateRequest(u)
  PROVE  IInv'
<1>1. TypeApi'
  BY ConstantsAssumption DEF IInv, CreateRequest, api, TypeApi, RequestState
<1>2. TypeCaches' /\ TypeMem' /\ TypeObs' /\ WorkersOK' /\ SpecsOK' /\
       LifeOK' /\ GuardOK' /\ CarvedOK' /\ BitsCoverBlocks' /\
       StaleBitResynced'
  BY DEF IInv, CreateRequest, Internal, queues, api, caches, TypeCaches,
         TypeMem, TypeObs, WorkersOK, SpecsOK, LifeOK, Before, GuardOK,
         Removing, Used, CarvedOK, BitsCoverBlocks, StaleBitResynced
<1> QED
  BY <1>1, <1>2 DEF IInv

\* Nor does their deletion.
LEMMA DeleteRequestKeeps ==
  ASSUME IInv, NEW u \in Reqs, DeleteRequest(u)
  PROVE  IInv'
<1>1. TypeApi'
  BY ConstantsAssumption DEF IInv, DeleteRequest, api, TypeApi, RequestState
<1>2. TypeCaches' /\ TypeMem' /\ TypeObs' /\ WorkersOK' /\ SpecsOK' /\
       LifeOK' /\ GuardOK' /\ CarvedOK' /\ BitsCoverBlocks' /\
       StaleBitResynced'
  BY DEF IInv, DeleteRequest, Internal, queues, api, caches, TypeCaches,
         TypeMem, TypeObs, WorkersOK, SpecsOK, LifeOK, Before, GuardOK,
         Removing, Used, CarvedOK, BitsCoverBlocks, StaleBitResynced
<1> QED
  BY <1>1, <1>2 DEF IInv

\* A returned block leaves a stale bit and an event.
LEMMA ReturnBlockKeeps ==
  ASSUME IInv, NEW i \in Index, ReturnBlock(i)
  PROVE  IInv'
<1>1. TypeApi'
  BY ConstantsAssumption DEF IInv, ReturnBlock, Remove, api, TypeApi,
                             BlockMap, BlockObject
<1>2. TypeCaches'
  BY ConstantsAssumption DEF IInv, ReturnBlock, Remove, Internal, queues,
                             caches, TypeCaches
<1>3. GuardOK'
  BY ConstantsAssumption DEF IInv, ReturnBlock, Remove, Internal, api,
                             TypeApi, TypeCaches, TypeMem, WorkersOK, LifeOK,
                             Before, GuardOK, Removing, Used, BlockMap,
                             BlockObject
<1>4. CarvedOK'
  BY ConstantsAssumption DEF IInv, ReturnBlock, Remove, Internal, api,
                             TypeApi, TypeMem, WorkersOK, GuardOK, CarvedOK,
                             Used, BlockMap, BlockObject
<1>5. BitsCoverBlocks'
  BY ConstantsAssumption DEF IInv, ReturnBlock, Remove, Internal, api,
                             TypeApi, TypeMem, WorkersOK, BitsCoverBlocks,
                             Used, BlockMap, BlockObject
<1>6. StaleBitResynced'
  BY ConstantsAssumption DEF IInv, ReturnBlock, Remove, Internal, queues, api,
                             caches, TypeApi, TypeMem, WorkersOK,
                             StaleBitResynced, Used, BlockMap, BlockObject
<1>7. TypeMem' /\ TypeObs' /\ WorkersOK' /\ SpecsOK' /\ LifeOK'
  BY DEF IInv, ReturnBlock, Internal, api, caches, TypeMem, TypeObs,
         WorkersOK, SpecsOK, LifeOK, Before
<1> QED
  BY <1>1, <1>2, <1>3, <1>4, <1>5, <1>6, <1>7 DEF IInv

\* A pool that is made again has no blocks, and the cache still has the old one
\* under deletion or gone.
LEMMA CreatePoolKeeps ==
  ASSUME IInv, NEW spec \in Created, CreatePool(spec)
  PROVE  IInv'
<1>1. TypeApi'
  BY ConstantsAssumption DEF IInv, CreatePool, api, TypeApi, PoolObject,
                             Specs, TypeObs, SpecsOK, Fails, FailsLeaving,
                             MayFail
<1>2. TypeObs'
  BY ConstantsAssumption DEF IInv, CreatePool, Fails, Internal, FailsLeaving,
                             MayFail, TypeObs
<1>3. SpecsOK'
  BY ConstantsAssumption DEF IInv, CreatePool, Fails, Internal, FailsLeaving,
                             MayFail, api, caches, TypeApi, TypeCaches,
                             TypeObs, SpecsOK, PoolObject, Valid, Specs
<1>4. LifeOK'
  BY ConstantsAssumption DEF IInv, CreatePool, Internal, api, caches, TypeApi,
                             TypeCaches, TypeMem, WorkersOK, LifeOK, Before,
                             PoolObject
<1>5. GuardOK'
  BY ConstantsAssumption DEF IInv, CreatePool, Internal, api, TypeApi,
                             TypeCaches, TypeMem, WorkersOK, LifeOK, Before,
                             GuardOK, Removing, Used, PoolObject
<1>6. CarvedOK'
  BY ConstantsAssumption DEF IInv, CreatePool, Internal, api, TypeApi,
                             TypeMem, WorkersOK, GuardOK, CarvedOK, Used,
                             PoolObject
<1>7. BitsCoverBlocks'
  BY ConstantsAssumption DEF IInv, CreatePool, Fails, Internal, FailsLeaving,
                             MayFail, api, TypeApi, TypeMem, WorkersOK,
                             BitsCoverBlocks, Used
<1>8. TypeCaches' /\ TypeMem' /\ WorkersOK' /\ StaleBitResynced'
  BY DEF IInv, CreatePool, Internal, queues, api, caches, TypeCaches, TypeMem,
         WorkersOK, StaleBitResynced
<1> QED
  BY <1>1, <1>2, <1>3, <1>4, <1>5, <1>6, <1>7, <1>8 DEF IInv

\* Appended subnets do not change what an index means.
LEMMA UpdatePoolKeeps ==
  ASSUME IInv, NEW spec \in Updated, UpdatePool(spec)
  PROVE  IInv'
<1>a. /\ pool.spec \in Valid
      /\ spec \in Valid
      /\ Extends(spec, pool.spec)
  BY UpdateExtends DEF IInv, UpdatePool, SpecsOK, Specs
<1>b. pool' = [pool EXCEPT !.spec = spec] /\ pool.st # "absent"
  BY DEF UpdatePool
<1>1. TypeApi'
  BY ConstantsAssumption DEF IInv, UpdatePool, api, TypeApi, PoolObject,
                             Specs, TypeObs, SpecsOK
<1>2. SpecsOK'
  BY <1>a, <1>b DEF IInv, UpdatePool, Internal, SpecsOK, TypeApi, PoolObject
<1>3. LifeOK'
  <2>1. cpool.st # "absent" /\ cpool.gen = pool.gen => Extends(spec, cpool.spec)
    BY <1>a, <1>b, ExtendsTrans DEF IInv, SpecsOK, LifeOK
  <2> QED
    BY <1>b, <2>1 DEF IInv, UpdatePool, Internal, TypeApi, PoolObject, LifeOK, Before
<1>4. GuardOK'
  BY ConstantsAssumption DEF IInv, UpdatePool, Internal, api, TypeApi,
                             TypeCaches, TypeMem, WorkersOK, LifeOK, Before,
                             GuardOK, Removing, Used, PoolObject
<1>5. CarvedOK'
  <2>1. ASSUME NEW i \in Index, subnetsOf(pool.spec, i) # {}
        PROVE  subnetsOf(spec, i) # {} /\ carve(spec, i) = carve(pool.spec, i)
    <3>1. i \in Nat
      BY ConstantsAssumption DEF Index
    <3> QED
      BY <1>a, <2>1, <3>1, CarveKept
  <2>2. pool'.spec = spec
    BY <1>b DEF IInv, TypeApi, PoolObject
  <2> QED
    BY <2>1, <2>2 DEF IInv, UpdatePool, Internal, CarvedOK, Used, WorkersOK
<1>6. TypeCaches' /\ TypeMem' /\ TypeObs' /\ WorkersOK' /\
       BitsCoverBlocks' /\ StaleBitResynced'
  BY DEF IInv, UpdatePool, Internal, queues, api, caches, TypeCaches, TypeMem,
         TypeObs, WorkersOK, BitsCoverBlocks, Used, StaleBitResynced
<1> QED
  BY <1>1, <1>2, <1>3, <1>4, <1>5, <1>6 DEF IInv

\* Deletion only marks the pool.
LEMMA DeletePoolKeeps ==
  ASSUME IInv, DeletePool
  PROVE  IInv'
<1>1. TypeApi'
  BY ConstantsAssumption DEF IInv, DeletePool, api, TypeApi, PoolObject
<1>2. SpecsOK'
  BY ConstantsAssumption DEF IInv, DeletePool, Internal, api, caches, TypeApi,
                             TypeCaches, TypeObs, SpecsOK, PoolObject
<1>3. LifeOK'
  BY ConstantsAssumption DEF IInv, DeletePool, Internal, api, caches, TypeApi,
                             TypeCaches, TypeMem, WorkersOK, LifeOK, Before,
                             PoolObject
<1>4. GuardOK'
  BY ConstantsAssumption DEF IInv, DeletePool, Internal, api, TypeApi,
                             TypeCaches, TypeMem, WorkersOK, LifeOK, Before,
                             GuardOK, Removing, Used, PoolObject
<1>5. CarvedOK'
  BY ConstantsAssumption DEF IInv, DeletePool, Internal, api, TypeApi,
                             TypeMem, WorkersOK, GuardOK, CarvedOK, Used,
                             PoolObject
<1>6. TypeCaches' /\ TypeMem' /\ TypeObs' /\ WorkersOK' /\
       BitsCoverBlocks' /\ StaleBitResynced'
  BY DEF IInv, DeletePool, Internal, queues, api, caches, TypeCaches, TypeMem,
         TypeObs, WorkersOK, BitsCoverBlocks, Used, StaleBitResynced
<1> QED
  BY <1>1, <1>2, <1>3, <1>4, <1>5, <1>6 DEF IInv

\* Nodes are not looked at by the allocation.
LEMMA LeaveNodeKeeps ==
  ASSUME IInv, NEW n \in Nodes, LeaveNode(n)
  PROVE  IInv'
<1>1. TypeApi'
  BY ConstantsAssumption DEF IInv, LeaveNode, api, TypeApi
<1>2. TypeObs'
  BY ConstantsAssumption DEF IInv, LeaveNode, Fails, Internal, FailsLeaving,
                             MayFail, TypeObs
<1>3. SpecsOK'
  BY ConstantsAssumption DEF IInv, LeaveNode, Fails, Internal, FailsLeaving,
                             MayFail, api, caches, TypeApi, TypeCaches,
                             TypeObs, SpecsOK, PoolObject
<1>4. BitsCoverBlocks'
  BY ConstantsAssumption DEF IInv, LeaveNode, Fails, Internal, FailsLeaving,
                             MayFail, api, TypeApi, TypeMem, WorkersOK,
                             BitsCoverBlocks, Used
<1>5. TypeCaches' /\ TypeMem' /\ WorkersOK' /\ LifeOK' /\ GuardOK' /\
       CarvedOK' /\ StaleBitResynced'
  BY DEF IInv, LeaveNode, Internal, queues, api, caches, TypeCaches, TypeMem,
         WorkersOK, LifeOK, Before, GuardOK, Removing, Used, CarvedOK,
         StaleBitResynced
<1> QED
  BY <1>1, <1>2, <1>3, <1>4, <1>5 DEF IInv

\* The same.
LEMMA RejoinNodeKeeps ==
  ASSUME IInv, NEW n \in Nodes, RejoinNode(n)
  PROVE  IInv'
<1>1. TypeApi'
  BY ConstantsAssumption DEF IInv, RejoinNode, api, TypeApi
<1>2. TypeCaches' /\ TypeMem' /\ TypeObs' /\ WorkersOK' /\ SpecsOK' /\
       LifeOK' /\ GuardOK' /\ CarvedOK' /\ BitsCoverBlocks' /\
       StaleBitResynced'
  BY DEF IInv, RejoinNode, Internal, queues, api, caches, TypeCaches, TypeMem,
         TypeObs, WorkersOK, SpecsOK, LifeOK, Before, GuardOK, Removing, Used,
         CarvedOK, BitsCoverBlocks, StaleBitResynced
<1> QED
  BY <1>1, <1>2 DEF IInv


-----------------------------------------------------------------------------
(* The theorems *)

\* A controller that starts with a new pool and no blocks.
LEMMA InitIInv == Init => IInv
<1> SUFFICES ASSUME Init PROVE IInv
  OBVIOUS
<1>1. PICK spec \in Created :
         validate(spec) /\ pool = [gen |-> 1, st |-> "live", spec |-> spec]
  BY DEF Init
<1>2. spec \in Valid
  BY <1>1 DEF Valid, Specs
<1>3. TypeApi
  BY <1>1, ConstantsAssumption DEF Init, TypeApi, PoolObject, BlockMap,
     RequestState, Specs
<1>4. TypeCaches
  BY <1>3 DEF Init, TypeCaches, TypeApi
<1>5. TypeMem /\ TypeObs
  <2>1. [count |-> 0, left |-> {}] \in
           [count: 0 .. MaxFaults, left: SUBSET {"bits", "request"}]
    BY ConstantsAssumption
  <2> QED
    BY <2>1, IdleTyped DEF Init, TypeMem, TypeObs
<1>6. WorkersOK
  BY DEF Init, WorkersOK, brIdle, apIdle, gcIdle
<1>7. SpecsOK
  BY <1>1, <1>2 DEF Init, SpecsOK
<1>8. LifeOK
  BY <1>3, <1>7, InSync DEF Init, LifeOK, apIdle, TypeApi, PoolObject
<1>9. GuardOK /\ CarvedOK /\ BitsCoverBlocks /\ StaleBitResynced
  BY <1>1 DEF Init, GuardOK, Removing, CarvedOK, BitsCoverBlocks, StaleBitResynced,
     Used, brIdle, apIdle
<1> QED
  BY <1>3, <1>4, <1>5, <1>6, <1>7, <1>8, <1>9 DEF IInv

\* Every step of the reconcilers, the collector, the informers and the cluster
\* keeps the invariant.
LEMMA NextIInv == IInv /\ [Next]_vars => IInv'
<1> SUFFICES ASSUME IInv, [Next]_vars PROVE IInv'
  OBVIOUS
<1>1. CASE BRStep
  BY <1>1, BRStartKeeps, BRListFailsKeeps, BRGetPoolKeeps, BRGetPoolFailsKeeps,
     BRAllocateKeeps, BRAllocateFailsKeeps, BRCreateKeeps, BRCreateFailsKeeps,
     BRStatusKeeps, BRStatusFailsKeeps DEF BRStep
<1>2. CASE APStep
  BY <1>2, APStartKeeps, APDropPoolKeeps, APGetPoolKeeps, APGetPoolFailsKeeps,
     APSyncBlocksKeeps, APSyncFailsKeeps, APIsUsedKeeps, APIsUsedFailsKeeps,
     APRemoveFinalizerKeeps, APRemoveFinalizerFailsKeeps DEF APStep
<1>3. CASE GCStep
  BY <1>3, GCListKeeps, GCNodesKeeps, GCDeleteKeeps, GCFailsKeeps,
     GCRemoveFinalizerKeeps DEF GCStep
<1>4. CASE Informer
  BY <1>4, ObservePoolKeeps, ObserveBlocksKeeps, ObserveRequestsKeeps DEF Informer
<1>5. CASE Environment
  BY <1>5, CrashKeeps, DeletePoolKeeps, CreatePoolKeeps, UpdatePoolKeeps,
     CreateRequestKeeps, DeleteRequestKeeps, ReturnBlockKeeps, LeaveNodeKeeps,
     RejoinNodeKeeps DEF Environment
<1>6. CASE UNCHANGED vars
  <2>1. TypeApi' /\ TypeCaches' /\ TypeMem' /\ TypeObs'
    BY <1>6 DEF IInv, vars, api, caches, queues, TypeApi, TypeCaches, TypeMem, TypeObs
  <2>2. WorkersOK' /\ SpecsOK' /\ LifeOK'
    BY <1>6 DEF IInv, vars, api, caches, WorkersOK, SpecsOK, LifeOK, Before
  <2>3. GuardOK' /\ CarvedOK' /\ BitsCoverBlocks' /\ StaleBitResynced'
    BY <1>6 DEF IInv, vars, api, caches, queues, GuardOK, Removing, CarvedOK,
       BitsCoverBlocks, StaleBitResynced, Used
  <2> QED
    BY <2>1, <2>2, <2>3 DEF IInv
<1> QED
  BY <1>1, <1>2, <1>3, <1>4, <1>5, <1>6 DEF Next

\* The invariant holds of pool.go and the two reconcilers.
THEOREM Invariance == Spec => []IInv
BY InitIInv, NextIInv, PTL DEF Spec

\* The variables of coil-ipam-controller keep their types: in particular
\* AllocateBlock never asks for a block outside the subnets of the pool, whatever
\* the caches have missed.
THEOREM TypeCorrect == Spec => []TypeOK
<1>1. IInv => TypeOK
  BY DEF IInv, TypeApi, TypeCaches, TypeMem, TypeObs, TypeOK
<1> QED
  BY <1>1, Invariance, PTL

\* The finalizer of an AddressPool is removed only when none of its blocks is
\* left, and no block is created afterwards.
THEOREM PoolGuarded == Spec => []PoolGuard
<1>1. IInv => PoolGuard
  BY DEF IInv, GuardOK, PoolGuard
<1> QED
  BY <1>1, Invariance, PTL

\* The bitset, the guard of the pool and the wake-up by deleted blocks together,
\* for any nodes, requests and faults.
THEOREM PoolIsSafe == Spec => []PoolSafe
<1>1. IInv => PoolSafe
  BY DEF IInv, GuardOK, PoolGuard, PoolSafe
<1> QED
  BY <1>1, Invariance, PTL

\* The bitset of pool.go never takes an existing block for free.
THEOREM BitsCover == Spec => []BitsCoverBlocks
<1>1. IInv => BitsCoverBlocks
  BY DEF IInv
<1> QED
  BY <1>1, Invariance, PTL

\* SyncBlocks is on its way as long as the bit of a returned block is set.
THEOREM StaleBits == Spec => []StaleBitResynced
<1>1. IInv => StaleBitResynced
  BY DEF IInv
<1> QED
  BY <1>1, Invariance, PTL

\* If users keep the subnets of a pool apart, blocks have addresses of the pool
\* as it is now and share none.
THEOREM CarvedFromPool ==
  ASSUME \A spec \in Valid : Disjoint(spec)
  PROVE  Spec => []BlocksCarved
<1>1. IInv => BlocksCarved
  <2> SUFFICES ASSUME IInv, ~dropped PROVE BlocksCarved
    BY DEF BlocksCarved
  <2> SUFFICES ASSUME NEW i \in Used
               PROVE  /\ \E k \in DOMAIN pool.spec.subnets :
                            Inside(blk[i].nets, pool.spec.subnets[k])
                      /\ \A j \in Used \ {i} : ~Overlap(blk[i].nets, blk[j].nets)
    BY DEF BlocksCarved
  <2>1. pool.spec \in Valid
    BY DEF IInv, GuardOK, SpecsOK
  <2>2. \A j \in Used : /\ j \in Nat
                        /\ subnetsOf(pool.spec, j) # {}
                        /\ blk[j].nets = carve(pool.spec, j)
    BY ConstantsAssumption DEF IInv, CarvedOK, Used, Index
  <2>3. Source(pool.spec, i) \in DOMAIN pool.spec.subnets
    BY <2>1, <2>2, SourceTyped
  <2>4. Inside(blk[i].nets, pool.spec.subnets[Source(pool.spec, i)])
    BY <2>1, <2>2, CarveInside
  <2>5. \A j \in Used \ {i} : ~Overlap(blk[i].nets, blk[j].nets)
    BY <2>1, <2>2, CarveDisjoint
  <2> QED
    BY <2>3, <2>4, <2>5
<1> QED
  BY <1>1, Invariance, PTL

\* Only AllocateBlock turns a request down.
LEMMA OnlyAllocateRefuses ==
  ASSUME IInv, [Next]_vars, br.pc # "refuse", br'.pc = "refuse"
  PROVE  BRAllocate
<1>1. br' # br
  OBVIOUS
<1>2. br \in BRWorker /\ brIdle \in BRWorker
  BY IdleTyped DEF IInv, TypeMem
<1>3. ~ UNCHANGED vars /\ ~ Informer /\ (~ GCStep \/ GCFails)
  BY <1>1 DEF vars, Informer, GCStep, ObservePool, ObserveBlocks, ObserveRequests,
     GCList, GCNodes, GCDelete, GCRemoveFinalizer
<1>4. ~ GCFails
  BY DEF GCFails, Restart, brIdle
<1>5. ~ Environment
  BY <1>1 DEF Environment, Crash, Restart, brIdle, DeletePool, CreatePool,
     UpdatePool, CreateRequest, DeleteRequest, ReturnBlock, LeaveNode,
     RejoinNode, Internal
<1>6. ~ APDropPool
  BY <1>1, <1>2 DEF APDropPool, BRWorker
<1>7. ~ APStep
  BY <1>1, <1>6 DEF APStep, APStart, APGetPool, APGetPoolFails, APSyncBlocks,
     APSyncFails, APIsUsed, APIsUsedFails, APRemoveFinalizer,
     APRemoveFinalizerFails
<1>8. \A u \in Reqs : ~ BRStart(u) /\ ~ BRListFails(u)
  BY <1>1 DEF BRStart, BRListFails, brIdle
<1>9. ~ BRGetPool /\ ~ BRCreate
  BY <1>2 DEF BRGetPool, BRCreate, brIdle, BRWorker
<1>10. ~ BRGetPoolFails /\ ~ BRAllocateFails /\ ~ BRCreateFails /\ ~ BRStatus
       /\ ~ BRStatusFails
  BY DEF BRGetPoolFails, BRAllocateFails, BRCreateFails, BRStatus, BRStatusFails,
     RequeueBR, brIdle
<1> QED
  BY <1>3, <1>4, <1>5, <1>7, <1>8, <1>9, <1>10 DEF Next, BRStep

\* AllocateBlock answers ErrNoBlock only if the pool it sees is under deletion
\* or full, up to the overflow of uint: no index that is free and inside the
\* subnets is overlooked.
THEOREM RefusedWhenFull == Spec => NoBlockMeansFull
<1> DEFINE Full == br.pc # "refuse" /\ br'.pc = "refuse" =>
                      \/ cpool.st = "deleting"
                      \/ Room(cpool.spec) >= 2^UintBits
                      \/ Cardinality(ownBits) >= Room(cpool.spec)
<1>1. IInv /\ [Next]_vars => [Full]_vars
  <2> SUFFICES ASSUME IInv, [Next]_vars, br.pc # "refuse", br'.pc = "refuse",
                      cpool.st # "deleting", ~ (Room(cpool.spec) >= 2^UintBits)
               PROVE  Cardinality(ownBits) >= Room(cpool.spec)
    OBVIOUS
  <2> DEFINE next == NextClear(ownBits)
             spec == cpool.spec
  <2>1. BRAllocate
    BY OnlyAllocateRefuses
  <2>2. spec \in Valid
    BY <2>1 DEF IInv, BRAllocate, SpecsOK
  <2>3. ownBits \in SUBSET Index
    BY <2>1 DEF IInv, BRAllocate, ownBits, TypeMem, BRWorker, WorkersOK
  <2>4. subnetsOf(spec, next) = {}
    BY <2>1 DEF IInv, BRAllocate, TypeMem, BRWorker
  <2>5. next \in Nat /\ Cardinality(ownBits) \in Nat /\ next <= Cardinality(ownBits)
    BY <2>3, BitsBelowNextClear
  <2>6. Room(spec) \in Nat
    BY <2>2, RoomSums, ValidTyped
  <2>7. Room(spec) < 2^UintBits
    BY <2>6, ConstantsAssumption
  <2>8. Room(spec) <= next
    BY <2>2, <2>4, <2>5, <2>7, BeyondRoom
  <2> QED
    BY <2>5, <2>6, <2>8
<1> QED
  BY <1>1, Invariance, PTL DEF Spec, NoBlockMeansFull

=============================================================================
