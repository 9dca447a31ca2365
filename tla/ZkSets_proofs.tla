--------------------------- MODULE ZkSets_proofs ----------------------------
(***************************************************************************)
(* What TLAPS proves about ZkSets, for every width of a block, limb and    *)
(* field, and every call: the types (TypeCorrect), and, where the last     *)
(* block of a wide element has bits, that the answers of equal and         *)
(* disjoint are exact (AnswersCorrect), that no false subset or union is   *)
(* accepted (SubsetsAndUnionsTrue), that intersection accepts exactly the  *)
(* common parts of its tables (CommonPartsAccepted), and that no true      *)
(* statement of the three is refused (ProofsComplete).                     *)
(* First come the tools: powers of two, compression one to one, counting   *)
(* the places of a value, sorting and merging; then one lemma per action;  *)
(* last the renaming that takes the tables as compressed back to the call. *)
(***************************************************************************)
EXTENDS ZkSets, Iteration

-----------------------------------------------------------------------------
(* Powers of two, quotients and remainders.                                *)

LEMMA Pow2Facts ==
  /\ Pow2[0] = 1
  /\ \A n \in Nat : Pow2[n] \in Nat \ {0} /\ Pow2[n + 1] = 2 * Pow2[n]
<1> DEFINE Double == [x \in Nat |-> 2 * x]
           Rule(f) == [n \in Nat |-> IF n = 0 THEN 1 ELSE 2 * f[n - 1]]
<1>1. PICK f \in [Nat -> Nat] : f[0] = 1 /\ \A n \in Nat : f[n + 1] = 2 * f[n]
  <2>1. Double \in [Nat -> Nat] /\ 1 \in Nat
    OBVIOUS
  <2>2. \A x \in Nat : Double[x] = 2 * x
    OBVIOUS
  <2> HIDE DEF Double
  <2>3. PICK f : IsIteration(f, Nat, Double, 1)
    BY <2>1, Iterates
  <2>4. f \in [Nat -> Nat] /\ f[0] = 1 /\ \A n \in Nat : f[n + 1] = 2 * f[n]
    BY <2>2, <2>3 DEF IsIteration
  <2> QED
    BY <2>4
<1>2. f = Rule(f)
  <2>1. ASSUME NEW n \in Nat PROVE f[n] = Rule(f)[n]
    <3>1. CASE n = 0
      BY <1>1, <3>1
    <3>2. CASE n # 0
      <4>1. n - 1 \in Nat /\ (n - 1) + 1 = n
        BY <3>2
      <4> QED
        BY <1>1, <3>2, <4>1
    <3> QED
      BY <3>1, <3>2
  <2>2. f = [n \in Nat |-> f[n]] /\ Rule(f) = [n \in Nat |-> Rule(f)[n]]
    BY <1>1
  <2> HIDE DEF Rule
  <2> QED
    BY <2>1, <2>2
<1>3. Pow2 = Rule(Pow2)
  <2>1. Pow2 = CHOOSE g : g = Rule(g)
    BY DEF Pow2
  <2> HIDE DEF Rule
  <2> QED
    BY <1>2, <2>1
<1>4. Pow2[0] = 1
  BY <1>3
<1>5. ASSUME NEW n \in Nat PROVE Pow2[n + 1] = 2 * Pow2[n]
  <2>1. n + 1 \in Nat /\ n + 1 # 0 /\ (n + 1) - 1 = n
    OBVIOUS
  <2>2. Rule(Pow2)[n + 1] = 2 * Pow2[n]
    BY <2>1
  <2> HIDE DEF Rule
  <2> QED
    BY <1>3, <2>2
<1> DEFINE Good == { n \in Nat : Pow2[n] \in Nat \ {0} }
<1>6. Nat \subseteq Good
  <2>1. 0 \in Good
    BY <1>4
  <2>2. \A n \in Nat : n \in Good => n + 1 \in Good
    BY <1>5
  <2> HIDE DEF Good
  <2> QED
    BY <2>1, <2>2, NatSetInduction
<1> QED
  BY <1>4, <1>5, <1>6

LEMMA Pow2Sum ==
  ASSUME NEW m \in Nat, NEW n \in Nat
  PROVE  Pow2[m + n] = Pow2[m] * Pow2[n]
<1> DEFINE Good == { k \in Nat : Pow2[m + k] = Pow2[m] * Pow2[k] }
<1>1. 0 \in Good
  BY Pow2Facts
<1>2. ASSUME NEW k \in Nat, k \in Good PROVE k + 1 \in Good
  <2>1. m + k \in Nat /\ m + (k + 1) = (m + k) + 1
    OBVIOUS
  <2>2. /\ Pow2[(m + k) + 1] = 2 * Pow2[m + k] /\ Pow2[k + 1] = 2 * Pow2[k]
        /\ Pow2[m] \in Nat /\ Pow2[k] \in Nat
    BY <2>1, Pow2Facts
  <2> QED
    BY <1>2, <2>1, <2>2
<1> HIDE DEF Good
<1>3. Nat \subseteq Good
  BY <1>1, <1>2, NatSetInduction
<1> QED
  BY <1>3 DEF Good

LEMMA DivMod ==
  ASSUME NEW a \in Nat, NEW b \in Nat \ {0}
  PROVE  a \div b \in Nat /\ a % b \in 0 .. b - 1 /\ a = b * (a \div b) + (a % b)
OBVIOUS

LEMMA DivModOnce ==
  ASSUME NEW q \in Nat, NEW b \in Nat \ {0}, NEW r \in 0 .. b - 1
  PROVE  (b * q + r) \div b = q /\ (b * q + r) % b = r
<1> DEFINE a == b * q + r
<1>1. a \in Nat
  OBVIOUS
<1>2. a \div b \in Nat /\ a % b \in 0 .. b - 1 /\ a = b * (a \div b) + (a % b)
  BY <1>1, DivMod
<1> QED
  BY <1>2

LEMMA DivDiv ==
  ASSUME NEW a \in Nat, NEW b \in Nat \ {0}, NEW c \in Nat \ {0}
  PROVE  (a \div b) \div c = a \div (b * c)
<1> DEFINE q == a \div b
           r == a % b
           p == q \div c
           s == q % c
<1>1. q \in Nat /\ r \in 0 .. b - 1 /\ a = b * q + r
  BY DivMod
<1> HIDE DEF q, r
<1>2. p \in Nat /\ s \in 0 .. c - 1 /\ q = c * p + s
  BY <1>1, DivMod
<1> HIDE DEF p, s
<1>3. b * s \in 0 .. b * (c - 1) /\ b * (c - 1) = b * c - b /\ b * c \in Nat \ {0}
  BY <1>2
<1>4. b * s + r \in 0 .. (b * c) - 1
  BY <1>1, <1>3
<1>5. a = (b * c) * p + (b * s + r)
  <2>1. b * (c * p + s) = (b * c) * p + b * s
    BY <1>2
  <2> QED
    BY <1>1, <1>2, <1>3, <2>1
<1>6. a \div (b * c) = p
  BY <1>2, <1>3, <1>4, <1>5, DivModOnce
<1> QED
  BY <1>6 DEF p, q

-----------------------------------------------------------------------------
(* Counting elements.                                                      *)

Count(s, v) == Cardinality(PlacesOf(s, v))

LEMMA CountFacts ==
  ASSUME NEW S, NEW s \in Seq(S), NEW v
  PROVE  Count(s, v) \in Nat /\ (Count(s, v) = 0 <=> v \notin ToSet(s))
<1>1. PlacesOf(s, v) = {} <=> v \notin ToSet(s)
  BY DEF PlacesOf, ToSet
<1> QED
  BY <1>1, PlacesOfFinite DEF Count

(* Tables are equal as multisets when every value occurs as often.         *)
LEMMA BagsEqual ==
  ASSUME NEW S, NEW s \in Seq(S), NEW T, NEW t \in Seq(T)
  PROVE  ToBag(s) = ToBag(t) <=> \A v : Count(s, v) = Count(t, v)
<1>1. /\ Range(s) = ToSet(s) /\ Range(t) = ToSet(t)
      /\ ToBag(s) = [v \in ToSet(s) |-> Count(s, v)]
      /\ ToBag(t) = [v \in ToSet(t) |-> Count(t, v)]
  BY DEF ToBag, Range, ToSet, Count, PlacesOf
<1>2. \A v : /\ Count(s, v) = 0 <=> v \notin ToSet(s)
             /\ Count(t, v) = 0 <=> v \notin ToSet(t)
  BY CountFacts
<1>3. ASSUME ToBag(s) = ToBag(t), NEW v PROVE Count(s, v) = Count(t, v)
  <2>1. ToSet(s) = ToSet(t)
    BY <1>1, <1>3
  <2>2. CASE v \in ToSet(s)
    BY <1>1, <1>3, <2>1, <2>2
  <2>3. CASE v \notin ToSet(s)
    BY <1>2, <2>1, <2>3
  <2> QED
    BY <2>2, <2>3
<1>4. ASSUME \A v : Count(s, v) = Count(t, v) PROVE ToBag(s) = ToBag(t)
  <2>1. ToSet(s) = ToSet(t)
    BY <1>2, <1>4
  <2> QED
    BY <1>1, <1>4, <2>1
<1> QED
  BY <1>3, <1>4

LEMMA CountConcat ==
  ASSUME NEW S, NEW s \in Seq(S), NEW t \in Seq(S), NEW v
  PROVE  Count(s \o t, v) = Count(s, v) + Count(t, v)
BY PlacesOfConcat DEF Count

LEMMA ToSetConcat ==
  ASSUME NEW S, NEW s \in Seq(S), NEW t \in Seq(S)
  PROVE  s \o t \in Seq(S) /\ ToSet(s \o t) = ToSet(s) \cup ToSet(t)
<1>1. s \o t \in Seq(S)
  OBVIOUS
<1>2. ASSUME NEW v PROVE v \in ToSet(s \o t) <=> v \in ToSet(s) \cup ToSet(t)
  <2>1. /\ Count(s, v) \in Nat /\ (Count(s, v) = 0 <=> v \notin ToSet(s))
        /\ Count(t, v) \in Nat /\ (Count(t, v) = 0 <=> v \notin ToSet(t))
        /\ Count(s \o t, v) = 0 <=> v \notin ToSet(s \o t)
    BY <1>1, CountFacts
  <2>2. Count(s \o t, v) = Count(s, v) + Count(t, v)
    BY CountConcat
  <2> QED
    BY <2>1, <2>2
<1> QED
  BY <1>1, <1>2

LEMMA CountPermuted ==
  ASSUME NEW S, NEW s \in Seq(S), NEW p \in Bijection(DOMAIN s, DOMAIN s), NEW v
  PROVE  Count([n \in DOMAIN s |-> s[p[n]]], v) = Count(s, v)
BY PlacesOfPermuted DEF Count

(* Without repetitions.                                                    *)
LEMMA UniqueCount ==
  ASSUME NEW S, NEW s \in Seq(S), Unique(s), NEW v
  PROVE  Count(s, v) = IF v \in ToSet(s) THEN 1 ELSE 0
<1>1. CASE v \notin ToSet(s)
  BY <1>1, CountFacts
<1>2. CASE v \in ToSet(s)
  <2>1. PICK n \in DOMAIN s : s[n] = v
    BY <1>2 DEF ToSet
  <2>2. PlacesOf(s, v) = {n}
    BY <2>1 DEF PlacesOf, Unique, IsInjective
  <2> QED
    BY <1>2, <2>2, FS_Singleton DEF Count
<1> QED
  BY <1>1, <1>2

(* As many positions are picked as values.                                 *)
LEMMA UniquePicked ==
  ASSUME NEW S, NEW s \in Seq(S), Unique(s), NEW U \in SUBSET DOMAIN s
  PROVE  /\ IsFiniteSet({ s[n] : n \in U })
         /\ Cardinality({ s[n] : n \in U }) = Cardinality(U)
<1> DEFINE V == { s[n] : n \in U }
           f == [n \in U |-> s[n]]
<1>1. IsFiniteSet(U)
  BY DomainFinite, FS_Subset
<1>2. /\ f \in [U -> V] /\ \A m, n \in U : f[m] = f[n] => m = n
      /\ \A y \in V : \E n \in U : f[n] = y
  BY DEF Unique, IsInjective
<1> HIDE DEF f, V
<1>3. IsFiniteSet(V) /\ Cardinality(V) = Cardinality(U)
  BY <1>1, <1>2, SameSize
<1> QED
  BY <1>3 DEF V

LEMMA UniqueLength ==
  ASSUME NEW S, NEW s \in Seq(S), Unique(s)
  PROVE  IsFiniteSet(ToSet(s)) /\ Cardinality(ToSet(s)) = Len(s)
<1>1. DOMAIN s \in SUBSET DOMAIN s /\ Cardinality(DOMAIN s) = Len(s)
  BY DomainFinite
<1>2. ToSet(s) = { s[n] : n \in DOMAIN s }
  BY DEF ToSet
<1>3. /\ IsFiniteSet({ s[n] : n \in DOMAIN s })
      /\ Cardinality({ s[n] : n \in DOMAIN s }) = Cardinality(DOMAIN s)
  BY <1>1, UniquePicked
<1> QED
  BY <1>1, <1>2, <1>3

LEMMA FillFacts ==
  ASSUME NEW S, NEW n \in Nat, NEW x \in S, NEW v
  PROVE  /\ Fill(n, x) \in Seq(S) /\ Len(Fill(n, x)) = n
         /\ Count(Fill(n, x), v) = IF v = x THEN n ELSE 0
<1>1. /\ Fill(n, x) \in Seq(S) /\ Len(Fill(n, x)) = n /\ DOMAIN Fill(n, x) = 1 .. n
      /\ \A k \in 1 .. n : Fill(n, x)[k] = x
  BY DEF Fill
<1>2. Cardinality(1 .. n) = n /\ Cardinality({}) = 0
  BY FS_Interval, FS_EmptySet
<1>3. PlacesOf(Fill(n, x), v) = IF v = x THEN 1 .. n ELSE {}
  BY <1>1 DEF PlacesOf
<1> QED
  BY <1>1, <1>2, <1>3 DEF Count

-----------------------------------------------------------------------------
(* Packing and hashing.                                                    *)

LEMMA WidthFacts ==
  /\ TagBits \in Nat \ {0} /\ HalfBits \in Nat \ {0} /\ BlockBits \in Nat \ {0}
  /\ BlockBits = 2 * HalfBits /\ HalfBits > TagBits
  /\ FieldSize \in Nat \ {0} /\ FieldSize <= Pow2[BlockBits]
  /\ \A c \in Coefficients : c \in Nat
<1>1. BlockBits \in Nat
  BY WidthsAssumption
<1>2. Pow2[BlockBits] \in Nat
  BY <1>1, Pow2Facts
<1> QED
  BY <1>2, WidthsAssumption

LEMMA BlockFacts ==
  ASSUME NEW width \in Nat \ {0}
  PROVE  /\ Blocks(width) \in Nat \ {0}
         /\ width % BlockBits \in 0 .. BlockBits - 1
         /\ width = BlockBits * (width \div BlockBits) + (width % BlockBits)
         /\ width % BlockBits # 0 => Blocks(width) = (width \div BlockBits) + 1
         /\ \A b : BitsOf(width, b) \in Nat
<1> DEFINE q == width \div BlockBits
           r == width % BlockBits
<1>1. BlockBits \in Nat \ {0}
  BY WidthFacts
<1>2. q \in Nat /\ r \in 0 .. BlockBits - 1 /\ width = BlockBits * q + r
  BY <1>1, DivMod
<1>3. \A b : BitsOf(width, b) \in Nat
  BY <1>1, <1>2 DEF BitsOf
<1> HIDE DEF q, r
<1>4. CASE r # 0
  <2>1. width + BlockBits - 1 = BlockBits * (q + 1) + (r - 1)
    BY <1>1, <1>2
  <2>2. Blocks(width) = q + 1
    BY <1>1, <1>2, <1>4, <2>1, DivModOnce DEF Blocks
  <2> QED
    BY <1>2, <1>3, <2>2 DEF q, r
<1>5. CASE r = 0
  <2>1. width + BlockBits - 1 = BlockBits * q + (BlockBits - 1)
    BY <1>1, <1>2, <1>5
  <2>2. Blocks(width) = q
    BY <1>1, <1>2, <2>1, DivModOnce DEF Blocks
  <2>3. q # 0
    BY <1>1, <1>2, <1>5
  <2> QED
    BY <1>2, <1>3, <1>5, <2>2, <2>3 DEF q, r
<1> QED
  BY <1>4, <1>5

LEMMA PackFacts ==
  ASSUME NEW v \in Nat, NEW width \in Nat \ {0}
  PROVE  LET packed == packRevealBitBlockExt(v, width)
         IN  /\ packed \in Seq(Nat) /\ Len(packed) = Blocks(width)
             /\ v = 0 => \A b \in 1 .. Len(packed) : packed[b] = 0
<1> DEFINE packed == packRevealBitBlockExt(v, width)
           N == 1 .. Blocks(width)
<1>1. Blocks(width) \in Nat \ {0} /\ BlockBits \in Nat \ {0}
  BY BlockFacts, WidthFacts
<1>2. ASSUME NEW b \in N
      PROVE  /\ packed[b] \in Nat
             /\ v = 0 => packed[b] = 0
  <2>1. BlockBits * (b - 1) \in Nat /\ BitsOf(width, b) \in Nat
    BY <1>1, BlockFacts
  <2> DEFINE p == Pow2[BlockBits * (b - 1)]
             s == Pow2[BitsOf(width, b)]
  <2>2. p \in Nat \ {0} /\ s \in Nat \ {0}
    BY <2>1, Pow2Facts
  <2>3. packed[b] = (v \div p) % s
    BY DEF packRevealBitBlockExt, packRevealBitBlock
  <2> HIDE DEF p, s, packed
  <2>4. v \div p \in Nat
    BY <2>2, DivMod
  <2>5. (v \div p) % s \in 0 .. s - 1
    BY <2>2, <2>4, DivMod
  <2>6. v = 0 => (v \div p) % s = 0
    BY <2>2
  <2> QED
    BY <2>2, <2>3, <2>5, <2>6
<1>3. packed = [b \in N |-> packed[b]]
  BY DEF packRevealBitBlockExt
<1> HIDE DEF packed
<1>4. packed \in Seq(Nat) /\ Len(packed) = Blocks(width)
  BY <1>1, <1>2, <1>3
<1> QED
  BY <1>2, <1>4 DEF packed

(* The hash is in the field, and that of zeros is zero.                    *)
LEMMA HashFacts ==
  ASSUME NEW blocks \in Seq(Nat), Len(blocks) # 0,
         NEW c \in [1 .. Len(blocks) -> Coefficients]
  PROVE  /\ uni_hash(blocks, c) \in 0 .. FieldSize - 1
         /\ (\A b \in 1 .. Len(blocks) : blocks[b] = 0) => uni_hash(blocks, c) = 0
<1> DEFINE n == Len(blocks)
           State == 0 .. FieldSize - 1
           term(b) == blocks[b] * c[b]
           G == [s \in Nat \X State |->
                  IF s[1] \in 1 .. n THEN (s[2] + term(s[1])) % FieldSize ELSE 0]
           Loop(f) == [b \in 0 .. n |->
                        IF b = 0 THEN 0 ELSE (f[b - 1] + term(b)) % FieldSize]
           sum == CHOOSE f : f = Loop(f)
<1>1. n \in Nat \ {0} /\ FieldSize \in Nat \ {0} /\ 0 \in State
  BY WidthFacts
<1>2. ASSUME NEW b \in 1 .. n
      PROVE  /\ term(b) \in Nat
             /\ blocks[b] = 0 => term(b) = 0
  <2>1. blocks[b] \in Nat /\ c[b] \in Coefficients
    OBVIOUS
  <2>2. c[b] \in Nat
    BY <2>1, WidthFacts
  <2> QED
    BY <2>1, <2>2
<1>3. uni_hash(blocks, c) = sum[n]
  BY DEF uni_hash
<1> HIDE DEF n, term
<1>4. sum = Loop(sum)
  <2>1. G \in [Nat \X State -> State]
    <3> SUFFICES ASSUME NEW k \in Nat, NEW s \in State
        PROVE  (IF k \in 1 .. n THEN (s + term(k)) % FieldSize ELSE 0) \in State
      OBVIOUS
    <3>1. CASE k \in 1 .. n
      <4>1. s + term(k) \in Nat
        BY <1>1, <1>2, <3>1
      <4> QED
        BY <1>1, <3>1, <4>1, DivMod
    <3> QED
      BY <1>1, <3>1
  <2>2. PICK f \in [0 .. n -> State] :
          f[0] = 0 /\ \A b \in 1 .. n : f[b] = G[<<b, f[b - 1]>>]
    <3> HIDE DEF G, State, Loop
    <3>1. PICK f : IsRecursion(f, State, G, 0, n)
      BY <1>1, <2>1, Recursion
    <3> QED
      BY <3>1 DEF IsRecursion
  <2>3. ASSUME NEW b \in 1 .. n PROVE f[b] = Loop(f)[b]
    <3>1. b - 1 \in 0 .. n /\ b \in Nat /\ b # 0 /\ b \in 0 .. n
      BY <1>1
    <3>2. <<b, f[b - 1]>> \in Nat \X State
      BY <2>2, <3>1
    <3>3. f[b] = G[<<b, f[b - 1]>>]
      BY <2>2
    <3> QED
      BY <3>1, <3>2, <3>3
  <2>4. f[0] = Loop(f)[0]
    BY <2>2, <1>1
  <2>5. f = Loop(f)
    <3>1. f = [b \in 0 .. n |-> f[b]]
      BY <2>2
    <3>2. \A b \in 0 .. n : f[b] = Loop(f)[b]
      <4> HIDE DEF Loop
      <4> QED
        BY <2>3, <2>4, <1>1
    <3>3. Loop(f) = [b \in 0 .. n |-> Loop(f)[b]]
      OBVIOUS
    <3> HIDE DEF Loop
    <3> QED
      BY <3>1, <3>2, <3>3
  <2> HIDE DEF Loop
  <2> QED
    BY <2>5
<1> HIDE DEF sum
<1>5. \A b \in 0 .. n : sum[b] = IF b = 0 THEN 0 ELSE (sum[b - 1] + term(b)) % FieldSize
  <2> SUFFICES ASSUME NEW b \in 0 .. n
      PROVE  Loop(sum)[b] = IF b = 0 THEN 0 ELSE (sum[b - 1] + term(b)) % FieldSize
    <3> HIDE DEF Loop
    <3> QED
      BY <1>4
  <2> QED
    OBVIOUS
<1> DEFINE Zeros == \A b \in 1 .. n : blocks[b] = 0
           Good == { b \in Nat : b <= n => sum[b] \in State /\ (Zeros => sum[b] = 0) }
<1>6. 0 \in Good
  <2>1. 0 \in 0 .. n
    BY <1>1
  <2> QED
    BY <1>1, <1>5, <2>1
<1>7. ASSUME NEW b \in Nat, b \in Good PROVE b + 1 \in Good
  <2> SUFFICES ASSUME b + 1 <= n
      PROVE  sum[b + 1] \in State /\ (Zeros => sum[b + 1] = 0)
    OBVIOUS
  <2>1. /\ b + 1 \in 1 .. n /\ b + 1 \in 0 .. n /\ b + 1 # 0 /\ (b + 1) - 1 = b /\ b <= n
    BY <1>1
  <2>2. sum[b] \in State /\ (Zeros => sum[b] = 0)
    BY <1>7, <2>1
  <2>3. /\ term(b + 1) \in Nat /\ (blocks[b + 1] = 0 => term(b + 1) = 0)
        /\ sum[b + 1] = (sum[b] + term(b + 1)) % FieldSize
    BY <1>2, <1>5, <2>1
  <2>4. sum[b] + term(b + 1) \in Nat
    BY <1>1, <2>2, <2>3
  <2>5. sum[b + 1] \in State
    BY <1>1, <2>3, <2>4, DivMod
  <2>6. ASSUME Zeros PROVE sum[b + 1] = 0
    <3>1. sum[b] = 0 /\ term(b + 1) = 0
      BY <2>1, <2>2, <2>3, <2>6
    <3> QED
      BY <1>1, <2>3, <3>1
  <2> QED
    BY <2>5, <2>6
<1> HIDE DEF Good
<1>8. Nat \subseteq Good
  BY <1>6, <1>7, NatSetInduction
<1>9. sum[n] \in State /\ (Zeros => sum[n] = 0)
  BY <1>1, <1>8 DEF Good
<1> QED
  BY <1>3, <1>9 DEF n

LEMMA CompressFacts ==
  ASSUME NEW v \in Nat, NEW width \in Nat \ {0},
         NEW c \in [1 .. Blocks(width) -> Coefficients]
  PROVE  /\ compress(v, width, c) \in 0 .. Pow2[BlockBits] - 1
         /\ v = 0 => compress(v, width, c) = 0
<1> DEFINE packed == packRevealBitBlockExt(v, width)
<1>1. /\ packed \in Seq(Nat) /\ Len(packed) = Blocks(width)
      /\ v = 0 => \A b \in 1 .. Len(packed) : packed[b] = 0
  BY PackFacts
<1>2. compress(v, width, c) = uni_hash(packed, c) /\ Blocks(width) \in Nat \ {0}
  BY BlockFacts DEF compress
<1> HIDE DEF packed
<1>3. Len(packed) # 0 /\ c \in [1 .. Len(packed) -> Coefficients]
  BY <1>1, <1>2
<1>4. /\ uni_hash(packed, c) \in 0 .. FieldSize - 1
      /\ (\A b \in 1 .. Len(packed) : packed[b] = 0) => uni_hash(packed, c) = 0
  BY <1>1, <1>3, HashFacts
<1>5. FieldSize \in Nat /\ FieldSize <= Pow2[BlockBits] /\ Pow2[BlockBits] \in Nat
  BY WidthFacts, Pow2Facts
<1> QED
  BY <1>1, <1>2, <1>4, <1>5

(* Elements that are packed alike are equal, unless the width leaves the   *)
(* last block no bits.                                                     *)
LEMMA PackInjective ==
  ASSUME NEW width \in Nat \ {0}, width % BlockBits # 0,
         NEW v \in 0 .. Pow2[width] - 1, NEW w \in 0 .. Pow2[width] - 1,
         packRevealBitBlockExt(v, width) = packRevealBitBlockExt(w, width)
  PROVE  v = w
<1> DEFINE q == width \div BlockBits
           r == width % BlockBits
           B == Pow2[BlockBits]
           shift(k) == Pow2[BlockBits * k]
           agree(k) == v \div shift(k) = w \div shift(k)
<1>1. /\ BlockBits \in Nat \ {0} /\ q \in Nat /\ r \in 1 .. BlockBits - 1
      /\ width = BlockBits * q + r /\ Blocks(width) = q + 1
  BY BlockFacts, WidthFacts, DivMod
<1>2. Pow2[width] \in Nat \ {0} /\ v \in Nat /\ w \in Nat
  <2>1. Pow2[width] \in Nat \ {0}
    BY Pow2Facts
  <2> QED
    BY <2>1
<1>3. \A b \in 1 .. Blocks(width) :
        packRevealBitBlock(v, b, BitsOf(width, b)) = packRevealBitBlock(w, b, BitsOf(width, b))
  BY DEF packRevealBitBlockExt
<1> HIDE DEF q, r
<1>4. \A k \in Nat : BlockBits * k \in Nat /\ shift(k) \in Nat \ {0} /\ shift(k + 1) = shift(k) * B
  <2> SUFFICES ASSUME NEW k \in Nat
      PROVE  BlockBits * k \in Nat /\ shift(k) \in Nat \ {0} /\ shift(k + 1) = shift(k) * B
    OBVIOUS
  <2>1. BlockBits * k \in Nat /\ BlockBits * (k + 1) = BlockBits * k + BlockBits
    BY <1>1
  <2> QED
    BY <1>1, <2>1, Pow2Facts, Pow2Sum
<1>5. B \in Nat \ {0}
  BY <1>1, Pow2Facts
<1>6. agree(q)
  <2>1. Pow2[width] = shift(q) * Pow2[r] /\ Pow2[r] \in Nat \ {0}
    <3>1. BlockBits * q \in Nat /\ r \in Nat
      BY <1>1, <1>4
    <3> QED
      BY <1>1, <3>1, Pow2Sum, Pow2Facts
  <2>2. ASSUME NEW x \in 0 .. Pow2[width] - 1
        PROVE  packRevealBitBlock(x, q + 1, BitsOf(width, q + 1)) = x \div shift(q)
    <3>1. BitsOf(width, q + 1) = r /\ (q + 1) - 1 = q
      BY <1>1 DEF BitsOf, r
    <3>2. packRevealBitBlock(x, q + 1, BitsOf(width, q + 1)) = (x \div shift(q)) % Pow2[r]
      BY <3>1 DEF packRevealBitBlock
    <3> DEFINE s == shift(q)
               t == Pow2[r]
    <3>3. s \in Nat \ {0} /\ t \in Nat \ {0} /\ x \in 0 .. s * t - 1
      BY <1>1, <1>4, <2>1
    <3> HIDE DEF s, t
    <3>4. x \in Nat /\ x < s * t
      BY <3>3
    <3>5. x \div s \in Nat /\ x % s \in 0 .. s - 1 /\ x = s * (x \div s) + (x % s)
      BY <3>3, <3>4, DivMod
    <3> DEFINE y == x \div s
    <3>6. y \in Nat /\ s * y <= x
      BY <3>3, <3>4, <3>5
    <3> HIDE DEF y
    <3>7. y < t
      <4> SUFFICES ASSUME t <= y PROVE FALSE
        BY <3>3, <3>6
      <4>1. s * t <= s * y
        BY <3>3, <3>6
      <4> QED
        BY <3>3, <3>4, <3>6, <4>1
    <3>8. y = t * 0 + y /\ y \in 0 .. t - 1
      BY <3>3, <3>6, <3>7
    <3>9. y % t = y
      BY <3>3, <3>8, DivModOnce
    <3> QED
      BY <3>2, <3>9 DEF y, s, t
  <2>3. q + 1 \in 1 .. Blocks(width)
    BY <1>1
  <2> QED
    BY <1>3, <2>2, <2>3
<1>7. ASSUME NEW k \in Nat, k < q, agree(k + 1) PROVE agree(k)
  <2>1. k + 1 \in 1 .. Blocks(width) /\ BitsOf(width, k + 1) = BlockBits /\ (k + 1) - 1 = k
    BY <1>1, <1>7 DEF BitsOf
  <2>2. (v \div shift(k)) % B = (w \div shift(k)) % B
    BY <1>3, <2>1 DEF packRevealBitBlock
  <2> DEFINE s == shift(k)
             x == v \div s
             y == w \div s
  <2>3. s \in Nat \ {0} /\ shift(k + 1) = s * B
    BY <1>4
  <2> HIDE DEF s, B
  <2>4. x \in Nat /\ y \in Nat /\ x \div B = v \div (s * B) /\ y \div B = w \div (s * B)
    <3>1. x \in Nat /\ y \in Nat
      BY <1>2, <2>3, DivMod
    <3>2. (v \div s) \div B = v \div (s * B)
      BY <1>2, <1>5, <2>3, DivDiv, Zenon
    <3>3. (w \div s) \div B = w \div (s * B)
      BY <1>2, <1>5, <2>3, DivDiv, Zenon
    <3> QED
      BY <3>1, <3>2, <3>3
  <2>5. x % B = y % B /\ x \div B = y \div B
    BY <1>7, <2>2, <2>3, <2>4 DEF s
  <2> HIDE DEF x, y
  <2>6. x = B * (x \div B) + (x % B) /\ y = B * (y \div B) + (y % B)
    BY <1>5, <2>4, DivMod
  <2>7. x = y
    BY <2>5, <2>6
  <2> QED
    BY <2>7 DEF x, y, s
<1> DEFINE Good == { k \in Nat : k <= q => agree(q - k) }
<1>8. q \in Good
  <2> HIDE DEF agree
  <2>1. 0 \in Good
    BY <1>1, <1>6
  <2>2. ASSUME NEW k \in Nat, k \in Good PROVE k + 1 \in Good
    <3> SUFFICES ASSUME k + 1 <= q PROVE agree(q - (k + 1))
      OBVIOUS
    <3> DEFINE m == q - (k + 1)
    <3>1. m \in Nat /\ m < q /\ m + 1 = q - k /\ k <= q
      BY <1>1
    <3>2. agree(q - k)
      BY <2>2, <3>1
    <3>3. agree(m + 1)
      BY <3>1, <3>2
    <3> HIDE DEF m
    <3>4. agree(m)
      BY <1>7, <3>1, <3>3
    <3> QED
      BY <3>4 DEF m
  <2> HIDE DEF Good
  <2>3. Nat \subseteq Good
    BY <2>1, <2>2, NatSetInduction
  <2> QED
    BY <1>1, <2>3
<1>9. agree(0)
  <2>1. q - q = 0 /\ q <= q
    BY <1>1
  <2> HIDE DEF agree
  <2> QED
    BY <1>8, <2>1
<1>10. shift(0) = 1
  <2>1. BlockBits * 0 = 0
    BY <1>1
  <2> QED
    BY <2>1, Pow2Facts
<1>11. v \div 1 = w \div 1
  BY <1>9, <1>10
<1> QED
  BY <1>2, <1>11

-----------------------------------------------------------------------------
(* Elements picked, sorted and merged.                                     *)

LEMMA MinusOriginFacts ==
  ASSUME NEW S, NEW val \in Seq(S), NEW filter
  PROVE  /\ set_minus_origin(val, filter) \in Seq(S)
         /\ Len(set_minus_origin(val, filter)) =
              Cardinality({ n \in DOMAIN val : val[n] \notin filter })
<1> DEFINE U == { n \in DOMAIN val : val[n] \notin filter }
           m == set_minus_origin(val, filter)
<1>1. m = Picked(val, U) /\ U \in SUBSET DOMAIN val
  BY DEF set_minus_origin
<1> HIDE DEF U, m
<1>2. m \in Seq(S) /\ Len(m) = Cardinality(U)
  BY <1>1, PickedFacts
<1> QED
  BY <1>2 DEF U, m

LEMMA MinusOriginCount ==
  ASSUME NEW S, NEW val \in Seq(S), NEW filter, NEW v
  PROVE  Count(set_minus_origin(val, filter), v) = IF v \in filter THEN 0 ELSE Count(val, v)
<1> DEFINE U == { n \in DOMAIN val : val[n] \notin filter }
           m == set_minus_origin(val, filter)
<1>1. m = Picked(val, U) /\ U \in SUBSET DOMAIN val
  BY DEF set_minus_origin
<1>2. { n \in U : val[n] = v } = IF v \in filter THEN {} ELSE PlacesOf(val, v)
  BY DEF PlacesOf
<1> HIDE DEF U, m
<1>3. Cardinality(PlacesOf(m, v)) = Cardinality({ n \in U : val[n] = v })
  BY <1>1, PickedFacts
<1>4. Count(m, v) = IF v \in filter THEN 0 ELSE Count(val, v)
  BY <1>2, <1>3, FS_EmptySet DEF Count
<1> QED
  BY <1>4 DEF m

LEMMA MinusFacts ==
  ASSUME NEW S, NEW val \in Seq(S), NEW filter
  PROVE  /\ set_minus(val, filter) \in Seq(S)
         /\ Len(set_minus(val, filter)) =
              Cardinality({ n \in DOMAIN val : val[n] # Last(val) /\ val[n] \notin filter })
<1> DEFINE U == { n \in DOMAIN val : val[n] # Last(val) /\ val[n] \notin filter }
           m == set_minus(val, filter)
<1>1. m = Picked(val, U) /\ U \in SUBSET DOMAIN val
  BY DEF set_minus
<1> HIDE DEF U, m
<1>2. m \in Seq(S) /\ Len(m) = Cardinality(U)
  BY <1>1, PickedFacts
<1> QED
  BY <1>2 DEF U, m

LEMMA MinusCount ==
  ASSUME NEW S, NEW val \in Seq(S), NEW filter, NEW v
  PROVE  Count(set_minus(val, filter), v) = IF v = Last(val) \/ v \in filter THEN 0 ELSE Count(val, v)
<1> DEFINE U == { n \in DOMAIN val : val[n] # Last(val) /\ val[n] \notin filter }
           m == set_minus(val, filter)
<1>1. m = Picked(val, U) /\ U \in SUBSET DOMAIN val
  BY DEF set_minus
<1>2. { n \in U : val[n] = v } =
               IF v = Last(val) \/ v \in filter THEN {} ELSE PlacesOf(val, v)
  BY DEF PlacesOf
<1> HIDE DEF U, m
<1>3. Cardinality(PlacesOf(m, v)) = Cardinality({ n \in U : val[n] = v })
  BY <1>1, PickedFacts
<1>4. Count(m, v) = IF v = Last(val) \/ v \in filter THEN 0 ELSE Count(val, v)
  BY <1>2, <1>3, FS_EmptySet DEF Count
<1> QED
  BY <1>4 DEF m

(* An ascending table is a permutation; without repetitions it ascends     *)
(* strictly.                                                               *)
LEMMA AscendingFacts ==
  ASSUME NEW S, S \subseteq Nat, NEW s \in Seq(S)
  PROVE  LET a == Ascending(s)
         IN  /\ a \in Seq(S) /\ Len(a) = Len(s) /\ ToSet(a) = ToSet(s)
             /\ \A v : Count(a, v) = Count(s, v)
             /\ Unique(s) => \A m, n \in 1 .. Len(a) : m < n => a[m] < a[n]
<1> DEFINE T == ToSet(s)
           less == { p \in T \X T : p[1] < p[2] }
           a == Ascending(s)
<1>1. s \in Seq(T) /\ T \subseteq S /\ T \subseteq Nat /\ DOMAIN s = 1 .. Len(s) /\ Len(s) \in Nat
  <2>1. DOMAIN s = 1 .. Len(s) /\ Len(s) \in Nat /\ \A n \in DOMAIN s : s[n] \in S
    BY ElementType
  <2>2. T \subseteq S /\ \A n \in DOMAIN s : s[n] \in T
    BY <2>1 DEF ToSet
  <2> HIDE DEF T
  <2>3. s = [n \in 1 .. Len(s) |-> s[n]]
    BY <2>1
  <2> QED
    BY <2>1, <2>2, <2>3
<1>2. a = SortedBy(s, less)
  BY DEF Ascending
<1>3. \A x, y \in T : <<x, y>> \in less <=> x < y
  OBVIOUS
<1> HIDE DEF T, less, a
<1>4. IsStrictOrder(T, less)
  <2>1. \A x \in T : x \in Nat
    BY <1>1
  <2> QED
    BY <1>3, <2>1 DEF IsStrictOrder
<1>5. /\ \E p \in Bijection(DOMAIN s, DOMAIN s) : a = [n \in DOMAIN s |-> s[p[n]]]
      /\ \A m, n \in DOMAIN s : m < n => <<a[m], a[n]>> \in less \/ a[m] = a[n]
  BY <1>1, <1>2, <1>4, SortedFacts
<1>6. PICK p \in Bijection(DOMAIN s, DOMAIN s) : a = [n \in DOMAIN s |-> s[p[n]]]
  BY <1>5
<1>7. p \in [DOMAIN s -> DOMAIN s] /\ \A m, n \in DOMAIN s : p[m] = p[n] => m = n
  <2> DEFINE D == DOMAIN s
  <2>1. p \in Bijection(D, D)
    BY <1>6
  <2> HIDE DEF D
  <2>2. p \in [D -> D] /\ \A m, n \in D : p[m] = p[n] => m = n
    BY <2>1, Permutation
  <2> QED
    BY <2>2 DEF D
<1>8. a \in Seq(T) /\ Len(a) = Len(s) /\ DOMAIN a = 1 .. Len(a)
  <2>1. \A n \in DOMAIN s : s[p[n]] \in T
    BY <1>1, <1>7
  <2> QED
    BY <1>1, <1>6, <2>1
<1>9. \A v : Count(a, v) = Count(s, v)
  BY <1>6, CountPermuted
<1>10. ToSet(a) = ToSet(s)
  <2>1. \A v : (Count(a, v) = 0 <=> v \notin ToSet(a)) /\ (Count(s, v) = 0 <=> v \notin ToSet(s))
    BY <1>8, CountFacts
  <2> QED
    BY <1>9, <2>1
<1>11. ASSUME Unique(s), NEW m \in 1 .. Len(a), NEW n \in 1 .. Len(a), m < n
       PROVE  a[m] < a[n]
  <2>1. m \in DOMAIN s /\ n \in DOMAIN s /\ m # n
    BY <1>1, <1>8, <1>11
  <2>2. a[m] \in T /\ a[n] \in T
    BY <1>8, <1>11
  <2>3. a[m] # a[n]
    <3>1. a[m] = s[p[m]] /\ a[n] = s[p[n]] /\ p[m] \in DOMAIN s /\ p[n] \in DOMAIN s
      BY <1>6, <1>7, <2>1
    <3>2. p[m] # p[n]
      BY <1>7, <2>1
    <3> QED
      BY <1>11, <3>1, <3>2 DEF Unique, IsInjective
  <2> QED
    BY <1>3, <1>5, <1>11, <2>1, <2>2, <2>3
<1>12. a \in Seq(S)
  <2>1. \A n \in 1 .. Len(a) : a[n] \in S
    <3>1. \A n \in DOMAIN a : a[n] \in T
      BY <1>8, ElementType
    <3> QED
      BY <1>1, <1>8, <3>1
  <2>2. a = [n \in 1 .. Len(a) |-> a[n]] /\ Len(a) \in Nat
    BY <1>8
  <2> QED
    BY <2>1, <2>2
<1> QED
  BY <1>8, <1>9, <1>10, <1>11, <1>12 DEF a

LEMMA Appended ==
  ASSUME NEW S, NEW s \in Seq(S), NEW x \in S
  PROVE  /\ Append(s, x) \in Seq(S) /\ ToSet(Append(s, x)) = ToSet(s) \cup {x}
         /\ Unique(s) /\ x \notin ToSet(s) => Unique(Append(s, x))
<1> DEFINE t == Append(s, x)
<1>1. /\ t \in Seq(S) /\ DOMAIN s = 1 .. Len(s) /\ Len(s) \in Nat
      /\ DOMAIN t = 1 .. Len(s) + 1 /\ t[Len(s) + 1] = x
      /\ \A n \in 1 .. Len(s) : t[n] = s[n]
  OBVIOUS
<1> HIDE DEF t
<1>2. ToSet(t) = ToSet(s) \cup {x}
  <2>1. DOMAIN t = DOMAIN s \cup {Len(s) + 1}
    BY <1>1
  <2> QED
    BY <1>1, <2>1 DEF ToSet
<1>3. ASSUME Unique(s), x \notin ToSet(s) PROVE Unique(t)
  <2> SUFFICES ASSUME NEW m \in DOMAIN t, NEW n \in DOMAIN t, t[m] = t[n] PROVE m = n
    BY DEF Unique, IsInjective
  <2>1. \A k \in DOMAIN s : s[k] # x
    BY <1>3 DEF ToSet
  <2>2. \A j, k \in DOMAIN s : s[j] = s[k] => j = k
    BY <1>3 DEF Unique, IsInjective
  <2>3. \A k \in DOMAIN t : k \in DOMAIN s \/ k = Len(s) + 1
    BY <1>1
  <2> QED
    BY <1>1, <2>1, <2>2, <2>3
<1> QED
  BY <1>1, <1>2, <1>3 DEF t

MergeState(S, l, r) == [l : 1 .. Len(l) + 1, r : 1 .. Len(r) + 1, common : Seq(S)]

Ascends(s) == \A m, n \in 1 .. Len(s) : m < n => s[m] < s[n]

LEMMA MergeStepCases ==
  ASSUME NEW S, S \subseteq Nat, NEW l \in Seq(S), NEW r \in Seq(S),
         NEW at \in MergeState(S, l, r)
  PROVE  LET next == MergeStep(l, r, at)
         IN  /\ at.l > Len(l) \/ at.r > Len(r) => next = at
             /\ at.l <= Len(l) /\ at.r <= Len(r) =>
                  /\ l[at.l] \in S /\ r[at.r] \in S
                  /\ l[at.l] < r[at.r] =>
                       next = [l |-> at.l + 1, r |-> at.r, common |-> at.common]
                  /\ l[at.l] = r[at.r] =>
                       next = [l |-> at.l + 1, r |-> at.r + 1,
                               common |-> Append(at.common, l[at.l])]
                  /\ l[at.l] > r[at.r] =>
                       next = [l |-> at.l, r |-> at.r + 1, common |-> at.common]
<1> DEFINE next == MergeStep(l, r, at)
<1>1. /\ Len(l) \in Nat /\ Len(r) \in Nat /\ at.l \in 1 .. Len(l) + 1
      /\ at.r \in 1 .. Len(r) + 1
      /\ at = [l |-> at.l, r |-> at.r, common |-> at.common]
  BY DEF MergeState
<1>2. /\ at.l <= Len(l) => at.l \in DOMAIN l
      /\ at.r <= Len(r) => at.r \in DOMAIN r
  BY <1>1
<1>3. /\ at.l <= Len(l) => l[at.l] \in S
      /\ at.r <= Len(r) => r[at.r] \in S
  BY <1>2, ElementType
<1>4. CASE at.l > Len(l) \/ at.r > Len(r)
  BY <1>1, <1>4 DEF MergeStep
<1>5. CASE at.l <= Len(l) /\ at.r <= Len(r)
  <2>1. l[at.l] \in Nat /\ r[at.r] \in Nat
    BY <1>3, <1>5
  <2>2. ~(at.l > Len(l) \/ at.r > Len(r))
    BY <1>1, <1>5
  <2>3. next = IF l[at.l] < r[at.r] THEN [at EXCEPT !.l = @ + 1]
               ELSE IF l[at.l] = r[at.r]
                    THEN [l |-> at.l + 1, r |-> at.r + 1,
                          common |-> Append(at.common, l[at.l])]
                    ELSE [at EXCEPT !.r = @ + 1]
    BY <2>2 DEF MergeStep
  <2>4. /\ [at EXCEPT !.l = @ + 1] = [l |-> at.l + 1, r |-> at.r, common |-> at.common]
        /\ [at EXCEPT !.r = @ + 1] = [l |-> at.l, r |-> at.r + 1, common |-> at.common]
    <3> DEFINE x == at.l
               y == at.r
               z == at.common
    <3>1. at = [l |-> x, r |-> y, common |-> z]
      BY <1>1
    <3> HIDE DEF x, y, z
    <3>2. /\ [at EXCEPT !.l = x + 1] = [l |-> x + 1, r |-> y, common |-> z]
          /\ [at EXCEPT !.r = y + 1] = [l |-> x, r |-> y + 1, common |-> z]
      BY <3>1
    <3> QED
      BY <3>2 DEF x, y, z
  <2> HIDE DEF next
  <2>5. CASE l[at.l] < r[at.r]
    BY <1>3, <1>5, <2>1, <2>2, <2>3, <2>4, <2>5 DEF next
  <2>6. CASE l[at.l] = r[at.r]
    BY <1>3, <1>5, <2>1, <2>2, <2>3, <2>4, <2>6 DEF next
  <2>7. CASE l[at.l] > r[at.r]
    BY <1>3, <1>5, <2>1, <2>2, <2>3, <2>4, <2>7 DEF next
  <2> QED
    BY <2>1, <2>5, <2>6, <2>7
<1> QED
  BY <1>1, <1>4, <1>5

LEMMA MergeStepType ==
  ASSUME NEW S, S \subseteq Nat, NEW l \in Seq(S), NEW r \in Seq(S),
         NEW at \in MergeState(S, l, r)
  PROVE  MergeStep(l, r, at) \in MergeState(S, l, r)
<1> DEFINE next == MergeStep(l, r, at)
<1>1. /\ Len(l) \in Nat /\ Len(r) \in Nat /\ at.l \in 1 .. Len(l) + 1
      /\ at.r \in 1 .. Len(r) + 1 /\ at.common \in Seq(S)
  BY DEF MergeState
<1>2. CASE at.l > Len(l) \/ at.r > Len(r)
  BY <1>2, MergeStepCases
<1>3. CASE at.l <= Len(l) /\ at.r <= Len(r)
  <2>1. /\ l[at.l] \in S /\ r[at.r] \in S
        /\ l[at.l] < r[at.r] =>
             next = [l |-> at.l + 1, r |-> at.r, common |-> at.common]
        /\ l[at.l] = r[at.r] =>
             next = [l |-> at.l + 1, r |-> at.r + 1,
                     common |-> Append(at.common, l[at.l])]
        /\ l[at.l] > r[at.r] =>
             next = [l |-> at.l, r |-> at.r + 1, common |-> at.common]
    BY <1>3, MergeStepCases, SMTT(30)
  <2> HIDE DEF next
  <2>2. Append(at.common, l[at.l]) \in Seq(S) /\ l[at.l] \in Nat /\ r[at.r] \in Nat
    BY <1>1, <2>1
  <2>3. at.l + 1 \in 1 .. Len(l) + 1 /\ at.r + 1 \in 1 .. Len(r) + 1
    BY <1>1, <1>3
  <2>4. l[at.l] < r[at.r] \/ l[at.l] = r[at.r] \/ l[at.l] > r[at.r]
    BY <2>2
  <2>5. next \in MergeState(S, l, r)
    <3>1. CASE l[at.l] < r[at.r]
      <4>1. next = [l |-> at.l + 1, r |-> at.r, common |-> at.common]
        BY <2>1, <3>1
      <4> QED
        BY <1>1, <2>3, <4>1 DEF MergeState
    <3>2. CASE l[at.l] = r[at.r]
      <4>1. next = [l |-> at.l + 1, r |-> at.r + 1, common |-> Append(at.common, l[at.l])]
        BY <2>1, <3>2
      <4> QED
        BY <2>2, <2>3, <4>1 DEF MergeState
    <3>3. CASE l[at.l] > r[at.r]
      <4>1. next = [l |-> at.l, r |-> at.r + 1, common |-> at.common]
        BY <2>1, <3>3
      <4> QED
        BY <1>1, <2>3, <4>1 DEF MergeState
    <3> QED
      BY <2>4, <3>1, <3>2, <3>3
  <2> QED
    BY <2>5 DEF next
<1> QED
  BY <1>1, <1>2, <1>3

(* The loop of the merge: after[n] is where n passes have led.             *)
IsMerge(after, S, l, r) ==
  /\ after \in [0 .. Len(l) + Len(r) -> MergeState(S, l, r)]
  /\ after[0] = [l |-> 1, r |-> 1, common |-> << >>]
  /\ \A n \in 1 .. Len(l) + Len(r) : after[n] = MergeStep(l, r, after[n - 1])
  /\ Merge(l, r) = after[Len(l) + Len(r)].common

LEMMA MergeLoop ==
  ASSUME NEW S, S \subseteq Nat, NEW l \in Seq(S), NEW r \in Seq(S)
  PROVE  \E after : IsMerge(after, S, l, r)
<1> DEFINE N == Len(l) + Len(r)
           State == MergeState(S, l, r)
           first == [l |-> 1, r |-> 1, common |-> << >>]
           step(at) == MergeStep(l, r, at)
           G == [s \in Nat \X State |-> step(s[2])]
           Loop(f) == [n \in 0 .. N |-> IF n = 0 THEN [l |-> 1, r |-> 1, common |-> << >>]
                                        ELSE MergeStep(l, r, f[n - 1])]
           after == CHOOSE f : f = Loop(f)
<1>1. N \in Nat /\ first \in State
  BY DEF MergeState
<1>2. \A at \in State : step(at) \in State
  BY MergeStepType
<1>3. Merge(l, r) = after[N].common
  BY DEF Merge
<1> HIDE DEF N, State
<1>4. after = Loop(after)
  <2> HIDE DEF step
  <2>1. G \in [Nat \X State -> State]
    BY <1>2
  <2>2. PICK f \in [0 .. N -> State] : f[0] = first /\ \A n \in 1 .. N : f[n] = G[<<n, f[n - 1]>>]
    <3> HIDE DEF G, first
    <3>1. PICK f : IsRecursion(f, State, G, first, N)
      BY <1>1, <2>1, Recursion
    <3> QED
      BY <3>1 DEF IsRecursion
  <2>3. ASSUME NEW n \in 1 .. N PROVE f[n] = Loop(f)[n]
    <3>1. n - 1 \in 0 .. N /\ n \in Nat /\ n # 0 /\ n \in 0 .. N
      BY <1>1
    <3>2. <<n, f[n - 1]>> \in Nat \X State
      BY <2>2, <3>1
    <3>3. f[n] = G[<<n, f[n - 1]>>]
      BY <2>2
    <3> QED
      BY <3>1, <3>2, <3>3 DEF step
  <2>4. f[0] = Loop(f)[0]
    BY <2>2, <1>1
  <2>5. f = Loop(f)
    <3>1. f = [n \in 0 .. N |-> f[n]]
      BY <2>2
    <3>2. \A n \in 0 .. N : f[n] = Loop(f)[n]
      <4> HIDE DEF Loop
      <4> QED
        BY <2>3, <2>4, <1>1
    <3>3. Loop(f) = [n \in 0 .. N |-> Loop(f)[n]]
      OBVIOUS
    <3> HIDE DEF Loop
    <3> QED
      BY <3>1, <3>2, <3>3
  <2> HIDE DEF Loop
  <2> QED
    BY <2>5
<1> HIDE DEF after
<1>5. \A n \in 0 .. N : after[n] = IF n = 0 THEN first ELSE step(after[n - 1])
  <2> SUFFICES ASSUME NEW n \in 0 .. N
      PROVE  Loop(after)[n] = IF n = 0 THEN first ELSE step(after[n - 1])
    <3> HIDE DEF Loop
    <3> QED
      BY <1>4
  <2> QED
    OBVIOUS
<1>6. after = [n \in 0 .. N |-> after[n]]
  <2>1. Loop(after) = [n \in 0 .. N |-> Loop(after)[n]]
    OBVIOUS
  <2> HIDE DEF Loop
  <2> QED
    BY <1>4, <2>1
<1> HIDE DEF Loop, first, step
<1> DEFINE Good == { n \in Nat : n <= N => after[n] \in State }
<1>7. 0 \in Good
  BY <1>1, <1>5
<1>8. ASSUME NEW n \in Nat, n \in Good PROVE n + 1 \in Good
  <2> SUFFICES ASSUME n + 1 <= N PROVE after[n + 1] \in State
    OBVIOUS
  <2>1. n + 1 \in 0 .. N /\ n + 1 # 0 /\ (n + 1) - 1 = n /\ n <= N
    BY <1>1
  <2>2. after[n + 1] = step(after[n])
    BY <1>5, <2>1
  <2> QED
    BY <1>2, <1>8, <2>1, <2>2
<1> HIDE DEF Good
<1>9. Nat \subseteq Good
  BY <1>7, <1>8, NatSetInduction
<1>10. after \in [0 .. N -> State]
  <2>1. \A n \in 0 .. N : after[n] \in State
    BY <1>1, <1>9 DEF Good
  <2> QED
    BY <1>6, <2>1
<1>11. after[0] = first /\ \A n \in 1 .. N : after[n] = step(after[n - 1])
  BY <1>1, <1>5
<1>12. IsMerge(after, S, l, r)
  BY <1>3, <1>10, <1>11 DEF IsMerge, N, State, first, step
<1> QED
  BY <1>12

(* What n passes have made of two ascending tables.                        *)
MergedUpTo(l, r, at, n) ==
  /\ Unique(at.common)
  /\ \A v \in ToSet(at.common) :
       /\ v \in ToSet(l) \cap ToSet(r)
       /\ \A m \in at.l .. Len(l) : v < l[m]
       /\ \A m \in at.r .. Len(r) : v < r[m]
  /\ \A m \in 1 .. Len(l), k \in 1 .. Len(r) :
       l[m] = r[k] => l[m] \in ToSet(at.common) \/ (m >= at.l /\ k >= at.r)
  /\ at.l + at.r >= n + 2 \/ at.l > Len(l) \/ at.r > Len(r)

LEMMA MergeStepKeeps ==
  ASSUME NEW S, S \subseteq Nat, NEW l \in Seq(S), NEW r \in Seq(S),
         Ascends(l), Ascends(r), NEW at \in MergeState(S, l, r), NEW n \in Nat,
         MergedUpTo(l, r, at, n)
  PROVE  MergedUpTo(l, r, MergeStep(l, r, at), n + 1)
<1> DEFINE next == MergeStep(l, r, at)
           a == at.l
           b == at.r
           c == at.common
<1>1. /\ Len(l) \in Nat /\ Len(r) \in Nat /\ a \in 1 .. Len(l) + 1
      /\ b \in 1 .. Len(r) + 1 /\ c \in Seq(S)
  BY DEF MergeState
<1> HIDE DEF a, b, c, next
<1>2. CASE a > Len(l) \/ b > Len(r)
  <2>1. next = at
    BY <1>2, MergeStepCases DEF a, b, c, next
  <2> QED
    BY <1>2, <2>1 DEF MergedUpTo, a, b, c, next
<1>3. CASE a <= Len(l) /\ b <= Len(r)
  <2>0. /\ l[a] \in S /\ r[b] \in S
        /\ l[a] < r[b] => next = [l |-> a + 1, r |-> b, common |-> c]
        /\ l[a] = r[b] => next = [l |-> a + 1, r |-> b + 1, common |-> Append(c, l[a])]
        /\ l[a] > r[b] => next = [l |-> a, r |-> b + 1, common |-> c]
    BY <1>3, MergeStepCases, SMTT(30) DEF a, b, c, next
  <2>1. l[a] \in Nat /\ r[b] \in Nat /\ a \in 1 .. Len(l) /\ b \in 1 .. Len(r)
    <3>1. l[a] \in Nat /\ r[b] \in Nat
      BY <2>0
    <3>2. a \in 1 .. Len(l) /\ b \in 1 .. Len(r)
      BY <1>1, <1>3
    <3> QED
      BY <3>1, <3>2
  <2>2. /\ \A m \in 1 .. Len(l) : l[m] \in Nat
        /\ \A k \in 1 .. Len(r) : r[k] \in Nat
    <3>1. DOMAIN l = 1 .. Len(l) /\ DOMAIN r = 1 .. Len(r)
      OBVIOUS
    <3> QED
      BY <3>1, ElementType
  <2>3. /\ \A m \in 1 .. Len(l) : (m < a => l[m] < l[a]) /\ (m > a => l[m] > l[a])
        /\ \A k \in 1 .. Len(r) : (k < b => r[k] < r[b]) /\ (k > b => r[k] > r[b])
    BY <2>1, <2>2 DEF Ascends
  <2>4. /\ Unique(c)
        /\ \A v \in ToSet(c) : /\ v \in ToSet(l) \cap ToSet(r)
                               /\ \A m \in a .. Len(l) : v < l[m]
                               /\ \A m \in b .. Len(r) : v < r[m]
        /\ \A m \in 1 .. Len(l), k \in 1 .. Len(r) :
             l[m] = r[k] => l[m] \in ToSet(c) \/ (m >= a /\ k >= b)
        /\ a + b >= n + 2
    BY <1>1, <1>3 DEF MergedUpTo, a, b, c
  <2>5. CASE l[a] < r[b]
    <3>1. next.l = a + 1 /\ next.r = b /\ next.common = c
      BY <2>0, <2>5
    <3>2. ASSUME NEW m \in 1 .. Len(l), NEW k \in 1 .. Len(r), l[m] = r[k]
          PROVE  l[m] \in ToSet(c) \/ (m >= a + 1 /\ k >= b)
      <4>1. k >= b => r[k] >= r[b]
        <5>1. k = b \/ k > b \/ k < b
          BY <1>1
        <5>2. r[k] \in Nat /\ (k > b => r[k] > r[b])
          BY <2>2, <2>3
        <5> QED
          BY <1>1, <2>1, <5>1, <5>2
      <4>2. m = a => ~(k >= b)
        BY <2>1, <2>2, <2>5, <3>2, <4>1
      <4> QED
        <5>1. l[m] \in ToSet(c) \/ (m >= a /\ k >= b)
          BY <2>4, <3>2
        <5> QED
          BY <1>1, <4>2, <5>1
    <3>3. a + 1 .. Len(l) \subseteq a .. Len(l)
      BY <1>1
    <3>4. (a + 1) + b >= (n + 1) + 2
      BY <1>1, <2>4
    <3> QED
      BY <2>4, <3>1, <3>2, <3>3, <3>4 DEF MergedUpTo, next
  <2>6. CASE l[a] > r[b]
    <3>1. next.l = a /\ next.r = b + 1 /\ next.common = c
      BY <2>0, <2>6
    <3>2. ASSUME NEW m \in 1 .. Len(l), NEW k \in 1 .. Len(r), l[m] = r[k]
          PROVE  l[m] \in ToSet(c) \/ (m >= a /\ k >= b + 1)
      <4>1. m >= a => l[m] >= l[a]
        <5>1. m = a \/ m > a \/ m < a
          BY <1>1
        <5>2. l[m] \in Nat /\ (m > a => l[m] > l[a])
          BY <2>2, <2>3
        <5> QED
          BY <1>1, <2>1, <5>1, <5>2
      <4>2. k = b => ~(m >= a)
        BY <2>1, <2>2, <2>6, <3>2, <4>1
      <4> QED
        <5>1. l[m] \in ToSet(c) \/ (m >= a /\ k >= b)
          BY <2>4, <3>2
        <5> QED
          BY <1>1, <4>2, <5>1
    <3>3. b + 1 .. Len(r) \subseteq b .. Len(r)
      BY <1>1
    <3>4. a + (b + 1) >= (n + 1) + 2
      BY <1>1, <2>4
    <3> QED
      BY <2>4, <3>1, <3>2, <3>3, <3>4 DEF MergedUpTo, next
  <2>7. CASE l[a] = r[b]
    <3> DEFINE d == Append(c, l[a])
    <3>1. next.l = a + 1 /\ next.r = b + 1 /\ next.common = d
      BY <2>0, <2>7
    <3>2. l[a] \notin ToSet(c) /\ l[a] \in S
      <4>1. a \in a .. Len(l) /\ ~(l[a] < l[a])
        BY <2>1
      <4> QED
        BY <2>0, <2>4, <4>1
    <3>3. Unique(d) /\ ToSet(d) = ToSet(c) \cup {l[a]}
      BY <1>1, <2>4, <3>2, Appended
    <3>4. l[a] \in ToSet(l) \cap ToSet(r)
      <4>1. DOMAIN l = 1 .. Len(l) /\ DOMAIN r = 1 .. Len(r)
        OBVIOUS
      <4> QED
        BY <2>1, <2>7, <4>1 DEF ToSet
    <3>5. ASSUME NEW m \in 1 .. Len(l), NEW k \in 1 .. Len(r), l[m] = r[k]
          PROVE  l[m] \in ToSet(d) \/ (m >= a + 1 /\ k >= b + 1)
      <4>1. l[m] \in ToSet(c) \/ (m >= a /\ k >= b)
        BY <2>4, <3>5
      <4>2. m > a => l[m] > l[a]
        BY <2>3
      <4>3. k > b => r[k] > r[b]
        BY <2>3
      <4>4. m >= a /\ k >= b /\ l[m] # l[a] => m >= a + 1 /\ k >= b + 1
        <5>1. l[m] # l[a] => m # a /\ k # b
          BY <2>7, <3>5
        <5> QED
          BY <1>1, <5>1
      <4> QED
        BY <3>3, <4>1, <4>4
    <3>6. \A v \in ToSet(d) : /\ v \in ToSet(l) \cap ToSet(r)
                              /\ \A m \in a + 1 .. Len(l) : v < l[m]
                              /\ \A m \in b + 1 .. Len(r) : v < r[m]
      <4>1. \A m \in a + 1 .. Len(l) : m \in a .. Len(l) /\ m \in 1 .. Len(l) /\ m > a
        BY <1>1
      <4>2. \A m \in b + 1 .. Len(r) : m \in b .. Len(r) /\ m \in 1 .. Len(r) /\ m > b
        BY <1>1
      <4>3. \A m \in a + 1 .. Len(l) : l[a] < l[m]
        BY <2>1, <2>2, <2>3, <4>1
      <4>4. \A m \in b + 1 .. Len(r) : l[a] < r[m]
        BY <2>1, <2>2, <2>3, <2>7, <4>2
      <4> HIDE DEF d
      <4> QED
        BY <2>4, <3>3, <3>4, <4>1, <4>2, <4>3, <4>4
    <3>7. (a + 1) + (b + 1) >= (n + 1) + 2
      BY <1>1, <2>4
    <3> HIDE DEF d
    <3> QED
      BY <3>1, <3>3, <3>5, <3>6, <3>7 DEF MergedUpTo, next
  <2> QED
    BY <2>1, <2>5, <2>6, <2>7
<1> QED
  BY <1>1, <1>2, <1>3

SharedBy(l, r) == ToSet(l) \cap ToSet(r)

LEMMA MergeFacts ==
  ASSUME NEW S, S \subseteq Nat, NEW l \in Seq(S), NEW r \in Seq(S)
  PROVE  /\ Merge(l, r) \in Seq(S)
         /\ Ascends(l) /\ Ascends(r) =>
              Unique(Merge(l, r)) /\ ToSet(Merge(l, r)) = SharedBy(l, r)
<1> DEFINE N == Len(l) + Len(r)
<1>1. PICK after : IsMerge(after, S, l, r)
  BY MergeLoop
<1>2. /\ N \in Nat /\ \A n \in 0 .. N : after[n] \in MergeState(S, l, r)
      /\ after[0] = [l |-> 1, r |-> 1, common |-> << >>]
      /\ \A n \in 1 .. N : after[n] = MergeStep(l, r, after[n - 1])
      /\ Merge(l, r) = after[N].common
  BY <1>1 DEF IsMerge
<1>3. Merge(l, r) \in Seq(S)
  <2>1. after[N] \in MergeState(S, l, r)
    BY <1>2
  <2> HIDE DEF N
  <2> QED
    BY <1>2, <2>1 DEF MergeState
<1>4. ASSUME Ascends(l), Ascends(r)
      PROVE  Unique(Merge(l, r)) /\ ToSet(Merge(l, r)) = SharedBy(l, r)
  <2> DEFINE Good == { n \in Nat : n <= N => MergedUpTo(l, r, after[n], n) }
  <2>1. 0 \in Good
    <3>1. ToSet(<< >>) = {} /\ Unique(<< >>)
      BY DEF ToSet, Unique, IsInjective
    <3>2. after[0].l = 1 /\ after[0].r = 1 /\ after[0].common = << >>
      BY <1>2
    <3>3. MergedUpTo(l, r, after[0], 0)
      BY <3>1, <3>2 DEF MergedUpTo
    <3> QED
      BY <3>3
  <2>2. ASSUME NEW n \in Nat, n \in Good PROVE n + 1 \in Good
    <3> SUFFICES ASSUME n + 1 <= N PROVE MergedUpTo(l, r, after[n + 1], n + 1)
      OBVIOUS
    <3> HIDE DEF N
    <3>1. n \in 0 .. N /\ n + 1 \in 1 .. N /\ (n + 1) - 1 = n /\ n <= N
      BY <1>2
    <3>2. MergedUpTo(l, r, after[n], n) /\ after[n] \in MergeState(S, l, r)
      BY <1>2, <2>2, <3>1
    <3>3. after[n + 1] = MergeStep(l, r, after[n])
      BY <1>2, <3>1
    <3> QED
      BY <1>4, <3>2, <3>3, MergeStepKeeps
  <2> HIDE DEF Good
  <2>3. N \in Good
    BY <1>2, <2>1, <2>2, NatSetInduction
  <2> DEFINE at == after[N]
  <2>4. MergedUpTo(l, r, at, N)
    BY <1>2, <2>3 DEF Good
  <2>5. at \in MergeState(S, l, r)
    BY <1>2
  <2>6. /\ at.l \in 1 .. Len(l) + 1 /\ at.r \in 1 .. Len(r) + 1
        /\ Len(l) \in Nat /\ Len(r) \in Nat /\ Merge(l, r) = at.common
    <3> HIDE DEF at
    <3> QED
      BY <1>2, <2>5 DEF MergeState, at
  <2> HIDE DEF at
  <2>7. at.l > Len(l) \/ at.r > Len(r)
    <3>1. at.l + at.r >= N + 2 \/ at.l > Len(l) \/ at.r > Len(r)
      BY <2>4 DEF MergedUpTo
    <3> QED
      BY <2>6, <3>1
  <2>8. ASSUME NEW v \in ToSet(l) \cap ToSet(r) PROVE v \in ToSet(at.common)
    <3>1. DOMAIN l = 1 .. Len(l) /\ DOMAIN r = 1 .. Len(r)
      OBVIOUS
    <3>2. PICK m \in 1 .. Len(l) : l[m] = v
      BY <2>8, <3>1 DEF ToSet
    <3>3. PICK k \in 1 .. Len(r) : r[k] = v
      BY <2>8, <3>1 DEF ToSet
    <3>4. v \in ToSet(at.common) \/ (m >= at.l /\ k >= at.r)
      BY <2>4, <3>2, <3>3 DEF MergedUpTo
    <3> QED
      BY <2>6, <2>7, <3>4
  <2>9. Unique(at.common) /\ \A v \in ToSet(at.common) : v \in ToSet(l) \cap ToSet(r)
    BY <2>4 DEF MergedUpTo
  <2> QED
    BY <2>6, <2>8, <2>9 DEF SharedBy
<1> QED
  BY <1>3, <1>4

(* What Alice finds in both tables is that, if neither repeats elements.   *)
LEMMA CommonType ==
  ASSUME NEW S, S \subseteq Nat, NEW l \in Seq(S), NEW r \in Seq(S)
  PROVE  intersection_local(l, r) \in Seq(S)
<1> DEFINE a == Ascending(l)
           b == Ascending(r)
<1>1. a \in Seq(S) /\ b \in Seq(S)
  BY AscendingFacts
<1> HIDE DEF a, b
<1>2. Merge(a, b) \in Seq(S)
  BY <1>1, MergeFacts
<1> QED
  BY <1>2 DEF intersection_local, a, b

LEMMA CommonFacts ==
  ASSUME NEW S, S \subseteq Nat, NEW l \in Seq(S), NEW r \in Seq(S), Unique(l), Unique(r)
  PROVE  /\ Unique(intersection_local(l, r))
         /\ ToSet(intersection_local(l, r)) = SharedBy(l, r)
<1> DEFINE a == Ascending(l)
           b == Ascending(r)
<1>1. /\ a \in Seq(S) /\ ToSet(a) = ToSet(l) /\ Ascends(a)
      /\ b \in Seq(S) /\ ToSet(b) = ToSet(r) /\ Ascends(b)
  BY AscendingFacts DEF Ascends
<1> HIDE DEF a, b
<1>2. Ascends(a) /\ Ascends(b) =>
        Unique(Merge(a, b)) /\ ToSet(Merge(a, b)) = SharedBy(a, b)
  <2>1. a \in Seq(S) /\ b \in Seq(S)
    BY <1>1
  <2> QED
    BY <2>1, MergeFacts
<1>3. Unique(Merge(a, b)) /\ ToSet(Merge(a, b)) = SharedBy(l, r)
  BY <1>1, <1>2 DEF SharedBy
<1> QED
  BY <1>3 DEF intersection_local, a, b

-----------------------------------------------------------------------------
(* Types.                                                                  *)

Values == 0 .. Pow2[block_sz] - 1

(* The tables keep their lengths; nothing is committed before the start.   *)
TypeInv ==
  /\ TypeOK
  /\ call \in Calls
  /\ Len(lhs) = Len(call.lhs) /\ Len(rhs) = Len(call.rhs) /\ Len(mhs) = Len(call.mhs)
  /\ pc = "Start" => shs = << >> /\ uhs = << >> /\ i = 0

LEMMA CallFacts ==
  ASSUME NEW k \in Calls
  PROVE  /\ k.op \in Ops /\ k.block_sz \in Nat \ {0} /\ k.block_sz > TagBits
         /\ k.lhs \in Seq(0 .. Pow2[k.block_sz] - 1)
         /\ k.rhs \in Seq(0 .. Pow2[k.block_sz] - 1)
         /\ k.mhs \in Seq(0 .. Pow2[k.block_sz] - 1)
         /\ k.lhs # << >> /\ k.rhs # << >>
         /\ k.op = "subset" => Len(k.lhs) <= Len(k.rhs)
<1>1. k.op \in Ops /\ k.block_sz \in Nat /\ k.block_sz > TagBits
  BY CallsAssumption
<1>2. /\ k.lhs \in Seq(0 .. Pow2[k.block_sz] - 1)
      /\ k.rhs \in Seq(0 .. Pow2[k.block_sz] - 1)
      /\ k.mhs \in Seq(0 .. Pow2[k.block_sz] - 1)
  BY CallsAssumption
<1>3. k.lhs # << >> /\ k.rhs # << >> /\ (k.op = "subset" => Len(k.lhs) <= Len(k.rhs))
  BY CallsAssumption
<1> QED
  BY <1>1, <1>2, <1>3, WidthFacts

LEMMA StateFacts ==
  ASSUME TypeInv
  PROVE  /\ block_sz \in Nat \ {0} /\ Pow2[block_sz] \in Nat \ {0}
         /\ Values \subseteq Nat /\ 0 \in Values /\ dummy \in Values
         /\ lhs \in Seq(Values) /\ rhs \in Seq(Values) /\ mhs \in Seq(Values)
         /\ shs \in Seq(Values)
         /\ Len(lhs) \in Nat \ {0} /\ Len(rhs) \in Nat \ {0} /\ Len(mhs) \in Nat
         /\ verdict \in [{Alice, Bob} -> BOOLEAN]
<1>1. block_sz \in Nat \ {0}
  BY CallFacts, WidthFacts DEF TypeInv, TypeOK
<1>2. Pow2[block_sz] \in Nat \ {0}
  BY <1>1, Pow2Facts
<1>3. Values \subseteq Nat /\ 0 \in Values
  BY <1>2 DEF Values
<1>4. /\ lhs \in Seq(Values) /\ rhs \in Seq(Values) /\ mhs \in Seq(Values)
      /\ shs \in Seq(Values) /\ dummy \in Values
      /\ verdict \in [{Alice, Bob} -> BOOLEAN]
  BY DEF TypeInv, TypeOK, Values
<1>5. Len(call.lhs) \in Nat \ {0} /\ Len(call.rhs) \in Nat \ {0} /\ Len(mhs) \in Nat
  BY <1>4, CallFacts DEF TypeInv
<1> QED
  BY <1>1, <1>2, <1>3, <1>4, <1>5 DEF TypeInv

(* A key under a sign.                                                     *)
LEMMA SignedFacts ==
  ASSUME block_sz \in Nat, NEW s \in Seq(Values), NEW sig \in {0, 1}
  PROVE  /\ Signed(s, sig) \in Seq(0 .. Pow2[block_sz + 1] - 1)
         /\ Len(Signed(s, sig)) = Len(s)
         /\ \A n \in 1 .. Len(s) : ValOf(Signed(s, sig)[n]) = s[n] /\ SigOf(Signed(s, sig)[n]) = sig
<1> DEFINE P == Pow2[block_sz]
           t == Signed(s, sig)
<1>1. P \in Nat \ {0} /\ Pow2[block_sz + 1] = 2 * P
  BY Pow2Facts
<1>2. ASSUME NEW n \in 1 .. Len(s)
      PROVE  t[n] \in 0 .. 2 * P - 1 /\ t[n] % P = s[n] /\ t[n] \div P = sig
  <2>1. s[n] \in 0 .. P - 1
    <3>1. n \in DOMAIN s
      OBVIOUS
    <3>2. s[n] \in Values
      BY <3>1, ElementType
    <3> QED
      BY <3>2 DEF Values
  <2>2. t[n] = s[n] + sig * P
    BY DEF Signed
  <2> HIDE DEF t, P
  <2>3. t[n] = P * sig + s[n] /\ t[n] \in 0 .. 2 * P - 1
    BY <1>1, <2>1, <2>2
  <2>4. t[n] % P = s[n] /\ t[n] \div P = sig
    <3> DEFINE r == s[n]
    <3>1. r \in 0 .. P - 1 /\ sig \in Nat /\ t[n] = P * sig + r
      BY <2>1, <2>3
    <3> HIDE DEF r
    <3>2. (P * sig + r) \div P = sig /\ (P * sig + r) % P = r
      BY <1>1, <3>1, DivModOnce
    <3> QED
      BY <3>1, <3>2 DEF r
  <2> QED
    BY <2>3, <2>4
<1>3. t = [n \in 1 .. Len(s) |-> t[n]] /\ Len(s) \in Nat
  BY DEF Signed
<1>4. t \in Seq(0 .. 2 * P - 1) /\ Len(t) = Len(s)
  <2> HIDE DEF t, P
  <2> QED
    BY <1>2, <1>3
<1>5. \A n \in 1 .. Len(s) : ValOf(t[n]) = t[n] % P /\ SigOf(t[n]) = t[n] \div P
  BY DEF ValOf, SigOf
<1> HIDE DEF t
<1> QED
  BY <1>1, <1>2, <1>4, <1>5 DEF t

(* The order of the sorted union is one.                                   *)
SignedUnion == Signed(lhs, 0) \o Signed(rhs, 1)
KeyOrder == { p \in ToSet(SignedUnion) \X ToSet(SignedUnion) : CustomLess(p[1], p[2]) }

LEMMA UnionSorted ==
  ASSUME block_sz \in Nat, lhs \in Seq(Values), rhs \in Seq(Values)
  PROVE  LET S == 0 .. Pow2[block_sz + 1] - 1
             a == SignedUnion
             u == SortedBy(a, KeyOrder)
         IN  /\ a \in Seq(S) /\ Len(a) = Len(lhs) + Len(rhs)
             /\ u \in Seq(S) /\ Len(u) = Len(a)
             /\ \E p \in Bijection(DOMAIN a, DOMAIN a) : u = [n \in DOMAIN a |-> a[p[n]]]
             /\ \A m, n \in DOMAIN a : m < n => CustomLess(u[m], u[n]) \/ u[m] = u[n]
<1> DEFINE S == 0 .. Pow2[block_sz + 1] - 1
           a == SignedUnion
           T == ToSet(a)
           u == SortedBy(a, KeyOrder)
           P == Pow2[block_sz]
<1>1. a \in Seq(S) /\ Len(a) = Len(lhs) + Len(rhs)
  <2> DEFINE l == Signed(lhs, 0)
             r == Signed(rhs, 1)
  <2>1. l \in Seq(S) /\ r \in Seq(S) /\ Len(l) = Len(lhs) /\ Len(r) = Len(rhs)
    BY SignedFacts
  <2>2. a = l \o r
    BY DEF SignedUnion
  <2> HIDE DEF l, r, S, a, T, u
  <2>3. l \o r \in Seq(S) /\ Len(l \o r) = Len(l) + Len(r)
    BY <2>1
  <2> QED
    BY <2>1, <2>2, <2>3
<1>2. P \in Nat \ {0} /\ S \subseteq Nat
  <2>1. P \in Nat \ {0} /\ Pow2[block_sz + 1] = 2 * P
    BY Pow2Facts
  <2> QED
    BY <2>1
<1>3. \A x, y \in T : <<x, y>> \in KeyOrder <=> CustomLess(x, y)
  BY DEF KeyOrder
<1> HIDE DEF S, a
<1>4. DOMAIN a = 1 .. Len(a) /\ Len(a) \in Nat /\ \A n \in DOMAIN a : a[n] \in S
  BY <1>1, ElementType
<1>5. a \in Seq(T) /\ T \subseteq S
  <2>1. T \subseteq S /\ \A n \in DOMAIN a : a[n] \in T
    BY <1>4 DEF ToSet
  <2> HIDE DEF T
  <2>2. a = [n \in 1 .. Len(a) |-> a[n]]
    BY <1>1
  <2> QED
    BY <1>4, <2>1, <2>2
<1>6. ASSUME NEW x \in T
      PROVE  /\ ValOf(x) \in Nat /\ SigOf(x) \in Nat /\ x = P * SigOf(x) + ValOf(x)
  <2>1. x \in Nat
    BY <1>2, <1>5
  <2>2. x \div P \in Nat /\ x % P \in 0 .. P - 1 /\ x = P * (x \div P) + (x % P)
    BY <1>2, <2>1, DivMod
  <2>3. ValOf(x) = x % P /\ SigOf(x) = x \div P
    BY DEF ValOf, SigOf
  <2> HIDE DEF P
  <2> QED
    BY <1>2, <2>2, <2>3
<1> HIDE DEF P, T
<1>7. IsStrictOrder(T, KeyOrder)
  <2>1. \A x \in T : ~CustomLess(x, x)
    BY <1>6 DEF CustomLess
  <2>2. ASSUME NEW x \in T, NEW y \in T, x # y PROVE CustomLess(x, y) \/ CustomLess(y, x)
    <3>1. ValOf(x) # ValOf(y) \/ SigOf(x) # SigOf(y)
      BY <1>6, <2>2
    <3>2. ValOf(x) \in Nat /\ SigOf(x) \in Nat /\ ValOf(y) \in Nat /\ SigOf(y) \in Nat
      BY <1>6
    <3> QED
      BY <3>1, <3>2 DEF CustomLess
  <2>3. ASSUME NEW x \in T, NEW y \in T, NEW z \in T, CustomLess(x, y), CustomLess(y, z)
        PROVE  CustomLess(x, z)
    <3>1. /\ ValOf(x) \in Nat /\ SigOf(x) \in Nat /\ ValOf(y) \in Nat /\ SigOf(y) \in Nat
          /\ ValOf(z) \in Nat /\ SigOf(z) \in Nat
      BY <1>6
    <3> QED
      BY <2>3, <3>1 DEF CustomLess
  <2> QED
    BY <1>3, <2>1, <2>2, <2>3 DEF IsStrictOrder
<1>8. /\ \E p \in Bijection(DOMAIN a, DOMAIN a) : u = [n \in DOMAIN a |-> a[p[n]]]
      /\ \A m, n \in DOMAIN a : m < n => <<u[m], u[n]>> \in KeyOrder \/ u[m] = u[n]
  BY <1>5, <1>7, SortedFacts
<1> HIDE DEF u
<1>9. PICK p \in Bijection(DOMAIN a, DOMAIN a) : u = [n \in DOMAIN a |-> a[p[n]]]
  BY <1>8
<1>10. p \in [DOMAIN a -> DOMAIN a]
  <2> DEFINE D == DOMAIN a
  <2>1. p \in Bijection(D, D)
    BY <1>9
  <2> HIDE DEF D
  <2>2. p \in [D -> D]
    BY <2>1, Permutation
  <2> QED
    BY <2>2 DEF D
<1>11. u \in Seq(S) /\ u \in Seq(T) /\ Len(u) = Len(a)
  <2>1. \A n \in DOMAIN a : a[p[n]] \in S
    BY <1>4, <1>10
  <2>2. \A n \in DOMAIN a : a[p[n]] \in T
    BY <1>5, <1>10, ElementType
  <2> QED
    BY <1>4, <1>9, <2>1, <2>2
<1>12. \A m, n \in DOMAIN a : m < n => CustomLess(u[m], u[n]) \/ u[m] = u[n]
  <2>1. \A n \in DOMAIN a : u[n] \in T
    BY <1>4, <1>11
  <2> QED
    BY <1>3, <1>8, <2>1
<1> QED
  BY <1>1, <1>8, <1>11, <1>12 DEF S, a, u

(* What BobChecks makes of the verdicts.                                   *)
LEMMA Checked ==
  ASSUME NEW v \in [{Alice, Bob} -> BOOLEAN], NEW check \in BOOLEAN, NEW w,
         w = [v EXCEPT ![Bob] = @ /\ check]
  PROVE  /\ w \in [{Alice, Bob} -> BOOLEAN]
         /\ w[Bob] <=> v[Bob] /\ check
         /\ w[Alice] = v[Alice]
<1>1. Alice # Bob
  BY DEF Alice, Bob
<1> QED
  BY <1>1

LEMMA TypeKept ==
  ASSUME TypeInv,
         UNCHANGED <<call, lhs, rhs, mhs, block_sz, dummy>>, shs' \in Seq(Values),
         uhs' \in Seq(0 .. Pow2[block_sz + 1] - 1), i' \in 0 .. Len(uhs'),
         res' \in BOOLEAN, verdict' \in [{Alice, Bob} -> BOOLEAN],
         pc' \in {"Intersect", "Combine", "Walk", "Done", "Aborted", "OutOfStep"}
  PROVE  TypeInv'
BY DEF TypeInv, TypeOK, Values

LEMMA CompressedTable ==
  ASSUME block_sz \in Nat \ {0}, NEW s \in Seq(Values),
         NEW c \in [1 .. Blocks(block_sz) -> Coefficients]
  PROVE  /\ compressBitsToBlock(s, block_sz, c) \in Seq(0 .. Pow2[BlockBits] - 1)
         /\ Len(compressBitsToBlock(s, block_sz, c)) = Len(s)
<1> DEFINE t == compressBitsToBlock(s, block_sz, c)
           T == 0 .. Pow2[BlockBits] - 1
<1>1. DOMAIN s = 1 .. Len(s) /\ Len(s) \in Nat
  OBVIOUS
<1>2. ASSUME NEW n \in 1 .. Len(s) PROVE compress(s[n], block_sz, c) \in T
  <2>1. s[n] \in Values
    BY <1>1, ElementType
  <2>2. Pow2[block_sz] \in Nat
    BY Pow2Facts
  <2>3. s[n] \in Nat
    BY <2>1, <2>2 DEF Values
  <2> QED
    BY <2>3, CompressFacts
<1>3. t = [n \in 1 .. Len(s) |-> compress(s[n], block_sz, c)]
  BY <1>1 DEF compressBitsToBlock
<1> HIDE DEF t, T
<1>4. t \in Seq(T) /\ Len(t) = Len(s)
  BY <1>1, <1>2, <1>3
<1> QED
  BY <1>4 DEF t, T

LEMMA CutFacts ==
  ASSUME NEW S, NEW s \in Seq(S), NEW n \in 0 .. Len(s)
  PROVE  SubSeq(s, 1, n) \in Seq(S) /\ Len(SubSeq(s, 1, n)) = n
<1>1. \A k \in 1 .. n : s[k] \in S
  OBVIOUS
<1>2. SubSeq(s, 1, n) = [k \in 1 .. n |-> s[k]] /\ n \in Nat
  OBVIOUS
<1> QED
  BY <1>1, <1>2

(* What Alice commits for the intersection has the length Bob expects.     *)
LEMMA CommittedCommon ==
  ASSUME TypeInv, CommitCommon
  PROVE  LET common == intersection_local(lhs, rhs)
         IN  /\ common \in Seq(Values) /\ scount \in Nat
             /\ shs' \in Seq(Values) /\ Len(shs') = scount
             /\ Len(common) = scount => shs' = common
<1> DEFINE common == intersection_local(lhs, rhs)
           n == scount - Len(common)
<1>1. common \in Seq(Values) /\ scount \in Nat /\ Len(common) \in Nat /\ 0 \in Values
  <2>1. common \in Seq(Values)
    BY StateFacts, CommonType
  <2>2. scount \in Nat
    BY StateFacts DEF CommitCommon, scount
  <2> QED
    BY <2>1, <2>2, StateFacts
<1>2. shs' = IF Len(common) <= scount THEN common \o Fill(n, 0)
             ELSE SubSeq(common, 1, scount)
  BY DEF CommitCommon
<1> HIDE DEF common
<1>3. CASE Len(common) <= scount
  <2>1. n \in Nat
    BY <1>1, <1>3
  <2> DEFINE f == Fill(n, 0)
  <2>2. f \in Seq(Values) /\ Len(f) = n
    BY <1>1, <2>1, FillFacts
  <2>3. shs' = common \o f
    BY <1>2, <1>3
  <2> HIDE DEF f
  <2>4. common \o f \in Seq(Values) /\ Len(common \o f) = Len(common) + Len(f)
    BY <1>1, <2>2
  <2>5. Len(common) = scount => common \o f = common
    <3> SUFFICES ASSUME Len(common) = scount PROVE common \o f = common
      OBVIOUS
    <3>1. Len(f) = 0
      BY <1>1, <2>2
    <3>2. f = << >>
      BY <2>2, <3>1
    <3> QED
      BY <1>1, <3>2
  <2> QED
    BY <1>1, <2>2, <2>3, <2>4, <2>5 DEF common
<1>4. CASE ~(Len(common) <= scount)
  <2>1. scount \in 0 .. Len(common)
    BY <1>1, <1>4
  <2>2. SubSeq(common, 1, scount) \in Seq(Values) /\ Len(SubSeq(common, 1, scount)) = scount
    BY <1>1, <2>1, CutFacts
  <2> QED
    BY <1>1, <1>2, <1>4, <2>2 DEF common
<1> QED
  BY <1>3, <1>4

LEMMA TypeStep ==
  ASSUME TypeInv, [Next]_vars
  PROVE  TypeInv'
<1> DEFINE Words == Seq(0 .. Pow2[block_sz + 1] - 1)
           Verdicts == [{Alice, Bob} -> BOOLEAN]
           Stages == {"Intersect", "Combine", "Walk", "Done", "Aborted", "OutOfStep"}
<1>1. /\ shs \in Seq(Values) /\ uhs \in Words /\ i \in 0 .. Len(uhs) /\ res \in BOOLEAN
      /\ verdict \in Verdicts
  BY StateFacts DEF TypeInv, TypeOK
<1> HIDE DEF Words, Verdicts
<1>2. ASSUME NEW check \in BOOLEAN, verdict' = [verdict EXCEPT ![Bob] = @ /\ check]
      PROVE  verdict' \in Verdicts
  BY <1>1, <1>2, Checked DEF Verdicts
<1>3. ASSUME UNCHANGED <<call, lhs, rhs, mhs, block_sz, dummy, shs, uhs, i, res>>,
             verdict' \in Verdicts, pc' \in Stages
      PROVE  TypeInv'
  BY <1>1, <1>3, TypeKept DEF Words, Verdicts
<1>4. CASE Equal
  <2>1. PICK c : verdict' = [verdict EXCEPT ![Bob] = @ /\ equal(lhs, rhs, block_sz, c)]
    BY <1>4 DEF Equal, BobChecks
  <2> DEFINE check == equal(lhs, rhs, block_sz, c)
  <2>2. check \in BOOLEAN
    BY DEF equal, check_set_equality
  <2> HIDE DEF check
  <2>3. verdict' \in Verdicts
    BY <1>2, <2>1, <2>2 DEF check
  <2> QED
    BY <1>3, <1>4, <2>3 DEF Equal, Return
<1>5. CASE Compress
  <2> DEFINE T == 0 .. Pow2[BlockBits] - 1
  <2>1. PICK c \in Draws(ToSet(lhs \o rhs \o mhs) \union {dummy, 0}, block_sz) :
          /\ lhs' = compressBitsToBlock(lhs, block_sz, c)
          /\ rhs' = compressBitsToBlock(rhs, block_sz, c)
          /\ mhs' = compressBitsToBlock(mhs, block_sz, c)
          /\ dummy' = compress(dummy, block_sz, c)
    BY <1>5 DEF Compress
  <2>2. c \in [1 .. Blocks(block_sz) -> Coefficients]
    BY DEF Draws
  <2>3. /\ lhs' \in Seq(T) /\ Len(lhs') = Len(lhs)
        /\ rhs' \in Seq(T) /\ Len(rhs') = Len(rhs)
        /\ mhs' \in Seq(T) /\ Len(mhs') = Len(mhs)
    BY <2>1, <2>2, StateFacts, CompressedTable
  <2>4. dummy' \in T
    <3>1. dummy \in Nat
      BY StateFacts
    <3> QED
      BY <2>1, <2>2, <3>1, StateFacts, CompressFacts
  <2> DEFINE check == /\ checkCorrectCompression(lhs', lhs')
                      /\ checkCorrectCompression(rhs', rhs')
                      /\ checkCorrectCompression(mhs', mhs')
  <2>5. verdict' = [verdict EXCEPT ![Bob] = @ /\ check] /\ check \in BOOLEAN
    BY <1>5 DEF Compress, BobChecks, checkCorrectCompression, check_set_equality
  <2> HIDE DEF check
  <2>6. verdict' \in Verdicts
    BY <1>2, <2>5
  <2>7. /\ call' = call /\ block_sz' = BlockBits /\ shs' = << >> /\ uhs' = << >>
        /\ i' = 0 /\ res' = res /\ pc' = "Start"
    BY <1>5 DEF Compress, TypeInv
  <2> QED
    BY <1>1, <2>3, <2>4, <2>6, <2>7 DEF TypeInv, TypeOK, Verdicts
<1>6. CASE Subset
  <2>1. PICK check \in BOOLEAN : verdict' = [verdict EXCEPT ![Bob] = @ /\ check]
    BY <1>6 DEF Subset, BobChecks, check_set_equality
  <2> QED
    BY <1>2, <1>3, <1>6, <2>1 DEF Subset, Return
<1>7. CASE SubsetOutOfStep
  BY <1>1, <1>3, <1>7 DEF SubsetOutOfStep
<1>8. CASE CommitCommon
  <2>1. shs' \in Seq(Values)
    BY <1>8, CommittedCommon
  <2> QED
    BY <1>1, <1>8, <2>1, TypeKept DEF CommitCommon, Words, Verdicts
<1>9. CASE Intersect
  <2>1. PICK check \in BOOLEAN : verdict' = [verdict EXCEPT ![Bob] = @ /\ check]
    BY <1>9 DEF Intersect, BobChecks, check_set_equality
  <2> QED
    BY <1>2, <1>3, <1>9, <2>1 DEF Intersect
<1>10. CASE Combine
  <2> DEFINE check == equal(lhs \o rhs, mhs \o shs, block_sz, << >>)
  <2>1. verdict' = [verdict EXCEPT ![Bob] = @ /\ check] /\ check \in BOOLEAN
    BY <1>10 DEF Combine, BobChecks, equal, check_set_equality
  <2> HIDE DEF check
  <2> QED
    BY <1>2, <1>3, <1>10, <2>1 DEF Combine, Return
<1>11. CASE Abort
  BY <1>1, <1>3, <1>11 DEF Abort
<1>12. CASE CommitSorted
  <2> DEFINE u == SortedBy(SignedUnion, KeyOrder)
  <2>1. u \in Words /\ Len(u) \in Nat /\ Len(u) # 0
    BY StateFacts, UnionSorted DEF Words
  <2>2. uhs' = u
    BY <1>12 DEF CommitSorted, SignedUnion, KeyOrder
  <2> HIDE DEF u
  <2>3. PICK c : verdict' = [verdict EXCEPT ![Bob] = @ /\ equal(SignedUnion, uhs', block_sz + 1, c)]
    BY <1>12 DEF CommitSorted, BobChecks, SignedUnion
  <2> DEFINE check == equal(SignedUnion, uhs', block_sz + 1, c)
  <2>4. check \in BOOLEAN
    BY DEF equal, check_set_equality
  <2> HIDE DEF check
  <2>5. verdict' \in Verdicts
    BY <1>2, <2>3, <2>4 DEF check
  <2>6. i' \in 0 .. Len(uhs')
    BY <1>12, <2>1, <2>2 DEF CommitSorted
  <2> QED
    BY <1>1, <1>12, <2>1, <2>2, <2>5, <2>6, TypeKept DEF CommitSorted, Words, Verdicts
<1>13. CASE Walk
  <2>1. res' \in BOOLEAN
    BY <1>1, <1>13 DEF Walk, Apart
  <2>2. i' \in 0 .. Len(uhs')
    BY <1>1, <1>13 DEF Walk, Words
  <2> QED
    BY <1>1, <1>13, <2>1, <2>2, TypeKept DEF Walk, Words, Verdicts
<1>14. CASE Reveal
  <2>1. verdict' \in Verdicts
    BY <1>1, <1>14 DEF Reveal, Verdicts
  <2> QED
    BY <1>3, <1>14, <2>1 DEF Reveal, Return
<1>15. CASE Terminated \/ UNCHANGED vars
  BY <1>15 DEF Terminated, vars, TypeInv, TypeOK
<1> QED
  BY <1>4, <1>5, <1>6, <1>7, <1>8, <1>9, <1>10, <1>11, <1>12, <1>13, <1>14, <1>15 DEF Next

LEMMA TypeInit ==
  ASSUME Init
  PROVE  TypeInv
<1>1. /\ call \in Calls /\ lhs = call.lhs /\ rhs = call.rhs /\ mhs = call.mhs
      /\ block_sz = call.block_sz /\ dummy = Pow2[block_sz - TagBits]
      /\ shs = << >> /\ uhs = << >> /\ i = 0 /\ res = TRUE
      /\ verdict = [p \in {Alice, Bob} |-> TRUE] /\ pc = "Start"
  BY DEF Init
<1>2. /\ call.op \in Ops /\ block_sz \in Nat /\ block_sz > TagBits
      /\ lhs \in Seq(0 .. Pow2[block_sz] - 1) /\ rhs \in Seq(0 .. Pow2[block_sz] - 1)
      /\ mhs \in Seq(0 .. Pow2[block_sz] - 1)
  BY <1>1, CallFacts
<1>3. dummy \in 0 .. Pow2[block_sz] - 1
  <2> DEFINE m == block_sz - TagBits
  <2>1. m \in Nat /\ TagBits - 1 \in Nat /\ TagBits \in Nat /\ block_sz = m + TagBits
        /\ TagBits = (TagBits - 1) + 1
    BY <1>2, WidthFacts
  <2> HIDE DEF m
  <2>2. /\ Pow2[block_sz] = Pow2[m] * Pow2[TagBits] /\ Pow2[m] \in Nat \ {0}
        /\ Pow2[TagBits - 1] \in Nat \ {0} /\ Pow2[TagBits] = 2 * Pow2[TagBits - 1]
    BY <2>1, Pow2Sum, Pow2Facts
  <2> DEFINE x == Pow2[m]
             y == Pow2[TagBits - 1]
  <2>3. x \in Nat \ {0} /\ y \in Nat \ {0} /\ Pow2[block_sz] = x * (2 * y) /\ dummy = x
    BY <1>1, <2>2 DEF m
  <2> HIDE DEF x, y
  <2>4. x * (2 * y) > x
    BY <2>3
  <2> QED
    BY <2>3, <2>4
<1>4. verdict \in [{Alice, Bob} -> BOOLEAN]
  BY <1>1
<1>5. uhs \in Seq(0 .. Pow2[block_sz + 1] - 1) /\ i \in 0 .. Len(uhs)
  BY <1>1
<1>6. shs \in Seq(0 .. Pow2[block_sz] - 1)
  BY <1>1
<1> QED
  BY <1>1, <1>2, <1>3, <1>4, <1>5, <1>6 DEF TypeInv, TypeOK

(* In every state of a call the tables hold elements of the current width, *)
(* the committed vectors of the union and of the walk too, and the walk    *)
(* stays inside the sorted union.                                          *)
THEOREM TypeCorrect == Spec => []TypeOK
<1>1. Init => TypeInv
  BY TypeInit
<1>2. TypeInv /\ [Next]_vars => TypeInv'
  BY TypeStep
<1>3. TypeInv => TypeOK
  BY DEF TypeInv
<1> QED
  BY <1>1, <1>2, <1>3, PTL DEF Spec

-----------------------------------------------------------------------------
(* What the checks of the multisets say.                                   *)

(* s has each element of c as often as c.                                  *)
Within(c, s) == \A v \in ToSet(c) : Count(s, v) = Count(c, v)

(* s is what it lacks of c, and c.                                         *)
LEMMA SplitEqual ==
  ASSUME NEW S, NEW s \in Seq(S), NEW c \in Seq(S)
  PROVE  ToBag(s) = ToBag(Split(s, c)) <=> Within(c, s)
<1> DEFINE m == set_minus_origin(s, ToSet(c))
<1>1. m \in Seq(S) /\ \A v : Count(m, v) = IF v \in ToSet(c) THEN 0 ELSE Count(s, v)
  BY MinusOriginFacts, MinusOriginCount
<1>2. Split(s, c) = m \o c
  BY DEF Split
<1> HIDE DEF m
<1>3. \A v : /\ Count(c, v) \in Nat /\ (Count(c, v) = 0 <=> v \notin ToSet(c))
             /\ Count(s, v) \in Nat
             /\ Count(m \o c, v) = Count(m, v) + Count(c, v)
  BY <1>1, CountFacts, CountConcat
<1>4. \A v : Count(m \o c, v) = IF v \in ToSet(c) THEN Count(c, v) ELSE Count(s, v)
  BY <1>1, <1>3
<1>5. m \o c \in Seq(S)
  BY <1>1
<1>6. ToBag(s) = ToBag(m \o c) <=> \A v : Count(s, v) = Count(m \o c, v)
  BY <1>5, BagsEqual
<1> QED
  BY <1>2, <1>4, <1>6 DEF Within

(* A table that has each element of c as often as c is longer by what is   *)
(* left of it.                                                             *)
LEMMA PartLength ==
  ASSUME NEW S, NEW s \in Seq(S), NEW c \in Seq(S), Within(c, s)
  PROVE  Len(set_minus_origin(s, ToSet(c))) = Len(s) - Len(c)
<1> DEFINE D == DOMAIN s
           C == DOMAIN c
           U == { n \in D : s[n] \notin ToSet(c) }
           B == D \ U
           f == [v \in ToSet(c) |-> CHOOSE g : g \in Bijection(PlacesOf(c, v), PlacesOf(s, v))]
           g == [n \in C |-> f[c[n]][n]]
<1>1. Len(set_minus_origin(s, ToSet(c))) = Cardinality(U)
  BY MinusOriginFacts
<1>2. /\ IsFiniteSet(D) /\ Cardinality(D) = Len(s) /\ Len(s) \in Nat
      /\ IsFiniteSet(C) /\ Cardinality(C) = Len(c) /\ Len(c) \in Nat
  BY DomainFinite
<1>3. ASSUME NEW v \in ToSet(c)
      PROVE  f[v] \in Bijection(PlacesOf(c, v), PlacesOf(s, v))
  <2>1. Count(s, v) = Count(c, v)
    BY DEF Within
  <2>2. ExistsBijection(PlacesOf(c, v), PlacesOf(s, v))
    BY <2>1, PlacesOfFinite, FS_SameCardinalityBij DEF Count
  <2>3. \E h : h \in Bijection(PlacesOf(c, v), PlacesOf(s, v))
    BY <2>2 DEF ExistsBijection
  <2> QED
    BY <2>3
<1>4. \A n \in C : c[n] \in ToSet(c) /\ n \in PlacesOf(c, c[n])
  BY DEF ToSet, PlacesOf
<1>5. \A n \in B : s[n] \in ToSet(c) /\ n \in PlacesOf(s, s[n])
  BY DEF PlacesOf
<1> HIDE DEF f
<1>6. ASSUME NEW n \in C PROVE g[n] = f[c[n]][n] /\ g[n] \in B /\ s[g[n]] = c[n]
  <2>1. f[c[n]] \in [PlacesOf(c, c[n]) -> PlacesOf(s, c[n])]
    BY <1>3, <1>4 DEF Bijection, Injection
  <2>2. f[c[n]][n] \in PlacesOf(s, c[n])
    BY <1>4, <2>1
  <2> QED
    BY <1>4, <2>2 DEF PlacesOf
<1>7. g \in [C -> B]
  BY <1>6
<1>8. ASSUME NEW m \in C, NEW n \in C, g[m] = g[n] PROVE m = n
  <2>1. c[m] = c[n]
    BY <1>6, <1>8
  <2>2. f[c[n]][m] = f[c[n]][n] /\ m \in PlacesOf(c, c[n]) /\ n \in PlacesOf(c, c[n])
    BY <1>4, <1>6, <1>8, <2>1
  <2>3. f[c[n]] \in Injection(PlacesOf(c, c[n]), PlacesOf(s, c[n]))
    BY <1>3, <1>4 DEF Bijection
  <2> QED
    BY <2>2, <2>3 DEF Injection, IsInjective
<1>9. ASSUME NEW y \in B PROVE \E n \in C : g[n] = y
  <2>1. f[s[y]] \in Surjection(PlacesOf(c, s[y]), PlacesOf(s, s[y]))
    BY <1>3, <1>5 DEF Bijection
  <2>2. PICK n \in PlacesOf(c, s[y]) : f[s[y]][n] = y
    BY <1>5, <2>1 DEF Surjection
  <2>3. n \in C /\ c[n] = s[y]
    BY DEF PlacesOf
  <2> QED
    BY <1>6, <2>2, <2>3
<1>10. Cardinality(D \ U) = Cardinality(C)
  <2> HIDE DEF g, B, C
  <2>1. Cardinality(B) = Cardinality(C)
    BY <1>2, <1>7, <1>8, <1>9, SameSize
  <2> QED
    BY <2>1 DEF B
<1>11. U \in SUBSET D
  OBVIOUS
<1> HIDE DEF g, U, C, D
<1>12. IsFiniteSet(U) /\ Cardinality(D \ U) = Cardinality(D) - Cardinality(D \cap U)
  BY <1>2, <1>11, FS_Subset, FS_Difference
<1>13. D \cap U = U /\ Cardinality(U) \in Nat
  BY <1>11, <1>12, FS_CardinalityType
<1>14. Cardinality(C) = Cardinality(D) - Cardinality(U)
  BY ONLY <1>10, <1>12, <1>13
<1>15. Len(c) = Len(s) - Cardinality(U)
  BY ONLY <1>2, <1>14
<1> QED
  BY ONLY <1>1, <1>2, <1>13, <1>15

(* A part of a table without repetitions can be split off.                 *)
LEMMA PartFits ==
  ASSUME NEW S, NEW s \in Seq(S), NEW c \in Seq(S), Unique(s), Unique(c),
         ToSet(c) \subseteq ToSet(s)
  PROVE  /\ Within(c, s)
         /\ Len(set_minus_origin(s, ToSet(c))) = Len(s) - Len(c)
<1>1. Within(c, s)
  BY UniqueCount DEF Within
<1> QED
  BY <1>1, PartLength

(* What tables without repetitions have in common is as long as Bob        *)
(* expects.                                                                *)
LEMMA CommonLength ==
  ASSUME NEW S, NEW l \in Seq(S), NEW r \in Seq(S), NEW m \in Seq(S), NEW c \in Seq(S),
         Unique(l), Unique(r), Unique(m), Unique(c),
         ToSet(m) = ToSet(l) \cup ToSet(r), ToSet(c) = SharedBy(l, r)
  PROVE  Len(c) = Len(l) + Len(r) - Len(m)
<1> DEFINE A == ToSet(l)
           B == ToSet(r)
<1>1. /\ IsFiniteSet(A) /\ Cardinality(A) = Len(l)
      /\ IsFiniteSet(B) /\ Cardinality(B) = Len(r)
      /\ Cardinality(A \cup B) = Len(m) /\ Cardinality(A \cap B) = Len(c)
  BY UniqueLength DEF SharedBy
<1> HIDE DEF A, B
<1>2. Cardinality(A \cup B) = Cardinality(A) + Cardinality(B) - Cardinality(A \cap B)
  BY <1>1, FS_Union
<1>3. Len(l) \in Nat /\ Len(r) \in Nat /\ Len(m) \in Nat /\ Len(c) \in Nat
  OBVIOUS
<1>4. Len(m) = Len(l) + Len(r) - Len(c)
  BY ONLY <1>1, <1>2
<1> QED
  BY ONLY <1>3, <1>4

(* L + R = M + S proves M the union if S is part of both.                  *)
LEMMA UnionProved ==
  ASSUME NEW S, NEW l \in Seq(S), NEW r \in Seq(S), NEW m \in Seq(S), NEW c \in Seq(S),
         Within(c, l), Within(c, r), ToBag(l \o r) = ToBag(m \o c)
  PROVE  ToSet(m) = ToSet(l) \cup ToSet(r)
<1> SUFFICES ASSUME NEW v PROVE v \in ToSet(m) <=> v \in ToSet(l) \cup ToSet(r)
  OBVIOUS
<1>1. l \o r \in Seq(S) /\ m \o c \in Seq(S)
  OBVIOUS
<1>2. Count(l \o r, v) = Count(m \o c, v)
  BY <1>1, BagsEqual
<1>3. Count(l, v) + Count(r, v) = Count(m, v) + Count(c, v)
  BY <1>2, CountConcat
<1>4. /\ Count(l, v) \in Nat /\ (Count(l, v) = 0 <=> v \notin ToSet(l))
      /\ Count(r, v) \in Nat /\ (Count(r, v) = 0 <=> v \notin ToSet(r))
      /\ Count(m, v) \in Nat /\ (Count(m, v) = 0 <=> v \notin ToSet(m))
      /\ Count(c, v) \in Nat /\ (Count(c, v) = 0 <=> v \notin ToSet(c))
  BY CountFacts
<1>5. CASE v \in ToSet(c)
  <2>1. Count(l, v) = Count(c, v) /\ Count(r, v) = Count(c, v)
    BY <1>5 DEF Within
  <2> QED
    BY <1>3, <1>4, <1>5, <2>1
<1>6. CASE v \notin ToSet(c)
  BY <1>3, <1>4, <1>6
<1> QED
  BY <1>5, <1>6

(* ... and holds of the union and the intersection of sets.                *)
LEMMA UnionProvable ==
  ASSUME NEW S, NEW l \in Seq(S), NEW r \in Seq(S), NEW m \in Seq(S), NEW c \in Seq(S),
         Unique(l), Unique(r), Unique(m), Unique(c),
         ToSet(m) = ToSet(l) \cup ToSet(r), ToSet(c) = SharedBy(l, r)
  PROVE  ToBag(l \o r) = ToBag(m \o c)
<1>1. l \o r \in Seq(S) /\ m \o c \in Seq(S)
  OBVIOUS
<1>2. ASSUME NEW v PROVE Count(l \o r, v) = Count(m \o c, v)
  <2>1. /\ Count(l \o r, v) = Count(l, v) + Count(r, v)
        /\ Count(m \o c, v) = Count(m, v) + Count(c, v)
    BY CountConcat
  <2>2. /\ Count(l, v) = IF v \in ToSet(l) THEN 1 ELSE 0
        /\ Count(r, v) = IF v \in ToSet(r) THEN 1 ELSE 0
        /\ Count(m, v) = IF v \in ToSet(m) THEN 1 ELSE 0
        /\ Count(c, v) = IF v \in ToSet(c) THEN 1 ELSE 0
    BY UniqueCount
  <2> QED
    BY <2>1, <2>2 DEF SharedBy
<1> QED
  BY <1>1, <1>2, BagsEqual

(* What Alice commits for a subset.                                        *)
LEMMA Refilled ==
  ASSUME NEW S, NEW x \in S, NEW m \in Seq(S), NEW l \in Seq(S), NEW n \in Nat, NEW v
  PROVE  /\ m \o Fill(n, x) \o l \in Seq(S)
         /\ Count(m \o Fill(n, x) \o l, v) =
              Count(m, v) + (IF v = x THEN n ELSE 0) + Count(l, v)
<1> DEFINE f == Fill(n, x)
           g == m \o f
<1>1. f \in Seq(S) /\ Count(f, v) = IF v = x THEN n ELSE 0
  BY FillFacts
<1>2. g \in Seq(S) /\ Count(g, v) = Count(m, v) + Count(f, v)
  <2> HIDE DEF f
  <2> QED
    BY <1>1, CountConcat
<1> HIDE DEF f, g
<1>3. g \o l \in Seq(S) /\ Count(g \o l, v) = Count(g, v) + Count(l, v)
  BY <1>2, CountConcat
<1> QED
  BY <1>1, <1>2, <1>3 DEF f, g

(* Of a subset without repetitions of a table that ends in zero the        *)
(* fillers make up for the zero that set_minus leaves out.                 *)
LEMMA SubsetFits ==
  ASSUME NEW S, 0 \in S, NEW l \in Seq(S), NEW r \in Seq(S), r # << >>, Unique(l), Unique(r),
         ToSet(l) \subseteq ToSet(r), Last(r) = 0
  PROVE  LET m == set_minus(r, ToSet(l))
             n == Len(r) - Len(l) - Len(m)
         IN  n \in Nat /\ ToBag(r) = ToBag(m \o Fill(n, 0) \o l)
<1> DEFINE m == set_minus(r, ToSet(l))
           n == Len(r) - Len(l) - Len(m)
           U == { k \in DOMAIN r : r[k] # Last(r) /\ r[k] \notin ToSet(l) }
           V == { r[k] : k \in U }
           A == ToSet(r)
           B == ToSet(l)
<1>1. /\ m \in Seq(S) /\ Len(m) = Cardinality(U)
      /\ \A v : Count(m, v) = IF v = 0 \/ v \in B THEN 0 ELSE Count(r, v)
  <2>1. m \in Seq(S) /\ Len(m) = Cardinality(U)
    BY MinusFacts
  <2>2. \A v : Count(m, v) = IF v = 0 \/ v \in B THEN 0 ELSE Count(r, v)
    BY MinusCount
  <2> HIDE DEF m, B
  <2> QED
    BY <2>1, <2>2
<1>2. Cardinality(V) = Cardinality(U)
  <2>1. U \in SUBSET DOMAIN r
    OBVIOUS
  <2> HIDE DEF U
  <2> QED
    BY <2>1, UniquePicked
<1>3. V = (A \ B) \ {0}
  BY DEF ToSet
<1>4. 0 \in A
  <2>1. Len(r) \in DOMAIN r
    OBVIOUS
  <2> QED
    BY <2>1 DEF Last, ToSet
<1>5. /\ IsFiniteSet(A) /\ Cardinality(A) = Len(r)
      /\ IsFiniteSet(B) /\ Cardinality(B) = Len(l)
      /\ Len(r) \in Nat /\ Len(l) \in Nat
  BY UniqueLength
<1>6. \A v : /\ Count(r, v) = IF v \in A THEN 1 ELSE 0
             /\ Count(l, v) = IF v \in B THEN 1 ELSE 0
  BY UniqueCount
<1>7. B \in SUBSET A
  OBVIOUS
<1> HIDE DEF A, B, U, V, m
<1>8. Cardinality(A \ B) = Len(r) - Len(l) /\ IsFiniteSet(A \ B)
  <2>1. Cardinality(A \ B) = Cardinality(A) - Cardinality(A \cap B) /\ IsFiniteSet(A \ B)
    BY <1>5, FS_Difference
  <2>2. A \cap B = B
    BY <1>7
  <2> QED
    BY <1>5, <2>1, <2>2
<1>9. n = IF 0 \in B THEN 0 ELSE 1
  <2>1. CASE 0 \in B
    <3>1. V = A \ B
      BY <1>3, <2>1
    <3> QED
      BY <1>1, <1>2, <1>5, <1>8, <2>1, <3>1
  <2>2. CASE 0 \notin B
    <3>1. 0 \in A \ B
      BY <1>4, <2>2
    <3>2. Cardinality(V) = Cardinality(A \ B) - 1
      BY <1>3, <1>8, <3>1, FS_RemoveElement
    <3> QED
      BY <1>1, <1>2, <1>5, <1>8, <2>2, <3>2
  <2> QED
    BY <2>1, <2>2
<1> HIDE DEF n
<1> DEFINE t == m \o Fill(n, 0) \o l
<1>10. n \in Nat
  BY <1>9
<1>11. /\ t \in Seq(S)
       /\ \A v : Count(t, v) = Count(m, v) + (IF v = 0 THEN n ELSE 0) + Count(l, v)
  <2>1. m \in Seq(S)
    BY <1>1
  <2> QED
    BY <1>10, <2>1, Refilled
<1> HIDE DEF t
<1>12. \A v : Count(r, v) = Count(t, v)
  <2> SUFFICES ASSUME NEW v PROVE Count(r, v) = Count(t, v)
    OBVIOUS
  <2>1. CASE v = 0
    BY <1>1, <1>4, <1>6, <1>9, <1>11, <2>1
  <2>2. CASE v # 0
    BY <1>1, <1>6, <1>7, <1>11, <2>2
  <2> QED
    BY <2>1, <2>2
<1>13. ToBag(r) = ToBag(t)
  BY <1>11, <1>12, BagsEqual
<1> QED
  BY <1>10, <1>13 DEF t, n, m

-----------------------------------------------------------------------------
(* Elements renamed one to one, as compression does.                       *)

RenamedTable(s, h) == [n \in DOMAIN s |-> h[s[n]]]
OneToOne(h, E) == \A a, b \in E : h[a] = h[b] => a = b
Renamings(h, E) == { h[v] : v \in E }

LEMMA CountRenamed ==
  ASSUME NEW s, NEW E, ToSet(s) \subseteq E, NEW h, OneToOne(h, E), NEW v \in E
  PROVE  Count(RenamedTable(s, h), h[v]) = Count(s, v)
<1>1. \A n \in DOMAIN s : s[n] \in E
  BY DEF ToSet
<1>2. PlacesOf(RenamedTable(s, h), h[v]) = PlacesOf(s, v)
  BY <1>1 DEF PlacesOf, OneToOne, RenamedTable
<1> QED
  BY <1>2 DEF Count

LEMMA RenamedFacts ==
  ASSUME NEW S, NEW s \in Seq(S), NEW E, ToSet(s) \subseteq E, NEW h, OneToOne(h, E)
  PROVE  /\ RenamedTable(s, h) \in Seq(Renamings(h, E))
         /\ Len(RenamedTable(s, h)) = Len(s)
         /\ ToSet(RenamedTable(s, h)) = Renamings(h, ToSet(s))
         /\ Unique(RenamedTable(s, h)) <=> Unique(s)
<1> DEFINE t == RenamedTable(s, h)
           T == Renamings(h, E)
<1>1. /\ DOMAIN s = 1 .. Len(s) /\ Len(s) \in Nat /\ t = [n \in 1 .. Len(s) |-> h[s[n]]]
      /\ \A n \in DOMAIN s : s[n] \in E
  BY DEF ToSet, RenamedTable
<1>2. t \in Seq(T) /\ Len(t) = Len(s)
  <2>1. \A n \in 1 .. Len(s) : h[s[n]] \in T
    BY <1>1 DEF Renamings
  <2> HIDE DEF T, t
  <2> QED
    BY <1>1, <2>1
<1>3. ToSet(t) = Renamings(h, ToSet(s))
  BY <1>1 DEF ToSet, Renamings
<1>4. Unique(t) <=> Unique(s)
  <2>1. DOMAIN t = DOMAIN s /\ \A n \in DOMAIN s : t[n] = h[s[n]]
    BY <1>1
  <2> HIDE DEF t
  <2>2. \A m, n \in DOMAIN s : t[m] = t[n] <=> s[m] = s[n]
    BY <1>1, <2>1 DEF OneToOne
  <2> QED
    BY <2>1, <2>2 DEF Unique, IsInjective
<1> QED
  BY <1>2, <1>3, <1>4

LEMMA RenamedBags ==
  ASSUME NEW S, NEW s \in Seq(S), NEW t \in Seq(S), NEW E, ToSet(s) \subseteq E,
         ToSet(t) \subseteq E, NEW h, OneToOne(h, E)
  PROVE  ToBag(RenamedTable(s, h)) = ToBag(RenamedTable(t, h)) <=> ToBag(s) = ToBag(t)
<1> DEFINE T == Renamings(h, E)
           x == RenamedTable(s, h)
           y == RenamedTable(t, h)
<1>1. x \in Seq(T) /\ \A w \in ToSet(x) : \E v \in E : w = h[v]
  <2>1. x \in Seq(T) /\ ToSet(x) = Renamings(h, ToSet(s))
    BY RenamedFacts
  <2> QED
    BY <2>1 DEF Renamings
<1>2. y \in Seq(T) /\ \A w \in ToSet(y) : \E v \in E : w = h[v]
  <2>1. y \in Seq(T) /\ ToSet(y) = Renamings(h, ToSet(t))
    BY RenamedFacts
  <2> QED
    BY <2>1 DEF Renamings
<1>3. ASSUME NEW v \in E PROVE Count(x, h[v]) = Count(s, v) /\ Count(y, h[v]) = Count(t, v)
  BY CountRenamed
<1> HIDE DEF T, x, y
<1>4. ToBag(x) = ToBag(y) <=> \A w : Count(x, w) = Count(y, w)
  BY <1>1, <1>2, BagsEqual
<1>5. ToBag(s) = ToBag(t) <=> \A v : Count(s, v) = Count(t, v)
  BY BagsEqual
<1>6. ASSUME \A v : Count(s, v) = Count(t, v), NEW w PROVE Count(x, w) = Count(y, w)
  <2>1. CASE \E v \in E : w = h[v]
    BY <1>3, <1>6, <2>1
  <2>2. CASE ~\E v \in E : w = h[v]
    <3>1. w \notin ToSet(x) /\ w \notin ToSet(y)
      BY <1>1, <1>2, <2>2
    <3>2. Count(x, w) = 0 /\ Count(y, w) = 0
      BY <1>1, <1>2, <3>1, CountFacts
    <3> QED
      BY <3>2
  <2> QED
    BY <2>1, <2>2
<1>7. ASSUME \A w : Count(x, w) = Count(y, w), NEW v PROVE Count(s, v) = Count(t, v)
  <2>1. CASE v \in E
    BY <1>3, <1>7, <2>1
  <2>2. CASE v \notin E
    <3>1. v \notin ToSet(s) /\ v \notin ToSet(t)
      BY <2>2
    <3>2. Count(s, v) = 0 /\ Count(t, v) = 0
      BY <3>1, CountFacts
    <3> QED
      BY <3>2
  <2> QED
    BY <2>1, <2>2
<1> QED
  BY <1>4, <1>5, <1>6, <1>7 DEF x, y

(* Under a draw that tells packings apart compression renames one to one.  *)
LEMMA DrawInjective ==
  ASSUME NEW width \in Nat \ {0}, width % BlockBits # 0,
         NEW E, E \subseteq 0 .. Pow2[width] - 1, NEW c \in Draws(E, width),
         NEW v \in E, NEW w \in E, compress(v, width, c) = compress(w, width, c)
  PROVE  v = w
<1>1. packRevealBitBlockExt(v, width) = packRevealBitBlockExt(w, width)
  BY DEF Draws
<1>2. v \in 0 .. Pow2[width] - 1 /\ w \in 0 .. Pow2[width] - 1
  OBVIOUS
<1> QED
  BY <1>1, <1>2, PackInjective

(* A width above a block's leaves the last block bits if the widths of all *)
(* calls do.                                                               *)
LEMMA WideFacts ==
  ASSUME TypeInv, LastBlockHasBits, block_sz > BlockBits
  PROVE  block_sz % BlockBits # 0
<1>1. block_sz \in {call.block_sz, BlockBits} /\ call \in Calls /\ BlockBits \in Nat
  BY WidthFacts DEF TypeInv, TypeOK
<1>2. block_sz = call.block_sz
  BY <1>1
<1>3. call.block_sz <= BlockBits \/ call.block_sz % BlockBits # 0
  BY <1>1 DEF LastBlockHasBits
<1>4. block_sz \in Nat
  BY StateFacts
<1> QED
  BY <1>1, <1>2, <1>3, <1>4

(* equal compares the tables as multisets, whatever the width.             *)
LEMMA EqualChecks ==
  ASSUME TypeInv, LastBlockHasBits, NEW c \in Draws(ToSet(lhs \o rhs), block_sz)
  PROVE  equal(lhs, rhs, block_sz, c) <=> ToBag(lhs) = ToBag(rhs)
<1>1. CASE block_sz <= BlockBits
  BY <1>1 DEF equal, check_set_equality
<1>2. CASE ~(block_sz <= BlockBits)
  <2> DEFINE E == ToSet(lhs \o rhs)
             h == [v \in E |-> compress(v, block_sz, c)]
             l == compressBitsToBlock(lhs, block_sz, c)
             r == compressBitsToBlock(rhs, block_sz, c)
  <2>1. equal(lhs, rhs, block_sz, c) <=> ToBag(l) = ToBag(r)
    BY <1>2 DEF equal, check_set_equality
  <2>2. /\ lhs \in Seq(Values) /\ rhs \in Seq(Values) /\ lhs \o rhs \in Seq(Values)
        /\ E = ToSet(lhs) \cup ToSet(rhs)
    BY StateFacts, ToSetConcat
  <2>3. E \subseteq Values
    <3>1. \A n \in DOMAIN (lhs \o rhs) : (lhs \o rhs)[n] \in Values
      BY <2>2, ElementType
    <3> QED
      BY <3>1 DEF ToSet
  <2>4. c \in Draws(E, block_sz)
    OBVIOUS
  <2> HIDE DEF E
  <2>5. block_sz \in Nat \ {0} /\ block_sz % BlockBits # 0 /\ E \subseteq 0 .. Pow2[block_sz] - 1
    <3>1. block_sz \in Nat /\ BlockBits \in Nat
      BY StateFacts, WidthFacts
    <3> QED
      BY <1>2, <2>3, <3>1, StateFacts, WideFacts DEF Values
  <2>6. OneToOne(h, E)
    BY <2>4, <2>5, DrawInjective DEF OneToOne
  <2>7. /\ \A n \in DOMAIN lhs : lhs[n] \in E
        /\ \A n \in DOMAIN rhs : rhs[n] \in E
    BY <2>2 DEF ToSet
  <2>8. l = RenamedTable(lhs, h) /\ r = RenamedTable(rhs, h)
    BY <2>7 DEF compressBitsToBlock, RenamedTable
  <2> HIDE DEF h, l, r
  <2>9. ToSet(lhs) \subseteq E /\ ToSet(rhs) \subseteq E
    BY <2>2
  <2>10. ToBag(RenamedTable(lhs, h)) = ToBag(RenamedTable(rhs, h)) <=> ToBag(lhs) = ToBag(rhs)
    BY <2>2, <2>6, <2>9, RenamedBags
  <2> QED
    BY <2>1, <2>8, <2>10
<1> QED
  BY <1>1, <1>2

(* The sorted union passes for a permutation at any width: the check of a  *)
(* permutation never fails.                                                *)
LEMMA PermutationPasses ==
  ASSUME NEW S, NEW s \in Seq(S), NEW p \in Bijection(DOMAIN s, DOMAIN s), NEW width, NEW c
  PROVE  equal(s, [n \in DOMAIN s |-> s[p[n]]], width, c)
<1> DEFINE t == [n \in DOMAIN s |-> s[p[n]]]
           D == DOMAIN s
<1>1. p \in [D -> D]
  <2> HIDE DEF D
  <2>1. p \in Bijection(D, D)
    BY DEF D
  <2> QED
    BY <2>1, Permutation
<1>2. D = 1 .. Len(s) /\ Len(s) \in Nat /\ \A n \in D : s[n] \in S
  BY ElementType
<1>3. CASE width <= BlockBits
  <2>1. \A v : Count(s, v) = Count(t, v)
    BY CountPermuted
  <2>2. t \in Seq(S)
    BY <1>1, <1>2
  <2>3. ToBag(s) = ToBag(t)
    <3> HIDE DEF t
    <3> QED
      BY <2>1, <2>2, BagsEqual
  <2> QED
    BY <1>3, <2>3 DEF equal, check_set_equality
<1>4. CASE ~(width <= BlockBits)
  <2> DEFINE x == compressBitsToBlock(s, width, c)
             y == compressBitsToBlock(t, width, c)
             V == { compress(v, width, c) : v \in S }
  <2>1. /\ x = [n \in D |-> compress(s[n], width, c)]
        /\ y = [n \in D |-> compress(s[p[n]], width, c)]
    BY <1>1 DEF compressBitsToBlock
  <2> HIDE DEF x, y
  <2>2. DOMAIN x = D /\ y = [n \in D |-> x[p[n]]]
    BY <1>1, <2>1
  <2>3. x \in Seq(V) /\ y \in Seq(V)
    BY <1>1, <1>2, <2>1
  <2>4. p \in Bijection(DOMAIN x, DOMAIN x) /\ y = [n \in DOMAIN x |-> x[p[n]]]
    BY <2>2
  <2> HIDE DEF V
  <2>5. \A v : Count(x, v) = Count(y, v)
    BY <2>3, <2>4, CountPermuted
  <2>6. ToBag(x) = ToBag(y)
    BY <2>3, <2>5, BagsEqual
  <2> QED
    BY <1>4, <2>6 DEF equal, check_set_equality, x, y
<1> QED
  BY <1>3, <1>4

-----------------------------------------------------------------------------
(* The answers, stated of the tables as they are now. Provable: what a     *)
(* proof must be accepted for.                                             *)

Provable ==
  /\ Unique(lhs) /\ Unique(rhs) /\ Unique(mhs)
  /\ \/ call.op = "subset" /\ ToSet(lhs) \subseteq ToSet(rhs) /\ Last(rhs) = 0
     \/ call.op = "setUnion" /\ ToSet(mhs) = ToSet(lhs) \cup ToSet(rhs)
     \/ call.op = "intersection" /\ ToSet(mhs) = ToSet(lhs) \cap ToSet(rhs)

Proved ==
  /\ call.op = "subset" => \A v : Count(lhs, v) <= Count(rhs, v)
  /\ call.op = "setUnion" => ToSet(mhs) = ToSet(lhs) \cup ToSet(rhs)

(* Each element of the claimed intersection is in both tables as often.    *)
CommonPart == Within(mhs, lhs) /\ Within(mhs, rhs)

Shared == SharedBy(lhs, rhs)

EqualNow == Answered /\ call.op = "equal" => (verdict[Bob] <=> ToBag(lhs) = ToBag(rhs))

DisjointNow ==
  Answered /\ call.op = "disjoint" =>
    /\ verdict[Alice] <=> Shared \subseteq {dummy}
    /\ verdict[Bob] <=> Shared \subseteq {dummy}

SoundNow == Accepted => Proved

CompleteNow == Ended /\ Provable => Accepted

CommonPartNow == Ended /\ call.op = "intersection" => (Accepted <=> CommonPart)

Answers == EqualNow /\ DisjointNow /\ SoundNow /\ CompleteNow /\ CommonPartNow

(* Nobody has rejected anything before the start.                          *)
Fresh == pc = "Start" => res = TRUE /\ verdict[Alice] /\ verdict[Bob]

HasCommon == Unique(shs) /\ ToSet(shs) = Shared

(* Between its checks, a union has a vector of the length Bob expects,     *)
(* which is the intersection if the union can be proved; what Bob has      *)
(* accepted after the first check is part of both tables.                  *)
Uniting ==
  pc \in {"Intersect", "Combine"} =>
    /\ call.op = "setUnion" /\ block_sz <= BlockBits
    /\ Provable => HasCommon /\ Len(shs) = scount
    /\ pc = "Intersect" => verdict[Bob]
    /\ pc = "Combine" =>
         /\ verdict[Bob] => Within(shs, lhs) /\ Within(shs, rhs)
         /\ Provable => verdict[Bob]

(* Verdicts after a check, for each stage a check is made in.              *)
LEMMA VerdictAfter ==
  ASSUME TypeInv, NEW check \in BOOLEAN, BobChecks(check)
  PROVE  (verdict'[Bob] <=> verdict[Bob] /\ check) /\ verdict'[Alice] = verdict[Alice]
<1>1. verdict \in [{Alice, Bob} -> BOOLEAN] /\ verdict' = [verdict EXCEPT ![Bob] = @ /\ check]
  BY StateFacts DEF BobChecks
<1> QED
  BY <1>1, Checked

LEMMA EqualStep ==
  ASSUME TypeInv, Fresh, LastBlockHasBits, Equal
  PROVE  Answers'
<1>1. PICK c \in Draws(ToSet(lhs \o rhs), block_sz) : BobChecks(equal(lhs, rhs, block_sz, c))
  BY DEF Equal
<1> DEFINE check == equal(lhs, rhs, block_sz, c)
<1>2. check <=> ToBag(lhs) = ToBag(rhs)
  BY EqualChecks
<1>3. check \in BOOLEAN /\ verdict[Bob]
  BY DEF equal, check_set_equality, Equal, Fresh
<1> HIDE DEF check
<1>4. BobChecks(check)
  BY <1>1 DEF check
<1>5. verdict'[Bob] <=> ToBag(lhs) = ToBag(rhs)
  BY <1>2, <1>3, <1>4, VerdictAfter
<1>6. call' = call /\ call.op = "equal" /\ UNCHANGED <<lhs, rhs, mhs>>
  BY DEF Equal
<1> QED
  BY <1>5, <1>6 DEF Answers, EqualNow, DisjointNow, SoundNow, CompleteNow, Proved, Provable,
     CommonPartNow

LEMMA SubsetStep ==
  ASSUME TypeInv, Fresh, Subset
  PROVE  Answers'
<1> DEFINE m == set_minus(rhs, ToSet(lhs))
           n == Len(rhs) - Len(lhs) - Len(m)
           mval == m \o Fill(n, Last(rhs)) \o lhs
           mcommitted == m \o Fill(n, 0) \o lhs
           check == mval = mcommitted /\ ToBag(rhs) = ToBag(mcommitted)
<1>1. /\ lhs \in Seq(Values) /\ rhs \in Seq(Values) /\ 0 \in Values
      /\ Len(lhs) \in Nat /\ Len(rhs) \in Nat \ {0} /\ rhs # << >>
  BY StateFacts
<1>2. m \in Seq(Values) /\ Len(m) \in Nat
  <2>1. m \in Seq(Values)
    BY <1>1, MinusFacts
  <2> HIDE DEF m
  <2> QED
    BY <2>1
<1>3. /\ Len(m) <= Len(rhs) - Len(lhs) /\ verdict[Bob]
      /\ call' = call /\ call.op = "subset" /\ pc' = "Done" /\ UNCHANGED <<lhs, rhs, mhs>>
      /\ BobChecks(check_set_equality(rhs, rhs, mval, mcommitted))
  BY DEF Subset, Internal, Fresh, Return
<1>4. n \in Nat
  BY <1>1, <1>2, <1>3
<1>5. verdict'[Bob] <=> check
  <2>1. check_set_equality(rhs, rhs, mval, mcommitted) = check /\ check \in BOOLEAN
    BY DEF check_set_equality
  <2> HIDE DEF check, mval, mcommitted
  <2>2. BobChecks(check)
    BY <1>3, <2>1
  <2> QED
    BY <1>3, <2>1, <2>2, VerdictAfter
<1> HIDE DEF n, m
<1>6. check => \A v : Count(lhs, v) <= Count(rhs, v)
  <2> SUFFICES ASSUME ToBag(rhs) = ToBag(mcommitted), NEW v PROVE Count(lhs, v) <= Count(rhs, v)
    OBVIOUS
  <2>1. /\ mcommitted \in Seq(Values)
        /\ Count(mcommitted, v) = Count(m, v) + (IF v = 0 THEN n ELSE 0) + Count(lhs, v)
    BY <1>1, <1>2, <1>4, Refilled
  <2> HIDE DEF mcommitted
  <2>2. Count(rhs, v) = Count(mcommitted, v)
    BY <1>1, <2>1, BagsEqual
  <2>3. Count(m, v) \in Nat /\ Count(lhs, v) \in Nat
    BY <1>1, <1>2, CountFacts
  <2> QED
    BY <1>4, <2>1, <2>2, <2>3
<1>7. Provable => check
  <2> SUFFICES ASSUME Provable PROVE check
    OBVIOUS
  <2>1. Unique(lhs) /\ Unique(rhs) /\ ToSet(lhs) \subseteq ToSet(rhs) /\ Last(rhs) = 0
    BY <1>3 DEF Provable
  <2>2. ToBag(rhs) = ToBag(mcommitted)
    BY <1>1, <2>1, SubsetFits DEF m, n
  <2> QED
    BY <2>1, <2>2
<1> HIDE DEF check
<1>8. Provable' <=> Provable
  BY <1>3 DEF Provable
<1>9. SoundNow'
  BY <1>3, <1>5, <1>6 DEF SoundNow, Accepted, Proved
<1>10. CompleteNow'
  BY <1>3, <1>5, <1>7, <1>8 DEF CompleteNow, Accepted, Ended
<1> QED
  BY <1>3, <1>9, <1>10 DEF Answers, EqualNow, DisjointNow, CommonPartNow

LEMMA SubsetOutOfStepStep ==
  ASSUME TypeInv, SubsetOutOfStep
  PROVE  Answers'
<1>1. /\ lhs \in Seq(Values) /\ rhs \in Seq(Values) /\ 0 \in Values
      /\ Len(lhs) \in Nat /\ Len(rhs) \in Nat \ {0} /\ rhs # << >>
  BY StateFacts
<1> DEFINE m == set_minus(rhs, ToSet(lhs))
           n == Len(rhs) - Len(lhs) - Len(m)
<1>2. m \in Seq(Values) /\ Len(m) \in Nat
  <2>1. m \in Seq(Values)
    BY <1>1, MinusFacts
  <2> HIDE DEF m
  <2> QED
    BY <2>1
<1>3. /\ Len(m) > Len(rhs) - Len(lhs) /\ call' = call /\ call.op = "subset"
      /\ pc' = "OutOfStep" /\ UNCHANGED <<lhs, rhs, mhs>>
  BY DEF SubsetOutOfStep, Internal
<1>4. n \notin Nat
  <2> HIDE DEF m
  <2> QED
    BY <1>1, <1>2, <1>3
<1>5. ~Provable
  <2> SUFFICES ASSUME Provable PROVE FALSE
    OBVIOUS
  <2>1. Unique(lhs) /\ Unique(rhs) /\ ToSet(lhs) \subseteq ToSet(rhs) /\ Last(rhs) = 0
    BY <1>3 DEF Provable
  <2>2. n \in Nat
    BY <1>1, <2>1, SubsetFits
  <2> QED
    BY <1>4, <2>2
<1>6. Provable' <=> Provable
  BY <1>3 DEF Provable
<1> QED
  BY <1>3, <1>5, <1>6 DEF Answers, EqualNow, DisjointNow, SoundNow, CompleteNow,
     CommonPartNow, Ended, Accepted, Answered

(* If the statement can be proved, what is claimed for the intersection    *)
(* can be split off both tables.                                           *)
LEMMA ClaimFits ==
  ASSUME TypeInv, Provable, AtIntersection, Uniting
  PROVE  /\ Within(claimed, lhs) /\ Within(claimed, rhs)
         /\ SizesFit
<1> DEFINE c == claimed
<1>1. /\ lhs \in Seq(Values) /\ rhs \in Seq(Values) /\ mhs \in Seq(Values) /\ shs \in Seq(Values)
  BY StateFacts
<1>2. Unique(lhs) /\ Unique(rhs) /\ Unique(mhs)
  BY DEF Provable
<1>3. c \in Seq(Values) /\ Unique(c) /\ ToSet(c) = Shared
  <2>1. CASE Internal("intersection")
    BY <1>1, <1>2, <2>1 DEF Internal, claimed, Provable, Shared, SharedBy
  <2>2. CASE pc = "Intersect"
    BY <1>1, <2>2 DEF Uniting, HasCommon, claimed
  <2> QED
    BY <2>1, <2>2 DEF AtIntersection
<1> HIDE DEF c
<1>4. ToSet(c) \subseteq ToSet(lhs) /\ ToSet(c) \subseteq ToSet(rhs)
  BY <1>3 DEF Shared, SharedBy
<1>5. /\ Within(c, lhs) /\ Len(set_minus_origin(lhs, ToSet(c))) = Len(lhs) - Len(c)
  BY <1>1, <1>2, <1>3, <1>4, PartFits
<1>6. /\ Within(c, rhs) /\ Len(set_minus_origin(rhs, ToSet(c))) = Len(rhs) - Len(c)
  BY <1>1, <1>2, <1>3, <1>4, PartFits
<1> QED
  BY <1>5, <1>6 DEF SizesFit, c

LEMMA IntersectStep ==
  ASSUME TypeInv, Fresh, Uniting, Intersect
  PROVE  Answers' /\ Uniting'
<1> DEFINE check == Within(claimed, lhs) /\ Within(claimed, rhs)
<1>1. /\ lhs \in Seq(Values) /\ rhs \in Seq(Values) /\ mhs \in Seq(Values) /\ shs \in Seq(Values)
  BY StateFacts
<1>2. claimed \in Seq(Values)
  BY <1>1 DEF claimed
<1>3. /\ call' = call /\ block_sz' = block_sz /\ shs' = shs /\ UNCHANGED <<lhs, rhs, mhs>>
      /\ pc' = IF call.op = "setUnion" THEN "Combine" ELSE "Done"
      /\ BobChecks(BothSplit)
  BY DEF Intersect
<1>4. /\ verdict[Bob] /\ call.op \in {"setUnion", "intersection"} /\ block_sz <= BlockBits
      /\ call.op = "setUnion" => pc = "Intersect"
  BY DEF Intersect, AtIntersection, Internal, Fresh, Uniting
<1>5. verdict'[Bob] <=> check
  <2> DEFINE whole == BothSplit
  <2>1. whole \in BOOLEAN
    BY DEF BothSplit, SplitsOff, check_set_equality
  <2>2. whole <=> check
    <3>1. /\ ToBag(lhs) = ToBag(Split(lhs, claimed)) <=> Within(claimed, lhs)
          /\ ToBag(rhs) = ToBag(Split(rhs, claimed)) <=> Within(claimed, rhs)
      BY <1>1, <1>2, SplitEqual
    <3> QED
      BY <3>1 DEF BothSplit, SplitsOff, check_set_equality
  <2> HIDE DEF whole, check
  <2>3. BobChecks(whole)
    BY <1>3 DEF whole
  <2> QED
    BY <1>4, <2>1, <2>2, <2>3, VerdictAfter
<1>6. Provable => check
  BY ClaimFits DEF Intersect
<1>7. Provable' <=> Provable
  BY <1>3 DEF Provable
<1>8. CASE call.op = "setUnion"
  <2>1. claimed = shs /\ pc' = "Combine" /\ pc = "Intersect"
    BY <1>3, <1>4, <1>8 DEF claimed
  <2>2. Uniting'
    <3>1. Provable => HasCommon' /\ Len(shs') = scount'
      BY <1>3, <2>1 DEF Uniting, HasCommon, Shared, scount
    <3>2. verdict'[Bob] => Within(shs', lhs') /\ Within(shs', rhs')
      BY <1>3, <1>5, <2>1
    <3>3. Provable' => verdict'[Bob]
      BY <1>5, <1>6, <1>7
    <3> HIDE DEF check
    <3> QED
      BY <1>3, <1>4, <1>7, <1>8, <2>1, <3>1, <3>2, <3>3 DEF Uniting
  <2> QED
    BY <2>1, <2>2 DEF Answers, EqualNow, DisjointNow, SoundNow, CompleteNow,
     CommonPartNow, Ended, Accepted, Answered
<1>9. CASE call.op = "intersection"
  <2>1. claimed = mhs /\ pc' = "Done"
    BY <1>3, <1>9 DEF claimed
  <2>2. check <=> CommonPart
    BY <2>1 DEF CommonPart
  <2>3. CommonPart' <=> CommonPart
    BY <1>3 DEF CommonPart, Within
  <2> HIDE DEF check
  <2>4. SoundNow'
    BY <1>3, <1>9 DEF SoundNow, Proved
  <2>5. CompleteNow'
    BY <1>5, <1>6, <1>7, <2>1 DEF CompleteNow, Accepted, Ended
  <2>6. CommonPartNow'
    BY <1>5, <2>1, <2>2, <2>3 DEF CommonPartNow, Accepted
  <2> QED
    BY <1>3, <1>9, <2>1, <2>4, <2>5, <2>6 DEF Answers, EqualNow, DisjointNow, Uniting
<1> QED
  BY <1>4, <1>8, <1>9

LEMMA CommitCommonStep ==
  ASSUME TypeInv, Fresh, CommitCommon
  PROVE  Answers' /\ Uniting'
<1> DEFINE common == intersection_local(lhs, rhs)
<1>1. /\ lhs \in Seq(Values) /\ rhs \in Seq(Values) /\ mhs \in Seq(Values)
      /\ Values \subseteq Nat
  BY StateFacts
<1>2. /\ common \in Seq(Values) /\ Len(shs') = scount /\ (Len(common) = scount => shs' = common)
  BY CommittedCommon
<1>3. /\ call' = call /\ call.op = "setUnion" /\ block_sz' = block_sz /\ block_sz <= BlockBits
      /\ UNCHANGED <<lhs, rhs, mhs>> /\ verdict' = verdict /\ verdict[Bob] /\ pc' = "Intersect"
  BY DEF CommitCommon, Internal, Fresh
<1>4. Provable => HasCommon'
  <2> SUFFICES ASSUME Provable PROVE HasCommon'
    OBVIOUS
  <2>1. /\ Unique(lhs) /\ Unique(rhs) /\ Unique(mhs)
        /\ ToSet(mhs) = ToSet(lhs) \cup ToSet(rhs)
    BY <1>3 DEF Provable
  <2>2. Unique(common) /\ ToSet(common) = SharedBy(lhs, rhs)
    BY <1>1, <2>1, CommonFacts
  <2> HIDE DEF common
  <2>3. Len(common) = scount
    BY <1>1, <1>2, <2>1, <2>2, CommonLength DEF scount
  <2> QED
    BY <1>2, <1>3, <2>2, <2>3 DEF HasCommon, Shared
<1>5. Provable' <=> Provable
  BY <1>3 DEF Provable
<1>6. scount' = scount
  BY <1>3 DEF scount
<1> QED
  BY <1>2, <1>3, <1>4, <1>5, <1>6
     DEF Answers, EqualNow, DisjointNow, SoundNow, CompleteNow,
     CommonPartNow, Ended, Accepted, Answered, Uniting

LEMMA CombineStep ==
  ASSUME TypeInv, Uniting, Combine
  PROVE  Answers'
<1> DEFINE check == ToBag(lhs \o rhs) = ToBag(mhs \o shs)
<1>1. /\ lhs \in Seq(Values) /\ rhs \in Seq(Values) /\ mhs \in Seq(Values) /\ shs \in Seq(Values)
  BY StateFacts
<1>2. /\ call.op = "setUnion" /\ block_sz <= BlockBits /\ (Provable => HasCommon /\ verdict[Bob])
      /\ (verdict[Bob] => Within(shs, lhs) /\ Within(shs, rhs))
  BY DEF Combine, Uniting
<1>3. /\ call' = call /\ UNCHANGED <<lhs, rhs, mhs>> /\ pc' = "Done"
      /\ BobChecks(equal(lhs \o rhs, mhs \o shs, block_sz, << >>))
  BY DEF Combine, Return
<1>4. verdict'[Bob] <=> verdict[Bob] /\ check
  <2> DEFINE whole == equal(lhs \o rhs, mhs \o shs, block_sz, << >>)
  <2>1. whole \in BOOLEAN /\ (whole <=> check)
    BY <1>2 DEF equal, check_set_equality
  <2> HIDE DEF whole, check
  <2>2. BobChecks(whole)
    BY <1>3 DEF whole
  <2> QED
    BY <2>1, <2>2, VerdictAfter
<1>5. verdict[Bob] /\ check => ToSet(mhs) = ToSet(lhs) \cup ToSet(rhs)
  BY <1>1, <1>2, UnionProved
<1>6. Provable => check
  <2> SUFFICES ASSUME Provable PROVE check
    OBVIOUS
  <2>1. /\ Unique(lhs) /\ Unique(rhs) /\ Unique(mhs) /\ Unique(shs)
        /\ ToSet(mhs) = ToSet(lhs) \cup ToSet(rhs) /\ ToSet(shs) = SharedBy(lhs, rhs)
    BY <1>2 DEF Provable, HasCommon, Shared
  <2> QED
    BY <1>1, <2>1, UnionProvable
<1> HIDE DEF check
<1>7. Provable' <=> Provable
  BY <1>3 DEF Provable
<1>8. SoundNow'
  BY <1>2, <1>3, <1>4, <1>5 DEF SoundNow, Accepted, Proved
<1>9. CompleteNow'
  BY <1>2, <1>3, <1>4, <1>6, <1>7 DEF CompleteNow, Accepted, Ended
<1> QED
  BY <1>2, <1>3, <1>8, <1>9 DEF Answers, EqualNow, DisjointNow, CommonPartNow

LEMMA AbortStep ==
  ASSUME TypeInv, Uniting, Abort
  PROVE  Answers'
<1>1. call' = call /\ UNCHANGED <<lhs, rhs, mhs>> /\ pc' = "Aborted"
  BY DEF Abort
<1>2. ~Provable
  <2>1. CASE AtIntersection /\ ~SizesFit
    BY <2>1, ClaimFits
  <2>2. CASE Internal("setUnion") /\ (scount < 0 \/ Len(intersection_local(lhs, rhs)) > scount)
    <3> SUFFICES ASSUME Provable PROVE FALSE
      OBVIOUS
    <3> DEFINE common == intersection_local(lhs, rhs)
    <3>1. /\ Unique(lhs) /\ Unique(rhs) /\ Unique(mhs)
          /\ ToSet(mhs) = ToSet(lhs) \cup ToSet(rhs)
      BY <2>2 DEF Provable, Internal
    <3>2. /\ lhs \in Seq(Values) /\ rhs \in Seq(Values) /\ mhs \in Seq(Values)
          /\ Values \subseteq Nat
      BY StateFacts
    <3>3. common \in Seq(Values)
      BY <3>2, CommonType
    <3>4. Unique(common) /\ ToSet(common) = SharedBy(lhs, rhs)
      BY <3>1, <3>2, CommonFacts
    <3> HIDE DEF common
    <3>5. Len(common) = scount
      BY <3>1, <3>2, <3>3, <3>4, CommonLength DEF scount
    <3>6. Len(common) \in Nat
      BY <3>3
    <3>7. scount < 0 \/ Len(common) > scount
      BY <2>2 DEF common
    <3> QED
      BY <3>5, <3>6, <3>7
  <2> QED
    BY <2>1, <2>2 DEF Abort
<1>3. Provable' <=> Provable
  BY <1>1 DEF Provable
<1>4. call.op = "intersection" => ~CommonPart
  <2> SUFFICES ASSUME call.op = "intersection", CommonPart PROVE FALSE
    OBVIOUS
  <2>1. ~SizesFit /\ claimed = mhs
    BY DEF Abort, Internal, claimed
  <2>2. lhs \in Seq(Values) /\ rhs \in Seq(Values) /\ mhs \in Seq(Values)
    BY StateFacts
  <2>3. /\ Len(set_minus_origin(lhs, ToSet(mhs))) = Len(lhs) - Len(mhs)
        /\ Len(set_minus_origin(rhs, ToSet(mhs))) = Len(rhs) - Len(mhs)
    BY <2>2, PartLength DEF CommonPart
  <2> QED
    BY <2>1, <2>3 DEF SizesFit
<1>5. CommonPart' <=> CommonPart
  BY <1>1 DEF CommonPart, Within
<1> QED
  BY <1>1, <1>2, <1>3, <1>4, <1>5 DEF Answers, EqualNow, DisjointNow, SoundNow, CompleteNow,
     CommonPartNow, Ended, Accepted, Answered

-----------------------------------------------------------------------------
(* The walk over the sorted union.                                         *)

SortedUnion == SortedBy(SignedUnion, KeyOrder)

(* Up to a position, the walk has found all neighbours apart or not.       *)
Walking ==
  pc = "Walk" =>
    /\ call.op = "disjoint" /\ uhs = SortedUnion /\ i \in 1 .. Len(uhs)
    /\ verdict[Alice] /\ verdict[Bob]
    /\ res <=> \A n \in 1 .. i - 1 : Apart(uhs[n], uhs[n + 1])

(* Of two keys in order, the circuit tells the repeated key of two tables, *)
(* whether it compares them at once or limb by limb.                       *)
LEMMA ApartMeans ==
  ASSUME block_sz \in Nat, dummy \in Nat, NEW a, NEW b,
         ValOf(a) \in Nat, ValOf(b) \in Nat, ValOf(a) <= ValOf(b)
  PROVE  Apart(a, b) <=> ValOf(b) = dummy \/ ValOf(b) # ValOf(a) \/ SigOf(a) = SigOf(b)
<1> DEFINE x == ValOf(a)
           y == ValOf(b)
           same == SigOf(a) = SigOf(b)
           H == Pow2[HalfBits]
<1>1. H \in Nat \ {0} /\ HalfBits \in Nat
  BY Pow2Facts, WidthFacts
<1>2. x \in Nat /\ y \in Nat /\ x <= y /\ same \in BOOLEAN
  OBVIOUS
<1>3. CASE block_sz <= HalfBits
  <2>1. Apart(a, b) <=> \/ y = dummy
                        \/ y >= x /\ ~(y = x)
                        \/ y = x /\ same
    BY <1>3 DEF Apart
  <2> HIDE DEF x, y, same
  <2>2. Apart(a, b) <=> y = dummy \/ y # x \/ same
    BY <1>2, <2>1
  <2> QED
    BY <2>2 DEF x, y, same
<1>4. CASE ~(block_sz <= HalfBits)
  <2> DEFINE xh == x \div H
             xl == x % H
             yh == y \div H
             yl == y % H
             dh == dummy \div H
             dl == dummy % H
  <2>1. Apart(a, b) <=> \/ yh = dh /\ yl = dl
                        \/ (yh >= xh /\ yh # xh) \/ (yh = xh /\ yl >= xl /\ yl # xl)
                        \/ yh = xh /\ yl = xl /\ same
    BY <1>4 DEF Apart, High, Low
  <2> HIDE DEF x, y, same, H
  <2>2. /\ xh \in Nat /\ xl \in 0 .. H - 1 /\ x = H * xh + xl
        /\ yh \in Nat /\ yl \in 0 .. H - 1 /\ y = H * yh + yl
        /\ dh \in Nat /\ dl \in 0 .. H - 1 /\ dummy = H * dh + dl
    BY <1>1, <1>2, DivMod
  <2> HIDE DEF xh, xl, yh, yl, dh, dl
  <2>3. yh = dh /\ yl = dl <=> y = dummy
    <3>1. y = dummy => yh = dh /\ yl = dl
      BY DEF yh, dh, yl, dl
    <3> QED
      BY <2>2, <3>1
  <2>4. yh = xh /\ yl = xl <=> y = x
    <3>1. y = x => yh = xh /\ yl = xl
      BY DEF yh, xh, yl, xl
    <3> QED
      BY <2>2, <3>1
  <2>5. xh <= yh
    <3> SUFFICES ASSUME yh < xh PROVE FALSE
      BY <2>2
    <3>1. yh + 1 <= xh
      BY <2>2
    <3>2. H * (yh + 1) <= H * xh
      BY <1>1, <2>2, <3>1
    <3>3. H * (yh + 1) = H * yh + H
      BY <1>1, <2>2
    <3> QED
      BY <1>1, <1>2, <2>2, <3>2, <3>3
  <2>6. yh = xh => xl <= yl
    BY <1>1, <1>2, <2>2
  <2>7. y # x => (yh >= xh /\ yh # xh) \/ (yh = xh /\ yl >= xl /\ yl # xl)
    BY <2>2, <2>4, <2>5, <2>6
  <2>8. (yh >= xh /\ yh # xh) \/ (yh = xh /\ yl >= xl /\ yl # xl) => y # x
    BY <2>4
  <2>9. Apart(a, b) <=> y = dummy \/ y # x \/ same
    BY <2>1, <2>3, <2>4, <2>7, <2>8
  <2> QED
    BY <2>9 DEF x, y, same
<1> QED
  BY <1>3, <1>4

(* The sorted union has each key of either table, under its sign.          *)
LEMMA UnionEntries ==
  ASSUME TypeInv
  PROVE  /\ Len(SortedUnion) \in Nat
         /\ \A n \in 1 .. Len(SortedUnion) :
              /\ ValOf(SortedUnion[n]) \in Nat
              /\ \/ SigOf(SortedUnion[n]) = 0 /\ ValOf(SortedUnion[n]) \in ToSet(lhs)
                 \/ SigOf(SortedUnion[n]) = 1 /\ ValOf(SortedUnion[n]) \in ToSet(rhs)
         /\ \A v \in ToSet(lhs) : \E n \in 1 .. Len(SortedUnion) :
              ValOf(SortedUnion[n]) = v /\ SigOf(SortedUnion[n]) = 0
         /\ \A v \in ToSet(rhs) : \E n \in 1 .. Len(SortedUnion) :
              ValOf(SortedUnion[n]) = v /\ SigOf(SortedUnion[n]) = 1
         /\ \A m, n \in 1 .. Len(SortedUnion) : m < n =>
              CustomLess(SortedUnion[m], SortedUnion[n]) \/ SortedUnion[m] = SortedUnion[n]
<1> DEFINE u == SortedUnion
           a == SignedUnion
           l == Signed(lhs, 0)
           r == Signed(rhs, 1)
           S == 0 .. Pow2[block_sz + 1] - 1
           L == Len(lhs)
           R == Len(rhs)
<1>1. /\ block_sz \in Nat /\ lhs \in Seq(Values) /\ rhs \in Seq(Values) /\ Values \subseteq Nat
      /\ L \in Nat /\ R \in Nat
  BY StateFacts
<1>2. /\ l \in Seq(S) /\ Len(l) = L
      /\ \A n \in 1 .. L : ValOf(l[n]) = lhs[n] /\ SigOf(l[n]) = 0
  BY <1>1, SignedFacts
<1>3. /\ r \in Seq(S) /\ Len(r) = R
      /\ \A n \in 1 .. R : ValOf(r[n]) = rhs[n] /\ SigOf(r[n]) = 1
  BY <1>1, SignedFacts
<1>4. /\ a \in Seq(S) /\ Len(a) = L + R /\ u \in Seq(S) /\ Len(u) = Len(a)
      /\ \E p \in Bijection(DOMAIN a, DOMAIN a) : u = [n \in DOMAIN a |-> a[p[n]]]
      /\ \A m, n \in DOMAIN a : m < n => CustomLess(u[m], u[n]) \/ u[m] = u[n]
  BY <1>1, UnionSorted DEF SortedUnion
<1>5. /\ \A n \in 1 .. L : lhs[n] \in Nat /\ lhs[n] \in ToSet(lhs)
      /\ \A n \in 1 .. R : rhs[n] \in Nat /\ rhs[n] \in ToSet(rhs)
      /\ \A v \in ToSet(lhs) : \E n \in 1 .. L : lhs[n] = v
      /\ \A v \in ToSet(rhs) : \E n \in 1 .. R : rhs[n] = v
  <2>1. DOMAIN lhs = 1 .. L /\ DOMAIN rhs = 1 .. R
    BY <1>1
  <2> HIDE DEF L, R
  <2>2. /\ \A n \in 1 .. L : lhs[n] \in Values
        /\ \A n \in 1 .. R : rhs[n] \in Values
    BY <1>1, <2>1, ElementType
  <2> QED
    BY <1>1, <2>1, <2>2 DEF ToSet
<1>6. a = l \o r
  BY DEF SignedUnion
<1> HIDE DEF l, r, a, S, L, R, u
<1>7. /\ DOMAIN a = 1 .. L + R
      /\ \A n \in 1 .. L : a[n] = l[n]
      /\ \A n \in 1 .. R : a[L + n] = r[n]
  <2>1. /\ \A n \in 1 .. L : (l \o r)[n] = l[n]
        /\ \A n \in 1 .. R : (l \o r)[L + n] = r[n]
    BY <1>1, <1>2, <1>3
  <2> QED
    BY <1>1, <1>4, <1>6, <2>1
<1> DEFINE Entry(e) == /\ ValOf(e) \in Nat
                       /\ \/ SigOf(e) = 0 /\ ValOf(e) \in ToSet(lhs)
                          \/ SigOf(e) = 1 /\ ValOf(e) \in ToSet(rhs)
<1>8. ASSUME NEW n \in DOMAIN a PROVE Entry(a[n])
  <2>1. CASE n \in 1 .. L
    BY <1>2, <1>5, <1>7, <2>1
  <2>2. CASE n \notin 1 .. L
    <3> DEFINE k == n - L
    <3>1. k \in 1 .. R /\ n = L + k
      BY <1>1, <1>7, <2>2
    <3> HIDE DEF k
    <3>2. a[n] = r[k]
      BY <1>7, <3>1
    <3> QED
      BY <1>3, <1>5, <3>1, <3>2
  <2> QED
    BY <2>1, <2>2
<1> HIDE DEF Entry
<1>9. PICK p \in Bijection(DOMAIN a, DOMAIN a) : u = [n \in DOMAIN a |-> a[p[n]]]
  BY <1>4
<1>10. p \in [DOMAIN a -> DOMAIN a] /\ \A y \in DOMAIN a : \E n \in DOMAIN a : p[n] = y
  <2> DEFINE D == DOMAIN a
  <2>1. p \in Bijection(D, D)
    BY <1>9
  <2> HIDE DEF D
  <2>2. p \in [D -> D] /\ \A y \in D : \E n \in D : p[n] = y
    BY <2>1, Permutation
  <2> QED
    BY <2>2 DEF D
<1>11. Len(u) = L + R /\ Len(u) \in Nat /\ DOMAIN a = 1 .. Len(u)
  BY <1>1, <1>4, <1>7
<1>12. \A n \in 1 .. Len(u) : Entry(u[n])
  BY <1>8, <1>9, <1>10, <1>11
<1>13. ASSUME NEW v \in ToSet(lhs)
       PROVE  \E n \in 1 .. Len(u) : ValOf(u[n]) = v /\ SigOf(u[n]) = 0
  <2>1. PICK k \in 1 .. L : lhs[k] = v
    BY <1>5
  <2>2. k \in DOMAIN a /\ a[k] = l[k]
    BY <1>1, <1>7
  <2>3. PICK n \in DOMAIN a : p[n] = k
    BY <1>10, <2>2
  <2>4. u[n] = l[k] /\ n \in 1 .. Len(u)
    BY <1>9, <1>11, <2>2, <2>3
  <2> QED
    BY <1>2, <2>1, <2>4
<1>14. ASSUME NEW v \in ToSet(rhs)
       PROVE  \E n \in 1 .. Len(u) : ValOf(u[n]) = v /\ SigOf(u[n]) = 1
  <2>1. PICK k \in 1 .. R : rhs[k] = v
    BY <1>5
  <2>2. L + k \in DOMAIN a /\ a[L + k] = r[k]
    BY <1>1, <1>7
  <2>3. PICK n \in DOMAIN a : p[n] = L + k
    BY <1>10, <2>2
  <2>4. u[n] = r[k] /\ n \in 1 .. Len(u)
    BY <1>9, <1>11, <2>2, <2>3
  <2> QED
    BY <1>3, <2>1, <2>4
<1>15. \A m, n \in 1 .. Len(u) : m < n => CustomLess(u[m], u[n]) \/ u[m] = u[n]
  BY <1>4, <1>11
<1> QED
  BY <1>11, <1>12, <1>13, <1>14, <1>15 DEF u, Entry

(* All neighbours are apart if and only if the tables share no key but the *)
(* dummy's: the first of the right table's copies of a shared key comes    *)
(* next to a copy of the left table's.                                     *)
LEMMA WalkDecides ==
  ASSUME TypeInv
  PROVE  (\A n \in 1 .. Len(SortedUnion) - 1 : Apart(SortedUnion[n], SortedUnion[n + 1]))
           <=> Shared \subseteq {dummy}
<1> DEFINE u == SortedUnion
           N == Len(u)
<1>1. /\ N \in Nat
      /\ \A n \in 1 .. N : /\ ValOf(u[n]) \in Nat
                           /\ \/ SigOf(u[n]) = 0 /\ ValOf(u[n]) \in ToSet(lhs)
                              \/ SigOf(u[n]) = 1 /\ ValOf(u[n]) \in ToSet(rhs)
      /\ \A v \in ToSet(lhs) : \E n \in 1 .. N : ValOf(u[n]) = v /\ SigOf(u[n]) = 0
      /\ \A v \in ToSet(rhs) : \E n \in 1 .. N : ValOf(u[n]) = v /\ SigOf(u[n]) = 1
      /\ \A m, n \in 1 .. N : m < n => CustomLess(u[m], u[n]) \/ u[m] = u[n]
  BY UnionEntries
<1>2. block_sz \in Nat /\ dummy \in Nat
  BY StateFacts
<1> HIDE DEF u, N
<1>3. ASSUME NEW m \in 1 .. N, NEW n \in 1 .. N, m < n
      PROVE  /\ ValOf(u[m]) <= ValOf(u[n])
             /\ ValOf(u[m]) = ValOf(u[n]) => SigOf(u[m]) <= SigOf(u[n])
  <2>1. CustomLess(u[m], u[n]) \/ u[m] = u[n]
    BY <1>1, <1>3
  <2>2. /\ ValOf(u[m]) \in Nat /\ ValOf(u[n]) \in Nat
        /\ SigOf(u[m]) \in Nat /\ SigOf(u[n]) \in Nat
    BY <1>1
  <2> QED
    BY <2>1, <2>2 DEF CustomLess
<1>4. ASSUME NEW n \in 1 .. N - 1
      PROVE  /\ n \in 1 .. N /\ n + 1 \in 1 .. N
             /\ Apart(u[n], u[n + 1]) <=> \/ ValOf(u[n + 1]) = dummy
                                          \/ ValOf(u[n + 1]) # ValOf(u[n])
                                          \/ SigOf(u[n]) = SigOf(u[n + 1])
  <2>1. n \in 1 .. N /\ n + 1 \in 1 .. N /\ n < n + 1
    BY <1>1
  <2>2. ValOf(u[n]) \in Nat /\ ValOf(u[n + 1]) \in Nat /\ ValOf(u[n]) <= ValOf(u[n + 1])
    BY <1>1, <1>3, <2>1
  <2> QED
    BY <1>2, <2>1, <2>2, ApartMeans
<1>5. ASSUME Shared \subseteq {dummy}, NEW n \in 1 .. N - 1 PROVE Apart(u[n], u[n + 1])
  <2>1. n \in 1 .. N /\ n + 1 \in 1 .. N
    BY <1>4
  <2> SUFFICES ASSUME ValOf(u[n + 1]) = ValOf(u[n]), SigOf(u[n]) # SigOf(u[n + 1])
      PROVE  ValOf(u[n + 1]) = dummy
    BY <1>4
  <2>2. ValOf(u[n]) \in ToSet(lhs) /\ ValOf(u[n]) \in ToSet(rhs)
    BY <1>1, <2>1
  <2> QED
    BY <1>5, <2>2 DEF Shared, SharedBy
<1>6. ASSUME \A n \in 1 .. N - 1 : Apart(u[n], u[n + 1]), NEW v \in Shared PROVE v = dummy
  <2>1. PICK x \in 1 .. N : ValOf(u[x]) = v /\ SigOf(u[x]) = 0
    BY <1>1 DEF Shared, SharedBy
  <2> DEFINE Y == { n \in 1 .. N : ValOf(u[n]) = v /\ SigOf(u[n]) = 1 }
  <2>2. Y # {} /\ Y \subseteq Nat
    BY <1>1 DEF Shared, SharedBy
  <2>3. PICK y \in Y : \A n \in Y : y <= n
    <3> HIDE DEF Y
    <3> QED
      BY <2>2, LeastNumber
  <2>4. x < y
    <3>1. x # y
      BY <2>1, <2>3
    <3>2. ~(y < x)
      BY <1>3, <2>1, <2>3
    <3> QED
      BY <1>1, <2>1, <2>3, <3>1, <3>2
  <2> DEFINE n == y - 1
  <2>5. n \in 1 .. N - 1 /\ n + 1 = y /\ n \in 1 .. N /\ x <= n
    BY <1>1, <2>3, <2>4
  <2> HIDE DEF n
  <2>6. ValOf(u[n]) = v
    <3>1. ValOf(u[n]) <= v
      BY <1>3, <2>3, <2>5
    <3>2. v <= ValOf(u[n])
      <4>1. CASE x = n
        BY <1>1, <2>1, <4>1
      <4>2. CASE x # n
        <5>1. x < n
          BY <2>1, <2>5, <4>2
        <5> QED
          BY <1>3, <2>1, <2>5, <5>1
      <4> QED
        BY <4>1, <4>2
    <3>3. v \in Nat /\ ValOf(u[n]) \in Nat
      BY <1>1, <2>1, <2>5
    <3> QED
      BY <3>1, <3>2, <3>3
  <2>7. SigOf(u[n]) = 0
    <3>1. n \notin Y
      BY <2>3, <2>5
    <3> QED
      BY <1>1, <2>5, <2>6, <3>1
  <2>8. Apart(u[n], u[n + 1]) /\ ValOf(u[n + 1]) = v /\ SigOf(u[n + 1]) = 1
    BY <1>6, <2>3, <2>5
  <2>9. ValOf(u[n + 1]) = dummy \/ ValOf(u[n + 1]) # ValOf(u[n]) \/ SigOf(u[n]) = SigOf(u[n + 1])
    BY <1>4, <2>5, <2>8
  <2> QED
    BY <2>6, <2>7, <2>8, <2>9
<1> QED
  BY <1>5, <1>6 DEF u, N

LEMMA CommitSortedStep ==
  ASSUME TypeInv, Fresh, CommitSorted
  PROVE  Answers' /\ Walking'
<1>1. PICK c : BobChecks(equal(SignedUnion, uhs', block_sz + 1, c))
  BY DEF CommitSorted, SignedUnion
<1>2. /\ call' = call /\ call.op = "disjoint" /\ pc' = "Walk" /\ i' = 1 /\ res' = res
      /\ block_sz' = block_sz /\ UNCHANGED <<lhs, rhs>> /\ res = TRUE
      /\ verdict[Alice] /\ verdict[Bob] /\ uhs' = SortedUnion
  BY DEF CommitSorted, Internal, Fresh, SortedUnion, SignedUnion, KeyOrder
<1> DEFINE S == 0 .. Pow2[block_sz + 1] - 1
           check == equal(SignedUnion, uhs', block_sz + 1, c)
<1>3. block_sz \in Nat /\ lhs \in Seq(Values) /\ rhs \in Seq(Values) /\ Len(lhs) \in Nat \ {0}
      /\ Len(rhs) \in Nat
  BY StateFacts
<1>4. /\ SignedUnion \in Seq(S) /\ Len(SortedUnion) = Len(lhs) + Len(rhs)
      /\ \E p \in Bijection(DOMAIN SignedUnion, DOMAIN SignedUnion) :
           SortedUnion = [n \in DOMAIN SignedUnion |-> SignedUnion[p[n]]]
  BY <1>3, UnionSorted DEF SortedUnion
<1>5. check
  <2>1. PICK p \in Bijection(DOMAIN SignedUnion, DOMAIN SignedUnion) :
          SortedUnion = [n \in DOMAIN SignedUnion |-> SignedUnion[p[n]]]
    BY <1>4
  <2> DEFINE s == SignedUnion
             w == block_sz + 1
  <2>2. s \in Seq(S) /\ p \in Bijection(DOMAIN s, DOMAIN s)
    BY <1>4
  <2>3. check = equal(s, [n \in DOMAIN s |-> s[p[n]]], w, c)
    BY <1>2, <2>1
  <2> HIDE DEF s, w, S
  <2>4. equal(s, [n \in DOMAIN s |-> s[p[n]]], w, c)
    BY <2>2, PermutationPasses
  <2> QED
    BY <2>3, <2>4
<1>6. check \in BOOLEAN
  BY DEF equal, check_set_equality
<1>7. verdict'[Alice] /\ verdict'[Bob]
  <2> HIDE DEF check
  <2>1. BobChecks(check)
    BY <1>1 DEF check
  <2> QED
    BY <1>2, <1>5, <1>6, <2>1, VerdictAfter
<1>8. SortedUnion' = SortedUnion
  <2>1. SignedUnion' = SignedUnion
    BY <1>2 DEF SignedUnion, Signed
  <2>2. KeyOrder' = KeyOrder
    BY <1>2, <2>1 DEF KeyOrder, CustomLess, ValOf, SigOf
  <2> QED
    BY <2>1, <2>2 DEF SortedUnion
<1>9. i' \in 1 .. Len(uhs')
  BY <1>2, <1>3, <1>4
<1>10. \A n \in 1 .. i' - 1 : Apart(uhs[n], uhs[n + 1])'
  BY <1>2
<1> QED
  BY <1>2, <1>7, <1>8, <1>9, <1>10
     DEF Walking, Answers, EqualNow, DisjointNow, SoundNow, CompleteNow,
     CommonPartNow, Ended, Accepted, Answered

LEMMA WalkStep ==
  ASSUME TypeInv, Walking, Walk
  PROVE  Answers' /\ Walking'
<1>1. /\ UNCHANGED <<call, lhs, rhs, block_sz, dummy, uhs, verdict, pc>> /\ pc = "Walk"
      /\ i < Len(uhs) /\ i' = i + 1 /\ res' = (res /\ Apart(uhs[i], uhs[i + 1]))
  BY DEF Walk
<1>2. /\ call.op = "disjoint" /\ uhs = SortedUnion /\ i \in 1 .. Len(uhs)
      /\ verdict[Alice] /\ verdict[Bob]
      /\ (res <=> \A n \in 1 .. i - 1 : Apart(uhs[n], uhs[n + 1]))
  BY <1>1 DEF Walking
<1>3. Len(uhs) \in Nat
  BY DEF TypeInv, TypeOK
<1>4. SortedUnion' = SortedUnion
  <2>1. SignedUnion' = SignedUnion
    BY <1>1 DEF SignedUnion, Signed
  <2>2. KeyOrder' = KeyOrder
    BY <1>1, <2>1 DEF KeyOrder, CustomLess, ValOf, SigOf
  <2> QED
    BY <2>1, <2>2 DEF SortedUnion
<1>5. \A n : Apart(uhs[n], uhs[n + 1])' <=> Apart(uhs[n], uhs[n + 1])
  BY <1>1 DEF Apart, ValOf, SigOf, High, Low
<1>6. i' - 1 = i /\ i' \in 1 .. Len(uhs') /\ 1 .. i = (1 .. i - 1) \cup {i}
  BY <1>1, <1>2, <1>3
<1>7. res' <=> \A n \in 1 .. i' - 1 : Apart(uhs[n], uhs[n + 1])'
  BY <1>1, <1>2, <1>5, <1>6
<1> QED
  BY <1>1, <1>2, <1>4, <1>6, <1>7
     DEF Walking, Answers, EqualNow, DisjointNow, SoundNow, CompleteNow,
     CommonPartNow, Ended, Accepted, Answered

LEMMA RevealStep ==
  ASSUME TypeInv, Walking, Reveal
  PROVE  Answers'
<1>1. /\ UNCHANGED <<call, lhs, rhs, mhs, dummy>> /\ pc = "Walk" /\ pc' = "Done"
      /\ i = Len(uhs) /\ verdict' = [p \in {Alice, Bob} |-> verdict[p] /\ res]
  BY DEF Reveal, Return
<1>2. /\ call.op = "disjoint" /\ uhs = SortedUnion /\ verdict[Alice] /\ verdict[Bob]
      /\ (res <=> \A n \in 1 .. i - 1 : Apart(uhs[n], uhs[n + 1]))
  BY <1>1 DEF Walking
<1>3. res <=> Shared \subseteq {dummy}
  BY <1>1, <1>2, WalkDecides
<1>4. (verdict'[Alice] <=> Shared \subseteq {dummy}) /\ (verdict'[Bob] <=> Shared \subseteq {dummy})
  <2>1. verdict'[Alice] = (verdict[Alice] /\ res) /\ verdict'[Bob] = (verdict[Bob] /\ res)
    BY <1>1
  <2> QED
    BY <1>2, <1>3, <2>1
<1>5. Shared' = Shared /\ dummy' = dummy
  BY <1>1 DEF Shared, SharedBy
<1> QED
  BY <1>1, <1>2, <1>4, <1>5
     DEF Answers, EqualNow, DisjointNow, SoundNow, CompleteNow, Provable, Proved,
     CommonPartNow

-----------------------------------------------------------------------------
(* From the tables as they are now to those of the call.                   *)

Key == Pow2[call.block_sz - TagBits]
Elements == ToSet(call.lhs) \cup ToSet(call.rhs) \cup ToSet(call.mhs) \cup {Key, 0}

RenamedBy(h) ==
  /\ OneToOne(h, Elements) /\ h[0] = 0 /\ dummy = h[Key]
  /\ lhs = RenamedTable(call.lhs, h)
  /\ rhs = RenamedTable(call.rhs, h)
  /\ mhs = RenamedTable(call.mhs, h)

(* The tables are those of the call up to a renaming of the elements one   *)
(* to one that keeps zero.                                                 *)
Renamed == \E h : RenamedBy(h)

LEMMA ElementFacts ==
  ASSUME call \in Calls
  PROVE  /\ \A n \in DOMAIN call.lhs : call.lhs[n] \in Elements
         /\ \A n \in DOMAIN call.rhs : call.rhs[n] \in Elements
         /\ \A n \in DOMAIN call.mhs : call.mhs[n] \in Elements
         /\ 0 \in Elements /\ Key \in Elements
BY DEF Elements, ToSet

LEMMA RenamedInit ==
  ASSUME Init
  PROVE  Renamed
<1> DEFINE h == [v \in Elements |-> v]
<1>1. /\ call \in Calls /\ lhs = call.lhs /\ rhs = call.rhs /\ mhs = call.mhs
      /\ dummy = Key
  BY DEF Init, Key
<1>2. /\ call.lhs = [n \in DOMAIN call.lhs |-> call.lhs[n]]
      /\ call.rhs = [n \in DOMAIN call.rhs |-> call.rhs[n]]
      /\ call.mhs = [n \in DOMAIN call.mhs |-> call.mhs[n]]
  <2>1. \A T, s : s \in Seq(T) => s = [n \in DOMAIN s |-> s[n]]
    OBVIOUS
  <2> QED
    BY <1>1, <2>1, CallFacts
<1>3. /\ RenamedTable(call.lhs, h) = call.lhs
      /\ RenamedTable(call.rhs, h) = call.rhs
      /\ RenamedTable(call.mhs, h) = call.mhs
  BY <1>1, <1>2, ElementFacts DEF RenamedTable
<1>4. OneToOne(h, Elements) /\ h[0] = 0 /\ h[Key] = Key
  BY <1>1, ElementFacts DEF OneToOne
<1> HIDE DEF h
<1>5. RenamedBy(h)
  BY <1>1, <1>3, <1>4 DEF RenamedBy
<1> QED
  BY <1>5 DEF Renamed

LEMMA RenamedStep ==
  ASSUME TypeInv, LastBlockHasBits, Renamed, Compress
  PROVE  Renamed'
<1> DEFINE Now == ToSet(lhs \o rhs \o mhs) \union {dummy, 0}
<1>1. PICK c \in Draws(Now, block_sz) :
        /\ lhs' = compressBitsToBlock(lhs, block_sz, c)
        /\ rhs' = compressBitsToBlock(rhs, block_sz, c)
        /\ mhs' = compressBitsToBlock(mhs, block_sz, c)
        /\ dummy' = compress(dummy, block_sz, c)
  BY DEF Compress
<1>2. PICK h : RenamedBy(h)
  BY DEF Renamed
<1>3. /\ block_sz \in Nat \ {0} /\ block_sz > BlockBits /\ call' = call /\ call \in Calls
      /\ lhs \in Seq(Values) /\ rhs \in Seq(Values) /\ mhs \in Seq(Values)
      /\ dummy \in Values /\ 0 \in Values
  BY StateFacts DEF Compress, TypeInv
<1>4. Now = ToSet(lhs) \cup ToSet(rhs) \cup ToSet(mhs) \cup {dummy, 0} /\ Now \subseteq Values
  <2>1. /\ lhs \o rhs \in Seq(Values) /\ ToSet(lhs \o rhs) = ToSet(lhs) \cup ToSet(rhs)
    BY <1>3, ToSetConcat
  <2> DEFINE s == lhs \o rhs
  <2>2. s \in Seq(Values) /\ ToSet(s) = ToSet(lhs) \cup ToSet(rhs)
    BY <2>1
  <2> HIDE DEF s
  <2>3. s \o mhs \in Seq(Values) /\ ToSet(s \o mhs) = ToSet(s) \cup ToSet(mhs)
    BY <1>3, <2>2, ToSetConcat
  <2>4. \A n \in DOMAIN (s \o mhs) : (s \o mhs)[n] \in Values
    BY <2>3, ElementType
  <2>5. ToSet(s \o mhs) \subseteq Values
    BY <2>4 DEF ToSet
  <2> QED
    BY <1>3, <2>2, <2>3, <2>5 DEF s
<1> HIDE DEF Now
<1>5. /\ OneToOne(h, Elements) /\ h[0] = 0 /\ dummy = h[Key]
      /\ lhs = RenamedTable(call.lhs, h) /\ rhs = RenamedTable(call.rhs, h)
      /\ mhs = RenamedTable(call.mhs, h)
  BY <1>2 DEF RenamedBy
<1>6. ASSUME NEW v \in Elements PROVE h[v] \in Now
  <2>1. /\ \A n \in DOMAIN call.lhs : h[call.lhs[n]] \in ToSet(lhs)
        /\ \A n \in DOMAIN call.rhs : h[call.rhs[n]] \in ToSet(rhs)
        /\ \A n \in DOMAIN call.mhs : h[call.mhs[n]] \in ToSet(mhs)
    BY <1>5 DEF RenamedTable, ToSet
  <2>2. /\ v \in ToSet(call.lhs) => h[v] \in ToSet(lhs)
        /\ v \in ToSet(call.rhs) => h[v] \in ToSet(rhs)
        /\ v \in ToSet(call.mhs) => h[v] \in ToSet(mhs)
    BY <2>1 DEF ToSet
  <2> QED
    BY <1>4, <1>5, <2>2 DEF Elements
<1>7. c \in [1 .. Blocks(block_sz) -> Coefficients]
  BY DEF Draws
<1>8. ASSUME NEW v \in Now, NEW w \in Now, compress(v, block_sz, c) = compress(w, block_sz, c)
      PROVE  v = w
  <2>1. block_sz % BlockBits # 0 /\ Now \subseteq 0 .. Pow2[block_sz] - 1
    BY <1>3, <1>4, WideFacts DEF Values
  <2> QED
    BY <1>3, <1>8, <2>1, DrawInjective
<1> DEFINE g == [v \in Elements |-> compress(h[v], block_sz, c)]
<1>9. OneToOne(g, Elements)
  BY <1>5, <1>6, <1>8 DEF OneToOne
<1>10. /\ \A n \in DOMAIN call.lhs : call.lhs[n] \in Elements
       /\ \A n \in DOMAIN call.rhs : call.rhs[n] \in Elements
       /\ \A n \in DOMAIN call.mhs : call.mhs[n] \in Elements
       /\ 0 \in Elements /\ Key \in Elements
  BY <1>3, ElementFacts
<1>11. g[0] = 0 /\ dummy' = g[Key]
  <2>1. compress(0, block_sz, c) = 0
    BY <1>3, <1>7, CompressFacts
  <2> QED
    BY <1>1, <1>5, <1>10, <2>1
<1>12. /\ lhs' = RenamedTable(call.lhs, g)
       /\ rhs' = RenamedTable(call.rhs, g)
       /\ mhs' = RenamedTable(call.mhs, g)
  BY <1>1, <1>5, <1>10 DEF RenamedTable, compressBitsToBlock
<1>13. Elements' = Elements /\ Key' = Key
  BY <1>3 DEF Elements, Key
<1> HIDE DEF g
<1>14. PICK k : k = g
  OBVIOUS
<1>15. RenamedBy(k)'
  BY <1>3, <1>9, <1>11, <1>12, <1>13, <1>14 DEF RenamedBy
<1> QED
  BY <1>15 DEF Renamed

LEMMA RenamedKept ==
  ASSUME Renamed, UNCHANGED <<call, lhs, rhs, mhs, dummy>>
  PROVE  Renamed'
<1>1. PICK h : RenamedBy(h)
  BY DEF Renamed
<1>2. RenamedBy(h)'
  BY <1>1 DEF RenamedBy, Elements, Key
<1> QED
  BY <1>2 DEF Renamed

(* What a renaming keeps.                                                  *)
LEMMA RenamedTables ==
  ASSUME TypeInv, NEW h, RenamedBy(h)
  PROVE  /\ OneToOne(h, Elements) /\ h[0] = 0 /\ dummy = h[Key]
         /\ ToSet(call.lhs) \subseteq Elements /\ ToSet(call.rhs) \subseteq Elements
         /\ ToSet(call.mhs) \subseteq Elements /\ 0 \in Elements /\ Key \in Elements
         /\ ToSet(lhs) = Renamings(h, ToSet(call.lhs))
         /\ ToSet(rhs) = Renamings(h, ToSet(call.rhs))
         /\ ToSet(mhs) = Renamings(h, ToSet(call.mhs))
         /\ Unique(lhs) <=> Unique(call.lhs)
         /\ Unique(rhs) <=> Unique(call.rhs)
         /\ Unique(mhs) <=> Unique(call.mhs)
<1> DEFINE S == 0 .. Pow2[call.block_sz] - 1
<1>1. call.lhs \in Seq(S) /\ call.rhs \in Seq(S) /\ call.mhs \in Seq(S)
  BY CallFacts DEF TypeInv
<1>2. /\ OneToOne(h, Elements) /\ h[0] = 0 /\ dummy = h[Key]
      /\ lhs = RenamedTable(call.lhs, h) /\ rhs = RenamedTable(call.rhs, h)
      /\ mhs = RenamedTable(call.mhs, h)
  BY DEF RenamedBy
<1>3. /\ ToSet(call.lhs) \subseteq Elements /\ ToSet(call.rhs) \subseteq Elements
      /\ ToSet(call.mhs) \subseteq Elements /\ 0 \in Elements /\ Key \in Elements
  BY DEF Elements
<1> HIDE DEF S
<1>4. ToSet(lhs) = Renamings(h, ToSet(call.lhs)) /\ (Unique(lhs) <=> Unique(call.lhs))
  BY <1>1, <1>2, <1>3, RenamedFacts
<1>5. ToSet(rhs) = Renamings(h, ToSet(call.rhs)) /\ (Unique(rhs) <=> Unique(call.rhs))
  BY <1>1, <1>2, <1>3, RenamedFacts
<1>6. ToSet(mhs) = Renamings(h, ToSet(call.mhs)) /\ (Unique(mhs) <=> Unique(call.mhs))
  BY <1>1, <1>2, <1>3, RenamedFacts
<1> QED
  BY <1>2, <1>3, <1>4, <1>5, <1>6

(* A renaming one to one keeps intersections, unions and inclusions.       *)
LEMMA RenamedCap ==
  ASSUME NEW E, NEW h, OneToOne(h, E), NEW A \in SUBSET E, NEW B \in SUBSET E
  PROVE  Renamings(h, A) \cap Renamings(h, B) = Renamings(h, A \cap B)
<1>1. ASSUME NEW w \in Renamings(h, A), w \in Renamings(h, B) PROVE w \in Renamings(h, A \cap B)
  <2>1. PICK v \in A : w = h[v]
    BY DEF Renamings
  <2>2. PICK u \in B : w = h[u]
    BY <1>1 DEF Renamings
  <2>3. v = u
    BY <2>1, <2>2 DEF OneToOne
  <2> QED
    BY <2>1, <2>3 DEF Renamings
<1>2. ASSUME NEW w \in Renamings(h, A \cap B) PROVE w \in Renamings(h, A) /\ w \in Renamings(h, B)
  BY DEF Renamings
<1> QED
  BY <1>1, <1>2

LEMMA RenamedCup ==
  ASSUME NEW h, NEW A, NEW B
  PROVE  Renamings(h, A) \cup Renamings(h, B) = Renamings(h, A \cup B)
BY DEF Renamings

LEMMA RenamedSubset ==
  ASSUME NEW E, NEW h, OneToOne(h, E), NEW A \in SUBSET E, NEW B \in SUBSET E
  PROVE  Renamings(h, A) \subseteq Renamings(h, B) <=> A \subseteq B
<1>1. ASSUME Renamings(h, A) \subseteq Renamings(h, B), NEW v \in A PROVE v \in B
  <2>1. h[v] \in Renamings(h, B)
    BY <1>1 DEF Renamings
  <2>2. PICK u \in B : h[v] = h[u]
    BY <2>1 DEF Renamings
  <2> QED
    BY <2>2 DEF OneToOne
<1>2. A \subseteq B => Renamings(h, A) \subseteq Renamings(h, B)
  BY DEF Renamings
<1> QED
  BY <1>1, <1>2

LEMMA RenamedEqual ==
  ASSUME NEW E, NEW h, OneToOne(h, E), NEW A \in SUBSET E, NEW B \in SUBSET E
  PROVE  Renamings(h, A) = Renamings(h, B) <=> A = B
<1>1. /\ Renamings(h, A) \subseteq Renamings(h, B) <=> A \subseteq B
      /\ Renamings(h, B) \subseteq Renamings(h, A) <=> B \subseteq A
  BY RenamedSubset
<1> QED
  BY <1>1

(* What holds of the tables as they are holds of those of the call.        *)
LEMMA EqualOfCall ==
  ASSUME TypeInv, Renamed
  PROVE  ToBag(lhs) = ToBag(rhs) <=> ToBag(call.lhs) = ToBag(call.rhs)
<1> DEFINE S == 0 .. Pow2[call.block_sz] - 1
<1>1. PICK h : RenamedBy(h)
  BY DEF Renamed
<1>2. /\ OneToOne(h, Elements)
      /\ ToSet(call.lhs) \subseteq Elements /\ ToSet(call.rhs) \subseteq Elements
  BY <1>1, RenamedTables
<1>3. lhs = RenamedTable(call.lhs, h) /\ rhs = RenamedTable(call.rhs, h)
  BY <1>1 DEF RenamedBy
<1>4. call.lhs \in Seq(S) /\ call.rhs \in Seq(S)
  BY CallFacts DEF TypeInv
<1> HIDE DEF S
<1> QED
  BY <1>2, <1>3, <1>4, RenamedBags

LEMMA DisjointOfCall ==
  ASSUME TypeInv, Renamed
  PROVE  Shared \subseteq {dummy} <=> ToSet(call.lhs) \cap ToSet(call.rhs) \subseteq {Key}
<1> DEFINE A == ToSet(call.lhs)
           B == ToSet(call.rhs)
           K == {Key}
<1>1. PICK h : RenamedBy(h)
  BY DEF Renamed
<1>2. /\ OneToOne(h, Elements) /\ dummy = h[Key] /\ A \in SUBSET Elements /\ B \in SUBSET Elements
      /\ K \in SUBSET Elements
      /\ ToSet(lhs) = Renamings(h, A) /\ ToSet(rhs) = Renamings(h, B)
  BY <1>1, RenamedTables
<1>3. Renamings(h, K) = {dummy}
  BY <1>2 DEF Renamings
<1> HIDE DEF A, B, K
<1>4. Shared = Renamings(h, A \cap B)
  <2>1. Renamings(h, A) \cap Renamings(h, B) = Renamings(h, A \cap B)
    BY <1>2, RenamedCap
  <2> QED
    BY <1>2, <2>1 DEF Shared, SharedBy
<1>5. A \cap B \in SUBSET Elements
  BY <1>2
<1> DEFINE C == A \cap B
<1>6. C \in SUBSET Elements
  BY <1>5
<1> HIDE DEF C
<1>7. Renamings(h, C) \subseteq Renamings(h, K) <=> C \subseteq K
  BY <1>2, <1>6, RenamedSubset
<1> QED
  BY <1>3, <1>4, <1>7 DEF A, B, K, C

LEMMA CountOfCall ==
  ASSUME TypeInv, NEW h, RenamedBy(h), NEW v \in Elements
  PROVE  /\ Count(lhs, h[v]) = Count(call.lhs, v) /\ Count(rhs, h[v]) = Count(call.rhs, v)
         /\ Count(mhs, h[v]) = Count(call.mhs, v)
<1>1. /\ OneToOne(h, Elements)
      /\ ToSet(call.lhs) \subseteq Elements /\ ToSet(call.rhs) \subseteq Elements
      /\ ToSet(call.mhs) \subseteq Elements
  BY RenamedTables
<1>2. /\ lhs = RenamedTable(call.lhs, h) /\ rhs = RenamedTable(call.rhs, h)
      /\ mhs = RenamedTable(call.mhs, h)
  BY DEF RenamedBy
<1> QED
  BY <1>1, <1>2, CountRenamed

LEMMA SetsOfCall ==
  ASSUME TypeInv, Renamed
  PROVE  /\ ToSet(mhs) = ToSet(lhs) \cup ToSet(rhs) <=>
              ToSet(call.mhs) = ToSet(call.lhs) \cup ToSet(call.rhs)
         /\ ToSet(mhs) = ToSet(lhs) \cap ToSet(rhs) <=>
              ToSet(call.mhs) = ToSet(call.lhs) \cap ToSet(call.rhs)
         /\ ToSet(lhs) \subseteq ToSet(rhs) <=> ToSet(call.lhs) \subseteq ToSet(call.rhs)
<1> DEFINE A == ToSet(call.lhs)
           B == ToSet(call.rhs)
           M == ToSet(call.mhs)
           AB == A \cap B
           AuB == A \cup B
<1>1. PICK h : RenamedBy(h)
  BY DEF Renamed
<1>2. /\ OneToOne(h, Elements) /\ A \in SUBSET Elements /\ B \in SUBSET Elements
      /\ M \in SUBSET Elements /\ ToSet(lhs) = Renamings(h, A) /\ ToSet(rhs) = Renamings(h, B)
      /\ ToSet(mhs) = Renamings(h, M)
  BY <1>1, RenamedTables
<1> HIDE DEF A, B, M
<1>3. AB \in SUBSET Elements /\ AuB \in SUBSET Elements
  BY <1>2
<1>4. Renamings(h, A) \cap Renamings(h, B) = Renamings(h, AB)
  BY <1>2, RenamedCap
<1>5. Renamings(h, A) \cup Renamings(h, B) = Renamings(h, AuB)
  BY <1>2, RenamedCup
<1> HIDE DEF AB, AuB
<1>6. Renamings(h, M) = Renamings(h, AuB) <=> M = AuB
  BY <1>2, <1>3, RenamedEqual
<1>7. Renamings(h, M) = Renamings(h, AB) <=> M = AB
  BY <1>2, <1>3, RenamedEqual
<1>9. Renamings(h, A) \subseteq Renamings(h, B) <=> A \subseteq B
  BY <1>2, <1>3, RenamedSubset
<1>10. ToSet(mhs) = ToSet(lhs) \cup ToSet(rhs) <=> M = A \cup B
  BY <1>2, <1>5, <1>6 DEF AuB
<1>11. ToSet(mhs) = ToSet(lhs) \cap ToSet(rhs) <=> M = A \cap B
  BY <1>2, <1>4, <1>7 DEF AB
<1>12. ToSet(lhs) \subseteq ToSet(rhs) <=> A \subseteq B
  BY <1>2, <1>9
<1> QED
  BY <1>10, <1>11, <1>12 DEF A, B, M

LEMMA LastOfCall ==
  ASSUME TypeInv, Renamed, Last(call.rhs) = 0
  PROVE  Last(rhs) = 0
<1>1. PICK h : RenamedBy(h)
  BY DEF Renamed
<1>2. h[0] = 0 /\ rhs = [n \in DOMAIN call.rhs |-> h[call.rhs[n]]]
  BY <1>1 DEF RenamedBy, RenamedTable
<1>3. Len(rhs) = Len(call.rhs) /\ Len(rhs) \in Nat \ {0}
  BY StateFacts DEF TypeInv
<1>4. DOMAIN call.rhs = 1 .. Len(call.rhs)
  BY CallFacts DEF TypeInv
<1>5. rhs[Len(rhs)] = h[call.rhs[Len(call.rhs)]]
  BY <1>2, <1>3, <1>4
<1> QED
  BY <1>2, <1>5 DEF Last

LEMMA ProvableOfCall ==
  ASSUME TypeInv, Renamed, Unique(call.lhs), Unique(call.rhs), Unique(call.mhs),
         \/ /\ call.op = "subset" /\ ToSet(call.lhs) \subseteq ToSet(call.rhs)
            /\ Last(call.rhs) = 0
         \/ /\ call.op = "setUnion"
            /\ ToSet(call.mhs) = ToSet(call.lhs) \cup ToSet(call.rhs)
         \/ /\ call.op = "intersection"
            /\ ToSet(call.mhs) = ToSet(call.lhs) \cap ToSet(call.rhs)
  PROVE  Provable
<1>1. PICK h : RenamedBy(h)
  BY DEF Renamed
<1>2. Unique(lhs) /\ Unique(rhs) /\ Unique(mhs)
  BY <1>1, RenamedTables
<1>3. CASE /\ call.op = "subset" /\ ToSet(call.lhs) \subseteq ToSet(call.rhs)
           /\ Last(call.rhs) = 0
  <2>1. ToSet(lhs) \subseteq ToSet(rhs)
    BY <1>3, SetsOfCall
  <2> QED
    BY <1>2, <1>3, <2>1, LastOfCall DEF Provable
<1>4. CASE /\ call.op = "setUnion"
           /\ ToSet(call.mhs) = ToSet(call.lhs) \cup ToSet(call.rhs)
  <2>1. ToSet(mhs) = ToSet(lhs) \cup ToSet(rhs)
    BY <1>4, SetsOfCall
  <2> QED
    BY <1>2, <1>4, <2>1 DEF Provable
<1>5. CASE /\ call.op = "intersection"
           /\ ToSet(call.mhs) = ToSet(call.lhs) \cap ToSet(call.rhs)
  <2>1. ToSet(mhs) = ToSet(lhs) \cap ToSet(rhs)
    BY <1>5, SetsOfCall
  <2> QED
    BY <1>2, <1>5, <2>1 DEF Provable
<1> QED
  BY <1>3, <1>4, <1>5

LEMMA ProvedOfCall ==
  ASSUME TypeInv, Renamed, Proved
  PROVE  /\ call.op = "subset" =>
              \A v \in ToSet(call.lhs) : Count(call.lhs, v) <= Count(call.rhs, v)
         /\ call.op = "setUnion" => ToSet(call.mhs) = ToSet(call.lhs) \cup ToSet(call.rhs)
<1>1. PICK h : RenamedBy(h)
  BY DEF Renamed
<1>2. ASSUME call.op = "subset", NEW v \in ToSet(call.lhs)
      PROVE  Count(call.lhs, v) <= Count(call.rhs, v)
  <2>1. v \in Elements
    BY DEF Elements
  <2>2. Count(lhs, h[v]) <= Count(rhs, h[v])
    BY <1>2 DEF Proved
  <2>3. Count(lhs, h[v]) = Count(call.lhs, v) /\ Count(rhs, h[v]) = Count(call.rhs, v)
    BY <1>1, <2>1, CountOfCall
  <2> QED
    BY <2>2, <2>3
<1>3. call.op = "setUnion" => ToSet(call.mhs) = ToSet(call.lhs) \cup ToSet(call.rhs)
  <2> SUFFICES ASSUME call.op = "setUnion"
      PROVE  ToSet(call.mhs) = ToSet(call.lhs) \cup ToSet(call.rhs)
    OBVIOUS
  <2>1. ToSet(mhs) = ToSet(lhs) \cup ToSet(rhs)
    BY DEF Proved
  <2> QED
    BY <2>1, SetsOfCall
<1> QED
  BY <1>2, <1>3

LEMMA CommonPartOfCall ==
  ASSUME TypeInv, Renamed
  PROVE  CommonPart <=> Within(call.mhs, call.lhs) /\ Within(call.mhs, call.rhs)
<1>1. PICK h : RenamedBy(h)
  BY DEF Renamed
<1>2. ToSet(mhs) = Renamings(h, ToSet(call.mhs)) /\ ToSet(call.mhs) \subseteq Elements
  BY <1>1, RenamedTables
<1>3. \A v \in ToSet(call.mhs) :
        /\ Count(lhs, h[v]) = Count(call.lhs, v) /\ Count(rhs, h[v]) = Count(call.rhs, v)
        /\ Count(mhs, h[v]) = Count(call.mhs, v)
  BY <1>1, <1>2, CountOfCall
<1> QED
  BY <1>2, <1>3 DEF CommonPart, Within, Renamings

-----------------------------------------------------------------------------
(* The theorems.                                                           *)

Inv == TypeInv /\ Fresh /\ Uniting /\ Walking /\ Answers /\ Renamed

LEMMA InvInit ==
  ASSUME Init
  PROVE  Inv
<1>1. pc = "Start" /\ res = TRUE /\ verdict = [p \in {Alice, Bob} |-> TRUE]
  BY DEF Init
<1>2. Fresh /\ Uniting /\ Walking /\ Answers
  BY <1>1 DEF Fresh, Uniting, Walking, Answers, EqualNow, DisjointNow, SoundNow, CompleteNow,
     CommonPartNow, Ended, Accepted, Answered
<1> QED
  BY <1>2, TypeInit, RenamedInit DEF Inv

(* Where a call ends nothing is left to be kept but its answer.            *)
LEMMA EndKeeps ==
  ASSUME Renamed, UNCHANGED <<call, lhs, rhs, mhs, dummy>>,
         pc' \in {"Done", "Aborted", "OutOfStep"}
  PROVE  Fresh' /\ Uniting' /\ Walking' /\ Renamed'
<1>1. Renamed'
  BY RenamedKept
<1> QED
  BY <1>1 DEF Fresh, Uniting, Walking

LEMMA InvStep ==
  ASSUME Inv, LastBlockHasBits, [Next]_vars
  PROVE  Inv'
<1>1. TypeInv /\ Fresh /\ Uniting /\ Walking /\ Answers /\ Renamed
  BY DEF Inv
<1>2. TypeInv'
  BY <1>1, TypeStep
<1>3. CASE Equal
  <2>1. Answers'
    BY <1>1, <1>3, EqualStep
  <2>2. Fresh' /\ Uniting' /\ Walking' /\ Renamed'
    BY <1>1, <1>3, EndKeeps DEF Equal, Return
  <2> QED
    BY <1>2, <2>1, <2>2 DEF Inv
<1>4. CASE Compress
  <2>1. Renamed'
    BY <1>1, <1>4, RenamedStep
  <2>2. /\ pc = "Start" /\ pc' = "Start" /\ res' = res /\ res = TRUE
        /\ verdict[Alice] /\ verdict[Bob]
    BY <1>1, <1>4 DEF Compress, Fresh
  <2>3. BobChecks(TRUE)
    BY <1>4 DEF Compress, BobChecks, checkCorrectCompression, check_set_equality
  <2>4. verdict'[Alice] /\ verdict'[Bob]
    BY <1>1, <2>2, <2>3, VerdictAfter
  <2> QED
    BY <1>2, <2>1, <2>2, <2>4 DEF Inv, Fresh, Uniting, Walking, Answers, EqualNow, DisjointNow,
       SoundNow, CompleteNow,
     CommonPartNow, Ended, Accepted, Answered
<1>5. CASE Subset
  <2>1. Answers'
    BY <1>1, <1>5, SubsetStep
  <2>2. Fresh' /\ Uniting' /\ Walking' /\ Renamed'
    BY <1>1, <1>5, EndKeeps DEF Subset, Return
  <2> QED
    BY <1>2, <2>1, <2>2 DEF Inv
<1>6. CASE SubsetOutOfStep
  <2>1. Answers'
    BY <1>1, <1>6, SubsetOutOfStepStep
  <2>2. Fresh' /\ Uniting' /\ Walking' /\ Renamed'
    BY <1>1, <1>6, EndKeeps DEF SubsetOutOfStep
  <2> QED
    BY <1>2, <2>1, <2>2 DEF Inv
<1>7. CASE CommitCommon
  <2>1. Answers' /\ Uniting'
    BY <1>1, <1>7, CommitCommonStep
  <2>2. Renamed'
    BY <1>1, <1>7, RenamedKept DEF CommitCommon
  <2> QED
    BY <1>2, <1>7, <2>1, <2>2 DEF Inv, Fresh, Walking, CommitCommon
<1>8. CASE Intersect
  <2>1. Answers' /\ Uniting'
    BY <1>1, <1>8, IntersectStep
  <2>2. Renamed'
    BY <1>1, <1>8, RenamedKept DEF Intersect
  <2>3. pc' # "Start" /\ pc' # "Walk"
    BY <1>8 DEF Intersect
  <2> QED
    BY <1>2, <2>1, <2>2, <2>3 DEF Inv, Fresh, Walking
<1>9. CASE Combine
  <2>1. Answers'
    BY <1>1, <1>9, CombineStep
  <2>2. Fresh' /\ Uniting' /\ Walking' /\ Renamed'
    BY <1>1, <1>9, EndKeeps DEF Combine, Return
  <2> QED
    BY <1>2, <2>1, <2>2 DEF Inv
<1>10. CASE Abort
  <2>1. Answers'
    BY <1>1, <1>10, AbortStep
  <2>2. Fresh' /\ Uniting' /\ Walking' /\ Renamed'
    BY <1>1, <1>10, EndKeeps DEF Abort
  <2> QED
    BY <1>2, <2>1, <2>2 DEF Inv
<1>11. CASE CommitSorted
  <2>1. Answers' /\ Walking'
    BY <1>1, <1>11, CommitSortedStep
  <2>2. Renamed'
    BY <1>1, <1>11, RenamedKept DEF CommitSorted
  <2> QED
    BY <1>2, <1>11, <2>1, <2>2 DEF Inv, Fresh, Uniting, CommitSorted
<1>12. CASE Walk
  <2>1. Answers' /\ Walking'
    BY <1>1, <1>12, WalkStep
  <2>2. Renamed'
    BY <1>1, <1>12, RenamedKept DEF Walk
  <2> QED
    BY <1>2, <1>12, <2>1, <2>2 DEF Inv, Fresh, Uniting, Walk
<1>13. CASE Reveal
  <2>1. Answers'
    BY <1>1, <1>13, RevealStep
  <2>2. Fresh' /\ Uniting' /\ Walking' /\ Renamed'
    BY <1>1, <1>13, EndKeeps DEF Reveal, Return
  <2> QED
    BY <1>2, <2>1, <2>2 DEF Inv
<1>14. CASE Terminated \/ UNCHANGED vars
  <2>1. UNCHANGED <<call, lhs, rhs, mhs, block_sz, dummy, shs, uhs, i, res, verdict, pc>>
    BY <1>14 DEF Terminated, vars
  <2>2. Renamed'
    BY <1>1, <2>1, RenamedKept
  <2>3. /\ Provable' = Provable /\ Proved' = Proved /\ Shared' = Shared /\ scount' = scount
        /\ CommonPart' = CommonPart
    BY <2>1 DEF Provable, Proved, Shared, SharedBy, scount, CommonPart, Within
  <2>4. Answers'
    BY <1>1, <2>1, <2>3 DEF Answers, EqualNow, DisjointNow, SoundNow, CompleteNow,
       CommonPartNow, Ended, Accepted, Answered
  <2>5. Fresh' /\ Uniting'
    BY <1>1, <2>1, <2>3 DEF Fresh, Uniting, HasCommon
  <2>6. Walking'
    <3>1. SortedUnion' = SortedUnion
      <4>1. SignedUnion' = SignedUnion
        BY <2>1 DEF SignedUnion, Signed
      <4>2. KeyOrder' = KeyOrder
        BY <2>1, <4>1 DEF KeyOrder, CustomLess, ValOf, SigOf
      <4> QED
        BY <4>1, <4>2 DEF SortedUnion
    <3>2. \A n : Apart(uhs[n], uhs[n + 1])' <=> Apart(uhs[n], uhs[n + 1])
      BY <2>1 DEF Apart, ValOf, SigOf, High, Low
    <3> QED
      BY <1>1, <2>1, <3>1, <3>2 DEF Walking
  <2> QED
    BY <1>2, <2>2, <2>4, <2>5, <2>6 DEF Inv
<1> QED
  BY <1>3, <1>4, <1>5, <1>6, <1>7, <1>8, <1>9, <1>10, <1>11, <1>12, <1>13, <1>14 DEF Next

LEMMA InvAnswers ==
  ASSUME Inv
  PROVE  /\ AnswersAreExact /\ SubsetsAndUnionsAreTrue /\ IntersectionAcceptsCommonParts
         /\ ProofsAreComplete
<1>1. /\ TypeInv /\ Renamed /\ EqualNow /\ DisjointNow /\ SoundNow /\ CompleteNow
      /\ CommonPartNow
  BY DEF Inv, Answers
<1>2. EqualIsExact
  BY <1>1, EqualOfCall DEF EqualNow, EqualIsExact
<1>3. DisjointIsExact
  <2> SUFFICES ASSUME Answered, call.op = "disjoint", NEW p \in {Alice, Bob}
      PROVE  verdict[p] <=> ToSet(call.lhs) \intersect ToSet(call.rhs)
                              \subseteq {Pow2[call.block_sz - TagBits]}
    BY DEF DisjointIsExact
  <2>1. verdict[p] <=> Shared \subseteq {dummy}
    BY <1>1 DEF DisjointNow
  <2>2. Shared \subseteq {dummy} <=> ToSet(call.lhs) \cap ToSet(call.rhs) \subseteq {Key}
    BY <1>1, DisjointOfCall
  <2> QED
    BY <2>1, <2>2 DEF Key
<1>4. SubsetsAndUnionsAreTrue
  <2> SUFFICES ASSUME Accepted
      PROVE  /\ call.op = "subset" =>
                  \A v \in ToSet(call.lhs) : Count(call.lhs, v) <= Count(call.rhs, v)
             /\ call.op = "setUnion" => ToSet(call.mhs) = ToSet(call.lhs) \cup ToSet(call.rhs)
    BY DEF SubsetsAndUnionsAreTrue, Occurrences, Count, PlacesOf
  <2> QED
    BY <1>1, ProvedOfCall DEF SoundNow
<1>5. ProofsAreComplete
  <2> SUFFICES ASSUME Ended, Unique(call.lhs), Unique(call.rhs), Unique(call.mhs),
                      \/ /\ call.op = "subset" /\ ToSet(call.lhs) \subseteq ToSet(call.rhs)
                         /\ Last(call.rhs) = 0
                      \/ /\ call.op = "setUnion"
                         /\ ToSet(call.mhs) = ToSet(call.lhs) \cup ToSet(call.rhs)
                      \/ /\ call.op = "intersection"
                         /\ ToSet(call.mhs) = ToSet(call.lhs) \cap ToSet(call.rhs)
      PROVE  Accepted
    BY DEF ProofsAreComplete
  <2>1. Provable
    BY <1>1, ProvableOfCall
  <2> QED
    BY <1>1, <2>1 DEF CompleteNow
<1>6. IntersectionAcceptsCommonParts
  <2>1. CommonPart <=> Within(call.mhs, call.lhs) /\ Within(call.mhs, call.rhs)
    BY <1>1, CommonPartOfCall
  <2>2. \A s, v : Occurrences(s, v) = Count(s, v)
    BY DEF Occurrences, Count, PlacesOf
  <2> QED
    BY <1>1, <2>1, <2>2 DEF CommonPartNow, IntersectionAcceptsCommonParts, Within
<1> QED
  BY <1>2, <1>3, <1>4, <1>5, <1>6 DEF AnswersAreExact

LEMMA AnswersHold ==
  ASSUME LastBlockHasBits
  PROVE  Spec => [](/\ AnswersAreExact /\ SubsetsAndUnionsAreTrue
                    /\ IntersectionAcceptsCommonParts /\ ProofsAreComplete)
<1>1. Init => Inv
  BY InvInit
<1>2. Inv /\ [Next]_vars => Inv'
  BY InvStep
<1>3. Inv => /\ AnswersAreExact /\ SubsetsAndUnionsAreTrue
             /\ IntersectionAcceptsCommonParts /\ ProofsAreComplete
  BY InvAnswers
<1> QED
  BY <1>1, <1>2, <1>3, PTL DEF Spec

(* Whatever the widths of blocks and limbs, the tables and their order, as *)
(* long as the last block of every wide element has bits: equal accepts    *)
(* exactly the tables that are equal as multisets, and disjoint tells both *)
(* parties exactly whether the tables share a key that is no dummy's.      *)
THEOREM AnswersCorrect ==
  ASSUME LastBlockHasBits
  PROVE  Spec => []AnswersAreExact
BY AnswersHold, PTL

(* Under the same condition, Bob accepts no subset or union that is not    *)
(* one.                                                                    *)
THEOREM SubsetsAndUnionsTrue ==
  ASSUME LastBlockHasBits
  PROVE  Spec => []SubsetsAndUnionsAreTrue
BY AnswersHold, PTL

(* Under the same condition, what intersection accepts is exactly what has *)
(* each of its elements as often as either table: no element that is not   *)
(* shared, and none in another number, but perhaps not all that are        *)
(* shared; and whatever is such a part is accepted without an abort.       *)
THEOREM CommonPartsAccepted ==
  ASSUME LastBlockHasBits
  PROVE  Spec => []IntersectionAcceptsCommonParts
BY AnswersHold, PTL

(* Under the same condition, a true statement about tables without         *)
(* repetitions is accepted and no party aborts or falls out of step; of a  *)
(* subset, when the larger table ends in zero.                             *)
THEOREM ProofsComplete ==
  ASSUME LastBlockHasBits
  PROVE  Spec => []ProofsAreComplete
BY AnswersHold, PTL
=============================================================================
