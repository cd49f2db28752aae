------------------------------ MODULE GcProofs ------------------------------
(***************************************************************************)
(* The garbage collector.  The heap (GcHeap): the allocator and the four   *)
(* ways to free keep every block in one place, every count is the number   *)
(* of edges that hold the cell, a destructor runs at most once, and what a *)
(* program can reach is alive.  The world (GcWorld): the collector works   *)
(* alone, sees every root and wakes every sleeper.  All for any number of  *)
(* threads, objects and collections.                                       *)
(***************************************************************************)
EXTENDS GcHeap, GcWorld, FiniteSetTheorems, SequenceTheorems,
        WellFoundedInduction, FunctionTheorems, TLAPS

Destroy  == {"drop", "kids", "free"}
GcObjs   == {f.obj : f \in {g \in AllFrames : g.pc = "drop" /\ g.gc}}

Allocator ==
    /\ used \cup Recycled \cup UNION {tlab[t] : t \in Threads} \subseteq 1 .. carved
    /\ IsInjective(gfree) /\ Range(gfree) \cap used = {}
    /\ \A t \in Threads :
        /\ IsInjective(lfree[t]) /\ Range(lfree[t]) \cap tlab[t] = {}
        /\ Cache(t) \cap (used \cup Range(gfree)) = {}
        /\ \A u \in Threads \ {t} : Cache(t) \cap Cache(u) = {}

\* A nonempty set of numbers has a least one.
LEMMA LeastOf ==
    ASSUME NEW S \in SUBSET Nat, S # {}
    PROVE  \E b \in S : \A d \in S : b <= d
<1>1. IsWellFoundedOn(OpToRel(<, Nat), Nat)
  BY NatLessThanWellFounded
<1>2. PICK b \in S : \A d \in S : ~ (<<d, b>> \in OpToRel(<, Nat))
  BY <1>1, WFMin
<1>3. ASSUME NEW d \in S  PROVE b <= d
  <2>1. ~ (<<d, b>> \in {ss \in Nat \X Nat : ss[1] < ss[2]})
    BY <1>2 DEF OpToRel
  <2>2. <<d, b>> \in Nat \X Nat
    OBVIOUS
  <2> QED  BY <2>1, <2>2
<1> QED  BY <1>3

\* What the elements of a sequence are.
LEMMA SeqRange ==
    ASSUME NEW S, NEW s \in Seq(S)
    PROVE  /\ DOMAIN s = 1 .. Len(s) /\ Len(s) \in Nat
           /\ Range(s) \subseteq S
           /\ \A x : x \in Range(s) <=> \E i \in 1 .. Len(s) : s[i] = x
  BY DEF Range

\* A nonempty sequence without its last element.
LEMMA FrontLast ==
    ASSUME NEW S, NEW s \in Seq(S), s # <<>>
    PROVE  /\ Front(s) \in Seq(S) /\ Len(Front(s)) = Len(s) - 1
           /\ Len(s) \in Nat \ {0} /\ Last(s) = s[Len(s)] /\ Last(s) \in S
           /\ \A i \in 1 .. Len(s) - 1 : Front(s)[i] = s[i]
<1>1. Len(s) \in Nat \ {0} /\ \A i \in 1 .. Len(s) : s[i] \in S
  BY EmptySeq, ElementOfSeq
<1>2. \A i \in 1 .. Len(s) - 1 : s[i] \in S
  BY <1>1
<1>3. /\ Front(s) \in Seq(S)
      /\ Len(Front(s)) = IF 1 <= Len(s) - 1 THEN Len(s) - 1 ELSE 0
      /\ \A i \in 1 .. Len(s) - 1 : Front(s)[i] = s[i]
  <2>1. 1 \in Int /\ Len(s) - 1 \in Int
    BY <1>1
  <2>2. /\ SubSeq(s, 1, Len(s) - 1) \in Seq(S)
        /\ Len(SubSeq(s, 1, Len(s) - 1)) = IF 1 <= Len(s) - 1 THEN (Len(s) - 1) - 1 + 1 ELSE 0
        /\ \A i \in 1 .. (Len(s) - 1) - 1 + 1 : SubSeq(s, 1, Len(s) - 1)[i] = s[1 + i - 1]
    BY <1>2, <2>1, SubSeqProperties
  <2>3. (Len(s) - 1) - 1 + 1 = Len(s) - 1 /\ \A i \in Nat : 1 + i - 1 = i
    BY <1>1
  <2> QED  BY <2>2, <2>3 DEF Front
<1>4. Last(s) = s[Len(s)] /\ Last(s) \in S
  BY <1>1 DEF Last
<1>5. Len(Front(s)) = Len(s) - 1
  <2>1. CASE Len(s) = 1
    BY <1>3, <2>1
  <2>2. CASE Len(s) # 1
    <3>1. \A n \in Nat \ {0, 1} : 1 <= n - 1
      OBVIOUS
    <3>2. 1 <= Len(s) - 1
      BY <1>1, <2>2, <3>1
    <3> QED  BY <1>3, <3>2
  <2> QED  BY <2>1, <2>2
<1> QED  BY <1>1, <1>3, <1>4, <1>5

\* Taking the last block of a free list takes that block and no other.
LEMMA FrontOfInjective ==
    ASSUME NEW S, NEW s \in Seq(S), s # <<>>, IsInjective(s)
    PROVE  /\ IsInjective(Front(s)) /\ Range(Front(s)) = Range(s) \ {Last(s)}
           /\ Last(s) \in Range(s)
<1>1. /\ Front(s) \in Seq(S) /\ Len(Front(s)) = Len(s) - 1
      /\ Len(s) \in Nat \ {0} /\ Last(s) = s[Len(s)]
      /\ \A i \in 1 .. Len(s) - 1 : Front(s)[i] = s[i]
  BY FrontLast
<1>2. IsInjective(Front(s))
  BY <1>1 DEF IsInjective
<1>3. Last(s) \in Range(s)
  BY <1>1 DEF Range
<1>4. \A x : x \in Range(Front(s)) <=> x \in Range(s) /\ x # Last(s)
  BY <1>1 DEF IsInjective, Range
<1> QED  BY <1>2, <1>3, <1>4

\* Adding a block that is not in a free list keeps the list free of repetitions.
LEMMA AppendInjective2 ==
    ASSUME NEW S, NEW s \in Seq(S), NEW x \in S, IsInjective(s), x \notin Range(s)
    PROVE  /\ Append(s, x) \in Seq(S) /\ IsInjective(Append(s, x))
           /\ Range(Append(s, x)) = Range(s) \cup {x}
<1>1. /\ Append(s, x) \in Seq(S) /\ Len(Append(s, x)) = Len(s) + 1 /\ Len(s) \in Nat
      /\ \A i \in 1 .. Len(s) : Append(s, x)[i] = s[i]
      /\ Append(s, x)[Len(s) + 1] = x
  OBVIOUS
<1>2. IsInjective(Append(s, x))
  BY <1>1 DEF IsInjective, Range
<1>3. \A y : y \in Range(Append(s, x)) <=> y \in Range(s) \cup {x}
  BY <1>1 DEF Range
<1> QED  BY <1>1, <1>2, <1>3

\* Two free lists with no block in common, one after the other.
LEMMA ConcatInjective ==
    ASSUME NEW S, NEW s \in Seq(S), NEW r \in Seq(S), IsInjective(s), IsInjective(r),
           Range(s) \cap Range(r) = {}
    PROVE  /\ s \o r \in Seq(S) /\ IsInjective(s \o r)
           /\ Range(s \o r) = Range(s) \cup Range(r)
<1>1. /\ s \o r \in Seq(S) /\ Len(s \o r) = Len(s) + Len(r)
      /\ Len(s) \in Nat /\ Len(r) \in Nat
      /\ DOMAIN s = 1 .. Len(s) /\ DOMAIN r = 1 .. Len(r)
      /\ DOMAIN (s \o r) = 1 .. Len(s) + Len(r)
      /\ \A i \in 1 .. Len(s) : (s \o r)[i] = s[i]
      /\ \A i \in 1 .. Len(r) : (s \o r)[i + Len(s)] = r[i]
  BY ConcatProperties
<1>2. \A i \in DOMAIN (s \o r) : \/ i \in 1 .. Len(s) /\ (s \o r)[i] = s[i]
                                 \/ i - Len(s) \in 1 .. Len(r) /\ (s \o r)[i] = r[i - Len(s)]
  <2>1. ASSUME NEW i \in 1 .. Len(s) + Len(r), i \notin 1 .. Len(s)
        PROVE  i - Len(s) \in 1 .. Len(r) /\ (s \o r)[i] = r[i - Len(s)]
    <3>1. i - Len(s) \in 1 .. Len(r)
      BY <1>1, <2>1
    <3>2. (s \o r)[(i - Len(s)) + Len(s)] = r[i - Len(s)]
      BY <1>1, <3>1
    <3>3. (i - Len(s)) + Len(s) = i
      BY <1>1
    <3> QED  BY <3>1, <3>2, <3>3
  <2> QED  BY <1>1, <2>1
<1> DEFINE c == s \o r
<1> HIDE DEF c
<1>3. /\ DOMAIN c = 1 .. Len(s) + Len(r)
      /\ \A i \in 1 .. Len(s) : c[i] = s[i]
      /\ \A i \in 1 .. Len(r) : c[i + Len(s)] = r[i] /\ i + Len(s) \in DOMAIN c
      /\ \A i \in DOMAIN c : \/ i \in 1 .. Len(s) /\ c[i] = s[i]
                             \/ i - Len(s) \in 1 .. Len(r) /\ c[i] = r[i - Len(s)]
  BY <1>1, <1>2 DEF c
<1>4. IsInjective(c)
  <2> SUFFICES ASSUME NEW i \in DOMAIN c, NEW j \in DOMAIN c, c[i] = c[j]  PROVE i = j
    BY DEF IsInjective
  <2>1. CASE i \in 1 .. Len(s) /\ c[i] = s[i] /\ j \in 1 .. Len(s) /\ c[j] = s[j]
    BY <1>1, <2>1 DEF IsInjective
  <2>2. CASE /\ i - Len(s) \in 1 .. Len(r) /\ c[i] = r[i - Len(s)]
             /\ j - Len(s) \in 1 .. Len(r) /\ c[j] = r[j - Len(s)]
    <3>1. i - Len(s) = j - Len(s)
      BY <1>1, <2>2 DEF IsInjective
    <3> QED  BY <1>1, <1>3, <3>1
  <2>3. CASE i \in 1 .. Len(s) /\ c[i] = s[i] /\ j - Len(s) \in 1 .. Len(r) /\ c[j] = r[j - Len(s)]
    BY <1>1, <2>3 DEF Range
  <2>4. CASE j \in 1 .. Len(s) /\ c[j] = s[j] /\ i - Len(s) \in 1 .. Len(r) /\ c[i] = r[i - Len(s)]
    BY <1>1, <2>4 DEF Range
  <2> QED  BY <1>3, <2>1, <2>2, <2>3, <2>4
<1>5. Range(c) = Range(s) \cup Range(r)
  <2>1. \A x \in Range(c) : x \in Range(s) \cup Range(r)
    BY <1>1, <1>3 DEF Range
  <2>2. \A x \in Range(s) : x \in Range(c)
    BY <1>1, <1>3 DEF Range
  <2>3. \A x \in Range(r) : x \in Range(c)
    <3> SUFFICES ASSUME NEW i \in 1 .. Len(r)  PROVE r[i] \in Range(c)
      BY <1>1 DEF Range
    <3>1. i + Len(s) \in DOMAIN c /\ c[i + Len(s)] = r[i]
      BY <1>3
    <3> QED  BY <3>1 DEF Range
  <2> HIDE DEF c
  <2> QED  BY <2>1, <2>2, <2>3, Zenon
<1> QED  BY <1>1, <1>4, <1>5 DEF c

\* A finite set listed as a sequence: every element once.
LEMMA SetToSeqOf ==
    ASSUME NEW S, IsFiniteSet(S)
    PROVE  /\ SetToSeq(S) \in Seq(S) /\ IsInjective(SetToSeq(S))
           /\ Range(SetToSeq(S)) = S
<1> DEFINE n == Cardinality(S)
<1>1. n \in Nat /\ ExistsBijection(1 .. n, S)
  BY FS_CardinalityType
<1>2. PICK g : g \in Bijection(1 .. n, S)
  BY <1>1 DEF ExistsBijection
<1>3. g \in [1 .. n -> S] /\ IsInjective(g)
  <2>1. g \in [1 .. n -> S] /\ \A a, b \in 1 .. n : g[a] = g[b] => a = b
    BY <1>2, Fun_BijectionProperties
  <2> QED  BY <2>1 DEF IsInjective
<1> DEFINE f == SetToSeq(S)
<1>4. f \in [1 .. n -> S] /\ IsInjective(f)
  <2>1. \E h \in [1 .. n -> S] : IsInjective(h)
    BY <1>3
  <2> HIDE DEF n
  <2>2. (CHOOSE h \in [1 .. n -> S] : IsInjective(h)) \in [1 .. n -> S]
        /\ IsInjective(CHOOSE h \in [1 .. n -> S] : IsInjective(h))
    BY <2>1
  <2> QED  BY <2>2 DEF SetToSeq, n
<1> HIDE DEF f
<1>5. f \in Seq(S)
  BY <1>1, <1>4
<1>6. Range(f) = S
  <2>1. f \in Injection(1 .. n, S)
    BY <1>4 DEF Injection
  <2>2. IsFiniteSet(1 .. n) /\ Cardinality(1 .. n) = n
    BY <1>1, FS_Interval
  <2>3. f \in Surjection(1 .. n, S)
    BY <2>1, <2>2, FS_Injection
  <2>4. \A x \in S : \E i \in 1 .. n : f[i] = x
    BY <2>3 DEF Surjection
  <2> QED  BY <1>4, <2>4 DEF Range
<1> QED  BY <1>4, <1>5, <1>6 DEF f
\* A free list cut in two: the refill of a thread cache from the global list.
LEMMA SplitInjective ==
    ASSUME NEW S, NEW s \in Seq(S), NEW m \in 0 .. Len(s), IsInjective(s)
    PROVE  LET a == SubSeq(s, 1, m)
               b == SubSeq(s, m + 1, Len(s))
           IN  /\ a \in Seq(S) /\ b \in Seq(S) /\ Len(a) = m /\ Len(b) = Len(s) - m
               /\ IsInjective(a) /\ IsInjective(b)
               /\ Range(a) \subseteq Range(s) /\ Range(b) \subseteq Range(s)
               /\ Range(a) \cap Range(b) = {}
<1> DEFINE a == SubSeq(s, 1, m)
           b == SubSeq(s, m + 1, Len(s))
           n == Len(s)
<1>1. n \in Nat /\ DOMAIN s = 1 .. n /\ \A i \in 1 .. n : s[i] \in S
  BY LenProperties, ElementOfSeq
<1>2. /\ a \in Seq(S) /\ Len(a) = (IF 1 <= m THEN m - 1 + 1 ELSE 0)
      /\ \A i \in 1 .. m - 1 + 1 : a[i] = s[1 + i - 1]
  <2>1. 1 \in Int /\ m \in Int /\ \A i \in 1 .. m : s[i] \in S
    BY <1>1
  <2> QED  BY <2>1, SubSeqProperties
<1>3. /\ b \in Seq(S) /\ Len(b) = (IF m + 1 <= n THEN n - (m + 1) + 1 ELSE 0)
      /\ \A i \in 1 .. n - (m + 1) + 1 : b[i] = s[(m + 1) + i - 1]
  <2>1. m + 1 \in Int /\ n \in Int /\ \A i \in m + 1 .. n : s[i] \in S
    BY <1>1
  <2> QED  BY <2>1, SubSeqProperties
<1>4. DOMAIN a = 1 .. Len(a) /\ DOMAIN b = 1 .. Len(b)
  BY <1>2, <1>3, LenProperties
<1> HIDE DEF a, b, n
<1>5. m \in 0 .. n
  BY DEF n
<1>6. Len(a) = m /\ \A i \in 1 .. m : a[i] = s[i]
  BY <1>1, <1>2, <1>5
<1>7. Len(b) = n - m /\ \A i \in 1 .. n - m : b[i] = s[m + i]
  <2>1. Len(b) = n - m
    BY <1>1, <1>3, <1>5
  <2>2. \A i \in 1 .. n - m : i \in 1 .. n - (m + 1) + 1 /\ (m + 1) + i - 1 = m + i
    BY <1>1, <1>5
  <2> QED  BY <1>3, <2>1, <2>2
<1>8. IsInjective(a) /\ Range(a) \subseteq Range(s)
  BY <1>1, <1>4, <1>5, <1>6 DEF IsInjective, Range
<1>9. IsInjective(b) /\ Range(b) \subseteq Range(s)
  <2>1. \A i \in 1 .. n - m : m + i \in 1 .. n
    BY <1>1, <1>5
  <2>2. \A i, j \in 1 .. n - m : m + i = m + j => i = j
    BY <1>1, <1>5
  <2>3. IsInjective(b)
    <3> SUFFICES ASSUME NEW i \in 1 .. n - m, NEW j \in 1 .. n - m, b[i] = b[j]
                 PROVE  i = j
      BY <1>4, <1>7 DEF IsInjective
    <3>1. s[m + i] = s[m + j] /\ m + i \in DOMAIN s /\ m + j \in DOMAIN s
      BY <1>1, <1>7, <2>1
    <3>2. m + i = m + j
      BY <3>1 DEF IsInjective
    <3> QED  BY <2>2, <3>2
  <2>4. Range(b) \subseteq Range(s)
    BY <1>4, <1>1, <1>7, <2>1 DEF Range
  <2> QED  BY <2>3, <2>4
<1>10. Range(a) \cap Range(b) = {}
  <2>1. \A i \in 1 .. m, j \in 1 .. n - m : i \in 1 .. n /\ m + j \in 1 .. n /\ i # m + j
    BY <1>1, <1>5
  <2> QED  BY <1>1, <1>4, <1>6, <1>7, <2>1 DEF IsInjective, Range
<1> QED  BY <1>2, <1>3, <1>6, <1>7, <1>8, <1>9, <1>10 DEF a, b, n

\* The empty free list.
LEMMA EmptyInjective == Range(<<>>) = {} /\ IsInjective(<<>>)
  BY DEF Range, IsInjective

\* What alloc leaves in the caches: the block it hands out is in none of them.
LEMMA Taken ==
    ASSUME TypeOK, Allocator, NEW t \in Threads, TakeBlock(t), Refill(t).cv <= MaxBlocks
    PROVE  LET b == Block(t)
               new == (Cache(t) \cup Range(gfree) \cup ((carved + 1) .. carved'))
           IN  /\ carved' \in carved .. MaxBlocks
               /\ gfree' \in Seq(Blocks)
               /\ lfree' \in [Threads -> Seq(Blocks)] /\ tlab' \in [Threads -> SUBSET Blocks]
               /\ \A u \in Threads \ {t} : lfree'[u] = lfree[u] /\ tlab'[u] = tlab[u]
               /\ b \in new
               /\ IsInjective(gfree') /\ IsInjective(lfree'[t])
               /\ Range(lfree'[t]) \cap tlab'[t] = {}
               /\ (Range(lfree'[t]) \cup tlab'[t]) \cap Range(gfree') = {}
               /\ Range(gfree') \subseteq Range(gfree) \ {b}
               /\ Range(lfree'[t]) \subseteq Range(lfree[t]) \cup Range(gfree)
               /\ Range(lfree'[t]) \cup tlab'[t] \subseteq new \ {b}
<1> DEFINE c == Refill(t)
           b == Block(t)
           n == IF Len(gfree) < Batch THEN Len(gfree) ELSE Batch
<1>t. /\ carved \in 0 .. MaxBlocks /\ gfree \in Seq(Blocks)
      /\ lfree[t] \in Seq(Blocks) /\ tlab[t] \in SUBSET Blocks
      /\ lfree \in [Threads -> Seq(Blocks)] /\ tlab \in [Threads -> SUBSET Blocks]
  BY DEF TypeOK
<1>a. /\ IsInjective(gfree) /\ IsInjective(lfree[t])
      /\ Range(lfree[t]) \cap tlab[t] = {} /\ Cache(t) \cap Range(gfree) = {}
      /\ Range(gfree) \cup Range(lfree[t]) \cup tlab[t] \subseteq 1 .. carved
  BY DEF Allocator, Recycled
<1>h. Chunk \in Nat \ {0} /\ Batch \in Nat \ {0} /\ MaxBlocks \in Nat
  BY HeapAssumption
<1>s. /\ carved' = c.cv /\ gfree' = c.gf
      /\ lfree' = [lfree EXCEPT ![t] = IF c.lf # <<>> THEN Front(c.lf) ELSE <<>>]
      /\ tlab' = [tlab EXCEPT ![t] = IF c.lf # <<>> THEN c.tl ELSE c.tl \ {b}]
      /\ c.cv <= MaxBlocks
  BY DEF TakeBlock
<1>e. <<>> \in Seq(Blocks)
  OBVIOUS
<1>1. CASE lfree[t] # <<>>
  <2>1. c = [lf |-> lfree[t], tl |-> tlab[t], gf |-> gfree, cv |-> carved]
    BY <1>1 DEF Refill
  <2>2. b = Last(lfree[t])
    BY <1>1, <2>1 DEF Block
  <2>3. /\ Front(lfree[t]) \in Seq(Blocks) /\ IsInjective(Front(lfree[t]))
        /\ Range(Front(lfree[t])) = Range(lfree[t]) \ {b} /\ b \in Range(lfree[t])
    <3> DEFINE s == lfree[t]
    <3>1. s \in Seq(Blocks) /\ s # <<>> /\ IsInjective(s) /\ b = Last(s)
      BY <1>t, <1>a, <1>1, <2>2
    <3> HIDE DEF s, b
    <3>2. /\ Front(s) \in Seq(Blocks) /\ IsInjective(Front(s))
          /\ Range(Front(s)) = Range(s) \ {b} /\ b \in Range(s)
      BY <3>1, FrontLast, FrontOfInjective
    <3> QED  BY <3>2 DEF s
  <2>4. /\ carved' = carved /\ gfree' = gfree
        /\ lfree' = [lfree EXCEPT ![t] = Front(lfree[t])] /\ tlab' = [tlab EXCEPT ![t] = tlab[t]]
    BY <1>s, <1>1, <2>1
  <2> HIDE DEF c, b, n
  <2>5. lfree'[t] = Front(lfree[t]) /\ tlab'[t] = tlab[t]
    BY <1>t, <2>4
  <2>6. carved' \in carved .. MaxBlocks
    BY <1>t, <2>4
  <2> QED  BY <1>t, <1>a, <2>3, <2>4, <2>5, <2>6 DEF Cache, b
<1>2. CASE lfree[t] = <<>> /\ tlab[t] # {}
  <2>1. c = [lf |-> lfree[t], tl |-> tlab[t], gf |-> gfree, cv |-> carved]
    BY <1>2 DEF Refill
  <2>2. b = CHOOSE d \in tlab[t] : \A e \in tlab[t] : d <= e
    BY <1>2, <2>1 DEF Block
  <2>3. b \in tlab[t]
    <3>1. tlab[t] \in SUBSET Nat
      BY <1>t, <1>a DEF Blocks
    <3>2. \E d \in tlab[t] : \A e \in tlab[t] : d <= e
      BY <1>2, <3>1, LeastOf
    <3> QED  BY <2>2, <3>2
  <2>4. /\ carved' = carved /\ gfree' = gfree
        /\ lfree' = [lfree EXCEPT ![t] = <<>>] /\ tlab' = [tlab EXCEPT ![t] = tlab[t] \ {b}]
    BY <1>s, <1>2, <2>1
  <2> HIDE DEF c, b, n
  <2>5. lfree'[t] = <<>> /\ tlab'[t] = tlab[t] \ {b}
    BY <1>t, <2>4
  <2>6. carved' \in carved .. MaxBlocks
    BY <1>t, <2>4
  <2> QED  BY <1>t, <1>a, <1>e, <2>3, <2>4, <2>5, <2>6, EmptyInjective DEF Cache, b
<1>3. CASE lfree[t] = <<>> /\ tlab[t] = {} /\ gfree # <<>>
  <2>1. c = [lf |-> SubSeq(gfree, Len(gfree) - n + 1, Len(gfree)), tl |-> {},
             gf |-> SubSeq(gfree, 1, Len(gfree) - n), cv |-> carved]
    BY <1>3 DEF Refill
  <2>2. Len(gfree) \in Nat \ {0}
    BY <1>t, <1>3, EmptySeq
  <2>3. n \in 1 .. Len(gfree) /\ Len(gfree) - n \in 0 .. Len(gfree)
    BY <1>h, <2>2
  <2>4. /\ c.gf \in Seq(Blocks) /\ c.lf \in Seq(Blocks) /\ Len(c.lf) = Len(gfree) - (Len(gfree) - n)
        /\ IsInjective(c.gf) /\ IsInjective(c.lf)
        /\ Range(c.gf) \subseteq Range(gfree) /\ Range(c.lf) \subseteq Range(gfree)
        /\ Range(c.gf) \cap Range(c.lf) = {}
    <3> DEFINE m == Len(gfree) - n
    <3>1. m \in 0 .. Len(gfree)
      BY <2>3
    <3> HIDE DEF c, n
    <3>2. c.gf = SubSeq(gfree, 1, m) /\ c.lf = SubSeq(gfree, m + 1, Len(gfree))
      BY <2>1
    <3> HIDE DEF m
    <3>3. Len(gfree) - m = Len(gfree) - (Len(gfree) - n)
      BY DEF m
    <3>4. /\ SubSeq(gfree, 1, m) \in Seq(Blocks) /\ SubSeq(gfree, m + 1, Len(gfree)) \in Seq(Blocks)
          /\ Len(SubSeq(gfree, m + 1, Len(gfree))) = Len(gfree) - m
          /\ IsInjective(SubSeq(gfree, 1, m)) /\ IsInjective(SubSeq(gfree, m + 1, Len(gfree)))
          /\ Range(SubSeq(gfree, 1, m)) \subseteq Range(gfree)
          /\ Range(SubSeq(gfree, m + 1, Len(gfree))) \subseteq Range(gfree)
          /\ Range(SubSeq(gfree, 1, m)) \cap Range(SubSeq(gfree, m + 1, Len(gfree))) = {}
      BY <1>t, <1>a, <3>1, SplitInjective
    <3> QED  BY <3>2, <3>3, <3>4
  <2>5. c.lf # <<>>
    <3>1. Len(c.lf) # 0
      BY <2>2, <2>3, <2>4
    <3> QED  BY <3>1
  <2>6. b = Last(c.lf)
    BY <2>5 DEF Block
  <2>7. c.cv = carved /\ c.tl = {}
    BY <2>1
  <2> HIDE DEF c, b, n
  <2>8. /\ Front(c.lf) \in Seq(Blocks) /\ IsInjective(Front(c.lf))
        /\ Range(Front(c.lf)) = Range(c.lf) \ {b} /\ b \in Range(c.lf)
    BY <2>4, <2>5, <2>6, FrontLast, FrontOfInjective
  <2>9. /\ carved' = carved /\ gfree' = c.gf
        /\ lfree' = [lfree EXCEPT ![t] = Front(c.lf)] /\ tlab' = [tlab EXCEPT ![t] = {}]
    BY <1>s, <2>5, <2>7
  <2>10. lfree'[t] = Front(c.lf) /\ tlab'[t] = {}
    BY <1>t, <2>9
  <2>11. carved' \in carved .. MaxBlocks
    BY <1>t, <2>9
  <2> QED  BY <1>t, <1>a, <2>4, <2>8, <2>9, <2>10, <2>11 DEF Cache, b
<1>4. CASE lfree[t] = <<>> /\ tlab[t] = {} /\ gfree = <<>>
  <2>1. c = [lf |-> <<>>, tl |-> (carved + 1) .. (carved + Chunk),
             gf |-> gfree, cv |-> carved + Chunk]
    BY <1>4 DEF Refill
  <2> DEFINE new == (carved + 1) .. (carved + Chunk)
  <2>2. b = CHOOSE d \in new : \A e \in new : d <= e
    BY <2>1 DEF Block
  <2>3. new \in SUBSET Nat /\ new # {}
    <3>1. carved + 1 \in new
      BY <1>t, <1>h
    <3>2. \A d \in new : d \in Nat
      BY <1>t, <1>h
    <3> QED  BY <3>1, <3>2
  <2>4. b \in new
    <3> HIDE DEF new
    <3>1. \E d \in new : \A e \in new : d <= e
      BY <2>3, LeastOf
    <3> QED  BY <2>2, <3>1
  <2>5. carved + Chunk <= MaxBlocks
    BY <1>s, <2>1
  <2>6. new \subseteq Blocks /\ carved + Chunk \in carved .. MaxBlocks
    BY <1>t, <1>h, <2>5 DEF Blocks
  <2>7. /\ carved' = carved + Chunk /\ gfree' = gfree
        /\ lfree' = [lfree EXCEPT ![t] = <<>>] /\ tlab' = [tlab EXCEPT ![t] = new \ {b}]
    BY <1>s, <2>1
  <2> HIDE DEF c, b, n
  <2>8. lfree'[t] = <<>> /\ tlab'[t] = new \ {b}
    BY <1>t, <2>7
  <2>9. b \in (carved + 1) .. carved' /\ new = (carved + 1) .. carved'
    BY <2>4, <2>7
  <2>10. Range(gfree) = {}
    BY <1>4, EmptyInjective
  <2> HIDE DEF new
  <2> QED  BY <1>t, <1>a, <1>e, <2>6, <2>7, <2>8, <2>9, <2>10, EmptyInjective DEF Cache, b
<1> QED  BY <1>1, <1>2, <1>3, <1>4
-----------------------------------------------------------------------------
(* The structure of the heap and of the stacks, whatever the drop bodies do. *)

TurnHeld == \A t \in Threads : (\E f \in Frames(t) : f.pc = "loop") <=> turn = t

GcDrop(f) == f.pc = "drop" /\ f.gc

\* A frame's object is a block but in run_finalizers' own frame; only a drop
\* can be the collector's; a store's or the loop's bindings stay with the code.
FrameFits(f) ==
    /\ f \in Frame
    /\ f.pc # "loop" => f.obj \in Blocks
    /\ f.gc => f.pc \in {"drop", "loop"}
    /\ f.pc \in {"store", "loop"} => f.outer = {}

FrameOK == \A f \in AllFrames : FrameFits(f)

\* What may run inside of what: drop bodies run anything, a store waits for the
\* destruction of the old value, rc_finalize for the destruction of the child.
Above(f, g) ==
    /\ f.pc # "kids"
    /\ f.pc = "loop" <=> GcDrop(g)
    /\ f.pc \in {"store", "free"} => g.pc \in Destroy /\ ~g.gc
    /\ f.pc = "free" => g.outer = {}

Tops(f, rs) == f.pc # "store" /\ (f.pc \in {"kids", "free"} => rs = {})

Shape ==
    \A t \in Threads :
        LET s == stack[t]
        IN  /\ \A i \in 1 .. Len(s) - 1 : Above(s[i], s[i + 1])
            /\ Len(s) # 0 => ~GcDrop(s[1]) /\ Tops(s[Len(s)], refs[t])
            /\ \A i, j \in 1 .. Len(s) : s[i].pc = "loop" /\ s[j].pc = "loop" => i = j

\* An object is in one place only: the registry, one log, the finalizer queue,
\* or the hands of the thread that finalizes it.
Registry ==
    /\ used = Registered \cup pending \cup GcObjs
    /\ Registered \cap (pending \cup GcObjs) = {} /\ pending \cap GcObjs = {}
    /\ \A t \in Threads : /\ log[t] \cap objects = {}
                          /\ \A u \in Threads \ {t} : log[t] \cap log[u] = {}
                          /\ \A b \in log[t] : kind[b] \notin RcKinds
    /\ pending # {} => turn # NoOne

Structure == TypeOK /\ FrameOK /\ Shape /\ Registry /\ Allocator

\* The frames of a thread's stack.
LEMMA StackFacts ==
    ASSUME TypeOK, NEW t \in Threads
    PROVE  /\ stack[t] \in Seq(Frame) /\ Len(stack[t]) \in Nat
           /\ stack[t] = <<>> <=> Len(stack[t]) = 0
           /\ DOMAIN stack[t] = 1 .. Len(stack[t])
           /\ \A i \in 1 .. Len(stack[t]) : stack[t][i] \in Frame /\ stack[t][i] \in AllFrames
                                            /\ stack[t][i] \in Frames(t)
           /\ stack[t] # <<>> => Len(stack[t]) \in 1 .. Len(stack[t]) /\ Top(t) = stack[t][Len(stack[t])]
<1>1. stack[t] \in Seq(Frame)
  BY DEF TypeOK
<1>2. /\ Len(stack[t]) \in Nat /\ DOMAIN stack[t] = 1 .. Len(stack[t])
      /\ stack[t] = <<>> <=> Len(stack[t]) = 0
  BY <1>1, LenProperties, EmptySeq
<1>3. \A i \in 1 .. Len(stack[t]) : stack[t][i] \in Frame
  BY <1>1, ElementOfSeq
<1>4. \A i \in 1 .. Len(stack[t]) : stack[t][i] \in Frames(t)
  BY <1>2 DEF Frames
<1>5. \A f \in Frames(t) : f \in AllFrames
  BY DEF AllFrames
<1>6. stack[t] # <<>> => Len(stack[t]) \in 1 .. Len(stack[t]) /\ Top(t) = stack[t][Len(stack[t])]
  BY <1>2 DEF Top, Last
<1> QED  BY <1>1, <1>2, <1>3, <1>4, <1>5, <1>6

\* Every frame is somewhere in the stack of some thread.
LEMMA FrameAt ==
    ASSUME TypeOK
    PROVE  \A f \in AllFrames : \E t \in Threads : \E i \in 1 .. Len(stack[t]) : f = stack[t][i]
<1> SUFFICES ASSUME NEW t \in Threads, NEW f \in Frames(t)
             PROVE  \E i \in 1 .. Len(stack[t]) : f = stack[t][i]
  BY DEF AllFrames
<1>1. DOMAIN stack[t] = 1 .. Len(stack[t])
  BY StackFacts
<1> QED  BY <1>1 DEF Frames

\* Thread t's stack becomes s, which keeps its first k frames.
Restacked(t, s, k) ==
    /\ s \in Seq(Frame) /\ k \in 0 .. Len(s) /\ k <= Len(stack[t])
    /\ \A i \in 1 .. k : s[i] = stack[t][i]
    /\ stack' = [stack EXCEPT ![t] = s]

\* What a step that replaces the top of one stack does to the set of all frames.
LEMMA RestackedFrames ==
    ASSUME TypeOK, NEW t \in Threads, NEW s, NEW k, Restacked(t, s, k)
    PROVE  /\ stack' \in [Threads -> Seq(Frame)] /\ stack'[t] = s
           /\ Len(s) \in Nat /\ \A i \in 1 .. Len(s) : s[i] \in Frame
           /\ \A u \in Threads \ {t} : stack'[u] = stack[u] /\ Frames(u)' = Frames(u)
           /\ Frames(t)' = {s[i] : i \in 1 .. Len(s)}
           /\ \A f \in AllFrames' : f \in AllFrames \/ \E i \in k + 1 .. Len(s) : f = s[i]
           /\ \A f \in AllFrames : f \in AllFrames' \/ \E i \in k + 1 .. Len(stack[t]) : f = stack[t][i]
           /\ \A i \in 1 .. Len(s) : s[i] \in AllFrames'
<1>1. stack \in [Threads -> Seq(Frame)]
  BY DEF TypeOK
<1>2. /\ stack' \in [Threads -> Seq(Frame)] /\ stack'[t] = s
      /\ \A u \in Threads \ {t} : stack'[u] = stack[u]
  BY <1>1 DEF Restacked
<1>3. Len(s) \in Nat /\ DOMAIN s = 1 .. Len(s) /\ \A i \in 1 .. Len(s) : s[i] \in Frame
  BY LenProperties, ElementOfSeq DEF Restacked
<1>4. \A u \in Threads \ {t} : Frames(u)' = Frames(u)
  BY <1>2 DEF Frames
<1>5. Frames(t)' = {s[i] : i \in 1 .. Len(s)}
  BY <1>2, <1>3 DEF Frames
<1>6. DOMAIN stack[t] = 1 .. Len(stack[t]) /\ Len(stack[t]) \in Nat
  BY StackFacts
<1>7. Frames(t) = {stack[t][i] : i \in 1 .. Len(stack[t])}
  BY <1>6 DEF Frames
<1>8. \A f \in Frames(t)' : f \in Frames(t) \/ \E i \in k + 1 .. Len(s) : f = s[i]
  <2> SUFFICES ASSUME NEW i \in 1 .. Len(s), i \notin k + 1 .. Len(s)  PROVE s[i] \in Frames(t)
    BY <1>5
  <2>1. i \in 1 .. k /\ i \in 1 .. Len(stack[t])
    BY <1>3, <1>6 DEF Restacked
  <2> QED  BY <1>7, <2>1 DEF Restacked
<1>9. \A f \in Frames(t) : f \in Frames(t)' \/ \E i \in k + 1 .. Len(stack[t]) : f = stack[t][i]
  <2> SUFFICES ASSUME NEW i \in 1 .. Len(stack[t]), i \notin k + 1 .. Len(stack[t])
               PROVE  stack[t][i] \in Frames(t)'
    BY <1>7
  <2>1. i \in 1 .. k /\ i \in 1 .. Len(s)
    BY <1>3, <1>6 DEF Restacked
  <2> QED  BY <1>5, <2>1 DEF Restacked
<1>10. AllFrames' = UNION {Frames(u)' : u \in Threads}
  BY DEF AllFrames
<1>11. \A f \in AllFrames' : f \in AllFrames \/ \E i \in k + 1 .. Len(s) : f = s[i]
  BY <1>4, <1>8, <1>10 DEF AllFrames
<1>12. \A f \in AllFrames : f \in AllFrames' \/ \E i \in k + 1 .. Len(stack[t]) : f = stack[t][i]
  BY <1>4, <1>9, <1>10 DEF AllFrames
<1> QED  BY <1>2, <1>3, <1>4, <1>5, <1>10, <1>11, <1>12

\* Replacing the top of one stack keeps every stack well formed if the new
\* frames are, and fit on each other.
LEMMA RestackShape ==
    ASSUME Structure, NEW t \in Threads, NEW s, NEW k, Restacked(t, s, k),
           \A u \in Threads \ {t} : refs'[u] = refs[u],
           \A i \in k + 1 .. Len(s) : FrameFits(s[i]),
           k = 0 /\ Len(s) # 0 => ~GcDrop(s[1]),
           \A i \in 1 .. Len(s) - 1 : i >= k => Above(s[i], s[i + 1]),
           \A i, j \in 1 .. Len(s) : s[i].pc = "loop" /\ s[j].pc = "loop" => i = j,
           Len(s) # 0 => Tops(s[Len(s)], refs'[t])
    PROVE  FrameOK' /\ Shape'
<1> DEFINE r == stack[t]
<1>0. TypeOK
  BY DEF Structure
<1>1. /\ stack'[t] = s /\ Len(s) \in Nat
      /\ \A u \in Threads \ {t} : stack'[u] = stack[u]
      /\ \A f \in AllFrames' : f \in AllFrames \/ \E i \in k + 1 .. Len(s) : f = s[i]
  BY <1>0, RestackedFrames
<1>2. /\ Len(r) \in Nat /\ k \in 0 .. Len(s) /\ k <= Len(r) /\ \A i \in 1 .. k : s[i] = r[i]
  BY <1>0, StackFacts DEF Restacked
<1>3. FrameOK'
  <2>1. \A f \in AllFrames' : FrameFits(f)
    BY <1>1 DEF Structure, FrameOK
  <2> QED  BY <2>1 DEF FrameOK, FrameFits
<1>4. /\ \A i \in 1 .. Len(r) - 1 : Above(r[i], r[i + 1])
      /\ Len(r) # 0 => ~GcDrop(r[1])
  BY DEF Structure, Shape
<1> HIDE DEF r
<1>5. \A i \in 1 .. Len(s) - 1 : Above(s[i], s[i + 1])
  <2> SUFFICES ASSUME NEW i \in 1 .. Len(s) - 1, i < k  PROVE Above(s[i], s[i + 1])
    BY <1>1, <1>2
  <2>1. i \in 1 .. k /\ i + 1 \in 1 .. k /\ i \in 1 .. Len(r) - 1
    BY <1>1, <1>2
  <2> QED  BY <1>2, <1>4, <2>1
<1>6. Len(s) # 0 => ~GcDrop(s[1])
  BY <1>2, <1>4
<1>7. ASSUME NEW u \in Threads
      PROVE  LET q == stack'[u]
             IN  /\ \A i \in 1 .. Len(q) - 1 : Above(q[i], q[i + 1])
                 /\ Len(q) # 0 => ~GcDrop(q[1]) /\ Tops(q[Len(q)], refs'[u])
                 /\ \A i, j \in 1 .. Len(q) : q[i].pc = "loop" /\ q[j].pc = "loop" => i = j
  <2>1. CASE u = t
    BY <1>1, <1>5, <1>6, <2>1
  <2>2. CASE u # t
    <3>1. stack'[u] = stack[u] /\ refs'[u] = refs[u]
      BY <1>1, <2>2
    <3> QED  BY <3>1 DEF Structure, Shape
  <2> QED  BY <2>1, <2>2
<1>8. Shape'
  BY <1>7 DEF Shape, Above, GcDrop, Tops
<1> QED  BY <1>3, <1>8

\* A step that neither starts nor ends the finalizer loop.
LEMMA RestackNoLoop ==
    ASSUME Structure, NEW t \in Threads, NEW s, NEW k, Restacked(t, s, k), turn' = turn,
           \A i \in k + 1 .. Len(s) : s[i].pc # "loop",
           \A i \in k + 1 .. Len(stack[t]) : stack[t][i].pc # "loop"
    PROVE  /\ TurnHeld' /\ stack' \in [Threads -> Seq(Frame)]
           /\ \A i, j \in 1 .. Len(s) : s[i].pc = "loop" /\ s[j].pc = "loop" => i = j
<1> DEFINE r == stack[t]
<1>0. TypeOK
  BY DEF Structure
<1>1. /\ stack' \in [Threads -> Seq(Frame)] /\ stack'[t] = s /\ Len(s) \in Nat
      /\ \A u \in Threads \ {t} : Frames(u)' = Frames(u)
      /\ Frames(t)' = {s[i] : i \in 1 .. Len(s)}
  BY <1>0, RestackedFrames
<1>2. /\ Len(r) \in Nat /\ DOMAIN r = 1 .. Len(r)
      /\ k \in 0 .. Len(s) /\ k <= Len(r) /\ \A i \in 1 .. k : s[i] = r[i]
  BY <1>0, StackFacts DEF Restacked
<1>3. /\ Frames(t) = {r[i] : i \in 1 .. Len(r)}
      /\ \A i \in k + 1 .. Len(r) : r[i].pc # "loop"
      /\ \A i, j \in 1 .. Len(r) : r[i].pc = "loop" /\ r[j].pc = "loop" => i = j
  BY <1>2 DEF Frames, Structure, Shape
<1> HIDE DEF r
<1>4. \A i \in 1 .. Len(s) : s[i].pc = "loop" => i \in 1 .. k /\ i \in 1 .. Len(r)
  BY <1>1, <1>2
<1>5. \A i \in 1 .. Len(r) : r[i].pc = "loop" => i \in 1 .. k /\ i \in 1 .. Len(s)
  BY <1>1, <1>2, <1>3
<1>6. (\E f \in Frames(t)' : f.pc = "loop") <=> (\E f \in Frames(t) : f.pc = "loop")
  BY <1>1, <1>2, <1>3, <1>4, <1>5
<1>7. \A u \in Threads : (\E f \in Frames(u) : f.pc = "loop") <=> turn = u
  BY <1>0 DEF TypeOK
<1>8. ASSUME NEW u \in Threads
      PROVE  (\E f \in Frames(u)' : f.pc = "loop") <=> turn' = u
  BY <1>1, <1>6, <1>7
<1>9. TurnHeld'
  BY <1>8 DEF TurnHeld
<1>10. \A i, j \in 1 .. Len(s) : s[i].pc = "loop" /\ s[j].pc = "loop" => i = j
  BY <1>2, <1>3, <1>4
<1> QED  BY <1>1, <1>9, <1>10

\* A step of a thread outside of the collector.
LEMMA Restack ==
    ASSUME Structure, NEW t \in Threads, NEW s, NEW k, Restacked(t, s, k),
           turn' = turn, \A u \in Threads \ {t} : refs'[u] = refs[u],
           \A i \in k + 1 .. Len(s) : FrameFits(s[i]) /\ s[i].pc # "loop" /\ ~s[i].gc,
           \A i \in k + 1 .. Len(stack[t]) : stack[t][i].pc # "loop" /\ ~stack[t][i].gc,
           \A i \in 1 .. Len(s) - 1 : i >= k => Above(s[i], s[i + 1]),
           Len(s) # 0 => Tops(s[Len(s)], refs'[t])
    PROVE  /\ TurnHeld' /\ FrameOK' /\ Shape' /\ GcObjs' = GcObjs
           /\ stack' \in [Threads -> Seq(Frame)]
<1>0. TypeOK
  BY DEF Structure
<1>1. /\ \A f \in AllFrames' : f \in AllFrames \/ \E i \in k + 1 .. Len(s) : f = s[i]
      /\ \A f \in AllFrames : f \in AllFrames' \/ \E i \in k + 1 .. Len(stack[t]) : f = stack[t][i]
      /\ Len(s) \in Nat
  BY <1>0, RestackedFrames
<1>2. /\ TurnHeld' /\ stack' \in [Threads -> Seq(Frame)]
      /\ \A i, j \in 1 .. Len(s) : s[i].pc = "loop" /\ s[j].pc = "loop" => i = j
  BY RestackNoLoop
<1>3. k = 0 /\ Len(s) # 0 => ~GcDrop(s[1])
  BY <1>1 DEF GcDrop
<1>4. FrameOK' /\ Shape'
  BY <1>2, <1>3, RestackShape
<1>5. GcObjs' = GcObjs
  <2>1. \A f \in AllFrames' : GcDrop(f) => f \in AllFrames
    BY <1>1 DEF GcDrop
  <2>2. \A f \in AllFrames : GcDrop(f) => f \in AllFrames'
    BY <1>1 DEF GcDrop
  <2> QED  BY <2>1, <2>2 DEF GcObjs, GcDrop
<1> QED  BY <1>2, <1>4, <1>5

\* A step that touches no stack keeps every stack well formed.
LEMMA SameStack ==
    ASSUME Structure, stack' = stack, turn' = turn,
           \A u \in Threads : refs'[u] = refs[u] \/ stack[u] = <<>> \/ At(u, "drop")
    PROVE  /\ TurnHeld' /\ FrameOK' /\ Shape' /\ GcObjs' = GcObjs
           /\ stack' \in [Threads -> Seq(Frame)]
<1>0. TypeOK
  BY DEF Structure
<1>1. TurnHeld' /\ stack' \in [Threads -> Seq(Frame)]
  BY <1>0 DEF TypeOK, TurnHeld, Frames
<1>2. AllFrames' = AllFrames
  BY DEF AllFrames, Frames
<1>3. FrameOK'
  BY <1>2 DEF Structure, FrameOK, FrameFits
<1>4. GcObjs' = GcObjs
  BY <1>2 DEF GcObjs
<1>5. Shape'
  <2> SUFFICES ASSUME NEW u \in Threads, Len(stack[u]) # 0
               PROVE  Tops(stack[u][Len(stack[u])], refs'[u])
    BY DEF Structure, Shape
  <2>1. CASE refs'[u] = refs[u]
    BY <2>1 DEF Structure, Shape
  <2>2. CASE At(u, "drop")
    BY <1>0, <2>2, StackFacts DEF At, Tops
  <2>3. stack[u] # <<>>
    BY <1>0, StackFacts
  <2> QED  BY <2>1, <2>2, <2>3
<1> QED  BY <1>1, <1>3, <1>4, <1>5

\* A step that touches neither the free lists nor the blocks in use.
LEMMA AllocatorSame ==
    ASSUME Allocator, UNCHANGED <<slabs, used>>
    PROVE  Allocator'
  BY DEF Allocator, slabs, Recycled, Cache

\* Freeing one block puts it on the global free list and nowhere else.
LEMMA FreedBlock ==
    ASSUME TypeOK, Allocator, NEW x \in used, FreeBlock(x)
    PROVE  /\ Allocator' /\ gfree' \in Seq(Blocks) /\ used' = used \ {x}
           /\ carved' = carved /\ lfree' = lfree /\ tlab' = tlab
           /\ Recycled' = Recycled \cup {x}
<1>1. gfree \in Seq(Blocks) /\ x \in Blocks /\ IsInjective(gfree) /\ x \notin Range(gfree)
  BY DEF TypeOK, Allocator
<1>2. /\ Append(gfree, x) \in Seq(Blocks) /\ IsInjective(Append(gfree, x))
      /\ Range(Append(gfree, x)) = Range(gfree) \cup {x}
  BY <1>1, AppendInjective2
<1>3. /\ gfree' = Append(gfree, x) /\ used' = used \ {x}
      /\ carved' = carved /\ lfree' = lfree /\ tlab' = tlab
  BY DEF FreeBlock
<1>4. Recycled' = Recycled \cup {x}
  BY <1>2, <1>3 DEF Recycled
<1>5. /\ Range(gfree') = Range(gfree) \cup {x} /\ IsInjective(gfree')
  BY <1>2, <1>3
<1>6. used' \cup Recycled' \cup UNION {tlab'[u] : u \in Threads} \subseteq 1 .. carved'
  BY <1>3, <1>4 DEF Allocator
<1>7. Range(gfree') \cap used' = {}
  BY <1>3, <1>5 DEF Allocator
<1>8. ASSUME NEW u \in Threads
      PROVE  /\ IsInjective(lfree'[u]) /\ Range(lfree'[u]) \cap tlab'[u] = {}
             /\ (Range(lfree'[u]) \cup tlab'[u]) \cap (used' \cup Range(gfree')) = {}
             /\ \A v \in Threads \ {u} : (Range(lfree'[u]) \cup tlab'[u]) \cap (Range(lfree'[v]) \cup tlab'[v]) = {}
  BY <1>3, <1>5 DEF Allocator, Cache
<1>9. Allocator'
  BY <1>5, <1>6, <1>7, <1>8 DEF Allocator, Cache
<1> QED  BY <1>2, <1>3, <1>4, <1>9

\* A finalizer that the collector runs is on top of the collector's own loop,
\* in the thread that holds the turn.
LEMMA GcDropPlace ==
    ASSUME Structure, NEW u \in Threads, NEW i \in 1 .. Len(stack[u]), GcDrop(stack[u][i])
    PROVE  turn = u /\ i > 1 /\ i - 1 \in 1 .. Len(stack[u]) /\ stack[u][i - 1].pc = "loop"
<1>0. TypeOK /\ Len(stack[u]) \in Nat /\ Len(stack[u]) # 0
  BY StackFacts DEF Structure
<1>1. i # 1
  BY <1>0 DEF Structure, Shape
<1>2. i - 1 \in 1 .. Len(stack[u]) - 1 /\ (i - 1) + 1 = i
  BY <1>0, <1>1
<1>3. Above(stack[u][i - 1], stack[u][(i - 1) + 1])
  BY <1>2 DEF Structure, Shape
<1>4. stack[u][i - 1].pc = "loop" /\ i - 1 \in 1 .. Len(stack[u])
  BY <1>0, <1>2, <1>3 DEF Above
<1>5. stack[u][i - 1] \in Frames(u)
  BY <1>0, <1>4, StackFacts
<1>6. turn = u
  BY <1>0, <1>4, <1>5 DEF TypeOK
<1> QED  BY <1>0, <1>1, <1>4, <1>6

\* Who runs the finalizers, and how far it is.
LEMMA GcTurn ==
    ASSUME Structure
    PROVE  /\ turn = NoOne => GcObjs = {} /\ \A f \in AllFrames : f.pc # "loop"
           /\ \A t \in Threads : At(t, "loop") => turn = t /\ GcObjs = {}
           /\ \A t \in Threads : stack[t] # <<>> /\ GcDrop(Top(t)) =>
                  /\ turn = t /\ GcObjs = {Top(t).obj}
                  /\ \A f \in AllFrames : GcDrop(f) => f = Top(t)
<1>0. TypeOK
  BY DEF Structure
<1>1. ASSUME NEW f \in AllFrames, GcDrop(f)
      PROVE  \E u \in Threads : \E i \in 1 .. Len(stack[u]) :
                 /\ f = stack[u][i] /\ turn = u /\ i > 1 /\ i - 1 \in 1 .. Len(stack[u])
                 /\ stack[u][i - 1].pc = "loop"
  <2>1. PICK u \in Threads : \E i \in 1 .. Len(stack[u]) : f = stack[u][i]
    BY <1>0, FrameAt
  <2>2. PICK i \in 1 .. Len(stack[u]) : f = stack[u][i]
    BY <2>1
  <2>3. turn = u /\ i > 1 /\ i - 1 \in 1 .. Len(stack[u]) /\ stack[u][i - 1].pc = "loop"
    BY <1>1, <2>2, GcDropPlace
  <2> QED  BY <2>2, <2>3
<1>2. ASSUME turn = NoOne  PROVE GcObjs = {} /\ \A f \in AllFrames : f.pc # "loop"
  <2>1. NoOne \notin Threads
    BY HeapAssumption
  <2>2. GcObjs = {}
    BY <1>1, <1>2, <2>1 DEF GcObjs, GcDrop
  <2>3. \A f \in AllFrames : f.pc # "loop"
    <3> SUFFICES ASSUME NEW u \in Threads, NEW f \in Frames(u), f.pc = "loop"  PROVE FALSE
      BY DEF AllFrames
    <3>1. turn = u
      BY <1>0 DEF TypeOK
    <3> QED  BY <1>2, <2>1, <3>1
  <2> QED  BY <2>2, <2>3
<1>3. ASSUME NEW t \in Threads, At(t, "loop")  PROVE turn = t /\ GcObjs = {}
  <2> DEFINE n == Len(stack[t])
  <2>1. n \in 1 .. n /\ stack[t][n].pc = "loop" /\ stack[t][n] \in Frames(t) /\ n \in Nat
    BY <1>0, <1>3, StackFacts DEF At
  <2>2. turn = t
    BY <1>0, <2>1 DEF TypeOK
  <2>3. \A i \in 1 .. n : stack[t][i].pc = "loop" => i = n
    BY <2>1 DEF Structure, Shape
  <2> HIDE DEF n
  <2>4. ASSUME NEW f \in AllFrames, GcDrop(f)  PROVE FALSE
    <3>1. PICK i \in 1 .. n : i > 1 /\ i - 1 \in 1 .. n /\ stack[t][i - 1].pc = "loop"
      BY <1>1, <2>2, <2>4 DEF n
    <3>2. i - 1 = n
      BY <2>3, <3>1
    <3> QED  BY <2>1, <3>1, <3>2
  <2> QED  BY <2>2, <2>4 DEF GcObjs, GcDrop
<1>4. ASSUME NEW t \in Threads, stack[t] # <<>>, GcDrop(Top(t))
      PROVE  /\ turn = t /\ GcObjs = {Top(t).obj}
             /\ \A f \in AllFrames : GcDrop(f) => f = Top(t)
  <2> DEFINE n == Len(stack[t])
  <2>1. n \in 1 .. n /\ stack[t][n] = Top(t) /\ Top(t) \in AllFrames /\ n \in Nat
    BY <1>0, <1>4, StackFacts
  <2>2. turn = t /\ n - 1 \in 1 .. n /\ stack[t][n - 1].pc = "loop"
    BY <1>4, <2>1, GcDropPlace
  <2>3. \A i \in 1 .. n : stack[t][i].pc = "loop" => i = n - 1
    BY <2>2 DEF Structure, Shape
  <2> HIDE DEF n
  <2>4. ASSUME NEW f \in AllFrames, GcDrop(f)  PROVE f = Top(t)
    <3>1. PICK i \in 1 .. n : f = stack[t][i] /\ i - 1 \in 1 .. n /\ stack[t][i - 1].pc = "loop"
      BY <1>1, <2>2, <2>4 DEF n
    <3>2. i - 1 = n - 1
      BY <2>3, <3>1
    <3>3. i = n
      BY <2>1, <3>2
    <3> QED  BY <2>1, <3>1, <3>3
  <2>5. GcObjs = {Top(t).obj}
    BY <1>4, <2>1, <2>4 DEF GcObjs, GcDrop
  <2> QED  BY <2>2, <2>4, <2>5
<1> QED  BY <1>2, <1>3, <1>4
-----------------------------------------------------------------------------
(* Every step keeps the structure.                                         *)

\* gc_alloc keeps the structure, and hands out a block that was not in use.
LEMMA StructureAlloc ==
    ASSUME Structure, NEW t \in Threads, NEW k \in Kinds, Alloc(t, k)
    PROVE  Structure' /\ Block(t) \in Blocks \ used /\ Recycled' \subseteq Recycled
<1> DEFINE b == Block(t)
<1>0. TypeOK /\ Allocator /\ TakeBlock(t) /\ Refill(t).cv <= MaxBlocks
  BY DEF Structure, Alloc
<1> DEFINE new == (Cache(t) \cup Range(gfree) \cup ((carved + 1) .. carved'))
<1>1. /\ carved' \in carved .. MaxBlocks
      /\ gfree' \in Seq(Blocks)
      /\ lfree' \in [Threads -> Seq(Blocks)] /\ tlab' \in [Threads -> SUBSET Blocks]
      /\ \A u \in Threads \ {t} : lfree'[u] = lfree[u] /\ tlab'[u] = tlab[u]
      /\ b \in new
      /\ IsInjective(gfree') /\ IsInjective(lfree'[t])
      /\ Range(lfree'[t]) \cap tlab'[t] = {}
      /\ (Range(lfree'[t]) \cup tlab'[t]) \cap Range(gfree') = {}
      /\ Range(gfree') \subseteq Range(gfree) \ {b}
      /\ Range(lfree'[t]) \subseteq Range(lfree[t]) \cup Range(gfree)
      /\ Range(lfree'[t]) \cup tlab'[t] \subseteq new \ {b}
  BY <1>0, Taken
<1>2. /\ used' = used \cup {b}
      /\ kind' = [kind EXCEPT ![b] = k] /\ field' = [field EXCEPT ![b] = Null]
      /\ count' = [count EXCEPT ![b] = IF k \in RcKinds THEN 1 ELSE 0]
      /\ refs' = [refs EXCEPT ![t] = @ \cup {b}] /\ drops' = [drops EXCEPT ![b] = 0]
      /\ loose' = loose \ {b}
      /\ UNCHANGED <<pending, turn, alive, stack, gcs, tame, apart>>
      /\ IF k \in RcKinds
         THEN objects' = objects \cup {b} /\ log' = log
         ELSE log' = [log EXCEPT ![t] = @ \cup {b}] /\ objects' = objects
      /\ InCode(t)
  BY DEF Alloc
<1> HIDE DEF b
<1>3. /\ carved \in 0 .. MaxBlocks /\ gfree \in Seq(Blocks)
      /\ lfree[t] \in Seq(Blocks) /\ tlab[t] \in SUBSET Blocks
  BY <1>0 DEF TypeOK
<1>4. /\ used \cup Recycled \cup UNION {tlab[u] : u \in Threads} \subseteq 1 .. carved
      /\ Range(gfree) \cap used = {}
      /\ \A u \in Threads :
          /\ IsInjective(lfree[u]) /\ Range(lfree[u]) \cap tlab[u] = {}
          /\ Cache(u) \cap (used \cup Range(gfree)) = {}
          /\ \A v \in Threads \ {u} : Cache(u) \cap Cache(v) = {}
  BY <1>0 DEF Allocator
<1>5. \A u \in Threads : Cache(u) \subseteq 1 .. carved
  BY <1>4 DEF Recycled, Cache
<1>6. \A x \in (carved + 1) .. carved' : x \notin 1 .. carved
  BY <1>1, <1>3
<1>7. /\ new \cap used = {}
      /\ \A u \in Threads \ {t} : new \cap Cache(u) = {}
  BY <1>4, <1>5, <1>6
<1>8. new \subseteq 1 .. carved' /\ 1 .. carved \subseteq 1 .. carved' /\ 1 .. carved' \subseteq Blocks
  <2>1. (carved + 1) .. carved' \subseteq 1 .. carved' /\ 1 .. carved \subseteq 1 .. carved'
    BY <1>1, <1>3
  <2>2. 1 .. carved' \subseteq Blocks
    BY <1>1, <1>3, HeapAssumption DEF Blocks
  <2>3. Range(gfree) \subseteq 1 .. carved
    BY <1>4 DEF Recycled
  <2> QED  BY <1>5, <2>1, <2>2, <2>3
<1>9. b \in Blocks \ used
  BY <1>1, <1>7, <1>8
<1>10. Recycled' \subseteq Recycled
  <2>1. \A u \in Threads : Range(lfree'[u]) \subseteq Range(lfree[u]) \cup Range(gfree)
    BY <1>1
  <2> QED  BY <1>1, <2>1 DEF Recycled
<1> HIDE DEF new
<1>11. Allocator'
  <2>1. \A u \in Threads : Range(lfree'[u]) \cup tlab'[u] \subseteq IF u = t THEN new \ {b} ELSE Cache(u)
    BY <1>1 DEF Cache
  <2>2. Range(gfree') \subseteq 1 .. carved
    BY <1>1, <1>4 DEF Recycled
  <2>3. used' \cup Recycled' \cup UNION {tlab'[u] : u \in Threads} \subseteq 1 .. carved'
    <3>1. used' \subseteq 1 .. carved'
      BY <1>1, <1>2, <1>4, <1>8
    <3>2. \A u \in Threads : Range(lfree'[u]) \cup tlab'[u] \subseteq 1 .. carved'
      BY <1>5, <1>8, <2>1
    <3> QED  BY <1>8, <2>2, <3>1, <3>2 DEF Recycled
  <2>4. Range(gfree') \cap used' = {}
    BY <1>1, <1>2, <1>4
  <2>5. ASSUME NEW u \in Threads
        PROVE  /\ IsInjective(lfree'[u]) /\ Range(lfree'[u]) \cap tlab'[u] = {}
               /\ (Range(lfree'[u]) \cup tlab'[u]) \cap (used' \cup Range(gfree')) = {}
               /\ \A v \in Threads \ {u} : (Range(lfree'[u]) \cup tlab'[u]) \cap (Range(lfree'[v]) \cup tlab'[v]) = {}
    <3>1. IsInjective(lfree'[u]) /\ Range(lfree'[u]) \cap tlab'[u] = {}
      BY <1>1, <1>4
    <3>2. (Range(lfree'[u]) \cup tlab'[u]) \cap (used' \cup Range(gfree')) = {}
      <4>1. CASE u = t
        BY <1>1, <1>2, <1>7, <4>1
      <4>2. CASE u # t
        BY <1>1, <1>2, <1>4, <1>7, <2>1, <4>2
      <4> QED  BY <4>1, <4>2
    <3>3. \A v \in Threads \ {u} : (Range(lfree'[u]) \cup tlab'[u]) \cap (Range(lfree'[v]) \cup tlab'[v]) = {}
      BY <1>4, <1>7, <2>1
    <3> QED  BY <3>1, <3>2, <3>3
  <2> QED  BY <1>1, <2>3, <2>4, <2>5 DEF Allocator, Cache
<1>12. TurnHeld' /\ FrameOK' /\ Shape' /\ GcObjs' = GcObjs
  <2>1. \A u \in Threads : refs'[u] = refs[u] \/ stack[u] = <<>> \/ At(u, "drop")
    BY <1>0, <1>2 DEF InCode, TypeOK
  <2> QED  BY <1>2, <2>1, SameStack
<1>13. TypeOK'
  <2>1. /\ used' \subseteq Blocks /\ kind' \in [Blocks -> Kinds] /\ field' \in [Blocks -> Blocks \cup {Null}]
        /\ count' \in [Blocks -> Nat] /\ drops' \in [Blocks -> Nat] /\ loose' \subseteq Blocks
    BY <1>0, <1>2, <1>9 DEF TypeOK
  <2>2. refs' \in [Threads -> SUBSET Blocks] /\ objects' \subseteq Blocks /\ log' \in [Threads -> SUBSET Blocks]
    <3>1. refs' \in [Threads -> SUBSET Blocks]
      BY <1>0, <1>2, <1>9 DEF TypeOK
    <3>2. CASE k \in RcKinds
      BY <1>0, <1>2, <1>9, <3>1, <3>2 DEF TypeOK
    <3>3. CASE k \notin RcKinds
      <4>1. log \in [Threads -> SUBSET Blocks] /\ objects \subseteq Blocks
        BY <1>0 DEF TypeOK
      <4>2. log' = [log EXCEPT ![t] = log[t] \cup {b}] /\ objects' = objects
        BY <1>2, <3>3
      <4>3. log[t] \cup {b} \in SUBSET Blocks
        BY <1>9, <4>1
      <4> QED  BY <3>1, <4>1, <4>2, <4>3
    <3> QED  BY <3>2, <3>3
  <2>3. carved' \in 0 .. MaxBlocks
    BY <1>1, <1>3
  <2>4. /\ pending' \subseteq Blocks /\ turn' \in Threads \cup {NoOne} /\ alive' \subseteq Threads
        /\ stack' \in [Threads -> Seq(Frame)] /\ tame' \in BOOLEAN /\ apart' \in BOOLEAN
    BY <1>0, <1>2 DEF TypeOK
  <2> QED  BY <1>1, <1>12, <2>1, <2>2, <2>3, <2>4 DEF TypeOK, TurnHeld
<1>14. Registry'
  <2>1. /\ Registered' = Registered \cup {b}
        /\ \A u \in Threads : log'[u] \subseteq log[u] \cup {b} /\ (u # t => log'[u] = log[u])
    <3>1. log \in [Threads -> SUBSET Blocks]
      BY <1>0 DEF TypeOK
    <3>2. CASE k \in RcKinds
      BY <1>2, <3>2 DEF Registered
    <3>3. CASE k \notin RcKinds
      <4>1. /\ log' = [log EXCEPT ![t] = log[t] \cup {b}] /\ objects' = objects
        BY <1>2, <3>3
      <4>2. log'[t] = log[t] \cup {b} /\ \A u \in Threads \ {t} : log'[u] = log[u]
        BY <3>1, <4>1
      <4> QED  BY <4>1, <4>2 DEF Registered
    <3> QED  BY <3>2, <3>3
  <2>2. b \notin Registered \cup pending \cup GcObjs
    BY <1>9 DEF Structure, Registry
  <2>3. used' = Registered' \cup pending' \cup GcObjs'
    BY <1>2, <1>12, <2>1 DEF Structure, Registry
  <2>4. Registered' \cap (pending' \cup GcObjs') = {} /\ pending' \cap GcObjs' = {} /\ (pending' # {} => turn' # NoOne)
    BY <1>2, <1>12, <2>1, <2>2 DEF Structure, Registry
  <2>5. ASSUME NEW u \in Threads
        PROVE  /\ log'[u] \cap objects' = {}
               /\ \A v \in Threads \ {u} : log'[u] \cap log'[v] = {}
               /\ \A x \in log'[u] : kind'[x] \notin RcKinds
    <3>1. b \notin objects /\ \A v \in Threads : b \notin log[v]
      BY <2>2 DEF Registered
    <3>2. /\ log[u] \cap objects = {} /\ \A v \in Threads \ {u} : log[u] \cap log[v] = {}
          /\ \A x \in log[u] : kind[x] \notin RcKinds
      BY DEF Structure, Registry
    <3>3. \A x \in log'[u] : kind'[x] \notin RcKinds
      <4>1. \A x \in log[u] : kind'[x] \notin RcKinds
        BY <1>2, <3>1, <3>2
      <4>2. b \in log'[u] => k \notin RcKinds /\ kind'[b] = k
        BY <1>0, <1>2, <1>9, <3>1 DEF TypeOK
      <4> QED  BY <2>1, <4>1, <4>2
    <3>4. log'[u] \cap objects' = {}
      BY <1>2, <2>1, <3>1, <3>2
    <3> QED  BY <2>1, <3>1, <3>2, <3>3, <3>4
  <2> QED  BY <2>3, <2>4, <2>5 DEF Registry
<1> QED  BY <1>9, <1>10, <1>11, <1>12, <1>13, <1>14 DEF Structure, b
\* A step that touches none of the registry's variables.
LEMMA RegistrySame ==
    ASSUME Registry, GcObjs' = GcObjs, UNCHANGED <<used, objects, log, pending, turn, kind>>
    PROVE  Registry'
  BY DEF Registry, Registered

\* What retaining a cell does to the counts.
LEMMA RetainedType ==
    ASSUME TypeOK, NEW x \in Blocks \cup {Null}
    PROVE  /\ Retained(count, x) \in [Blocks -> Nat]
           /\ \A y \in Blocks : Retained(count, x)[y] = IF Rc(x) /\ y = x THEN count[y] + 1 ELSE count[y]
<1>1. count \in [Blocks -> Nat]
  BY DEF TypeOK
<1>2. Rc(x) => x \in Blocks
  BY DEF Rc
<1>3. CASE Rc(x)
  BY <1>1, <1>2, <1>3 DEF Retained
<1>4. CASE ~Rc(x)
  BY <1>1, <1>4 DEF Retained
<1> QED  BY <1>3, <1>4

\* A read of a field keeps the structure.
LEMMA StructureLoad ==
    ASSUME Structure, NEW t \in Threads, NEW o \in Blocks, Load(t, o)
    PROVE  Structure'
<1>0. TypeOK /\ Registry /\ Allocator
  BY DEF Structure
<1>1. /\ InCode(t) /\ field[o] \in Blocks
      /\ refs' = [refs EXCEPT ![t] = @ \cup {field[o]}]
      /\ count' = Retained(count, field[o]) /\ tame' \in BOOLEAN
      /\ UNCHANGED <<slabs, used, kind, field, gcvars, alive, stack, bounds, drops, loose, apart>>
  BY <1>0 DEF Load, TypeOK
<1>2. refs' \in [Threads -> SUBSET Blocks] /\ count' \in [Blocks -> Nat]
  BY <1>0, <1>1, RetainedType DEF TypeOK
<1>3. \A u \in Threads : refs'[u] = refs[u] \/ stack[u] = <<>> \/ At(u, "drop")
  BY <1>0, <1>1 DEF InCode, TypeOK
<1>4. /\ TurnHeld' /\ FrameOK' /\ Shape' /\ GcObjs' = GcObjs
      /\ stack' \in [Threads -> Seq(Frame)]
  BY <1>1, <1>3, SameStack DEF gcvars
<1>5. TypeOK'
  BY <1>0, <1>1, <1>2, <1>4 DEF TypeOK, TurnHeld, slabs, gcvars
<1>6. Registry'
  BY <1>0, <1>1, <1>4, RegistrySame DEF gcvars
<1>7. Allocator'
  BY <1>0, <1>1, AllocatorSame
<1> QED  BY <1>4, <1>5, <1>6, <1>7 DEF Structure

\* Handing a reference to another thread keeps the structure.
LEMMA StructureShare ==
    ASSUME Structure, NEW t \in Threads, NEW u \in Threads, NEW x \in Blocks, Share(t, u, x)
    PROVE  Structure'
<1>0. TypeOK /\ Registry /\ Allocator
  BY DEF Structure
<1>1. /\ InCode(u) /\ refs' = [refs EXCEPT ![u] = @ \cup {x}]
      /\ count' = Retained(count, x)
      /\ UNCHANGED <<slabs, used, kind, field, gcvars, alive, stack, bounds, drops, loose, tame, apart>>
  BY DEF Share
<1>2. refs' \in [Threads -> SUBSET Blocks] /\ count' \in [Blocks -> Nat]
  BY <1>0, <1>1, RetainedType DEF TypeOK
<1>3. \A v \in Threads : refs'[v] = refs[v] \/ stack[v] = <<>> \/ At(v, "drop")
  BY <1>0, <1>1 DEF InCode, TypeOK
<1>4. /\ TurnHeld' /\ FrameOK' /\ Shape' /\ GcObjs' = GcObjs
      /\ stack' \in [Threads -> Seq(Frame)]
  BY <1>1, <1>3, SameStack DEF gcvars
<1>5. TypeOK'
  BY <1>0, <1>1, <1>2, <1>4 DEF TypeOK, TurnHeld, slabs, gcvars
<1>6. Registry'
  BY <1>0, <1>1, <1>4, RegistrySame DEF gcvars
<1>7. Allocator'
  BY <1>0, <1>1, AllocatorSame
<1> QED  BY <1>4, <1>5, <1>6, <1>7 DEF Structure

\* The fields of a new frame.
LEMMA FrmFields ==
    ASSUME NEW stg \in {"drop", "kids", "free", "store", "loop"}, NEW obj \in Blocks \cup {Null},
           NEW val \in Blocks \cup {Null}, NEW gc \in BOOLEAN, NEW outer \in SUBSET Blocks
    PROVE  /\ Frm(stg, obj, val, gc, outer) \in Frame
           /\ Frm(stg, obj, val, gc, outer).pc = stg /\ Frm(stg, obj, val, gc, outer).obj = obj
           /\ Frm(stg, obj, val, gc, outer).val = val /\ Frm(stg, obj, val, gc, outer).gc = gc
           /\ Frm(stg, obj, val, gc, outer).outer = outer
  BY DEF Frm, Frame

\* The frame of an rc_finalize that a release starts.
Finalize(x, rs) == Frm(IF Rc(x) /\ kind[x] \in DropKinds THEN "drop" ELSE "kids", x, Null, FALSE, rs)

\* What releasing a reference does: the count falls, and at the last one the
\* cell's destructor starts.
LEMMA Released ==
    ASSUME TypeOK, NEW t \in Threads, NEW x \in Blocks \cup {Null}, NEW c \in [Blocks -> Nat],
           NEW stk \in Seq(Frame), NEW rs \in SUBSET Blocks, Release(t, x, c, stk, rs)
    PROVE  LET f == Finalize(x, rs)
               last == Rc(x) /\ c[x] = 1
           IN  /\ count' \in [Blocks -> Nat] /\ refs' \in [Threads -> SUBSET Blocks]
               /\ \A y \in Blocks : count'[y] = IF Rc(x) /\ y = x /\ c[y] > 0 THEN c[y] - 1 ELSE c[y]
               /\ \A u \in Threads \ {t} : refs'[u] = refs[u]
               /\ Rc(x) => x \in Blocks
               /\ ~last => stack' = [stack EXCEPT ![t] = stk] /\ refs'[t] = rs
               /\ last => /\ stack' = [stack EXCEPT ![t] = Append(stk, f)] /\ refs'[t] = {}
                          /\ f \in Frame /\ f.pc = (IF kind[x] \in DropKinds THEN "drop" ELSE "kids")
                          /\ f.obj = x /\ f.val = Null /\ ~f.gc /\ f.outer = rs /\ FrameFits(f)
<1> DEFINE f == Finalize(x, rs)
           last == Rc(x) /\ c[x] = 1
<1>1. /\ count' = IF Rc(x) /\ c[x] > 0 THEN [c EXCEPT ![x] = @ - 1] ELSE c
      /\ stack' = [stack EXCEPT ![t] = IF last THEN Append(stk, f) ELSE stk]
      /\ refs' = [refs EXCEPT ![t] = IF last THEN {} ELSE rs]
  BY DEF Release, Finalize
<1>2. refs \in [Threads -> SUBSET Blocks] /\ (Rc(x) => x \in Blocks)
  BY DEF TypeOK, Rc
<1>3. /\ count' \in [Blocks -> Nat]
      /\ \A y \in Blocks : count'[y] = IF Rc(x) /\ y = x /\ c[y] > 0 THEN c[y] - 1 ELSE c[y]
  <2>1. CASE Rc(x) /\ c[x] > 0
    <3>1. c[x] - 1 \in Nat
      BY <1>2, <2>1
    <3> QED  BY <1>1, <1>2, <2>1, <3>1
  <2>2. CASE ~(Rc(x) /\ c[x] > 0)
    BY <1>1, <2>2
  <2> QED  BY <2>1, <2>2
<1>4. last => /\ f \in Frame /\ f.pc = (IF kind[x] \in DropKinds THEN "drop" ELSE "kids")
              /\ f.obj = x /\ f.val = Null /\ ~f.gc /\ f.outer = rs /\ FrameFits(f)
  <2>1. CASE Rc(x) /\ kind[x] \in DropKinds
    <3>1. f = Frm("drop", x, Null, FALSE, rs)
      BY <2>1 DEF Finalize
    <3> HIDE DEF f
    <3>2. /\ f \in Frame /\ f.pc = "drop" /\ f.obj = x /\ f.val = Null /\ f.gc = FALSE /\ f.outer = rs
      BY <3>1 DEF Frm, Frame
    <3> QED  BY <1>2, <2>1, <3>2 DEF FrameFits
  <2>2. CASE Rc(x) /\ kind[x] \notin DropKinds
    <3>1. f = Frm("kids", x, Null, FALSE, rs)
      BY <2>2 DEF Finalize
    <3> HIDE DEF f
    <3>2. /\ f \in Frame /\ f.pc = "kids" /\ f.obj = x /\ f.val = Null /\ f.gc = FALSE /\ f.outer = rs
      BY <3>1 DEF Frm, Frame
    <3> QED  BY <1>2, <2>2, <3>2 DEF FrameFits
  <2> QED  BY <2>1, <2>2
<1> HIDE DEF f
<1>5. refs' \in [Threads -> SUBSET Blocks] /\ \A u \in Threads \ {t} : refs'[u] = refs[u]
  BY <1>1, <1>2
<1>6. /\ ~last => stack' = [stack EXCEPT ![t] = stk] /\ refs'[t] = rs
      /\ last => stack' = [stack EXCEPT ![t] = Append(stk, f)] /\ refs'[t] = {}
  BY <1>1, <1>2
<1> QED  BY <1>2, <1>3, <1>4, <1>5, <1>6 DEF f
\* A push replaces nothing and adds one frame.
LEMMA PushTo ==
    ASSUME TypeOK, NEW t \in Threads, NEW f \in Frame,
           stack' = [stack EXCEPT ![t] = Append(stack[t], f)]
    PROVE  LET s == Append(stack[t], f)
               n == Len(stack[t])
           IN  /\ Restacked(t, s, n) /\ n \in Nat /\ Len(s) = n + 1 /\ s[n + 1] = f
               /\ \A i \in 1 .. n : s[i] = stack[t][i]
<1>1. stack[t] \in Seq(Frame) /\ Len(stack[t]) \in Nat
  BY StackFacts
<1> QED  BY <1>1, AppendProperties DEF Restacked

\* What a new top frame has to fit on.
OnTop(t, f) == stack[t] # <<>> => Above(Top(t), f)

\* A destructor may start wherever the thread is running code.
LEMMA PushSafe ==
    ASSUME TypeOK, Shape, NEW t \in Threads, NEW f \in Frame, OnTop(t, f)
    PROVE  LET s == Append(stack[t], f)
           IN  \A i \in 1 .. Len(s) - 1 : Above(s[i], s[i + 1])
<1> DEFINE s == Append(stack[t], f)
           n == Len(stack[t])
<1>1. stack[t] \in Seq(Frame) /\ n \in Nat /\ (n # 0 => stack[t] # <<>> /\ Top(t) = stack[t][n])
  BY StackFacts
<1>2. Len(s) = n + 1 /\ s[n + 1] = f /\ \A i \in 1 .. n : s[i] = stack[t][i]
  BY <1>1, AppendProperties
<1>3. \A i \in 1 .. n - 1 : Above(stack[t][i], stack[t][i + 1])
  BY DEF Shape
<1> HIDE DEF s, n
<1> SUFFICES ASSUME NEW i \in 1 .. Len(s) - 1  PROVE Above(s[i], s[i + 1])
  BY DEF s
<1>4. CASE i = n
  BY <1>1, <1>2, <1>4 DEF OnTop
<1>5. CASE i # n
  <2>1. i \in 1 .. n /\ i + 1 \in 1 .. n /\ i \in 1 .. n - 1
    BY <1>1, <1>2, <1>5
  <2> QED  BY <1>2, <1>3, <2>1
<1> QED  BY <1>4, <1>5

\* One frame that is not the collector's is pushed in generated code.
LEMMA PushOne ==
    ASSUME Structure, NEW t \in Threads, NEW f, FrameFits(f),
           stack' = [stack EXCEPT ![t] = Append(stack[t], f)],
           turn' = turn, \A u \in Threads \ {t} : refs'[u] = refs[u],
           InCode(t), ~f.gc, f.pc # "loop", Tops(f, refs'[t])
    PROVE  /\ TurnHeld' /\ FrameOK' /\ Shape' /\ GcObjs' = GcObjs
           /\ stack' \in [Threads -> Seq(Frame)]
<1> DEFINE s == Append(stack[t], f)
           n == Len(stack[t])
<1>0. TypeOK /\ Shape /\ f \in Frame
  BY DEF Structure, FrameFits
<1>1. /\ Restacked(t, s, n) /\ n \in Nat /\ Len(s) = n + 1 /\ s[n + 1] = f
  BY <1>0, PushTo
<1>2. OnTop(t, f)
  BY DEF OnTop, InCode, At, Above, GcDrop
<1>3. \A i \in 1 .. Len(s) - 1 : Above(s[i], s[i + 1])
  BY <1>0, <1>2, PushSafe
<1> HIDE DEF s
<1>4. \A i \in n + 1 .. Len(s) : s[i] = f
  BY <1>1
<1>5. \A i \in n + 1 .. Len(stack[t]) : FALSE
  BY <1>1
<1> HIDE DEF n
<1> QED  BY <1>1, <1>3, <1>4, <1>5, Restack

\* A variable that goes out of scope: the structure holds.
LEMMA StructureUnbind ==
    ASSUME Structure, NEW t \in Threads, NEW x \in Blocks, Unbind(t, x)
    PROVE  Structure'
<1> DEFINE rs == refs[t] \ {x}
           f == Finalize(x, rs)
           last == Rc(x) /\ count[x] = 1
<1>0. TypeOK /\ Registry /\ Allocator
  BY DEF Structure
<1>1. /\ InCode(t) /\ Release(t, x, count, stack[t], rs)
      /\ UNCHANGED <<slabs, used, kind, field, gcvars, alive, bounds, drops, loose, tame, apart>>
  BY DEF Unbind
<1>2. count \in [Blocks -> Nat] /\ stack[t] \in Seq(Frame) /\ rs \in SUBSET Blocks /\ x \in Blocks \cup {Null}
      /\ stack \in [Threads -> Seq(Frame)]
  BY <1>0 DEF TypeOK
<1>3. /\ count' \in [Blocks -> Nat] /\ refs' \in [Threads -> SUBSET Blocks]
      /\ \A u \in Threads \ {t} : refs'[u] = refs[u]
      /\ ~last => stack' = [stack EXCEPT ![t] = stack[t]]
      /\ last => /\ stack' = [stack EXCEPT ![t] = Append(stack[t], f)] /\ refs'[t] = {}
                 /\ f.pc = (IF kind[x] \in DropKinds THEN "drop" ELSE "kids")
                 /\ ~f.gc /\ FrameFits(f)
  BY <1>0, <1>1, <1>2, Released
<1> HIDE DEF f
<1>4. /\ TurnHeld' /\ FrameOK' /\ Shape' /\ GcObjs' = GcObjs
      /\ stack' \in [Threads -> Seq(Frame)]
  <2>1. CASE last
    <3>1. f.pc # "loop" /\ Tops(f, refs'[t]) /\ turn' = turn
      BY <1>1, <1>3, <2>1 DEF Tops, gcvars
    <3> HIDE DEF last
    <3> QED  BY <1>1, <1>3, <2>1, <3>1, PushOne
  <2>2. CASE ~last
    <3>1. stack' = stack
      BY <1>2, <1>3, <2>2
    <3>2. \A u \in Threads : refs'[u] = refs[u] \/ stack[u] = <<>> \/ At(u, "drop")
      BY <1>1, <1>3 DEF InCode
    <3> QED  BY <1>1, <3>1, <3>2, SameStack DEF gcvars
  <2> QED  BY <2>1, <2>2
<1>5. TypeOK'
  BY <1>0, <1>1, <1>3, <1>4 DEF TypeOK, TurnHeld, slabs, gcvars
<1>6. Registry'
  BY <1>0, <1>1, <1>4, RegistrySame DEF gcvars
<1>7. Allocator'
  BY <1>0, <1>1, AllocatorSame
<1> QED  BY <1>4, <1>5, <1>6, <1>7 DEF Structure
\* A write to a field: the structure holds.
LEMMA StructureStore ==
    ASSUME Structure, NEW t \in Threads, NEW o \in Blocks, NEW x \in Blocks \cup {Null}, Store(t, o, x)
    PROVE  Structure'
<1> DEFINE old  == IF Counted(o) THEN field[o] ELSE Null
           c    == Retained(count, x)
           last == Rc(old) /\ c[old] = 1
           st   == Frm("store", o, x, FALSE, {})
           stk  == IF last THEN Append(stack[t], st) ELSE stack[t]
           n    == Len(stack[t])
<1>0. TypeOK /\ Registry /\ Allocator /\ Shape
  BY DEF Structure
<1>1. /\ InCode(t) /\ Release(t, old, c, stk, refs[t])
      /\ field' = IF last THEN field ELSE [field EXCEPT ![o] = x]
      /\ loose' = IF Counted(o) THEN loose ELSE loose \cup ({x} \ {Null})
      /\ tame' \in BOOLEAN
      /\ UNCHANGED <<slabs, used, kind, gcvars, alive, bounds, drops, apart>>
  BY <1>0 DEF Store, TypeOK
<1>2. /\ c \in [Blocks -> Nat] /\ stack[t] \in Seq(Frame) /\ refs[t] \in SUBSET Blocks
      /\ old \in Blocks \cup {Null} /\ n \in Nat /\ stack \in [Threads -> Seq(Frame)]
  BY <1>0, RetainedType, StackFacts DEF TypeOK
<1>3. /\ st \in Frame /\ FrameFits(st) /\ st.pc = "store" /\ ~st.gc /\ st.obj = o /\ st.val = x
  BY DEF Frm, Frame, FrameFits
<1> HIDE DEF c, st, old
<1>4. stk \in Seq(Frame)
  BY <1>2, <1>3
<1> DEFINE rs == refs[t]
<1> DEFINE f == Finalize(old, rs)
<1>r. Release(t, old, c, stk, rs) /\ c \in [Blocks -> Nat] /\ rs \in SUBSET Blocks
      /\ old \in Blocks \cup {Null}
  BY <1>1, <1>2
<1> HIDE DEF stk, rs
<1>5. /\ count' \in [Blocks -> Nat] /\ refs' \in [Threads -> SUBSET Blocks]
      /\ \A u \in Threads \ {t} : refs'[u] = refs[u]
      /\ ~last => stack' = [stack EXCEPT ![t] = stk] /\ refs'[t] = rs
      /\ last => /\ stack' = [stack EXCEPT ![t] = Append(stk, f)] /\ refs'[t] = {}
                 /\ f \in Frame /\ f.pc = (IF kind[old] \in DropKinds THEN "drop" ELSE "kids")
                 /\ ~f.gc /\ FrameFits(f)
  <2> HIDE DEF f, last
  <2>1. count' \in [Blocks -> Nat]
    BY <1>0, <1>r, <1>4, Released
  <2>3. refs' \in [Threads -> SUBSET Blocks] /\ \A u \in Threads \ {t} : refs'[u] = refs[u]
    BY <1>0, <1>r, <1>4, Released
  <2>4. ~last => stack' = [stack EXCEPT ![t] = stk] /\ refs'[t] = rs
    BY <1>0, <1>r, <1>4, Released DEF last
  <2>2. last => /\ stack' = [stack EXCEPT ![t] = Append(stk, f)] /\ refs'[t] = {}
                /\ f \in Frame /\ f.pc = (IF kind[old] \in DropKinds THEN "drop" ELSE "kids")
                /\ ~f.gc /\ FrameFits(f)
    BY <1>0, <1>r, <1>4, Released DEF last, f
  <2> QED  BY <2>1, <2>2, <2>3, <2>4
<1> HIDE DEF f
<1>6. /\ TurnHeld' /\ FrameOK' /\ Shape' /\ GcObjs' = GcObjs
      /\ stack' \in [Threads -> Seq(Frame)]
  <2>1. CASE last
    <3> DEFINE s == Append(stk, f)
    <3>1. stk = Append(stack[t], st)
      BY <2>1 DEF stk
    <3>2. /\ Len(stk) = n + 1 /\ stk[n + 1] = st /\ \A i \in 1 .. n : stk[i] = stack[t][i]
      BY <1>2, <1>3, <3>1, AppendProperties
    <3>3. /\ s \in Seq(Frame) /\ Len(s) = n + 2 /\ s[n + 2] = f /\ s[n + 1] = st
          /\ \A i \in 1 .. n + 1 : s[i] = stk[i]
      <4>1. /\ s \in Seq(Frame) /\ Len(s) = Len(stk) + 1 /\ s[Len(stk) + 1] = f
            /\ \A i \in 1 .. Len(stk) : s[i] = stk[i]
        BY <1>4, <1>5, <2>1, AppendProperties
      <4> HIDE DEF s, n
      <4> QED  BY <1>2, <3>2, <4>1
    <3>4. Restacked(t, s, n)
      BY <1>2, <1>5, <2>1, <3>2, <3>3 DEF Restacked
    <3>5. OnTop(t, st)
      BY <1>1, <1>3 DEF OnTop, InCode, At, Above, GcDrop
    <3>6. \A i \in 1 .. Len(stk) - 1 : Above(stk[i], stk[i + 1])
      BY <1>0, <1>3, <3>1, <3>5, PushSafe
    <3>7. Above(st, f)
      BY <1>3, <1>5, <2>1 DEF Above, GcDrop, Destroy
    <3> HIDE DEF s, n
    <3>8. \A i \in 1 .. Len(s) - 1 : Above(s[i], s[i + 1])
      <4> SUFFICES ASSUME NEW i \in 1 .. n + 1  PROVE Above(s[i], s[i + 1])
        BY <1>2, <3>3
      <4>1. CASE i = n + 1
        BY <1>2, <3>3, <3>7, <4>1
      <4>2. CASE i # n + 1
        <5>1. i \in 1 .. Len(stk) - 1 /\ i \in 1 .. n + 1 /\ i + 1 \in 1 .. n + 1
          BY <1>2, <3>2, <4>2
        <5> QED  BY <3>3, <3>6, <5>1
      <4> QED  BY <4>1, <4>2
    <3>9. \A i \in n + 1 .. Len(s) : s[i] = st \/ s[i] = f
      BY <1>2, <3>3
    <3>10. \A i \in n + 1 .. Len(stack[t]) : FALSE
      BY <1>2 DEF n
    <3>11. Len(s) # 0 => Tops(s[Len(s)], refs'[t])
      BY <1>2, <1>5, <2>1, <3>3 DEF Tops
    <3>12. f.pc # "loop" /\ turn' = turn
      BY <1>1, <1>5, <2>1 DEF gcvars
    <3> HIDE DEF last
    <3>13. \A i \in n + 1 .. Len(s) : FrameFits(s[i]) /\ s[i].pc # "loop" /\ ~s[i].gc
      BY <1>3, <1>5, <2>1, <3>9, <3>12
    <3> QED  BY <1>5, <3>4, <3>8, <3>10, <3>11, <3>12, <3>13, Restack
  <2>2. CASE ~last
    <3>1. stack' = stack
      BY <1>2, <1>5, <2>2 DEF stk
    <3>2. \A u \in Threads : refs'[u] = refs[u] \/ stack[u] = <<>> \/ At(u, "drop")
      BY <1>1, <1>5 DEF InCode
    <3> QED  BY <1>1, <3>1, <3>2, SameStack DEF gcvars
  <2> QED  BY <2>1, <2>2
<1>7. field' \in [Blocks -> Blocks \cup {Null}] /\ loose' \subseteq Blocks
  BY <1>0, <1>1 DEF TypeOK
<1>8. TypeOK'
  BY <1>0, <1>1, <1>5, <1>6, <1>7 DEF TypeOK, TurnHeld, slabs, gcvars
<1>9. Registry'
  BY <1>0, <1>1, <1>6, RegistrySame DEF gcvars
<1>10. Allocator'
  BY <1>0, <1>1, AllocatorSame
<1> QED  BY <1>6, <1>8, <1>9, <1>10 DEF Structure

\* A pop removes the top frame and no other.
LEMMA PopFacts ==
    ASSUME TypeOK, NEW t \in Threads, stack[t] # <<>>
    PROVE  LET s == Front(stack[t])
               n == Len(stack[t])
           IN  /\ s \in Seq(Frame) /\ n \in Nat \ {0} /\ Len(s) = n - 1
               /\ \A i \in 1 .. n - 1 : s[i] = stack[t][i] /\ i \in 1 .. n
               /\ Top(t) = stack[t][n] /\ Top(t) \in Frame /\ Top(t) \in AllFrames
               /\ n - 1 \in 0 .. n - 1 /\ n - 1 <= n
               /\ \A i \in (n - 1) + 1 .. n : i = n
<1> DEFINE n == Len(stack[t])
<1>1. stack[t] \in Seq(Frame) /\ n \in 1 .. n /\ Top(t) = stack[t][n] /\ Top(t) \in AllFrames
      /\ Top(t) \in Frame
  BY StackFacts
<1>2. /\ Front(stack[t]) \in Seq(Frame) /\ Len(Front(stack[t])) = n - 1 /\ n \in Nat \ {0}
      /\ \A i \in 1 .. n - 1 : Front(stack[t])[i] = stack[t][i]
  BY <1>1, FrontLast
<1> HIDE DEF n
<1>3. n - 1 \in 0 .. n - 1 /\ n - 1 <= n /\ (\A i \in 1 .. n - 1 : i \in 1 .. n) /\ \A i \in (n - 1) + 1 .. n : i = n
  BY <1>2
<1> QED  BY <1>1, <1>2, <1>3 DEF n

\* Releasing what a dying cell holds: the structure holds.
LEMMA StructureReleaseKids ==
    ASSUME Structure, NEW t \in Threads, ReleaseKids(t)
    PROVE  Structure'
<1> DEFINE f    == Top(t)
           g    == [f EXCEPT !.pc = "free"]
           stk  == Append(Front(stack[t]), g)
           kid  == IF Counted(f.obj) THEN field[f.obj] ELSE Null
           last == Rc(kid) /\ count[kid] = 1
           h    == Finalize(kid, {})
           n    == Len(stack[t])
           k    == n - 1
<1>0. TypeOK /\ Registry /\ Allocator /\ Shape /\ FrameOK
  BY DEF Structure
<1>1. /\ At(t, "drop") \/ At(t, "kids")
      /\ ~f.gc /\ refs[t] = {}
      /\ drops' = [drops EXCEPT ![f.obj] = IF f.pc = "drop" THEN @ + 1 ELSE @]
      /\ Release(t, kid, count, stk, {})
      /\ UNCHANGED <<slabs, used, kind, field, gcvars, alive, bounds, loose, tame, apart>>
  BY DEF ReleaseKids
<1>2. /\ stack[t] # <<>> /\ f.pc \in {"drop", "kids"}
  BY <1>1 DEF At
<1>3. /\ Front(stack[t]) \in Seq(Frame) /\ n \in Nat \ {0} /\ Len(Front(stack[t])) = n - 1
      /\ \A i \in 1 .. n - 1 : Front(stack[t])[i] = stack[t][i] /\ i \in 1 .. n
      /\ f = stack[t][n] /\ f \in Frame /\ f \in AllFrames
  BY <1>0, <1>2, PopFacts
<1>4. FrameFits(f)
  BY <1>0, <1>3 DEF FrameOK
<1> HIDE DEF f
<1>5. /\ g \in Frame /\ g.pc = "free" /\ g.obj = f.obj /\ g.val = f.val /\ g.gc = f.gc /\ g.outer = f.outer
      /\ FrameFits(g)
  BY <1>1, <1>2, <1>3, <1>4 DEF Frame, FrameFits
<1> HIDE DEF g
<1>6. /\ stk \in Seq(Frame) /\ Len(stk) = n /\ stk[n] = g
      /\ \A i \in 1 .. n - 1 : stk[i] = stack[t][i]
  <2>1. /\ stk \in Seq(Frame) /\ Len(stk) = Len(Front(stack[t])) + 1
        /\ stk[Len(Front(stack[t])) + 1] = g
        /\ \A i \in 1 .. Len(Front(stack[t])) : stk[i] = Front(stack[t])[i]
    BY <1>3, <1>5, AppendProperties
  <2> HIDE DEF stk, n
  <2> QED  BY <1>3, <2>1
<1> HIDE DEF stk
<1>7. /\ count \in [Blocks -> Nat] /\ kid \in Blocks \cup {Null} /\ {} \in SUBSET Blocks
  BY <1>0, <1>2, <1>4 DEF TypeOK, FrameFits
<1> HIDE DEF kid
<1>8. /\ count' \in [Blocks -> Nat] /\ refs' \in [Threads -> SUBSET Blocks]
      /\ \A u \in Threads \ {t} : refs'[u] = refs[u]
      /\ ~last => stack' = [stack EXCEPT ![t] = stk] /\ refs'[t] = {}
      /\ last => /\ stack' = [stack EXCEPT ![t] = Append(stk, h)] /\ refs'[t] = {}
                 /\ h \in Frame /\ h.pc = (IF kind[kid] \in DropKinds THEN "drop" ELSE "kids")
                 /\ h.outer = {} /\ ~h.gc /\ FrameFits(h)
  BY <1>0, <1>1, <1>6, <1>7, Released
<1> HIDE DEF h
<1>9. \A i \in 1 .. n - 1 : Above(stk[i], stk[i + 1])
  <2> SUFFICES ASSUME NEW i \in 1 .. n - 1  PROVE Above(stk[i], stk[i + 1])
    OBVIOUS
  <2>1. Above(stack[t][i], stack[t][i + 1])
    BY <1>0 DEF Shape
  <2> HIDE DEF n
  <2>2. CASE i + 1 = n
    <3>1. Above(stk[i], f)
      BY <1>3, <1>6, <2>1, <2>2
    <3> QED  BY <1>1, <1>2, <1>5, <1>6, <2>2, <3>1 DEF Above, GcDrop, Destroy
  <2>3. CASE i + 1 # n
    <3>1. i + 1 \in 1 .. n - 1
      BY <1>3, <2>3
    <3> QED  BY <1>6, <2>1, <3>1
  <2> QED  BY <2>2, <2>3
<1>10. \A i \in k + 1 .. n : i = n
  BY <1>3
<1>11. ~stack[t][n].gc /\ stack[t][n].pc # "loop" /\ turn' = turn
  BY <1>1, <1>2, <1>3 DEF gcvars
<1>12. k \in 0 .. n /\ k <= n
  BY <1>3
<1>13. /\ TurnHeld' /\ FrameOK' /\ Shape' /\ GcObjs' = GcObjs
       /\ stack' \in [Threads -> Seq(Frame)]
  <2>1. CASE last
    <3> DEFINE s == Append(stk, h)
    <3>1. /\ s \in Seq(Frame) /\ Len(s) = n + 1 /\ s[n + 1] = h
          /\ \A i \in 1 .. n : s[i] = stk[i]
      BY <1>6, <1>8, <2>1, AppendProperties
    <3> HIDE DEF s, n
    <3>2. Restacked(t, s, k)
      <4>1. k \in 0 .. Len(s) /\ \A i \in 1 .. k : i \in 1 .. n
        BY <1>3, <3>1
      <4> QED  BY <1>6, <1>8, <1>12, <2>1, <3>1, <4>1 DEF Restacked, s, n
    <3>3. Above(g, h)
      BY <1>5, <1>8, <2>1 DEF Above, GcDrop, Destroy
    <3>4. \A i \in 1 .. Len(s) - 1 : Above(s[i], s[i + 1])
      <4> SUFFICES ASSUME NEW i \in 1 .. n  PROVE Above(s[i], s[i + 1])
        BY <1>3, <3>1
      <4>1. CASE i = n
        BY <1>6, <3>1, <3>3, <4>1
      <4>2. CASE i # n
        <5>1. i \in 1 .. n - 1 /\ i + 1 \in 1 .. n
          BY <1>3, <4>2
        <5> QED  BY <1>9, <3>1, <5>1
      <4> QED  BY <4>1, <4>2
    <3>5. \A i \in k + 1 .. Len(s) : s[i] = g \/ s[i] = h
      <4> SUFFICES ASSUME NEW i \in k + 1 .. Len(s)  PROVE s[i] = g \/ s[i] = h
        OBVIOUS
      <4>1. i = n \/ i = n + 1
        BY <1>3, <3>1
      <4>2. n \in 1 .. n
        BY <1>3
      <4> QED  BY <1>6, <3>1, <4>1, <4>2
    <3>6. \A i \in k + 1 .. Len(s) : FrameFits(s[i]) /\ s[i].pc # "loop" /\ ~s[i].gc
      BY <1>1, <1>5, <1>8, <2>1, <3>5
    <3>7. Len(s) # 0 => Tops(s[Len(s)], refs'[t])
      BY <1>8, <2>1, <3>1 DEF Tops
    <3>8. \A i \in k + 1 .. Len(stack[t]) : stack[t][i].pc # "loop" /\ ~stack[t][i].gc
      BY <1>10, <1>11 DEF n
    <3> HIDE DEF last, k
    <3> QED  BY <1>8, <1>11, <3>2, <3>4, <3>6, <3>7, <3>8, Restack
  <2>2. CASE ~last
    <3> HIDE DEF n
    <3>2. Restacked(t, stk, k)
      BY <1>6, <1>8, <1>12, <2>2 DEF Restacked, n
    <3>4. \A i \in 1 .. Len(stk) - 1 : Above(stk[i], stk[i + 1])
      BY <1>6, <1>9
    <3>6. \A i \in k + 1 .. Len(stk) : FrameFits(stk[i]) /\ stk[i].pc # "loop" /\ ~stk[i].gc
      BY <1>1, <1>5, <1>6, <1>10
    <3>7. Len(stk) # 0 => Tops(stk[Len(stk)], refs'[t])
      BY <1>5, <1>6, <1>8, <2>2 DEF Tops
    <3>8. \A i \in k + 1 .. Len(stack[t]) : stack[t][i].pc # "loop" /\ ~stack[t][i].gc
      BY <1>10, <1>11 DEF n
    <3> HIDE DEF last, k
    <3> QED  BY <1>8, <1>11, <3>2, <3>4, <3>6, <3>7, <3>8, Restack
  <2> QED  BY <2>1, <2>2
<1>14. drops' \in [Blocks -> Nat]
  <2>1. drops \in [Blocks -> Nat] /\ f.obj \in Blocks
    BY <1>0, <1>2, <1>4 DEF TypeOK, FrameFits
  <2> QED  BY <1>1, <2>1
<1>15. TypeOK'
  BY <1>0, <1>1, <1>8, <1>13, <1>14 DEF TypeOK, TurnHeld, slabs, gcvars
<1>16. Registry'
  BY <1>0, <1>1, <1>13, RegistrySame DEF gcvars
<1>17. Allocator'
  BY <1>0, <1>1, AllocatorSame
<1> QED  BY <1>13, <1>15, <1>16, <1>17 DEF Structure
\* What the end of rc_finalize leaves: its own frame goes, and with it the store
\* that waited for it.
LEMMA ReclaimStack ==
    ASSUME Structure, NEW t \in Threads, Reclaim(t)
    PROVE  LET n  == Len(stack[t])
               st == n > 1 /\ stack[t][n - 1].pc = "store"
               k  == IF st THEN n - 2 ELSE n - 1
           IN  /\ n \in Nat \ {0} /\ k \in 0 .. n - 1 /\ Top(t) = stack[t][n] /\ Top(t).pc = "free"
               /\ stack[t] # <<>> /\ refs[t] = {} /\ refs'[t] = Top(t).outer
               /\ refs' = [refs EXCEPT ![t] = Top(t).outer]
               /\ \E s : Restacked(t, s, k) /\ Len(s) = k
               /\ ~st => field' = field
               /\ st => field' = [field EXCEPT ![stack[t][n - 1].obj] = stack[t][n - 1].val]
               /\ n > 1 => Above(stack[t][n - 1], Top(t)) /\ n - 1 \in 1 .. n
               /\ st /\ n > 2 => Above(stack[t][n - 2], stack[t][n - 1]) /\ n - 2 \in 1 .. n
<1> DEFINE n == Len(stack[t])
           st == n > 1 /\ stack[t][n - 1].pc = "store"
           k  == IF st THEN n - 2 ELSE n - 1
           x   == Top(t).obj
           stk == Front(stack[t])
           ss  == stk # <<>> /\ Last(stk).pc = "store"
<1>0. TypeOK /\ Shape
  BY DEF Structure
<1>1. /\ stack[t] # <<>> /\ Top(t).pc = "free"
      /\ stack' = [stack EXCEPT ![t] = IF ss THEN Front(stk) ELSE stk]
      /\ field' = IF ss THEN [field EXCEPT ![Last(stk).obj] = Last(stk).val] ELSE field
      /\ refs' = [refs EXCEPT ![t] = Top(t).outer]
  BY DEF Reclaim, At
<1>2. /\ stk \in Seq(Frame) /\ n \in Nat \ {0} /\ Len(stk) = n - 1
      /\ \A i \in 1 .. n - 1 : stk[i] = stack[t][i] /\ i \in 1 .. n
      /\ Top(t) = stack[t][n]
  BY <1>0, <1>1, PopFacts
<1>3. refs[t] = {} /\ \A i \in 1 .. n - 1 : Above(stack[t][i], stack[t][i + 1])
  BY <1>0, <1>1, <1>2 DEF Shape, Tops
<1>4. refs'[t] = Top(t).outer
  BY <1>0, <1>1 DEF TypeOK
<1> HIDE DEF n, stk
<1>5. stk # <<>> <=> n > 1
  <2>1. stk = <<>> <=> Len(stk) = 0
    BY <1>2, EmptySeq
  <2> QED  BY <1>2, <2>1
<1>6. n > 1 => Last(stk) = stack[t][n - 1]
  <2>1. n > 1 => n - 1 \in 1 .. n - 1
    BY <1>2
  <2> QED  BY <1>2, <2>1 DEF Last
<1>7. ss <=> st
  BY <1>5, <1>6
<1>8. /\ n > 1 => Above(stack[t][n - 1], Top(t)) /\ n - 1 \in 1 .. n
      /\ n > 2 => Above(stack[t][n - 2], stack[t][n - 1]) /\ n - 2 \in 1 .. n
  <2>1. n > 1 => n - 1 \in 1 .. n - 1 /\ (n - 1) + 1 = n /\ n - 1 \in 1 .. n
    BY <1>2
  <2>2. n > 2 => n - 2 \in 1 .. n - 1 /\ (n - 2) + 1 = n - 1 /\ n - 2 \in 1 .. n
    BY <1>2
  <2> QED  BY <1>2, <1>3, <2>1, <2>2
<1>9. \E s : Restacked(t, s, k) /\ Len(s) = k
  <2>1. CASE st
    <3>1. /\ Front(stk) \in Seq(Frame) /\ Len(Front(stk)) = Len(stk) - 1
          /\ \A i \in 1 .. Len(stk) - 1 : Front(stk)[i] = stk[i]
      BY <1>2, <1>5, <2>1, FrontLast
    <3> DEFINE s == Front(stk)
    <3> HIDE DEF s, ss
    <3>2. s \in Seq(Frame) /\ Len(s) = n - 2 /\ \A i \in 1 .. n - 2 : s[i] = stk[i] /\ i \in 1 .. n - 1
      BY <1>2, <3>1 DEF s
    <3>3. stack' = [stack EXCEPT ![t] = s]
      BY <1>1, <1>7, <2>1 DEF s
    <3>4. n - 2 \in 0 .. n - 2 /\ n - 2 <= n
      BY <1>2, <2>1
    <3>5. Restacked(t, s, k) /\ Len(s) = k
      BY <1>2, <2>1, <3>2, <3>3, <3>4 DEF Restacked, n
    <3> QED  BY <3>5
  <2>2. CASE ~st
    <3> HIDE DEF ss, st
    <3>1. stack' = [stack EXCEPT ![t] = stk]
      BY <1>1, <1>7, <2>2
    <3>2. n - 1 \in 0 .. n - 1 /\ n - 1 <= n
      BY <1>2
    <3>3. Restacked(t, stk, k) /\ Len(stk) = k
      BY <1>2, <2>2, <3>1, <3>2 DEF Restacked, n
    <3> QED  BY <3>3
  <2> QED  BY <2>1, <2>2
<1>10. k \in 0 .. n - 1
  BY <1>2
<1> HIDE DEF ss, k
<1>11. /\ ~st => field' = field
       /\ st => field' = [field EXCEPT ![stack[t][n - 1].obj] = stack[t][n - 1].val]
  BY <1>1, <1>6, <1>7
<1> QED  BY <1>1, <1>2, <1>3, <1>4, <1>8, <1>9, <1>10, <1>11 DEF n, k

\* Freeing a dead cell: the structure holds.
LEMMA StructureReclaim ==
    ASSUME Structure, NEW t \in Threads, Reclaim(t)
    PROVE  Structure'
<1> DEFINE n  == Len(stack[t])
           st == n > 1 /\ stack[t][n - 1].pc = "store"
           k  == IF st THEN n - 2 ELSE n - 1
           x  == Top(t).obj
<1>0. TypeOK /\ Registry /\ Allocator /\ Shape /\ FrameOK
  BY DEF Structure
<1>1. /\ objects' = objects \ {x}
      /\ IF x \in objects THEN FreeBlock(x) ELSE UNCHANGED <<slabs, used>>
      /\ UNCHANGED <<kind, count, log, pending, turn, alive, bounds, drops, loose, tame, apart>>
  BY DEF Reclaim
<1>2. /\ n \in Nat \ {0} /\ k \in 0 .. n - 1 /\ Top(t) = stack[t][n] /\ Top(t).pc = "free"
      /\ stack[t] # <<>> /\ refs[t] = {} /\ refs'[t] = Top(t).outer
      /\ refs' = [refs EXCEPT ![t] = Top(t).outer]
      /\ \E s : Restacked(t, s, k) /\ Len(s) = k
      /\ ~st => field' = field
      /\ st => field' = [field EXCEPT ![stack[t][n - 1].obj] = stack[t][n - 1].val]
      /\ n > 1 => Above(stack[t][n - 1], Top(t)) /\ n - 1 \in 1 .. n
      /\ st /\ n > 2 => Above(stack[t][n - 2], stack[t][n - 1]) /\ n - 2 \in 1 .. n
  BY ReclaimStack
<1>3. PICK s : Restacked(t, s, k) /\ Len(s) = k
  BY <1>2
<1>4. \A i \in 1 .. n : stack[t][i] \in Frame /\ FrameFits(stack[t][i])
  BY <1>0, StackFacts DEF FrameOK
<1> HIDE DEF n
<1>5. x \in Blocks /\ Top(t).outer \in SUBSET Blocks /\ ~Top(t).gc
  <2>1. n \in 1 .. n
    BY <1>2
  <2>2. Top(t) \in Frame /\ FrameFits(Top(t))
    BY <1>2, <1>4, <2>1
  <2> QED  BY <1>2, <2>2 DEF FrameFits, Frame
<1>6. refs' \in [Threads -> SUBSET Blocks] /\ \A u \in Threads \ {t} : refs'[u] = refs[u]
  BY <1>0, <1>2, <1>5 DEF TypeOK
<1>7. field' \in [Blocks -> Blocks \cup {Null}]
  <2>1. CASE st
    <3>1. FrameFits(stack[t][n - 1]) /\ stack[t][n - 1].pc = "store"
      BY <1>2, <1>4, <2>1
    <3>2. stack[t][n - 1].obj \in Blocks /\ stack[t][n - 1].val \in Blocks \cup {Null}
      BY <3>1 DEF FrameFits, Frame
    <3> QED  BY <1>0, <1>2, <2>1, <3>2 DEF TypeOK
  <2>2. CASE ~st
    BY <1>0, <1>2, <2>2 DEF TypeOK
  <2> QED  BY <2>1, <2>2
<1>8. \A i \in k + 1 .. n : stack[t][i].pc # "loop" /\ ~stack[t][i].gc
  <2> SUFFICES ASSUME NEW i \in k + 1 .. n  PROVE stack[t][i].pc # "loop" /\ ~stack[t][i].gc
    OBVIOUS
  <2>1. CASE i = n
    BY <1>2, <1>5, <2>1
  <2>2. CASE i # n
    <3>1. i = n - 1 /\ st
      BY <1>2, <2>2
    <3>2. FrameFits(stack[t][i]) /\ stack[t][i].pc = "store"
      BY <1>2, <1>4, <3>1
    <3> QED  BY <3>2 DEF FrameFits
  <2> QED  BY <2>1, <2>2
<1>9. k # 0 => s[k] = stack[t][k]
  <2>1. k # 0 => k \in 1 .. k
    BY <1>2
  <2> QED  BY <1>3, <2>1 DEF Restacked
<1>10. k # 0 => Tops(s[k], refs'[t])
  <2>1. CASE st /\ k # 0
    <3>1. n > 2 /\ k = n - 2
      BY <1>2, <2>1
    <3>2. Above(s[k], stack[t][n - 1]) /\ stack[t][n - 1].pc = "store"
      BY <1>2, <1>9, <2>1, <3>1
    <3> QED  BY <3>2 DEF Tops, Above, Destroy
  <2>2. CASE ~st /\ k # 0
    <3>1. n > 1 /\ k = n - 1
      BY <1>2, <2>2
    <3>2. Above(s[k], Top(t)) /\ s[k].pc # "store"
      BY <1>2, <1>9, <2>2, <3>1
    <3> QED  BY <1>2, <3>2 DEF Tops, Above
  <2> QED  BY <2>1, <2>2
<1> HIDE DEF k, st
<1>11. /\ TurnHeld' /\ FrameOK' /\ Shape' /\ GcObjs' = GcObjs
       /\ stack' \in [Threads -> Seq(Frame)]
  <2>1. \A i \in k + 1 .. Len(s) : FALSE
    BY <1>2, <1>3
  <2>2. \A i \in 1 .. Len(s) - 1 : i < k
    BY <1>2, <1>3
  <2>3. \A i \in k + 1 .. Len(stack[t]) : stack[t][i].pc # "loop" /\ ~stack[t][i].gc
    BY <1>8 DEF n
  <2>4. \A i \in 1 .. Len(s) - 1 : i >= k => Above(s[i], s[i + 1])
    BY <1>2, <1>3, <2>2
  <2>5. Len(s) # 0 => Tops(s[Len(s)], refs'[t])
    BY <1>3, <1>10
  <2> QED  BY <1>1, <1>3, <1>6, <2>1, <2>3, <2>4, <2>5, Restack
<1> HIDE DEF x
<1>12. /\ Allocator' /\ gfree' \in Seq(Blocks) /\ carved' = carved /\ lfree' = lfree /\ tlab' = tlab
       /\ used' = used \ (objects \cap {x})
  <2>1. CASE x \in objects
    <3>1. x \in used
      BY <1>0, <2>1 DEF Registry, Registered
    <3> QED  BY <1>0, <1>1, <2>1, <3>1, FreedBlock
  <2>2. CASE x \notin objects
    BY <1>0, <1>1, <2>2, AllocatorSame DEF slabs, TypeOK
  <2> QED  BY <2>1, <2>2
<1>13. TypeOK'
  BY <1>0, <1>1, <1>6, <1>7, <1>11, <1>12 DEF TypeOK, TurnHeld, bounds
<1>14. Registry'
  <2>1. \A u \in Threads : x \in objects => x \notin log[u]
    BY <1>0 DEF Registry
  <2>2. Registered' = Registered \ (objects \cap {x})
    BY <1>1, <2>1 DEF Registered
  <2>3. used' = Registered' \cup pending' \cup GcObjs'
    BY <1>0, <1>1, <1>11, <1>12, <2>2 DEF Registry, Registered
  <2> QED  BY <1>0, <1>1, <1>11, <2>2, <2>3 DEF Registry
<1> QED  BY <1>11, <1>12, <1>13, <1>14 DEF Structure
\* What mark_reachable computes.
LEMMA ReachFacts ==
    ASSUME NEW S, NEW bases
    PROVE  /\ S \cap bases \subseteq Reach(S, bases) /\ Reach(S, bases) \subseteq bases
           /\ \A b \in Reach(S, bases) : field[b] \in bases => field[b] \in Reach(S, bases)
           /\ \A C \in SUBSET bases :
                 /\ S \cap bases \subseteq C
                 /\ \A b \in C : field[b] \in bases => field[b] \in C
                 => Reach(S, bases) \subseteq C
  BY DEF Reach

\* What a collection marks, keeps and frees.
LEMMA Sets ==
    ASSUME Structure
    PROVE  /\ Marked \subseteq Registered \cup pending /\ pending \subseteq Marked
           /\ Newly \subseteq Registered \ Marked /\ Newly \subseteq Kept
           /\ Kept \subseteq Registered \cup pending /\ Marked \subseteq Kept
           /\ ToFree = Registered \ Kept
           /\ ToFree \subseteq used /\ ToFree \in SUBSET Blocks /\ IsFiniteSet(ToFree) /\ IsFiniteSet(Blocks)
<1>1. Marked \subseteq Registered \cup pending /\ pending \subseteq Marked
  <2>1. Roots \cap (Registered \cup pending) \subseteq Marked /\ Marked \subseteq Registered \cup pending
    BY ReachFacts DEF Marked
  <2> QED  BY <2>1 DEF Roots
<1>2. Newly \subseteq Registered \ Marked
  BY DEF Newly
<1>3. /\ Newly \cap (Registered \cup pending) \subseteq Reach(Newly, Registered \cup pending)
      /\ Reach(Newly, Registered \cup pending) \subseteq Registered \cup pending
  BY ReachFacts
<1>4. Newly \subseteq Kept /\ Kept \subseteq Registered \cup pending /\ Marked \subseteq Kept
  BY <1>1, <1>2, <1>3 DEF Kept
<1>5. ToFree \subseteq used /\ ToFree \in SUBSET Blocks
  BY DEF ToFree, Structure, Registry, TypeOK
<1>6. IsFiniteSet(Blocks)
  BY HeapAssumption, FS_Interval DEF Blocks
<1>7. IsFiniteSet(ToFree)
  BY <1>5, <1>6, FS_Subset
<1> QED  BY <1>1, <1>2, <1>4, <1>5, <1>6, <1>7 DEF ToFree

Dropped(x) == {b \in ToFree : Counted(b) /\ field[b] = x}

\* What the sweep takes off the counts of the cells that stay.
LEMMA SweptCounts ==
    ASSUME Structure
    PROVE  /\ Swept \in [Blocks -> Nat]
           /\ \A x \in Blocks :
                /\ Cardinality(Dropped(x)) \in Nat
                /\ Swept[x] = IF Rc(x) /\ x \notin ToFree
                              THEN IF count[x] >= Cardinality(Dropped(x))
                                   THEN count[x] - Cardinality(Dropped(x)) ELSE 0
                              ELSE count[x]
<1>1. \A x \in Blocks : Cardinality(Dropped(x)) \in Nat
  <2> TAKE x \in Blocks
  <2>1. IsFiniteSet(ToFree) /\ Dropped(x) \in SUBSET ToFree
    BY Sets DEF Dropped
  <2>2. IsFiniteSet(Dropped(x))
    BY <2>1, FS_Subset
  <2> QED  BY <2>2, FS_CardinalityType
<1>2. Swept = [x \in Blocks |->
                 IF Rc(x) /\ x \notin ToFree
                 THEN IF count[x] >= Cardinality(Dropped(x))
                      THEN count[x] - Cardinality(Dropped(x)) ELSE 0
                 ELSE count[x]]
  BY DEF Swept, Dropped
<1>3. count \in [Blocks -> Nat]
  BY DEF Structure, TypeOK
<1>4. \A x \in Blocks : count[x] >= Cardinality(Dropped(x)) => count[x] - Cardinality(Dropped(x)) \in Nat
  BY <1>1, <1>3
<1>5. Swept \in [Blocks -> Nat]
  BY <1>2, <1>3, <1>4
<1> QED  BY <1>1, <1>2, <1>5

\* A block list is appended to the global free list.
LEMMA FreedBlocks ==
    ASSUME TypeOK, Allocator, NEW r \in Seq(Blocks), IsInjective(r), Range(r) \subseteq used,
           gfree' = gfree \o r, used' = used \ Range(r), UNCHANGED <<carved, lfree, tlab>>
    PROVE  /\ Allocator' /\ gfree' \in Seq(Blocks) /\ Recycled' = Recycled \cup Range(r)
<1>1. gfree \in Seq(Blocks) /\ IsInjective(gfree) /\ Range(gfree) \cap Range(r) = {}
  BY DEF TypeOK, Allocator
<1>2. /\ gfree \o r \in Seq(Blocks) /\ IsInjective(gfree \o r)
      /\ Range(gfree \o r) = Range(gfree) \cup Range(r)
  BY <1>1, ConcatInjective
<1>3. /\ gfree' \in Seq(Blocks) /\ IsInjective(gfree') /\ Range(gfree') = Range(gfree) \cup Range(r)
  BY <1>2
<1>4. Recycled' = Recycled \cup Range(r)
  BY <1>3 DEF Recycled
<1>5. used' \cup Recycled' \cup UNION {tlab'[u] : u \in Threads} \subseteq 1 .. carved'
  BY <1>4 DEF Allocator
<1>6. Range(gfree') \cap used' = {}
  BY <1>3 DEF Allocator
<1>7. ASSUME NEW u \in Threads
      PROVE  /\ IsInjective(lfree'[u]) /\ Range(lfree'[u]) \cap tlab'[u] = {}
             /\ (Range(lfree'[u]) \cup tlab'[u]) \cap (used' \cup Range(gfree')) = {}
             /\ \A v \in Threads \ {u} : (Range(lfree'[u]) \cup tlab'[u]) \cap (Range(lfree'[v]) \cup tlab'[v]) = {}
  BY <1>3 DEF Allocator, Cache
<1>8. Allocator'
  BY <1>3, <1>5, <1>6, <1>7 DEF Allocator, Cache
<1> QED  BY <1>3, <1>4, <1>8

\* The frame of the collector's finalizer loop.
LEMMA LoopFrame ==
    LET f == Frm("loop", Null, Null, TRUE, {})
    IN  f \in Frame /\ FrameFits(f) /\ f.pc = "loop" /\ f.gc /\ f.outer = {} /\ f.val = Null /\ f.obj = Null
  BY DEF Frm, Frame, FrameFits

\* A collection pushes nothing but the finalizer loop.
LEMMA CollectStack ==
    ASSUME Structure, NEW t \in Threads, Collect(t)
    PROVE  /\ TurnHeld' /\ FrameOK' /\ Shape' /\ GcObjs = {} /\ GcObjs' = {}
           /\ stack' \in [Threads -> Seq(Frame)] /\ turn' \in Threads \cup {NoOne}
           /\ pending = {} /\ (pending' # {} => turn' # NoOne)
           /\ AllFrames \subseteq AllFrames'
           /\ \A f \in AllFrames' : f \in AllFrames \/ f = Frm("loop", Null, Null, TRUE, {})
<1>0. TypeOK /\ Registry /\ FrameOK /\ Shape
  BY DEF Structure
<1>1. /\ InCode(t) /\ turn = NoOne /\ refs' = refs
      /\ IF pending' # {}
         THEN /\ turn' = t
              /\ stack' = [stack EXCEPT ![t] = Append(@, Frm("loop", Null, Null, TRUE, {}))]
         ELSE UNCHANGED <<turn, stack>>
  BY DEF Collect
<1>2. pending = {} /\ GcObjs = {} /\ \A f \in AllFrames : f.pc # "loop"
  BY <1>0, <1>1, GcTurn DEF Registry
<1>3. CASE pending' = {}
  <2>1. UNCHANGED <<turn, stack>>
    BY <1>1, <1>3
  <2>2. /\ TurnHeld' /\ FrameOK' /\ Shape' /\ GcObjs' = GcObjs
        /\ stack' \in [Threads -> Seq(Frame)]
    BY <1>1, <2>1, SameStack
  <2>3. AllFrames' = AllFrames
    BY <2>1 DEF AllFrames, Frames
  <2> QED  BY <1>0, <1>1, <1>2, <1>3, <2>1, <2>2, <2>3 DEF TypeOK
<1>4. CASE pending' # {}
  <2> DEFINE f == Frm("loop", Null, Null, TRUE, {})
             s == Append(stack[t], f)
             n == Len(stack[t])
  <2>1. turn' = t /\ stack' = [stack EXCEPT ![t] = Append(stack[t], f)]
    BY <1>1, <1>4
  <2>2. f \in Frame /\ FrameFits(f) /\ f.pc = "loop"
    BY LoopFrame
  <2> HIDE DEF f
  <2>3. /\ Restacked(t, s, n) /\ n \in Nat /\ Len(s) = n + 1 /\ s[n + 1] = f
        /\ \A i \in 1 .. n : s[i] = stack[t][i]
    BY <1>0, <2>1, <2>2, PushTo
  <2>4. OnTop(t, f)
    BY <1>1, <2>2 DEF OnTop, InCode, At, Above, GcDrop
  <2>5. \A i \in 1 .. Len(s) - 1 : Above(s[i], s[i + 1])
    BY <1>0, <2>2, <2>4, PushSafe
  <2>6. \A i \in 1 .. n : stack[t][i].pc # "loop"
    BY <1>0, <1>2, StackFacts
  <2> HIDE DEF s, n
  <2>7. \A i, j \in 1 .. Len(s) : s[i].pc = "loop" /\ s[j].pc = "loop" => i = j
    BY <2>3, <2>6
  <2>8. \A i \in n + 1 .. Len(s) : s[i] = f
    BY <2>3
  <2>9. FrameOK' /\ Shape'
    <3>1. n = 0 /\ Len(s) # 0 => ~GcDrop(s[1])
      BY <2>2, <2>3 DEF GcDrop
    <3>2. Len(s) # 0 => Tops(s[Len(s)], refs'[t])
      BY <2>2, <2>3 DEF Tops
    <3>3. \A i \in n + 1 .. Len(s) : FrameFits(s[i])
      BY <2>2, <2>8
    <3> QED  BY <1>1, <2>3, <2>5, <2>7, <3>1, <3>2, <3>3, RestackShape
  <2>10. /\ stack' \in [Threads -> Seq(Frame)]
         /\ \A u \in Threads \ {t} : Frames(u)' = Frames(u)
         /\ \A g \in AllFrames' : g \in AllFrames \/ g = f
         /\ AllFrames \subseteq AllFrames'
    <3>1. \A i \in n + 1 .. Len(stack[t]) : FALSE
      BY <2>3 DEF n
    <3> QED  BY <1>0, <2>3, <2>8, <3>1, RestackedFrames
  <2>11. GcObjs' = {}
    BY <1>2, <2>2, <2>10 DEF GcObjs
  <2>12. f \in Frames(t)'
    <3>1. Frames(t)' = {s[i] : i \in 1 .. Len(s)} /\ n + 1 \in 1 .. Len(s)
      BY <1>0, <2>3, RestackedFrames
    <3> QED  BY <2>3, <3>1
  <2>13. TurnHeld'
    <3>1. \A u \in Threads \ {t} : \A g \in Frames(u)' : g.pc # "loop"
      BY <1>2, <2>10 DEF AllFrames
    <3>2. ASSUME NEW u \in Threads
          PROVE  (\E g \in Frames(u)' : g.pc = "loop") <=> turn' = u
      BY <2>1, <2>2, <2>12, <3>1
    <3> QED  BY <3>2 DEF TurnHeld
  <2>14. turn' \in Threads \cup {NoOne} /\ turn' # NoOne
    BY <2>1, HeapAssumption
  <2> QED  BY <1>2, <2>9, <2>10, <2>11, <2>13, <2>14 DEF f
<1> QED  BY <1>3, <1>4

\* A collection keeps the structure, and frees the blocks it swept.
LEMMA StructureCollect ==
    ASSUME Structure, NEW t \in Threads, Collect(t)
    PROVE  Structure' /\ Recycled' = Recycled \cup ToFree /\ used' = used \ ToFree
<1>0. TypeOK /\ Registry /\ Allocator
  BY DEF Structure
<1>1. /\ gcs < MaxGcs /\ log' = [u \in Threads |-> {}]
      /\ objects' = (Registered \cap Kept) \ Newly
      /\ pending' = pending \cup Newly
      /\ count' = Swept
      /\ gfree' = gfree \o SetToSeq(ToFree)
      /\ used' = used \ ToFree
      /\ apart' = (apart /\ ~Entangled)
      /\ UNCHANGED <<carved, lfree, tlab, kind, field, alive, refs, allocs, drops, loose, tame>>
  BY DEF Collect
<1>2. /\ TurnHeld' /\ FrameOK' /\ Shape' /\ GcObjs = {} /\ GcObjs' = {}
      /\ stack' \in [Threads -> Seq(Frame)] /\ turn' \in Threads \cup {NoOne}
      /\ pending = {} /\ (pending' # {} => turn' # NoOne)
  BY CollectStack
<1>3. /\ Newly \subseteq Registered /\ Newly \subseteq Kept /\ Kept \subseteq Registered \cup pending
      /\ ToFree = Registered \ Kept /\ ToFree \subseteq used /\ ToFree \in SUBSET Blocks
      /\ IsFiniteSet(ToFree)
  BY Sets
<1>4. /\ SetToSeq(ToFree) \in Seq(ToFree) /\ IsInjective(SetToSeq(ToFree))
      /\ Range(SetToSeq(ToFree)) = ToFree
  BY <1>3, SetToSeqOf
<1> DEFINE r == SetToSeq(ToFree)
<1>5. r \in Seq(Blocks)
  BY <1>3, <1>4, SeqMonotonic
<1>6. IsInjective(r) /\ Range(r) = ToFree /\ gfree' = gfree \o r
  BY <1>1, <1>4
<1> HIDE DEF r
<1>7. Allocator' /\ gfree' \in Seq(Blocks) /\ Recycled' = Recycled \cup ToFree
  BY <1>0, <1>1, <1>3, <1>5, <1>6, FreedBlocks
<1>8. Swept \in [Blocks -> Nat]
  BY SweptCounts
<1>9. Registered \subseteq Blocks
  BY <1>0 DEF Registered, TypeOK
<1>10. TypeOK'
  <2>1. /\ objects' \subseteq Blocks /\ pending' \subseteq Blocks /\ log' \in [Threads -> SUBSET Blocks]
        /\ used' \subseteq Blocks
    BY <1>0, <1>1, <1>3, <1>9 DEF TypeOK
  <2>2. apart' \in BOOLEAN
    BY <1>1
  <2>3. /\ carved' \in 0 .. MaxBlocks /\ lfree' \in [Threads -> Seq(Blocks)]
        /\ tlab' \in [Threads -> SUBSET Blocks] /\ kind' \in [Blocks -> Kinds]
        /\ field' \in [Blocks -> Blocks \cup {Null}] /\ alive' \subseteq Threads
        /\ refs' \in [Threads -> SUBSET Blocks] /\ drops' \in [Blocks -> Nat]
        /\ loose' \subseteq Blocks /\ tame' \in BOOLEAN
    BY <1>0, <1>1 DEF TypeOK
  <2>4. count' \in [Blocks -> Nat]
    BY <1>1, <1>8
  <2> QED  BY <1>2, <1>7, <2>1, <2>2, <2>3, <2>4 DEF TypeOK, TurnHeld
<1>11. Registry'
  <2>1. Registered' = (Registered \cap Kept) \ Newly
    BY <1>1 DEF Registered
  <2>2. used' = Registered' \cup pending' \cup GcObjs'
    BY <1>0, <1>1, <1>2, <1>3, <2>1 DEF Registry
  <2>3. Registered' \cap (pending' \cup GcObjs') = {} /\ pending' \cap GcObjs' = {}
    BY <1>1, <1>2, <2>1
  <2>4. \A u \in Threads : log'[u] = {}
    BY <1>1
  <2> QED  BY <1>2, <2>2, <2>3, <2>4 DEF Registry
<1> QED  BY <1>1, <1>2, <1>7, <1>10, <1>11 DEF Structure

\* The finalizer loop starts the destructor of one pending cell.
LEMMA StructureRunFinalizer ==
    ASSUME Structure, NEW t \in Threads, RunFinalizer(t)
    PROVE  /\ Structure'
           /\ \E x \in pending :
                LET f == Frm("drop", x, Null, TRUE, refs[t])
                IN  /\ pending' = pending \ {x} /\ GcObjs = {}
                    /\ stack' = [stack EXCEPT ![t] = Append(stack[t], f)]
                    /\ FrameFits(f) /\ f.pc = "drop" /\ f.obj = x /\ f.gc /\ f.outer = refs[t] /\ f.val = Null
<1>0. TypeOK /\ Registry /\ Allocator /\ Shape /\ FrameOK
  BY DEF Structure
<1>1. PICK x \in pending :
        /\ pending' = pending \ {x}
        /\ stack' = [stack EXCEPT ![t] = Append(@, Frm("drop", x, Null, TRUE, refs[t]))]
  BY DEF RunFinalizer
<1>2. /\ At(t, "loop") /\ refs' = [refs EXCEPT ![t] = {}]
      /\ UNCHANGED <<slabs, used, kind, field, count, objects, log, turn, alive, bounds, drops, loose, tame, apart>>
  BY DEF RunFinalizer
<1> DEFINE f == Frm("drop", x, Null, TRUE, refs[t])
           s == Append(stack[t], f)
           n == Len(stack[t])
<1>3. refs[t] \in SUBSET Blocks /\ x \in Blocks /\ refs' \in [Threads -> SUBSET Blocks] /\ refs'[t] = {}
      /\ \A u \in Threads \ {t} : refs'[u] = refs[u]
  BY <1>0, <1>2 DEF TypeOK
<1>4. /\ f \in Frame /\ FrameFits(f) /\ f.pc = "drop" /\ f.obj = x /\ f.gc /\ f.outer = refs[t] /\ f.val = Null
  BY <1>3 DEF Frm, Frame, FrameFits
<1>5. stack' = [stack EXCEPT ![t] = Append(stack[t], f)]
  BY <1>1
<1> HIDE DEF f
<1>6. /\ Restacked(t, s, n) /\ n \in Nat /\ Len(s) = n + 1 /\ s[n + 1] = f
      /\ \A i \in 1 .. n : s[i] = stack[t][i]
  BY <1>0, <1>4, <1>5, PushTo
<1>7. OnTop(t, f)
  BY <1>2, <1>4 DEF OnTop, At, Above, GcDrop
<1>8. \A i \in 1 .. Len(s) - 1 : Above(s[i], s[i + 1])
  BY <1>0, <1>4, <1>7, PushSafe
<1>9. turn = t /\ GcObjs = {}
  BY <1>2, GcTurn
<1>10. n # 0
  BY <1>0, <1>2, StackFacts DEF At
<1>11. \A i \in n + 1 .. Len(stack[t]) : FALSE
  BY <1>6
<1> HIDE DEF s, n
<1>12. \A i \in n + 1 .. Len(s) : s[i] = f
  BY <1>6
<1>13. \A i \in n + 1 .. Len(s) : s[i].pc # "loop"
  BY <1>4, <1>12
<1>14. turn' = turn
  BY <1>2
<1>15. /\ TurnHeld' /\ stack' \in [Threads -> Seq(Frame)]
       /\ \A i, j \in 1 .. Len(s) : s[i].pc = "loop" /\ s[j].pc = "loop" => i = j
  BY <1>6, <1>11, <1>13, <1>14, RestackNoLoop
<1>16. FrameOK' /\ Shape'
  <2>1. \A i \in n + 1 .. Len(s) : FrameFits(s[i])
    BY <1>4, <1>12
  <2>2. Len(s) # 0 => Tops(s[Len(s)], refs'[t])
    BY <1>4, <1>6 DEF Tops
  <2> QED  BY <1>3, <1>6, <1>8, <1>10, <1>15, <2>1, <2>2, RestackShape
<1>17. GcObjs' = {x}
  <2>1. \A g \in AllFrames' : g \in AllFrames \/ g = f
    BY <1>0, <1>6, <1>12, RestackedFrames
  <2>2. f \in AllFrames'
    <3>1. n + 1 \in 1 .. Len(s) /\ \A i \in 1 .. Len(s) : s[i] \in AllFrames'
      BY <1>0, <1>6, RestackedFrames
    <3> QED  BY <1>6, <3>1
  <2>3. \A g \in AllFrames : ~(g.pc = "drop" /\ g.gc)
    BY <1>9 DEF GcObjs
  <2> QED  BY <1>4, <2>1, <2>2, <2>3 DEF GcObjs
<1>18. TypeOK'
  BY <1>0, <1>1, <1>2, <1>3, <1>15 DEF TypeOK, TurnHeld, slabs
<1>19. Registry'
  BY <1>0, <1>1, <1>2, <1>9, <1>17 DEF Registry, Registered
<1>20. Allocator'
  BY <1>0, <1>2, AllocatorSame
<1> QED  BY <1>1, <1>4, <1>5, <1>9, <1>15, <1>16, <1>18, <1>19, <1>20 DEF Structure, f
\* The end of the finalizer loop gives the turn back.
LEMMA StructureFinalizersDone ==
    ASSUME Structure, NEW t \in Threads, FinalizersDone(t)
    PROVE  /\ Structure' /\ Restacked(t, Front(stack[t]), Len(stack[t]) - 1)
           /\ \A f \in AllFrames' : f \in AllFrames /\ f.pc # "loop"
           /\ \A f \in AllFrames : f \in AllFrames' \/ f = Top(t)
<1> DEFINE s == Front(stack[t])
           n == Len(stack[t])
           k == n - 1
<1>0. TypeOK /\ Registry /\ Allocator /\ Shape /\ FrameOK
  BY DEF Structure
<1>1. /\ At(t, "loop") /\ pending = {} /\ stack' = [stack EXCEPT ![t] = Front(@)] /\ turn' = NoOne
      /\ UNCHANGED <<slabs, used, kind, field, count, objects, log, pending, alive, refs, bounds, drops, loose, tame, apart>>
  BY DEF FinalizersDone
<1>2. /\ s \in Seq(Frame) /\ n \in Nat \ {0} /\ Len(s) = n - 1
      /\ \A i \in 1 .. n - 1 : s[i] = stack[t][i] /\ i \in 1 .. n
      /\ Top(t) = stack[t][n] /\ stack[t][n].pc = "loop"
      /\ n - 1 \in 0 .. n - 1 /\ n - 1 <= n /\ \A i \in (n - 1) + 1 .. n : i = n
  BY <1>0, <1>1, PopFacts DEF At
<1>3. turn = t /\ GcObjs = {}
  BY <1>1, GcTurn
<1>4. stack' = [stack EXCEPT ![t] = s]
  BY <1>1
<1>5. /\ \A i \in 1 .. n - 1 : Above(stack[t][i], stack[t][i + 1])
      /\ \A i, j \in 1 .. n : stack[t][i].pc = "loop" /\ stack[t][j].pc = "loop" => i = j
  BY <1>0 DEF Shape
<1> HIDE DEF s, n
<1>6. Restacked(t, s, k) /\ Len(s) = k
  BY <1>2, <1>4 DEF Restacked, n
<1>7. \A i \in 1 .. k : s[i].pc # "loop"
  <2> SUFFICES ASSUME NEW i \in 1 .. k, stack[t][i].pc = "loop"  PROVE FALSE
    BY <1>2
  <2>1. i = n
    BY <1>2, <1>5
  <2> QED  BY <1>2, <2>1
<1>8. k # 0 => Tops(s[k], refs'[t])
  <2> SUFFICES ASSUME k # 0  PROVE Tops(s[k], refs'[t])
    OBVIOUS
  <2>1. k \in 1 .. n - 1 /\ k + 1 = n
    BY <1>2
  <2>2. Above(s[k], stack[t][n])
    BY <1>2, <1>5, <2>1
  <2> QED  BY <1>2, <2>2 DEF Tops, Above, Destroy
<1>9. FrameOK' /\ Shape'
  <2>1. \A i \in k + 1 .. Len(s) : FALSE
    BY <1>2, <1>6
  <2>2. \A i \in 1 .. Len(s) - 1 : i < k
    BY <1>2, <1>6
  <2>3. k = 0 /\ Len(s) # 0 => FALSE
    BY <1>6
  <2>4. \A i, j \in 1 .. Len(s) : s[i].pc = "loop" /\ s[j].pc = "loop" => i = j
    BY <1>6, <1>7
  <2>5. Len(s) # 0 => Tops(s[Len(s)], refs'[t])
    BY <1>6, <1>8
  <2>6. \A u \in Threads \ {t} : refs'[u] = refs[u]
    BY <1>1
  <2>7. \A i \in 1 .. Len(s) - 1 : i >= k => Above(s[i], s[i + 1])
    BY <1>2, <1>6, <2>2
  <2> HIDE DEF k
  <2> QED  BY <1>6, <2>1, <2>3, <2>4, <2>5, <2>6, <2>7, RestackShape
<1>10. /\ stack' \in [Threads -> Seq(Frame)]
       /\ \A u \in Threads \ {t} : Frames(u)' = Frames(u)
       /\ Frames(t)' = {s[i] : i \in 1 .. Len(s)}
       /\ \A f \in AllFrames' : f \in AllFrames \/ \E i \in k + 1 .. Len(s) : f = s[i]
       /\ \A f \in AllFrames : f \in AllFrames' \/ \E i \in k + 1 .. Len(stack[t]) : f = stack[t][i]
  BY <1>0, <1>6, RestackedFrames
<1>11. \A u \in Threads : \A f \in Frames(u)' : f.pc # "loop"
  <2>1. \A f \in Frames(t)' : f.pc # "loop"
    BY <1>6, <1>7, <1>10
  <2>2. \A u \in Threads \ {t} : \A f \in Frames(u) : f.pc # "loop"
    BY <1>0, <1>3 DEF TypeOK
  <2> QED  BY <1>10, <2>1, <2>2
<1>12. TurnHeld'
  <2>1. NoOne \notin Threads
    BY HeapAssumption
  <2>2. ASSUME NEW u \in Threads
        PROVE  (\E f \in Frames(u)' : f.pc = "loop") <=> turn' = u
    BY <1>1, <1>11, <2>1
  <2> QED  BY <2>2 DEF TurnHeld
<1>13. /\ \A f \in AllFrames' : f \in AllFrames /\ f.pc # "loop"
       /\ \A f \in AllFrames : f \in AllFrames' \/ f = Top(t)
  <2>1. \A f \in AllFrames' : f.pc # "loop"
    BY <1>11 DEF AllFrames
  <2>2. \A i \in k + 1 .. Len(s) : FALSE
    BY <1>2, <1>6
  <2>3. \A i \in k + 1 .. Len(stack[t]) : stack[t][i] = Top(t)
    BY <1>2 DEF n
  <2> QED  BY <1>10, <2>1, <2>2, <2>3
<1>14. GcObjs' = {}
  BY <1>3, <1>13 DEF GcObjs
<1>15. TypeOK'
  BY <1>0, <1>1, <1>10, <1>12 DEF TypeOK, TurnHeld, slabs, bounds
<1>16. Registry'
  BY <1>0, <1>1, <1>3, <1>14 DEF Registry, Registered
<1>17. Allocator'
  BY <1>0, <1>1, AllocatorSame
<1> QED  BY <1>6, <1>9, <1>13, <1>15, <1>16, <1>17 DEF Structure, s, n

\* A finalized cell is freed.
LEMMA StructureFinalizerEnd ==
    ASSUME Structure, NEW t \in Threads, FinalizerEnd(t)
    PROVE  Structure' /\ Restacked(t, Front(stack[t]), Len(stack[t]) - 1)
           /\ Top(t).obj \in used /\ Recycled' = Recycled \cup {Top(t).obj}
           /\ used' = used \ {Top(t).obj} /\ GcObjs = {Top(t).obj}
<1> DEFINE s == Front(stack[t])
           n == Len(stack[t])
           k == n - 1
           x == Top(t).obj
           y == field[x]
<1>0. TypeOK /\ Registry /\ Allocator /\ Shape /\ FrameOK
  BY DEF Structure
<1>1. /\ At(t, "drop") /\ Top(t).gc /\ refs[t] = {}
      /\ drops' = [drops EXCEPT ![x] = @ + 1]
      /\ count' = IF Rc(y) /\ Counted(x) /\ y \in objects /\ count[y] > 0
                  THEN [count EXCEPT ![y] = @ - 1] ELSE count
      /\ FreeBlock(x)
      /\ stack' = [stack EXCEPT ![t] = Front(@)]
      /\ refs' = [refs EXCEPT ![t] = Top(t).outer]
      /\ UNCHANGED <<kind, field, gcvars, alive, bounds, loose, tame, apart>>
  BY DEF FinalizerEnd
<1>2. stack[t] # <<>> /\ Top(t).pc = "drop" /\ GcDrop(Top(t))
  BY <1>1 DEF At, GcDrop
<1>3. /\ s \in Seq(Frame) /\ n \in Nat \ {0} /\ Len(s) = n - 1
      /\ \A i \in 1 .. n - 1 : s[i] = stack[t][i] /\ i \in 1 .. n
      /\ Top(t) = stack[t][n] /\ Top(t) \in AllFrames /\ Top(t) \in Frame
      /\ n - 1 \in 0 .. n - 1 /\ n - 1 <= n /\ \A i \in (n - 1) + 1 .. n : i = n
  BY <1>0, <1>2, PopFacts
<1>4. turn = t /\ GcObjs = {x} /\ \A f \in AllFrames : GcDrop(f) => f = Top(t)
  BY <1>2, GcTurn
<1>5. n > 1 /\ stack[t][n - 1].pc = "loop"
  <2>1. n \in 1 .. Len(stack[t]) /\ GcDrop(stack[t][n])
    BY <1>2, <1>3
  <2> QED  BY <2>1, GcDropPlace
<1>6. stack' = [stack EXCEPT ![t] = s]
  BY <1>1
<1>7. FrameFits(Top(t)) /\ x \in Blocks /\ Top(t).outer \in SUBSET Blocks
  <2>1. FrameFits(Top(t))
    BY <1>0, <1>3 DEF FrameOK
  <2> QED  BY <1>2, <2>1 DEF FrameFits, Frame
<1>8. \A i \in 1 .. n - 1 : Above(stack[t][i], stack[t][i + 1])
  BY <1>0 DEF Shape
<1> HIDE DEF s, n, x, y
<1>9. Restacked(t, s, k) /\ Len(s) = k
  BY <1>3, <1>6 DEF Restacked, n
<1>10. refs' \in [Threads -> SUBSET Blocks] /\ \A u \in Threads \ {t} : refs'[u] = refs[u]
  BY <1>0, <1>1, <1>7 DEF TypeOK
<1>11. \A i \in k + 1 .. Len(s) : FALSE
  BY <1>3, <1>9
<1>12. turn' = turn
  BY <1>1 DEF gcvars
<1>13. /\ TurnHeld' /\ stack' \in [Threads -> Seq(Frame)]
       /\ \A i, j \in 1 .. Len(s) : s[i].pc = "loop" /\ s[j].pc = "loop" => i = j
  <2>1. \A i \in k + 1 .. Len(stack[t]) : stack[t][i].pc # "loop"
    BY <1>2, <1>3 DEF n
  <2> HIDE DEF k
  <2> QED  BY <1>9, <1>11, <1>12, <2>1, RestackNoLoop
<1>14. FrameOK' /\ Shape'
  <2>1. \A i \in 1 .. Len(s) - 1 : i >= k => Above(s[i], s[i + 1])
    BY <1>3, <1>9
  <2>2. k = 0 /\ Len(s) # 0 => ~GcDrop(s[1])
    BY <1>9
  <2>3. Len(s) # 0 => Tops(s[Len(s)], refs'[t])
    <3>1. k \in 1 .. n - 1
      BY <1>3, <1>5
    <3> QED  BY <1>3, <1>5, <1>9, <3>1 DEF Tops
  <2>4. \A i \in k + 1 .. Len(s) : FrameFits(s[i])
    BY <1>11
  <2> HIDE DEF k
  <2> QED  BY <1>9, <1>10, <1>13, <2>1, <2>2, <2>3, <2>4, RestackShape
<1>15. GcObjs' = {}
  <2>1. \A f \in AllFrames' : f \in AllFrames
    BY <1>0, <1>9, <1>11, RestackedFrames
  <2>2. ASSUME NEW u \in Threads, NEW i \in 1 .. Len(stack'[u]), GcDrop(stack'[u][i])
        PROVE  FALSE
    <3>1. CASE u # t
      <4>1. stack'[u] = stack[u]
        BY <1>0, <1>9, <3>1, RestackedFrames
      <4>2. turn = u
        BY <2>2, <4>1, GcDropPlace
      <4> QED  BY <1>4, <3>1, <4>2
    <3>2. CASE u = t
      <4>1. stack'[t] = s
        BY <1>0, <1>9, RestackedFrames
      <4>2. i \in 1 .. n - 1 /\ GcDrop(stack[t][i]) /\ i \in 1 .. Len(stack[t])
        BY <1>3, <1>9, <2>2, <3>2, <4>1 DEF n
      <4>3. i > 1 /\ stack[t][i - 1].pc = "loop" /\ i - 1 \in 1 .. Len(stack[t])
        BY <4>2, GcDropPlace
      <4>4. \A j, l \in 1 .. Len(stack[t]) : stack[t][j].pc = "loop" /\ stack[t][l].pc = "loop" => j = l
        BY <1>0 DEF Shape
      <4>5. n - 1 \in 1 .. Len(stack[t])
        BY <1>3, <1>5 DEF n
      <4>6. i - 1 = n - 1
        BY <1>5, <4>3, <4>4, <4>5
      <4> QED  BY <1>3, <4>2, <4>6
    <3> QED  BY <3>1, <3>2
  <2>3. \A f \in AllFrames' : ~GcDrop(f)
    <3>1. ASSUME NEW u \in Threads, NEW f \in Frames(u)', GcDrop(f)  PROVE FALSE
      <4>1. stack'[u] \in Seq(Frame)
        BY <1>13
      <4>2. DOMAIN stack'[u] = 1 .. Len(stack'[u])
        BY <4>1, LenProperties
      <4>3. Frames(u)' = {stack'[u][i] : i \in DOMAIN stack'[u]}
        BY DEF Frames
      <4> QED  BY <2>2, <3>1, <4>2, <4>3
    <3>2. AllFrames' = UNION {Frames(u)' : u \in Threads}
      BY DEF AllFrames
    <3> QED  BY <3>1, <3>2
  <2> QED  BY <2>3 DEF GcObjs, GcDrop
<1>16. x \in used /\ x \notin objects /\ x \notin pending /\ \A u \in Threads : x \notin log[u]
  BY <1>0, <1>4 DEF Registry, Registered
<1>17. /\ Allocator' /\ gfree' \in Seq(Blocks) /\ carved' = carved /\ lfree' = lfree /\ tlab' = tlab
       /\ used' = used \ {x} /\ Recycled' = Recycled \cup {x}
  BY <1>0, <1>1, <1>16, FreedBlock
<1>18. count' \in [Blocks -> Nat]
  <2>1. count \in [Blocks -> Nat]
    BY <1>0 DEF TypeOK
  <2>2. CASE Rc(y) /\ Counted(x) /\ y \in objects /\ count[y] > 0
    <3>1. y \in Blocks
      BY <1>0, <2>2 DEF TypeOK
    <3>2. count[y] - 1 \in Nat
      BY <2>1, <2>2, <3>1
    <3> QED  BY <1>1, <2>1, <2>2, <3>1, <3>2
  <2>3. CASE ~(Rc(y) /\ Counted(x) /\ y \in objects /\ count[y] > 0)
    BY <1>1, <2>1, <2>3
  <2> QED  BY <2>2, <2>3
<1>19. drops' \in [Blocks -> Nat]
  BY <1>0, <1>1, <1>7 DEF TypeOK
<1>20. TypeOK'
  BY <1>0, <1>1, <1>10, <1>13, <1>17, <1>18, <1>19 DEF TypeOK, TurnHeld, gcvars, bounds
<1>21. Registry'
  <2>1. Registered' = Registered
    BY <1>1 DEF Registered, gcvars
  <2>2. used' = Registered' \cup pending' \cup GcObjs'
    BY <1>0, <1>1, <1>4, <1>15, <1>16, <1>17, <2>1 DEF Registry, Registered, gcvars
  <2> QED  BY <1>0, <1>1, <1>15, <2>1, <2>2 DEF Registry, gcvars
<1> QED  BY <1>4, <1>9, <1>14, <1>16, <1>17, <1>20, <1>21 DEF Structure, s, n, x

\* A thread that ends gives its free blocks and its log back.
LEMMA StructureExit ==
    ASSUME Structure, NEW t \in Threads, Exit(t)
    PROVE  Structure' /\ Recycled' = Recycled /\ Registered' = Registered
<1>0. TypeOK /\ Registry /\ Allocator
  BY DEF Structure
<1>1. /\ t \in alive /\ stack[t] = <<>>
      /\ alive' = alive \ {t}
      /\ refs' = [refs EXCEPT ![t] = {}]
      /\ objects' = objects \cup log[t]
      /\ log' = [log EXCEPT ![t] = {}]
      /\ loose' = loose \cup refs[t]
      /\ gfree' = gfree \o lfree[t]
      /\ lfree' = [lfree EXCEPT ![t] = <<>>]
      /\ tlab' = [tlab EXCEPT ![t] = {}]
      /\ UNCHANGED <<carved, used, kind, field, count, pending, turn, stack, bounds, drops, tame, apart>>
  BY DEF Exit
<1>2. /\ refs' \in [Threads -> SUBSET Blocks] /\ \A u \in Threads \ {t} : refs'[u] = refs[u]
      /\ log' \in [Threads -> SUBSET Blocks] /\ log'[t] = {} /\ \A u \in Threads \ {t} : log'[u] = log[u]
      /\ lfree' \in [Threads -> Seq(Blocks)] /\ lfree'[t] = <<>> /\ \A u \in Threads \ {t} : lfree'[u] = lfree[u]
      /\ tlab' \in [Threads -> SUBSET Blocks] /\ tlab'[t] = {} /\ \A u \in Threads \ {t} : tlab'[u] = tlab[u]
      /\ log[t] \in SUBSET Blocks /\ refs[t] \in SUBSET Blocks
  <2>1. <<>> \in Seq(Blocks)
    OBVIOUS
  <2> QED  BY <1>0, <1>1, <2>1 DEF TypeOK
<1>3. \A u \in Threads : refs'[u] = refs[u] \/ stack[u] = <<>> \/ At(u, "drop")
  BY <1>1, <1>2
<1>4. /\ TurnHeld' /\ FrameOK' /\ Shape' /\ GcObjs' = GcObjs
      /\ stack' \in [Threads -> Seq(Frame)]
  BY <1>1, <1>3, SameStack
<1>5. /\ gfree \in Seq(Blocks) /\ lfree[t] \in Seq(Blocks) /\ IsInjective(gfree) /\ IsInjective(lfree[t])
      /\ Range(gfree) \cap Range(lfree[t]) = {}
  BY <1>0 DEF TypeOK, Allocator, Cache
<1>6. /\ gfree' \in Seq(Blocks) /\ IsInjective(gfree')
      /\ Range(gfree') = Range(gfree) \cup Range(lfree[t])
  BY <1>1, <1>5, ConcatInjective
<1>7. Recycled' = Recycled
  <2>1. \A u \in Threads : Range(lfree'[u]) = IF u = t THEN {} ELSE Range(lfree[u])
    BY <1>2, EmptyInjective
  <2> QED  BY <1>6, <2>1 DEF Recycled
<1>8. Allocator'
  <2>1. used' \cup Recycled' \cup UNION {tlab'[u] : u \in Threads} \subseteq 1 .. carved'
    BY <1>0, <1>1, <1>2, <1>7 DEF Allocator
  <2>2. Range(gfree') \cap used' = {}
    BY <1>0, <1>1, <1>6 DEF Allocator, Cache
  <2>3. ASSUME NEW u \in Threads
        PROVE  /\ IsInjective(lfree'[u]) /\ Range(lfree'[u]) \cap tlab'[u] = {}
               /\ (Range(lfree'[u]) \cup tlab'[u]) \cap (used' \cup Range(gfree')) = {}
               /\ \A v \in Threads \ {u} : (Range(lfree'[u]) \cup tlab'[u]) \cap (Range(lfree'[v]) \cup tlab'[v]) = {}
    <3>1. CASE u = t
      BY <1>2, <3>1, EmptyInjective
    <3>2. CASE u # t
      <4>1. /\ IsInjective(lfree[u]) /\ Range(lfree[u]) \cap tlab[u] = {}
            /\ Cache(u) \cap (used \cup Range(gfree)) = {}
            /\ \A v \in Threads \ {u} : Cache(u) \cap Cache(v) = {}
        BY <1>0 DEF Allocator
      <4>2. lfree'[u] = lfree[u] /\ tlab'[u] = tlab[u]
        BY <1>2, <3>2
      <4>3. Cache(u) \cap Range(lfree[t]) = {}
        BY <3>2, <4>1 DEF Cache
      <4>4. (Range(lfree'[u]) \cup tlab'[u]) \cap (used' \cup Range(gfree')) = {}
        BY <1>1, <1>6, <4>1, <4>2, <4>3 DEF Cache
      <4>5. \A v \in Threads \ {u} : Range(lfree'[v]) \cup tlab'[v] \subseteq Cache(v)
        BY <1>2, EmptyInjective DEF Cache
      <4>6. \A v \in Threads \ {u} : (Range(lfree'[u]) \cup tlab'[u]) \cap (Range(lfree'[v]) \cup tlab'[v]) = {}
        BY <4>1, <4>2, <4>5 DEF Cache
      <4> QED  BY <4>1, <4>2, <4>4, <4>6
    <3> QED  BY <3>1, <3>2
  <2> QED  BY <1>6, <2>1, <2>2, <2>3 DEF Allocator, Cache
<1>9. TypeOK'
  <2>1. objects' \subseteq Blocks /\ loose' \subseteq Blocks /\ alive' \subseteq Threads
    BY <1>0, <1>1, <1>2 DEF TypeOK
  <2> QED  BY <1>0, <1>1, <1>2, <1>4, <1>6, <2>1 DEF TypeOK, TurnHeld
<1>10. Registered' = Registered
  BY <1>1, <1>2 DEF Registered
<1>11. Registry'
  <2>1. used' = Registered' \cup pending' \cup GcObjs'
    BY <1>0, <1>1, <1>4, <1>10 DEF Registry
  <2>2. ASSUME NEW u \in Threads
        PROVE  /\ log'[u] \cap objects' = {}
               /\ \A v \in Threads \ {u} : log'[u] \cap log'[v] = {}
               /\ \A b \in log'[u] : kind'[b] \notin RcKinds
    BY <1>0, <1>1, <1>2 DEF Registry
  <2> QED  BY <1>0, <1>1, <1>4, <1>10, <2>1, <2>2 DEF Registry
<1> QED  BY <1>4, <1>7, <1>8, <1>9, <1>10, <1>11 DEF Structure

\* The structure holds in the empty heap ...
LEMMA StructureInit == Init => Structure
<1> SUFFICES ASSUME Init  PROVE Structure
  OBVIOUS
<1>1. \A t \in Threads : stack[t] = <<>> /\ lfree[t] = <<>> /\ tlab[t] = {} /\ log[t] = {} /\ Frames(t) = {}
  BY DEF Init, Frames
<1>2. AllFrames = {} /\ GcObjs = {}
  BY <1>1 DEF AllFrames, GcObjs
<1>3. (CHOOSE k \in Kinds : TRUE) \in Kinds
  BY HeapAssumption
<1>4. <<>> \in Seq(Blocks) /\ <<>> \in Seq(Frame) /\ Len(<<>>) = 0
  OBVIOUS
<1>5. TypeOK
  <2>1. carved \in 0 .. MaxBlocks
    BY HeapAssumption DEF Init
  <2>2. \A t \in Threads : (\E f \in Frames(t) : f.pc = "loop") <=> turn = t
    BY <1>1, HeapAssumption DEF Init
  <2>3. /\ gfree \in Seq(Blocks) /\ lfree \in [Threads -> Seq(Blocks)]
        /\ stack \in [Threads -> Seq(Frame)] /\ kind \in [Blocks -> Kinds]
    BY <1>3, <1>4 DEF Init
  <2> QED  BY <2>1, <2>2, <2>3 DEF Init, TypeOK
<1>6. FrameOK /\ Shape
  <2>1. \A t \in Threads : Len(stack[t]) = 0
    BY <1>1, <1>4
  <2> QED  BY <1>2, <2>1 DEF FrameOK, Shape
<1>7. Registry
  BY <1>1, <1>2 DEF Init, Registry, Registered
<1>8. Allocator
  <2>1. Recycled = {} /\ Range(gfree) = {} /\ IsInjective(gfree)
    BY <1>1, EmptyInjective DEF Init, Recycled
  <2>2. \A t \in Threads : IsInjective(lfree[t]) /\ Cache(t) = {}
    BY <1>1, EmptyInjective DEF Cache
  <2> QED  BY <1>1, <2>1, <2>2 DEF Init, Allocator
<1> QED  BY <1>5, <1>6, <1>7, <1>8 DEF Structure

\* ... and every operation keeps it.
LEMMA StructureStep == Structure /\ [Next]_vars => Structure'
<1> SUFFICES ASSUME Structure, [Next]_vars  PROVE Structure'
  OBVIOUS
<1>1. CASE UNCHANGED vars
  <2>1. /\ UNCHANGED <<carved, gfree, lfree, tlab, used, kind, field, count, objects, log, pending, turn>>
        /\ UNCHANGED <<alive, refs, stack, allocs, gcs, drops, loose, tame, apart>>
    BY <1>1 DEF vars, slabs, gcvars, bounds
  <2>2. /\ TurnHeld' /\ FrameOK' /\ Shape' /\ GcObjs' = GcObjs
        /\ stack' \in [Threads -> Seq(Frame)]
    BY <2>1, SameStack
  <2>3. TypeOK /\ Registry /\ Allocator
    BY DEF Structure
  <2>4. TypeOK'
    BY <2>1, <2>2, <2>3 DEF TypeOK, TurnHeld
  <2>5. Registry'
    BY <2>1, <2>2, <2>3, RegistrySame
  <2>6. Allocator'
    BY <2>1, <2>3, AllocatorSame DEF slabs
  <2> QED  BY <2>2, <2>4, <2>5, <2>6 DEF Structure
<1>2. ASSUME NEW t \in Threads, NEW k \in Kinds, Alloc(t, k)  PROVE Structure'
  BY <1>2, StructureAlloc
<1>3. ASSUME NEW t \in Threads, NEW o \in Blocks, Load(t, o)  PROVE Structure'
  BY <1>3, StructureLoad
<1>4. ASSUME NEW t \in Threads, NEW u \in Threads, NEW x \in Blocks, Share(t, u, x)  PROVE Structure'
  BY <1>4, StructureShare
<1>5. ASSUME NEW t \in Threads, NEW x \in Blocks, Unbind(t, x)  PROVE Structure'
  BY <1>5, StructureUnbind
<1>6. ASSUME NEW t \in Threads, NEW o \in Blocks, NEW x \in Blocks \cup {Null}, Store(t, o, x)
      PROVE  Structure'
  BY <1>6, StructureStore
<1>7. ASSUME NEW t \in Threads, ReleaseKids(t)  PROVE Structure'
  BY <1>7, StructureReleaseKids
<1>8. ASSUME NEW t \in Threads, Reclaim(t)  PROVE Structure'
  BY <1>8, StructureReclaim
<1>9. ASSUME NEW t \in Threads, Collect(t)  PROVE Structure'
  BY <1>9, StructureCollect
<1>10. ASSUME NEW t \in Threads, RunFinalizer(t)  PROVE Structure'
  BY <1>10, StructureRunFinalizer
<1>11. ASSUME NEW t \in Threads, FinalizersDone(t)  PROVE Structure'
  BY <1>11, StructureFinalizersDone
<1>12. ASSUME NEW t \in Threads, FinalizerEnd(t)  PROVE Structure'
  BY <1>12, StructureFinalizerEnd
<1>13. ASSUME NEW t \in Threads, Exit(t)  PROVE Structure'
  BY <1>13, StructureExit
<1> QED  BY <1>1, <1>2, <1>3, <1>4, <1>5, <1>6, <1>7, <1>8, <1>9, <1>10, <1>11, <1>12, <1>13 DEF Next

\* Allocation and the four ways to free keep every block in one place, and the
\* registry, the logs, the finalizer queue and the turn keep their types.
THEOREM HeapTypes == Spec => []TypeOK
<1>1. Structure => TypeOK
  BY DEF Structure
<1> QED  BY <1>1, StructureInit, StructureStep, PTL DEF Spec

\* Every block is carved, and is then in use or on exactly one free list, in
\* one place of it: the allocator never hands out a block twice and no thread
\* allocates from another's cache (heap.rs, the slab allocator).
THEOREM BlocksStayApart == Spec => []BlocksApart
<1>1. Structure => BlocksApart
  BY DEF Structure, Allocator, BlocksApart
<1> QED  BY <1>1, StructureInit, StructureStep, PTL DEF Spec
-----------------------------------------------------------------------------
(* References, counts and destructions, as long as drop bodies are clean.   *)

\* The objects of the frames F, by what their threads do with them, and the
\* frames that hold a reference to x.
DyingOf(F)      == {f.obj : f \in {g \in F : g.pc \in Destroy}}
ObjsOf(F, stg)   == {f.obj : f \in {g \in F : g.pc = stg}}
Holding(F, x)   == {f \in F : x \in f.outer}
Writing(F, x)   == {f \in F : f.pc = "store" /\ f.val = x}
Busy(F)         == ObjsOf(F, "free") \cup ObjsOf(F, "store")
Binding(x)      == {t \in Threads : x \in refs[t]}
Naming(x)       == {o \in used : field[o] = x /\ o \notin Busy(AllFrames)}

Held(x) == Binding(x) # {} \/ Holding(AllFrames, x) # {} \/ Writing(AllFrames, x) # {}

\* An object is destroyed once, and one store at a time waits on its field.
Unique ==
    \A t, u \in Threads : \A i \in 1 .. Len(stack[t]), j \in 1 .. Len(stack[u]) :
        /\ stack[t][i].obj = stack[u][j].obj
        /\ \/ stack[t][i].pc \in Destroy /\ stack[u][j].pc \in Destroy
           \/ stack[t][i].pc = "store" /\ stack[u][j].pc = "store"
        => t = u /\ i = j

DyingOK ==
    \A f \in AllFrames : f.pc \in Destroy =>
        /\ f.obj \in used
        /\ ~f.gc => f.obj \in objects /\ kind[f.obj] \in RcKinds /\ count[f.obj] = 0
        /\ f.pc = "drop" => kind[f.obj] \in DropKinds
        /\ f.pc = "kids" => kind[f.obj] \notin DropKinds

PendingOK == \A x \in pending : kind[x] \in DropKinds

\* What a binding, a suspended frame or a store holds is alive.
HeldOK == \A x \in Blocks : Held(x) => x \in used /\ x \notin Dying /\ x \notin pending

\* A store in progress writes a counted field that still names the value being
\* destroyed, of an object the suspended code holds.
StoreOK ==
    \A t \in Threads : \A i \in 1 .. Len(stack[t]) - 1 :
        LET f == stack[t][i]
            g == stack[t][i + 1]
        IN  f.pc = "store" =>
              /\ Counted(f.obj) /\ field[f.obj] = g.obj
              /\ \/ f.obj \in g.outer
                 \/ i > 1 /\ stack[t][i - 1].pc = "drop" /\ stack[t][i - 1].obj = f.obj

\* A field names an object, and one that is being destroyed or waits for its
\* finalizer only if it is its own or about to be overwritten.
FieldOK ==
    \A o \in used \ ObjsOf(AllFrames, "free") : field[o] # Null =>
        /\ field[o] \in used
        /\ field[o] \in Dying \cup pending => field[o] = o \/ o \in ObjsOf(AllFrames, "store")
        /\ ~Counted(o) => field[o] \in loose

CountOK ==
    \A x \in used \ Dying : Rc(x) => /\ count[x] >= Owners(x)
                                     /\ x \notin loose => count[x] = Owners(x)

DropsOK ==
    /\ \A b \in used : drops[b] = IF b \in ObjsOf(AllFrames, "free") /\ kind[b] \in DropKinds THEN 1 ELSE 0
    /\ \A b \in Recycled : kind[b] \in DropKinds => drops[b] = 1
    /\ \A b \in Blocks : drops[b] <= 1

Safe == /\ Unique /\ DyingOK /\ PendingOK /\ HeldOK
        /\ StoreOK /\ FieldOK /\ CountOK /\ DropsOK

\* The dying cells, by their frames.
LEMMA DyingIs == Dying = DyingOf(AllFrames) /\ Dying' = DyingOf(AllFrames)'
  BY DEF Dying, DyingOf, Destroy

\* tame and apart are histories: once lost, they never come back.
LEMMA CleanFalls == TypeOK /\ [Next]_vars /\ Clean' => Clean
<1> SUFFICES ASSUME TypeOK, [Next]_vars, Clean'  PROVE Clean
  OBVIOUS
<1>1. CASE UNCHANGED vars
  BY <1>1 DEF vars, Clean
<1>2. ASSUME NEW t \in Threads, NEW k \in Kinds, Alloc(t, k)  PROVE Clean
  BY <1>2 DEF Alloc, Clean
<1>3. ASSUME NEW t \in Threads, NEW o \in Blocks, Load(t, o)  PROVE Clean
  BY <1>3 DEF Load, Clean
<1>4. ASSUME NEW t \in Threads, NEW u \in Threads, NEW x \in Blocks, Share(t, u, x)  PROVE Clean
  BY <1>4 DEF Share, Clean
<1>5. ASSUME NEW t \in Threads, NEW x \in Blocks, Unbind(t, x)  PROVE Clean
  BY <1>5 DEF Unbind, Clean
<1>6. ASSUME NEW t \in Threads, NEW o \in Blocks, NEW x \in Blocks \cup {Null}, Store(t, o, x)
      PROVE  Clean
  BY <1>6 DEF Store, Clean
<1>7. ASSUME NEW t \in Threads, ReleaseKids(t)  PROVE Clean
  BY <1>7 DEF ReleaseKids, Clean
<1>8. ASSUME NEW t \in Threads, Reclaim(t)  PROVE Clean
  BY <1>8 DEF Reclaim, Clean
<1>9. ASSUME NEW t \in Threads, Collect(t)  PROVE Clean
  BY <1>9 DEF Collect, Clean
<1>10. ASSUME NEW t \in Threads, RunFinalizer(t)  PROVE Clean
  BY <1>10 DEF RunFinalizer, Clean
<1>11. ASSUME NEW t \in Threads, FinalizersDone(t)  PROVE Clean
  BY <1>11 DEF FinalizersDone, Clean
<1>12. ASSUME NEW t \in Threads, FinalizerEnd(t)  PROVE Clean
  BY <1>12 DEF FinalizerEnd, Clean
<1>13. ASSUME NEW t \in Threads, Exit(t)  PROVE Clean
  BY <1>13 DEF Exit, Clean
<1> QED  BY <1>1, <1>2, <1>3, <1>4, <1>5, <1>6, <1>7, <1>8, <1>9, <1>10, <1>11, <1>12, <1>13 DEF Next

\* Frames added and taken away.
LEMMA AddFrame ==
    ASSUME NEW F, NEW f
    PROVE  /\ DyingOf(F \cup {f}) = DyingOf(F) \cup (IF f.pc \in Destroy THEN {f.obj} ELSE {})
           /\ \A stg : ObjsOf(F \cup {f}, stg) = ObjsOf(F, stg) \cup (IF f.pc = stg THEN {f.obj} ELSE {})
           /\ \A x : Holding(F \cup {f}, x) = Holding(F, x) \cup (IF x \in f.outer THEN {f} ELSE {})
           /\ \A x : Writing(F \cup {f}, x) = Writing(F, x) \cup (IF f.pc = "store" /\ f.val = x THEN {f} ELSE {})
  BY DEF DyingOf, ObjsOf, Holding, Writing

\* Both frames destroy the same object, or both write its field.
Alike(f, g) ==
    /\ f.obj = g.obj
    /\ \/ f.pc \in Destroy /\ g.pc \in Destroy
       \/ f.pc = "store" /\ g.pc = "store"

\* The order of two frames does not matter to whether they are alike.
LEMMA AlikeSymmetric == \A f, g : Alike(f, g) <=> Alike(g, f)
  BY DEF Alike

\* What the set of frames loses with one frame.
LEMMA DropFrame ==
    ASSUME NEW F, NEW f \in F, \A g \in F : Alike(f, g) => g = f
    PROVE  /\ DyingOf(F \ {f}) = DyingOf(F) \ (IF f.pc \in Destroy THEN {f.obj} ELSE {})
           /\ \A stg \in {"free", "store", "drop", "kids"} :
                ObjsOf(F \ {f}, stg) = ObjsOf(F, stg) \ (IF f.pc = stg THEN {f.obj} ELSE {})
           /\ \A x : Holding(F \ {f}, x) = Holding(F, x) \ {f}
           /\ \A x : Writing(F \ {f}, x) = Writing(F, x) \ {f}
<1>1. DyingOf(F \ {f}) = DyingOf(F) \ (IF f.pc \in Destroy THEN {f.obj} ELSE {})
  BY DEF DyingOf, Alike
<1>2. \A stg \in {"free", "store", "drop", "kids"} :
        ObjsOf(F \ {f}, stg) = ObjsOf(F, stg) \ (IF f.pc = stg THEN {f.obj} ELSE {})
  BY DEF ObjsOf, Alike, Destroy
<1> QED  BY <1>1, <1>2 DEF Holding, Writing

\* No cell is destroyed twice at a time, nor written by two frames.
LEMMA OneFrame ==
    ASSUME TypeOK, Unique
    PROVE  \A f, g \in AllFrames : Alike(f, g) => g = f
<1> SUFFICES ASSUME NEW f \in AllFrames, NEW g \in AllFrames, Alike(f, g)  PROVE g = f
  OBVIOUS
<1>1. PICK t \in Threads : \E i \in 1 .. Len(stack[t]) : f = stack[t][i]
  BY FrameAt
<1>2. PICK i \in 1 .. Len(stack[t]) : f = stack[t][i]
  BY <1>1
<1>3. PICK u \in Threads : \E j \in 1 .. Len(stack[u]) : g = stack[u][j]
  BY FrameAt
<1>4. PICK j \in 1 .. Len(stack[u]) : g = stack[u][j]
  BY <1>3
<1>5. t = u /\ i = j
  BY <1>2, <1>4 DEF Unique, Alike
<1> QED  BY <1>2, <1>4, <1>5

\* The frames after a step that removes destructions and stores only.
LEMMA RestackedExact ==
    ASSUME TypeOK, Unique, NEW t \in Threads, NEW s, NEW k, Restacked(t, s, k),
           \A i \in k + 1 .. Len(stack[t]) : stack[t][i].pc \in Destroy \cup {"store"}
    PROVE  AllFrames' = (AllFrames \ {stack[t][i] : i \in k + 1 .. Len(stack[t])})
                        \cup {s[i] : i \in k + 1 .. Len(s)}
<1> DEFINE n == Len(stack[t])
           R == {stack[t][i] : i \in k + 1 .. n}
           N == {s[i] : i \in k + 1 .. Len(s)}
<1>1. /\ stack' \in [Threads -> Seq(Frame)] /\ stack'[t] = s /\ Len(s) \in Nat
      /\ \A u \in Threads \ {t} : stack'[u] = stack[u] /\ Frames(u)' = Frames(u)
      /\ Frames(t)' = {s[i] : i \in 1 .. Len(s)}
      /\ \A f \in AllFrames' : f \in AllFrames \/ \E i \in k + 1 .. Len(s) : f = s[i]
      /\ \A f \in AllFrames : f \in AllFrames' \/ \E i \in k + 1 .. n : f = stack[t][i]
      /\ \A i \in 1 .. Len(s) : s[i] \in AllFrames'
  BY RestackedFrames
<1>2. n \in Nat /\ k \in 0 .. Len(s) /\ k <= n /\ \A i \in 1 .. k : s[i] = stack[t][i]
  BY StackFacts DEF Restacked
<1>3. N \subseteq AllFrames'
  <2>1. \A i \in k + 1 .. Len(s) : i \in 1 .. Len(s)
    BY <1>1, <1>2
  <2> QED  BY <1>1, <2>1
<1>4. ASSUME NEW f \in R, f \in AllFrames'  PROVE f \in N
  <2>1. PICK i \in k + 1 .. n : f = stack[t][i] /\ f.pc \in Destroy \cup {"store"} /\ i \in 1 .. n
    BY <1>2
  <2>2. \A u \in Threads : \A j \in 1 .. Len(stack[u]) : stack[u][j] = f => u = t /\ j = i
    BY <2>1 DEF Unique
  <2>3. \A u \in Threads \ {t} : f \notin Frames(u)'
    <3> SUFFICES ASSUME NEW u \in Threads \ {t}, f \in Frames(u)  PROVE FALSE
      BY <1>1
    <3>1. DOMAIN stack[u] = 1 .. Len(stack[u])
      BY StackFacts
    <3> QED  BY <2>2, <3>1 DEF Frames
  <2>4. f \in Frames(t)'
    <3>1. AllFrames' = UNION {Frames(u)' : u \in Threads}
      BY DEF AllFrames
    <3> QED  BY <1>4, <2>3, <3>1
  <2>5. PICK j \in 1 .. Len(s) : f = s[j]
    BY <1>1, <2>4
  <2>6. j \notin 1 .. k
    <3> SUFFICES ASSUME j \in 1 .. k  PROVE FALSE
      OBVIOUS
    <3>1. stack[t][j] = f /\ j \in 1 .. Len(stack[t])
      BY <1>2, <2>5
    <3>2. j = i /\ i > k
      BY <1>2, <2>1, <2>2, <3>1
    <3> QED  BY <1>2, <3>2
  <2> QED  BY <1>1, <1>2, <2>5, <2>6
<1> HIDE DEF n
<1>5. \A f \in AllFrames' : f \in (AllFrames \ R) \cup N
  BY <1>1, <1>4
<1>6. \A f \in AllFrames \ R : f \in AllFrames'
  BY <1>1
<1> QED  BY <1>3, <1>5, <1>6 DEF n

\* New frames destroy, or write to, objects no kept frame does.
LEMMA UniqueStep ==
    ASSUME TypeOK, Unique, NEW t \in Threads, NEW s, NEW k, Restacked(t, s, k),
           \A i \in k + 1 .. Len(s) : \A j \in 1 .. Len(s) : Alike(s[i], s[j]) => i = j,
           \A i \in k + 1 .. Len(s) : \A u \in Threads \ {t} : \A j \in 1 .. Len(stack[u]) :
               ~Alike(s[i], stack[u][j])
    PROVE  Unique'
<1>1. /\ stack'[t] = s /\ Len(s) \in Nat
      /\ \A u \in Threads \ {t} : stack'[u] = stack[u]
  BY RestackedFrames
<1>2. Len(stack[t]) \in Nat /\ k \in 0 .. Len(s) /\ k <= Len(stack[t]) /\ \A i \in 1 .. k : s[i] = stack[t][i]
  BY StackFacts DEF Restacked
<1>3. \A i \in 1 .. Len(s) : i \in k + 1 .. Len(s) \/ (i \in 1 .. k /\ i \in 1 .. Len(stack[t]))
  BY <1>1, <1>2
<1>4. ASSUME NEW u \in Threads, NEW v \in Threads, NEW i \in 1 .. Len(stack'[u]), NEW j \in 1 .. Len(stack'[v]),
             Alike(stack'[u][i], stack'[v][j])
      PROVE  u = v /\ i = j
  <2>1. CASE u = t /\ v = t
    <3>1. CASE i \in k + 1 .. Len(s) \/ j \in k + 1 .. Len(s)
      BY <1>1, <1>4, <2>1, <3>1 DEF Alike
    <3>2. CASE ~(i \in k + 1 .. Len(s) \/ j \in k + 1 .. Len(s))
      <4>1. i \in 1 .. k /\ j \in 1 .. k /\ i \in 1 .. Len(stack[t]) /\ j \in 1 .. Len(stack[t])
        BY <1>1, <1>3, <2>1, <3>2
      <4>2. Alike(stack[t][i], stack[t][j])
        BY <1>1, <1>2, <1>4, <2>1, <4>1
      <4> QED  BY <2>1, <4>1, <4>2 DEF Unique, Alike
    <3> QED  BY <3>1, <3>2
  <2>2. CASE u = t /\ v # t
    <3>1. i \in 1 .. k /\ i \in 1 .. Len(stack[t])
      BY <1>1, <1>3, <1>4, <2>2
    <3>2. Alike(stack[t][i], stack[v][j]) /\ j \in 1 .. Len(stack[v])
      BY <1>1, <1>2, <1>4, <2>2, <3>1
    <3> QED  BY <2>2, <3>1, <3>2 DEF Unique, Alike
  <2>3. CASE u # t /\ v = t
    <3>1. Alike(stack'[v][j], stack'[u][i])
      BY <1>4 DEF Alike
    <3>2. j \in 1 .. k /\ j \in 1 .. Len(stack[t])
      BY <1>1, <1>3, <2>3, <3>1
    <3>3. Alike(stack[t][j], stack[u][i]) /\ i \in 1 .. Len(stack[u])
      BY <1>1, <1>2, <2>3, <3>1, <3>2
    <3> QED  BY <2>3, <3>2, <3>3 DEF Unique, Alike
  <2>4. CASE u # t /\ v # t
    <3>1. Alike(stack[u][i], stack[v][j]) /\ i \in 1 .. Len(stack[u]) /\ j \in 1 .. Len(stack[v])
      BY <1>1, <1>4, <2>4
    <3> QED  BY <3>1 DEF Unique, Alike
  <2> QED  BY <2>1, <2>2, <2>3, <2>4
<1> QED  BY <1>4 DEF Unique, Alike
-----------------------------------------------------------------------------
(* Counting references.                                                    *)

\* One more element.
LEMMA CardPlus ==
    ASSUME NEW S, IsFiniteSet(S), NEW e, e \notin S
    PROVE  /\ Cardinality(S \cup {e}) = Cardinality(S) + 1
           /\ Cardinality(S) \in Nat /\ Cardinality(S \cup {e}) \in Nat /\ IsFiniteSet(S \cup {e})
  BY FS_AddElement, FS_CardinalityType

\* One element less.
LEMMA CardMinus ==
    ASSUME NEW S, IsFiniteSet(S), NEW e \in S
    PROVE  /\ Cardinality(S \ {e}) = Cardinality(S) - 1
           /\ Cardinality(S) \in Nat \ {0} /\ Cardinality(S \ {e}) \in Nat /\ IsFiniteSet(S \ {e})
<1>1. IsFiniteSet(S \ {e}) /\ Cardinality(S \ {e}) = Cardinality(S) - 1
  BY FS_RemoveElement
<1>2. Cardinality(S) \in Nat /\ Cardinality(S \ {e}) \in Nat
  BY <1>1, FS_CardinalityType
<1> QED  BY <1>1, <1>2

\* A thread's bindings are put aside in a frame, or come back from it.
LEMMA PutAside ==
    ASSUME NEW B, NEW H, IsFiniteSet(B), IsFiniteSet(H), NEW t, NEW f, f \notin H
    PROVE  Cardinality(B \ {t}) + Cardinality(H \cup (IF t \in B THEN {f} ELSE {}))
           = Cardinality(B) + Cardinality(H)
<1>0. Cardinality(B) \in Nat /\ Cardinality(H) \in Nat
  BY FS_CardinalityType
<1>1. CASE t \in B
  <2>1. Cardinality(B \ {t}) = Cardinality(B) - 1 /\ Cardinality(H \cup {f}) = Cardinality(H) + 1
    BY <1>1, CardPlus, CardMinus
  <2> QED  BY <1>0, <1>1, <2>1
<1>2. CASE t \notin B
  <2>1. B \ {t} = B /\ H \cup {} = H
    BY <1>2
  <2> QED  BY <1>0, <1>2, <2>1
<1> QED  BY <1>1, <1>2

\* The references put aside while a destructor runs come back when it ends.
LEMMA TakeBack ==
    ASSUME NEW B, NEW H, IsFiniteSet(B), IsFiniteSet(H), NEW t, NEW f, t \notin B
    PROVE  Cardinality(B \cup (IF f \in H THEN {t} ELSE {})) + Cardinality(H \ {f})
           = Cardinality(B) + Cardinality(H)
<1>0. Cardinality(B) \in Nat /\ Cardinality(H) \in Nat
  BY FS_CardinalityType
<1>1. CASE f \in H
  <2>1. Cardinality(H \ {f}) = Cardinality(H) - 1 /\ Cardinality(B \cup {t}) = Cardinality(B) + 1
    BY <1>1, CardPlus, CardMinus
  <2> QED  BY <1>0, <1>1, <2>1
<1>2. CASE f \notin H
  <2>1. H \ {f} = H /\ B \cup {} = B
    BY <1>2
  <2> QED  BY <1>0, <1>2, <2>1
<1> QED  BY <1>1, <1>2

\* One frame in the place of another.
LEMMA Exchanged ==
    ASSUME NEW H, IsFiniteSet(H), NEW f, NEW g, g \notin H
    PROVE  Cardinality((H \ {f}) \cup (IF f \in H THEN {g} ELSE {})) = Cardinality(H)
<1>0. Cardinality(H) \in Nat
  BY FS_CardinalityType
<1>1. CASE f \in H
  <2>1. Cardinality(H \ {f}) = Cardinality(H) - 1 /\ IsFiniteSet(H \ {f})
    BY <1>1, CardMinus
  <2>2. Cardinality((H \ {f}) \cup {g}) = Cardinality(H \ {f}) + 1
    BY <2>1, CardPlus
  <2> QED  BY <1>0, <1>1, <2>1, <2>2
<1>2. CASE f \notin H
  <2>1. (H \ {f}) \cup {} = H
    BY <1>2
  <2> QED  BY <1>2, <2>1
<1> QED  BY <1>1, <1>2

\* There are finitely many frames.
LEMMA FramesFinite == TypeOK => IsFiniteSet(AllFrames)
<1> SUFFICES ASSUME TypeOK  PROVE IsFiniteSet(AllFrames)
  OBVIOUS
<1>1. ASSUME NEW t \in Threads  PROVE IsFiniteSet(Frames(t))
  <2>1. DOMAIN stack[t] = 1 .. Len(stack[t]) /\ Len(stack[t]) \in Nat /\ stack[t] \in Seq(Frame)
    BY StackFacts
  <2>2. IsFiniteSet(1 .. Len(stack[t]))
    BY <2>1, FS_Interval
  <2>3. Frames(t) = {stack[t][i] : i \in 1 .. Len(stack[t])}
    BY <2>1 DEF Frames
  <2>4. stack[t] \in [1 .. Len(stack[t]) -> Frames(t)]
    BY <2>1, <2>3
  <2>5. \A f \in Frames(t) : \E i \in 1 .. Len(stack[t]) : stack[t][i] = f
    BY <2>3
  <2>6. stack[t] \in Surjection(1 .. Len(stack[t]), Frames(t))
    BY <2>4, <2>5, Fun_IsSurj
  <2> QED  BY <2>2, <2>6, FS_Surjection
<1>2. IsFiniteSet({Frames(t) : t \in Threads})
  <2> DEFINE F == [t \in Threads |-> Frames(t)]
             T == {Frames(t) : t \in Threads}
  <2>1. F \in [Threads -> T] /\ \A S \in T : \E t \in Threads : F[t] = S
    OBVIOUS
  <2> HIDE DEF F, T
  <2>2. F \in Surjection(Threads, T)
    BY <2>1, Fun_IsSurj
  <2>3. IsFiniteSet(T)
    BY <2>2, HeapAssumption, FS_Surjection
  <2> QED  BY <2>3 DEF T
<1>3. \A S \in {Frames(t) : t \in Threads} : IsFiniteSet(S)
  BY <1>1
<1> QED  BY <1>2, <1>3, FS_UNION DEF AllFrames

\* The four kinds of references to x.
RefSets(x) ==
    /\ IsFiniteSet(Binding(x)) /\ IsFiniteSet(Holding(AllFrames, x))
    /\ IsFiniteSet(Writing(AllFrames, x)) /\ IsFiniteSet(Naming(x))
    /\ Cardinality(Binding(x)) \in Nat /\ Cardinality(Holding(AllFrames, x)) \in Nat
    /\ Cardinality(Writing(AllFrames, x)) \in Nat /\ Cardinality(Naming(x)) \in Nat
    /\ Owners(x) = Cardinality(Binding(x)) + Cardinality(Holding(AllFrames, x))
                   + Cardinality(Writing(AllFrames, x)) + Cardinality(Naming(x))

\* The owners of a cell are finitely many, and are those of the four kinds.
LEMMA OwnersAre == TypeOK => \A x : RefSets(x)
<1> SUFFICES ASSUME TypeOK, NEW x  PROVE RefSets(x)
  OBVIOUS
<1>1. IsFiniteSet(AllFrames) /\ IsFiniteSet(Threads) /\ IsFiniteSet(Blocks) /\ used \subseteq Blocks
  <2>1. IsFiniteSet(Blocks)
    BY HeapAssumption, FS_Interval DEF Blocks
  <2> QED  BY <2>1, FramesFinite, HeapAssumption DEF TypeOK
<1>2. /\ Binding(x) \subseteq Threads /\ Holding(AllFrames, x) \subseteq AllFrames
      /\ Writing(AllFrames, x) \subseteq AllFrames /\ Naming(x) \subseteq Blocks
  BY <1>1 DEF Binding, Holding, Writing, Naming
<1>3. /\ IsFiniteSet(Binding(x)) /\ IsFiniteSet(Holding(AllFrames, x))
      /\ IsFiniteSet(Writing(AllFrames, x)) /\ IsFiniteSet(Naming(x))
  BY <1>1, <1>2, FS_Subset
<1>4. Naming(x) = {o \in used : /\ field[o] = x
                                /\ ~ \E f \in AllFrames : f.pc \in {"free", "store"} /\ f.obj = o}
  BY DEF Naming, Busy, ObjsOf
<1>5. Owners(x) = Cardinality(Binding(x)) + Cardinality(Holding(AllFrames, x))
                  + Cardinality(Writing(AllFrames, x)) + Cardinality(Naming(x))
  BY <1>4 DEF Owners, Binding, Holding, Writing
<1> QED  BY <1>3, <1>5, FS_CardinalityType DEF RefSets

\* The same in the next state.
LEMMA OwnersNext == TypeOK' => \A x : RefSets(x)'
<1>1. (TypeOK => \A x : RefSets(x))'
  BY OwnersAre, PTL
<1> QED  BY <1>1
-----------------------------------------------------------------------------
(* What the invariant says about a store, a destruction and a reference.   *)

\* A store waits below the destruction of the value that its field names.
LEMMA StoreAt ==
    ASSUME Structure, StoreOK, NEW t \in Threads, NEW i \in 1 .. Len(stack[t]), stack[t][i].pc = "store"
    PROVE  /\ i \in 1 .. Len(stack[t]) - 1 /\ i + 1 \in 1 .. Len(stack[t])
           /\ stack[t][i + 1].pc \in Destroy /\ ~stack[t][i + 1].gc
           /\ Counted(stack[t][i].obj) /\ field[stack[t][i].obj] = stack[t][i + 1].obj
           /\ \/ stack[t][i].obj \in stack[t][i + 1].outer
              \/ /\ i > 1 /\ i - 1 \in 1 .. Len(stack[t]) /\ stack[t][i - 1].pc = "drop"
                 /\ stack[t][i - 1].obj = stack[t][i].obj
<1>1. TypeOK /\ Shape
  BY DEF Structure
<1>2. Len(stack[t]) \in Nat
  BY <1>1, StackFacts
<1>3. i # Len(stack[t])
  BY <1>1, <1>2 DEF Shape, Tops
<1>4. i \in 1 .. Len(stack[t]) - 1 /\ i + 1 \in 1 .. Len(stack[t])
  BY <1>2, <1>3
<1>5. Above(stack[t][i], stack[t][i + 1])
  BY <1>1, <1>4 DEF Shape
<1>6. /\ Counted(stack[t][i].obj) /\ field[stack[t][i].obj] = stack[t][i + 1].obj
      /\ \/ stack[t][i].obj \in stack[t][i + 1].outer
         \/ i > 1 /\ stack[t][i - 1].pc = "drop" /\ stack[t][i - 1].obj = stack[t][i].obj
  BY <1>4 DEF StoreOK
<1>7. i > 1 => i - 1 \in 1 .. Len(stack[t])
  BY <1>2
<1> QED  BY <1>4, <1>5, <1>6, <1>7 DEF Above

\* The object of a destruction, seen from its one frame.
LEMMA DyingFacts ==
    ASSUME Structure, Safe, NEW f \in AllFrames, f.pc \in Destroy
    PROVE  /\ f.obj \in used /\ f.obj \in Dying /\ f.obj \notin pending /\ f.obj \in Blocks
           /\ \A g \in AllFrames : g.pc \in Destroy /\ g.obj = f.obj => g = f
           /\ f.pc # "free" => f.obj \notin ObjsOf(AllFrames, "free")
<1>0. Registry /\ TypeOK
  BY DEF Structure
<1>1. f.obj \in used /\ f.obj \in Dying
  BY DEF Safe, DyingOK, Dying, Destroy
<1>2. \A g \in AllFrames : g.pc \in Destroy /\ g.obj = f.obj => g = f
  BY OneFrame DEF Structure, Safe, Alike
<1>3. f.pc # "free" => f.obj \notin ObjsOf(AllFrames, "free")
  BY <1>2 DEF ObjsOf, Destroy
<1>4. f.obj \notin pending
  <2>1. CASE f.gc
    <3>1. f.pc = "drop"
      BY <2>1 DEF Structure, FrameOK, FrameFits, Destroy
    <3>2. f.obj \in GcObjs
      BY <2>1, <3>1 DEF GcObjs
    <3> QED  BY <1>0, <3>2 DEF Registry
  <2>2. CASE ~f.gc
    <3>1. f.obj \in objects
      BY <2>2 DEF Safe, DyingOK
    <3> QED  BY <1>0, <3>1 DEF Registry, Registered
  <2> QED  BY <2>1, <2>2
<1>5. f.obj \in Blocks
  BY <1>0, <1>1 DEF TypeOK
<1> QED  BY <1>1, <1>2, <1>3, <1>4, <1>5

\* The objects that wait for a store.
LEMMA StoreFacts ==
    ASSUME Structure, Safe, NEW f \in AllFrames, f.pc = "store"
    PROVE  /\ f.obj \in used /\ f.obj \notin ObjsOf(AllFrames, "free") /\ f.obj \notin pending
           /\ Counted(f.obj) /\ field[f.obj] \in Dying
<1>0. TypeOK /\ StoreOK
  BY DEF Structure, Safe
<1>1. PICK t \in Threads : \E i \in 1 .. Len(stack[t]) : f = stack[t][i]
  BY <1>0, FrameAt
<1>2. PICK i \in 1 .. Len(stack[t]) : f = stack[t][i]
  BY <1>1
<1> DEFINE g == stack[t][i + 1]
<1>3. /\ i \in 1 .. Len(stack[t]) - 1 /\ i + 1 \in 1 .. Len(stack[t])
      /\ g.pc \in Destroy /\ Counted(f.obj) /\ field[f.obj] = g.obj
      /\ \/ f.obj \in g.outer
         \/ /\ i > 1 /\ i - 1 \in 1 .. Len(stack[t]) /\ stack[t][i - 1].pc = "drop"
            /\ stack[t][i - 1].obj = f.obj
  BY <1>0, <1>2, StoreAt
<1>4. g \in AllFrames /\ g \in Frame
  BY <1>0, <1>3, StackFacts
<1> HIDE DEF g
<1>5. field[f.obj] \in Dying
  BY <1>3, <1>4 DEF Dying, Destroy
<1>6. CASE f.obj \in g.outer
  <2>1. f.obj \in Blocks /\ Held(f.obj)
    BY <1>4, <1>6 DEF Held, Holding, Frame
  <2>2. f.obj \in used /\ f.obj \notin Dying /\ f.obj \notin pending
    BY <2>1 DEF Safe, HeldOK
  <2>3. ObjsOf(AllFrames, "free") \subseteq Dying
    BY DEF ObjsOf, Dying
  <2> QED  BY <1>3, <1>5, <2>2, <2>3
<1>7. CASE i > 1 /\ i - 1 \in 1 .. Len(stack[t]) /\ stack[t][i - 1].pc = "drop" /\ stack[t][i - 1].obj = f.obj
  <2>1. stack[t][i - 1] \in AllFrames /\ stack[t][i - 1].pc \in Destroy /\ stack[t][i - 1].pc # "free"
    BY <1>0, <1>7, StackFacts DEF Destroy
  <2> QED  BY <1>3, <1>5, <1>7, <2>1, DyingFacts
<1> QED  BY <1>3, <1>6, <1>7

\* Nothing writes to the object that a thread destroys at the top of its stack,
\* and only the store below names it.
LEMMA TopDies ==
    ASSUME Structure, Safe, NEW t \in Threads, stack[t] # <<>>, Top(t).pc \in Destroy
    PROVE  /\ Top(t).obj \notin ObjsOf(AllFrames, "store")
           /\ \A o \in used \ ObjsOf(AllFrames, "free") : field[o] = Top(t).obj =>
                 \/ o = Top(t).obj
                 \/ /\ ~Top(t).gc /\ Len(stack[t]) > 1 /\ stack[t][Len(stack[t]) - 1].pc = "store"
                    /\ stack[t][Len(stack[t]) - 1].obj = o
<1> DEFINE n == Len(stack[t])
<1>0. TypeOK /\ StoreOK /\ Unique
  BY DEF Structure, Safe
<1>1. n \in Nat /\ n \in 1 .. n /\ Top(t) = stack[t][n] /\ Top(t) \in AllFrames
  BY <1>0, StackFacts
<1>2. ASSUME NEW u \in Threads, NEW i \in 1 .. Len(stack[u]), stack[u][i].pc \in Destroy,
             stack[u][i].obj = Top(t).obj
      PROVE  u = t /\ i = n
  BY <1>0, <1>1, <1>2 DEF Unique
<1>3. Top(t).obj \notin ObjsOf(AllFrames, "store")
  <2> SUFFICES ASSUME NEW f \in AllFrames, f.pc = "store", f.obj = Top(t).obj  PROVE FALSE
    BY DEF ObjsOf
  <2>1. PICK u \in Threads : \E i \in 1 .. Len(stack[u]) : f = stack[u][i]
    BY <1>0, FrameAt
  <2>2. PICK i \in 1 .. Len(stack[u]) : f = stack[u][i]
    BY <2>1
  <2>3. /\ i + 1 \in 1 .. Len(stack[u])
        /\ \/ f.obj \in stack[u][i + 1].outer
           \/ i - 1 \in 1 .. Len(stack[u]) /\ stack[u][i - 1].pc = "drop" /\ stack[u][i - 1].obj = f.obj
    BY <1>0, <2>2, StoreAt
  <2>4. CASE f.obj \in stack[u][i + 1].outer
    <3>1. stack[u][i + 1] \in AllFrames
      BY <1>0, <2>3, StackFacts
    <3>2. f.obj \in Blocks /\ f.obj \in Dying
      BY <1>1, DyingFacts
    <3>3. Held(f.obj)
      BY <2>4, <3>1 DEF Held, Holding
    <3> QED  BY <3>2, <3>3 DEF Safe, HeldOK
  <2>5. CASE i - 1 \in 1 .. Len(stack[u]) /\ stack[u][i - 1].pc = "drop" /\ stack[u][i - 1].obj = f.obj
    <3>1. u = t /\ i - 1 = n
      BY <1>2, <2>5 DEF Destroy
    <3> QED  BY <1>1, <2>2, <3>1
  <2> QED  BY <2>3, <2>4, <2>5
<1>4. ASSUME NEW o \in used \ ObjsOf(AllFrames, "free"), field[o] = Top(t).obj, o # Top(t).obj
      PROVE  /\ ~Top(t).gc /\ n > 1 /\ stack[t][n - 1].pc = "store"
             /\ stack[t][n - 1].obj = o
  <2>1. Top(t).obj \in Dying /\ Top(t).obj \in Blocks
    BY <1>1, DyingFacts
  <2>2. field[o] # Null
    BY <1>4, <2>1, HeapAssumption
  <2>3. o \in ObjsOf(AllFrames, "store")
    BY <1>4, <2>1, <2>2 DEF Safe, FieldOK
  <2>4. PICK f \in AllFrames : f.pc = "store" /\ f.obj = o
    BY <2>3 DEF ObjsOf
  <2>5. PICK u \in Threads : \E i \in 1 .. Len(stack[u]) : f = stack[u][i]
    BY <1>0, FrameAt
  <2>6. PICK i \in 1 .. Len(stack[u]) : f = stack[u][i]
    BY <2>5
  <2>7. /\ i + 1 \in 1 .. Len(stack[u]) /\ stack[u][i + 1].pc \in Destroy /\ ~stack[u][i + 1].gc
        /\ field[o] = stack[u][i + 1].obj
    BY <1>0, <2>4, <2>6, StoreAt
  <2>8. u = t /\ i + 1 = n
    BY <1>2, <1>4, <2>7
  <2>9. i = n - 1 /\ n > 1
    BY <1>1, <2>6, <2>8
  <2> QED  BY <1>1, <2>4, <2>6, <2>7, <2>8, <2>9
<1> QED  BY <1>3, <1>4
\* A counted object that lives is in the registry proper.
LEMMA LiveCounted ==
    ASSUME Structure, NEW x \in used, x \notin Dying, x \notin pending, kind[x] \in RcKinds
    PROVE  x \in objects
<1>1. GcObjs \subseteq Dying
  BY DEF GcObjs, Dying
<1>2. x \in Registered
  BY <1>1 DEF Structure, Registry
<1> QED  BY <1>2 DEF Structure, Registry, Registered

\* What code can name is alive, or is the object its own drop was given.
LEMMA VisibleFacts ==
    ASSUME Structure, Safe, NEW t \in Threads, InCode(t), NEW o \in Blocks, o \in Visible(t)
    PROVE  /\ o \in used /\ o \notin ObjsOf(AllFrames, "free") /\ o \notin pending
           /\ o \in refs[t] \/ (stack[t] # <<>> /\ Top(t).pc = "drop" /\ Top(t).obj = o)
<1>0. TypeOK
  BY DEF Structure
<1>1. o \in refs[t] \/ (stack[t] # <<>> /\ Top(t).pc = "drop" /\ Top(t).obj = o)
  BY DEF Visible, Self, At
<1>2. CASE o \in refs[t]
  <2>1. Held(o)
    BY <1>2 DEF Held, Binding
  <2>2. o \in used /\ o \notin Dying /\ o \notin pending
    BY <2>1 DEF Safe, HeldOK
  <2>3. ObjsOf(AllFrames, "free") \subseteq Dying
    BY DEF ObjsOf, Dying
  <2> QED  BY <1>1, <2>2, <2>3
<1>3. CASE stack[t] # <<>> /\ Top(t).pc = "drop" /\ Top(t).obj = o
  <2>1. Top(t) \in AllFrames /\ Top(t).pc \in Destroy /\ Top(t).pc # "free"
    BY <1>0, <1>3, PopFacts DEF Destroy
  <2> QED  BY <1>1, <1>3, <2>1, DyingFacts
<1> QED  BY <1>1, <1>2, <1>3

\* A field that names no object under destruction names one that lives.
LEMMA FieldLives ==
    ASSUME Structure, Safe, NEW t \in Threads, InCode(t), NEW o \in Blocks, o \in Visible(t),
           field[o] \notin Dying
    PROVE  /\ o \notin ObjsOf(AllFrames, "store") /\ o \notin Busy(AllFrames)
           /\ field[o] # Null => /\ field[o] \in used /\ field[o] \in Blocks /\ field[o] \notin pending
                                 /\ ~Counted(o) => field[o] \in loose
<1>1. o \in used /\ o \notin ObjsOf(AllFrames, "free") /\ o \notin pending
  BY VisibleFacts
<1>2. o \notin ObjsOf(AllFrames, "store")
  <2> SUFFICES ASSUME NEW f \in AllFrames, f.pc = "store", f.obj = o  PROVE FALSE
    BY DEF ObjsOf
  <2> QED  BY StoreFacts
<1>3. ASSUME field[o] # Null
      PROVE  /\ field[o] \in used /\ field[o] \notin pending
             /\ ~Counted(o) => field[o] \in loose
  BY <1>1, <1>2, <1>3 DEF Safe, FieldOK
<1> QED  BY <1>1, <1>2, <1>3 DEF Busy, Structure, TypeOK

\* A reference keeps the count above zero, and a count of one is the reference.
LEMMA Alone ==
    ASSUME Structure, Safe, NEW x \in used, x \notin Dying, kind[x] \in RcKinds
    PROVE  /\ Held(x) \/ Naming(x) # {} => count[x] \in Nat \ {0}
           /\ count[x] = 1 => /\ \A t \in Binding(x) :
                                   /\ Binding(x) = {t} /\ Holding(AllFrames, x) = {}
                                   /\ Writing(AllFrames, x) = {} /\ Naming(x) = {}
                              /\ \A o \in Naming(x) :
                                   /\ Naming(x) = {o} /\ Holding(AllFrames, x) = {}
                                   /\ Writing(AllFrames, x) = {} /\ Binding(x) = {}
<1> DEFINE B == Binding(x)
           H == Holding(AllFrames, x)
           W == Writing(AllFrames, x)
           N == Naming(x)
<1>0. x \in Blocks /\ count[x] \in Nat /\ x # Null
  BY HeapAssumption DEF Structure, TypeOK
<1>1. /\ IsFiniteSet(B) /\ IsFiniteSet(H) /\ IsFiniteSet(W) /\ IsFiniteSet(N)
      /\ Cardinality(B) \in Nat /\ Cardinality(H) \in Nat /\ Cardinality(W) \in Nat /\ Cardinality(N) \in Nat
      /\ Owners(x) = Cardinality(B) + Cardinality(H) + Cardinality(W) + Cardinality(N)
  BY OwnersAre DEF RefSets, Structure
<1>2. count[x] >= Owners(x)
  BY <1>0 DEF Safe, CountOK, Rc
<1>3. Held(x) \/ N # {} <=> B # {} \/ H # {} \/ W # {} \/ N # {}
  BY DEF Held
<1> HIDE DEF B, H, W, N
<1>4. /\ B = {} <=> Cardinality(B) = 0
      /\ H = {} <=> Cardinality(H) = 0
      /\ W = {} <=> Cardinality(W) = 0
      /\ N = {} <=> Cardinality(N) = 0
  BY <1>1, FS_EmptySet
<1>5. Held(x) \/ N # {} => count[x] \in Nat \ {0}
  BY <1>0, <1>1, <1>2, <1>3, <1>4
<1>6. ASSUME count[x] = 1, NEW t \in B  PROVE B = {t} /\ H = {} /\ W = {} /\ N = {}
  <2>1. Cardinality(B \ {t}) = Cardinality(B) - 1 /\ Cardinality(B) \in Nat \ {0} /\ IsFiniteSet(B \ {t})
    BY <1>1, CardMinus
  <2>2. Cardinality(B) = 1 /\ Cardinality(H) = 0 /\ Cardinality(W) = 0 /\ Cardinality(N) = 0
    BY <1>1, <1>2, <1>6, <2>1
  <2>3. B \ {t} = {}
    BY <2>1, <2>2, FS_EmptySet
  <2> QED  BY <1>4, <2>2, <2>3
<1>7. ASSUME count[x] = 1, NEW o \in N  PROVE N = {o} /\ H = {} /\ W = {} /\ B = {}
  <2>1. Cardinality(N \ {o}) = Cardinality(N) - 1 /\ Cardinality(N) \in Nat \ {0} /\ IsFiniteSet(N \ {o})
    BY <1>1, CardMinus
  <2>2. Cardinality(N) = 1 /\ Cardinality(H) = 0 /\ Cardinality(W) = 0 /\ Cardinality(B) = 0
    BY <1>1, <1>2, <1>7, <2>1
  <2>3. N \ {o} = {}
    BY <2>1, <2>2, FS_EmptySet
  <2> QED  BY <1>4, <2>2, <2>3
<1> QED  BY <1>5, <1>6, <1>7 DEF B, H, W, N

\* The stores that a step leaves in place still fit.
LEMMA StoreKept ==
    ASSUME Structure, StoreOK, NEW t \in Threads, NEW s, NEW k, Restacked(t, s, k),
           \A f \in AllFrames : f.pc = "store" /\ f \in AllFrames' =>
               kind'[f.obj] = kind[f.obj] /\ field'[f.obj] = field[f.obj],
           \A i \in 1 .. Len(s) - 1 : i >= k /\ s[i].pc = "store" =>
               /\ kind'[s[i].obj] \notin HolderKinds /\ field'[s[i].obj] = s[i + 1].obj
               /\ \/ s[i].obj \in s[i + 1].outer
                  \/ i > 1 /\ s[i - 1].pc = "drop" /\ s[i - 1].obj = s[i].obj
    PROVE  StoreOK'
<1>0. TypeOK
  BY DEF Structure
<1>1. /\ stack'[t] = s /\ Len(s) \in Nat
      /\ \A u \in Threads \ {t} : stack'[u] = stack[u] /\ Frames(u)' = Frames(u)
      /\ \A i \in 1 .. Len(s) : s[i] \in AllFrames'
  BY <1>0, RestackedFrames
<1>2. Len(stack[t]) \in Nat /\ k \in 0 .. Len(s) /\ k <= Len(stack[t]) /\ \A i \in 1 .. k : s[i] = stack[t][i]
  BY <1>0, StackFacts DEF Restacked
<1>3. ASSUME NEW u \in Threads, NEW i \in 1 .. Len(stack'[u]) - 1, stack'[u][i].pc = "store"
      PROVE  /\ kind'[stack'[u][i].obj] \notin HolderKinds
             /\ field'[stack'[u][i].obj] = stack'[u][i + 1].obj
             /\ \/ stack'[u][i].obj \in stack'[u][i + 1].outer
                \/ i > 1 /\ stack'[u][i - 1].pc = "drop" /\ stack'[u][i - 1].obj = stack'[u][i].obj
  <2>1. CASE u # t
    <3>1. stack'[u] = stack[u] /\ i \in 1 .. Len(stack[u]) - 1 /\ Len(stack[u]) \in Nat
      BY <1>0, <1>1, <1>3, <2>1, StackFacts
    <3>2. i \in 1 .. Len(stack[u])
      BY <3>1
    <3>3. stack[u][i] \in AllFrames /\ stack[u][i] \in Frames(u)
      BY <1>0, <3>2, StackFacts
    <3>4. stack[u][i] \in AllFrames'
      BY <1>1, <2>1, <3>3 DEF AllFrames
    <3>5. /\ Counted(stack[u][i].obj) /\ field[stack[u][i].obj] = stack[u][i + 1].obj
          /\ \/ stack[u][i].obj \in stack[u][i + 1].outer
             \/ i > 1 /\ stack[u][i - 1].pc = "drop" /\ stack[u][i - 1].obj = stack[u][i].obj
      BY <1>3, <3>1 DEF StoreOK
    <3> QED  BY <1>3, <3>1, <3>3, <3>4, <3>5 DEF Counted
  <2>2. CASE u = t /\ i >= k
    BY <1>1, <1>3, <2>2
  <2>3. CASE u = t /\ ~(i >= k)
    <3>1. /\ i \in 1 .. k /\ i + 1 \in 1 .. k /\ i \in 1 .. Len(stack[t]) - 1 /\ i \in 1 .. Len(stack[t])
          /\ i > 1 => i - 1 \in 1 .. k
          /\ i \in 1 .. Len(s)
      BY <1>1, <1>2, <2>3
    <3>2. s[i] = stack[t][i] /\ s[i + 1] = stack[t][i + 1] /\ (i > 1 => s[i - 1] = stack[t][i - 1])
      BY <1>2, <3>1
    <3>3. /\ Counted(stack[t][i].obj) /\ field[stack[t][i].obj] = stack[t][i + 1].obj
          /\ \/ stack[t][i].obj \in stack[t][i + 1].outer
             \/ i > 1 /\ stack[t][i - 1].pc = "drop" /\ stack[t][i - 1].obj = stack[t][i].obj
      BY <1>1, <1>3, <2>3, <3>1, <3>2 DEF StoreOK
    <3>4. stack[t][i] \in AllFrames /\ s[i] \in AllFrames'
      BY <1>0, <1>1, <3>1, StackFacts
    <3> QED  BY <1>1, <1>3, <2>3, <3>2, <3>3, <3>4 DEF Counted
  <2> QED  BY <2>1, <2>2, <2>3
<1> QED  BY <1>3 DEF StoreOK, Counted

\* The suspended writes are as they were if the stacks are.
LEMMA StoreSame ==
    ASSUME Structure, StoreOK, stack' = stack,
           \A f \in AllFrames : f.pc = "store" => kind'[f.obj] = kind[f.obj] /\ field'[f.obj] = field[f.obj]
    PROVE  StoreOK'
<1>0. TypeOK
  BY DEF Structure
<1>1. ASSUME NEW u \in Threads, NEW i \in 1 .. Len(stack[u]) - 1, stack[u][i].pc = "store"
      PROVE  /\ kind'[stack[u][i].obj] \notin HolderKinds
             /\ field'[stack[u][i].obj] = stack[u][i + 1].obj
             /\ \/ stack[u][i].obj \in stack[u][i + 1].outer
                \/ i > 1 /\ stack[u][i - 1].pc = "drop" /\ stack[u][i - 1].obj = stack[u][i].obj
  <2>1. Len(stack[u]) \in Nat
    BY <1>0, StackFacts
  <2>2. i \in 1 .. Len(stack[u])
    BY <2>1
  <2>3. stack[u][i] \in AllFrames
    BY <1>0, <2>2, StackFacts
  <2> QED  BY <1>1, <2>3 DEF StoreOK, Counted
<1> QED  BY <1>1 DEF StoreOK, Counted
-----------------------------------------------------------------------------
(* Every clean step keeps the heap safe.                                   *)

\* The sets of references after a step.
LEMMA Primed ==
    /\ Dying' = DyingOf(AllFrames') /\ Dying = DyingOf(AllFrames)
    /\ \A x : Binding(x)' = {t \in Threads : x \in refs'[t]}
    /\ \A x : Naming(x)' = {o \in used' : field'[o] = x /\ o \notin Busy(AllFrames')}
    /\ \A x : Held(x)' <=> \/ Binding(x)' # {} \/ Holding(AllFrames', x) # {}
                           \/ Writing(AllFrames', x) # {}
  BY DEF Dying, DyingOf, Destroy, Binding, Naming, Busy, ObjsOf, Held, Holding, Writing

\* Counting after a step.
LEMMA CountsNext ==
    ASSUME TypeOK, TypeOK',
           \A x \in used' : x \notin Dying' /\ kind'[x] \in RcKinds =>
               /\ count'[x] >= Cardinality(Binding(x)') + Cardinality(Holding(AllFrames', x))
                               + Cardinality(Writing(AllFrames', x)) + Cardinality(Naming(x)')
               /\ x \notin loose' =>
                    count'[x] = Cardinality(Binding(x)') + Cardinality(Holding(AllFrames', x))
                                + Cardinality(Writing(AllFrames', x)) + Cardinality(Naming(x)')
    PROVE  CountOK'
<1> SUFFICES ASSUME NEW x \in used', x \notin Dying', Rc(x)'
             PROVE  count'[x] >= Owners(x)' /\ (x \notin loose' => count'[x] = Owners(x)')
  BY DEF CountOK
<1>1. RefSets(x)'
  BY OwnersNext
<1>2. Owners(x)' = Cardinality(Binding(x)') + Cardinality(Holding(AllFrames', x))
                   + Cardinality(Writing(AllFrames', x)) + Cardinality(Naming(x)')
  BY <1>1 DEF RefSets, Holding, Writing
<1>3. kind'[x] \in RcKinds
  BY DEF Rc
<1> QED  BY <1>2, <1>3

\* Counting before it.
LEMMA CountsNow ==
    ASSUME Structure, Safe, NEW x \in used, x \notin Dying, kind[x] \in RcKinds
    PROVE  /\ count[x] \in Nat
           /\ IsFiniteSet(Binding(x)) /\ IsFiniteSet(Holding(AllFrames, x))
           /\ IsFiniteSet(Writing(AllFrames, x)) /\ IsFiniteSet(Naming(x))
           /\ Cardinality(Binding(x)) \in Nat /\ Cardinality(Holding(AllFrames, x)) \in Nat
           /\ Cardinality(Writing(AllFrames, x)) \in Nat /\ Cardinality(Naming(x)) \in Nat
           /\ count[x] >= Cardinality(Binding(x)) + Cardinality(Holding(AllFrames, x))
                          + Cardinality(Writing(AllFrames, x)) + Cardinality(Naming(x))
           /\ x \notin loose =>
                count[x] = Cardinality(Binding(x)) + Cardinality(Holding(AllFrames, x))
                           + Cardinality(Writing(AllFrames, x)) + Cardinality(Naming(x))
<1>1. TypeOK /\ CountOK /\ x \in Blocks /\ x # Null /\ count[x] \in Nat
  BY HeapAssumption DEF Structure, Safe, TypeOK
<1>2. RefSets(x)
  BY <1>1, OwnersAre
<1>3. count[x] >= Owners(x) /\ (x \notin loose => count[x] = Owners(x))
  BY <1>1 DEF CountOK, Rc
<1> QED  BY <1>1, <1>2, <1>3 DEF RefSets

\* A step that leaves the stacks alone.
LEMMA StillStack ==
    ASSUME stack' = stack
    PROVE  /\ AllFrames' = AllFrames /\ Dying' = Dying
           /\ Unique => Unique'
           /\ \A x : Holding(AllFrames', x) = Holding(AllFrames, x)
           /\ \A x : Writing(AllFrames', x) = Writing(AllFrames, x)
<1>1. AllFrames' = AllFrames
  BY DEF AllFrames, Frames
<1>2. Dying' = Dying
  BY <1>1 DEF Dying
<1>3. Unique => Unique'
  BY DEF Unique
<1> QED  BY <1>1, <1>2, <1>3

\* Code gets a binding of a live object.
LEMMA SafeBind ==
    ASSUME Structure, Structure', Safe, NEW u \in Threads, NEW x \in Blocks,
           x \in used, x \notin Dying, x \notin pending, x \notin refs[u],
           refs' = [refs EXCEPT ![u] = @ \cup {x}], count' = Retained(count, x),
           UNCHANGED <<slabs, used, kind, field, objects, pending, stack, drops, loose>>
    PROVE  Safe'
<1>0. TypeOK /\ TypeOK' /\ refs \in [Threads -> SUBSET Blocks] /\ x # Null
  BY HeapAssumption DEF Structure, TypeOK
<1>1. /\ AllFrames' = AllFrames /\ Dying' = Dying /\ Unique'
      /\ \A y : Holding(AllFrames', y) = Holding(AllFrames, y)
      /\ \A y : Writing(AllFrames', y) = Writing(AllFrames, y)
      /\ Recycled' = Recycled
  BY StillStack DEF Safe, Recycled, slabs
<1>2. \A y \in Blocks : count'[y] = IF y = x /\ kind[x] \in RcKinds THEN count[y] + 1 ELSE count[y]
  BY <1>0, RetainedType DEF Rc
<1>3. \A y : Binding(y)' = IF y = x THEN Binding(y) \cup {u} ELSE Binding(y)
  BY <1>0, Primed DEF Binding
<1>4. u \notin Binding(x)
  BY DEF Binding
<1>5. \A y : Naming(y)' = Naming(y)
  BY <1>1, Primed DEF Naming
<1>6. DyingOK'
  <2>1. \A f \in AllFrames : f.pc \in Destroy => f.obj \in Dying /\ f.obj \in used /\ f.obj \in Blocks
    BY <1>0, DyingFacts
  <2> QED  BY <1>1, <1>2, <2>1 DEF DyingOK, Safe
<1>7. PendingOK'
  BY DEF PendingOK, Safe
<1>8. HeldOK'
  <2>1. \A y : Held(y)' => Held(y) \/ y = x
    BY <1>1, <1>3, Primed DEF Held
  <2> QED  BY <1>1, <2>1 DEF HeldOK, Safe
<1>9. StoreOK'
  BY StoreSame DEF Safe
<1>10. FieldOK'
  BY <1>1 DEF FieldOK, Safe, ObjsOf, Counted
<1>11. CountOK'
  <2>1. ASSUME NEW y \in used, y \notin Dying, kind[y] \in RcKinds
        PROVE  /\ count'[y] >= Cardinality(Binding(y)') + Cardinality(Holding(AllFrames, y))
                               + Cardinality(Writing(AllFrames, y)) + Cardinality(Naming(y))
               /\ y \notin loose =>
                    count'[y] = Cardinality(Binding(y)') + Cardinality(Holding(AllFrames, y))
                                + Cardinality(Writing(AllFrames, y)) + Cardinality(Naming(y))
    <3>1. /\ count[y] \in Nat /\ IsFiniteSet(Binding(y))
          /\ Cardinality(Binding(y)) \in Nat /\ Cardinality(Holding(AllFrames, y)) \in Nat
          /\ Cardinality(Writing(AllFrames, y)) \in Nat /\ Cardinality(Naming(y)) \in Nat
          /\ count[y] >= Cardinality(Binding(y)) + Cardinality(Holding(AllFrames, y))
                         + Cardinality(Writing(AllFrames, y)) + Cardinality(Naming(y))
          /\ y \notin loose =>
               count[y] = Cardinality(Binding(y)) + Cardinality(Holding(AllFrames, y))
                          + Cardinality(Writing(AllFrames, y)) + Cardinality(Naming(y))
      BY <2>1, CountsNow
    <3>2. y \in Blocks
      BY <1>0 DEF TypeOK
    <3>3. CASE y = x
      <4>1. Cardinality(Binding(y)') = Cardinality(Binding(y)) + 1
        BY <1>3, <1>4, <3>1, <3>3, CardPlus
      <4>2. count'[y] = count[y] + 1
        BY <1>2, <2>1, <3>2, <3>3
      <4> QED  BY <3>1, <4>1, <4>2
    <3>4. CASE y # x
      BY <1>2, <1>3, <3>1, <3>2, <3>4
    <3> QED  BY <3>3, <3>4
  <2> QED  BY <1>0, <1>1, <1>5, <2>1, CountsNext
<1>12. DropsOK'
  BY <1>1 DEF DropsOK, Safe, ObjsOf
<1> QED  BY <1>1, <1>6, <1>7, <1>8, <1>9, <1>10, <1>11, <1>12 DEF Safe

\* A read binds a cell that is alive, and counts the binding.
LEMMA SafeLoad ==
    ASSUME Structure, Safe, Clean', NEW t \in Threads, NEW o \in Blocks, Load(t, o)
    PROVE  Safe'
<1> DEFINE x == field[o]
<1>1. /\ InCode(t) /\ o \in Visible(t) /\ x # Null /\ x \notin refs[t]
      /\ refs' = [refs EXCEPT ![t] = @ \cup {x}] /\ count' = Retained(count, x)
      /\ tame' = (tame /\ x \notin Dying)
      /\ UNCHANGED <<slabs, used, kind, field, objects, pending, stack, drops, loose>>
  BY DEF Load, gcvars
<1>2. x \notin Dying
  BY <1>1 DEF Clean
<1>3. x \in used /\ x \in Blocks /\ x \notin pending
  BY <1>1, <1>2, FieldLives
<1>4. Structure'
  BY StructureLoad
<1> HIDE DEF x
<1> QED  BY <1>1, <1>2, <1>3, <1>4, SafeBind

\* A reference handed over is one of a live cell, and is counted.
LEMMA SafeShare ==
    ASSUME Structure, Safe, NEW t \in Threads, NEW u \in Threads, NEW x \in Blocks, Share(t, u, x)
    PROVE  Safe'
<1>1. /\ x \in refs[t] /\ x \notin refs[u]
      /\ refs' = [refs EXCEPT ![u] = @ \cup {x}] /\ count' = Retained(count, x)
      /\ UNCHANGED <<slabs, used, kind, field, objects, pending, stack, drops, loose>>
  BY DEF Share, gcvars
<1>2. Held(x)
  BY <1>1 DEF Held, Binding
<1>3. x \in used /\ x \notin Dying /\ x \notin pending
  BY <1>2 DEF Safe, HeldOK
<1>4. Structure'
  BY StructureShare
<1> QED  BY <1>1, <1>3, <1>4, SafeBind
\* A new cell has one owner, the variable it is bound to.
LEMMA SafeAlloc ==
    ASSUME Structure, Safe, NEW t \in Threads, NEW k \in Kinds, Alloc(t, k)
    PROVE  Safe'
<1>0. /\ Structure' /\ Block(t) \in Blocks \ used /\ Recycled' \subseteq Recycled
      /\ TypeOK /\ TypeOK' /\ refs \in [Threads -> SUBSET Blocks] /\ used \subseteq Blocks
  BY StructureAlloc DEF Structure, TypeOK
<1>1. PICK b \in Blocks \ used : b = Block(t)
  BY <1>0
<1>2. /\ used' = used \cup {b} /\ kind' = [kind EXCEPT ![b] = k]
      /\ field' = [field EXCEPT ![b] = Null]
      /\ count' = [count EXCEPT ![b] = IF k \in RcKinds THEN 1 ELSE 0]
      /\ objects \subseteq objects' /\ refs' = [refs EXCEPT ![t] = @ \cup {b}]
      /\ drops' = [drops EXCEPT ![b] = 0] /\ loose' = loose \ {b}
      /\ pending' = pending /\ stack' = stack
  BY <1>1 DEF Alloc
<1>3. /\ AllFrames' = AllFrames /\ Dying' = Dying /\ Unique'
      /\ \A y : Holding(AllFrames', y) = Holding(AllFrames, y)
      /\ \A y : Writing(AllFrames', y) = Writing(AllFrames, y)
  BY <1>2, StillStack DEF Safe
<1>4. /\ \A y \in Blocks : y # b => kind'[y] = kind[y] /\ field'[y] = field[y] /\ count'[y] = count[y]
                                    /\ drops'[y] = drops[y]
      /\ kind'[b] = k /\ field'[b] = Null /\ count'[b] = (IF k \in RcKinds THEN 1 ELSE 0) /\ drops'[b] = 0
  BY <1>0, <1>2 DEF TypeOK
<1>5. ~Held(b) /\ b \notin Dying /\ b \notin pending /\ b # Null /\ pending \subseteq used
  <2>1. ~Held(b)
    BY DEF Safe, HeldOK
  <2>2. b \notin Dying
    BY DyingFacts DEF Dying, Destroy
  <2> QED  BY <2>1, <2>2, HeapAssumption DEF Structure, Registry
<1>6. \A f \in AllFrames : f.pc \in Destroy => f.obj \in used /\ f.obj # b
  BY DyingFacts
<1>7. \A f \in AllFrames : f.pc = "store" => f.obj \in used /\ f.obj # b
  BY StoreFacts
<1>8. \A y : Binding(y)' = IF y = b THEN {t} ELSE Binding(y)
  <2>1. Binding(b) = {}
    BY <1>5 DEF Held
  <2>2. Binding(b)' = {t}
    BY <1>0, <1>2, <2>1, Primed DEF Binding
  <2>3. \A y : y # b => Binding(y)' = Binding(y)
    BY <1>0, <1>2, Primed DEF Binding
  <2> QED  BY <2>2, <2>3
<1>9. b \notin Busy(AllFrames)
  BY <1>6, <1>7 DEF Busy, ObjsOf, Destroy
<1>10. Naming(b)' = {} /\ \A y \in Blocks : y # b => Naming(y)' = Naming(y)
  <2>1. ASSUME NEW o \in Naming(b)'  PROVE FALSE
    <3>1. o \in used' /\ field'[o] = b /\ o \notin Busy(AllFrames)
      BY <1>3, <2>1, Primed
    <3>2. o # b
      BY <1>4, <1>5, <3>1
    <3>3. o \in used /\ o \in Blocks /\ field[o] = b
      BY <1>0, <1>2, <1>4, <3>1, <3>2
    <3>4. o \notin ObjsOf(AllFrames, "free")
      BY <3>1 DEF Busy
    <3> QED  BY <1>1, <1>5, <3>3, <3>4 DEF Safe, FieldOK
  <2>2. ASSUME NEW y \in Blocks, y # b  PROVE Naming(y)' = Naming(y)
    <3>1. y # Null
      BY HeapAssumption
    <3>2. \A o \in used' : field'[o] = y <=> o \in used /\ field[o] = y
      BY <1>0, <1>2, <1>4, <3>1
    <3> QED  BY <1>2, <1>3, <3>2, Primed DEF Naming
  <2> QED  BY <2>1, <2>2
<1>11. DyingOK'
  <2>1. \A f \in AllFrames : f.pc \in Destroy => f.obj \in Blocks
    BY <1>0, <1>6
  <2> QED  BY <1>2, <1>3, <1>4, <1>6, <2>1 DEF DyingOK, Safe
<1>12. PendingOK'
  BY <1>0, <1>2, <1>4, <1>5 DEF PendingOK, Safe
<1>13. HeldOK'
  <2>1. \A y : Held(y)' => Held(y) \/ y = b
    BY <1>3, <1>8, Primed DEF Held
  <2> QED  BY <1>2, <1>3, <1>5, <2>1 DEF HeldOK, Safe
<1>14. StoreOK'
  <2>1. \A f \in AllFrames : f.pc = "store" => kind'[f.obj] = kind[f.obj] /\ field'[f.obj] = field[f.obj]
    BY <1>0, <1>4, <1>7
  <2> QED  BY <1>2, <2>1, StoreSame DEF Safe
<1>15. FieldOK'
  <2> SUFFICES ASSUME NEW o \in used', o \notin ObjsOf(AllFrames, "free"), field'[o] # Null
               PROVE  /\ field'[o] \in used'
                      /\ field'[o] \in Dying \cup pending => field'[o] = o \/ o \in ObjsOf(AllFrames, "store")
                      /\ kind'[o] \in HolderKinds => field'[o] \in loose'
    BY <1>2, <1>3 DEF FieldOK, ObjsOf, Counted
  <2>1. o # b /\ o \in used /\ o \in Blocks
    BY <1>0, <1>2, <1>4
  <2>2. field'[o] = field[o] /\ kind'[o] = kind[o]
    BY <1>4, <2>1
  <2>3. /\ field[o] \in used
        /\ field[o] \in Dying \cup pending => field[o] = o \/ o \in ObjsOf(AllFrames, "store")
        /\ ~Counted(o) => field[o] \in loose
    BY <2>1, <2>2 DEF Safe, FieldOK
  <2> QED  BY <1>1, <1>2, <2>2, <2>3 DEF Counted
<1>16. CountOK'
  <2> SUFFICES ASSUME NEW y \in used', y \notin Dying', kind'[y] \in RcKinds
               PROVE  /\ count'[y] >= Cardinality(Binding(y)') + Cardinality(Holding(AllFrames', y))
                                      + Cardinality(Writing(AllFrames', y)) + Cardinality(Naming(y)')
                      /\ y \notin loose' =>
                           count'[y] = Cardinality(Binding(y)') + Cardinality(Holding(AllFrames', y))
                                       + Cardinality(Writing(AllFrames', y)) + Cardinality(Naming(y)')
    BY <1>0, CountsNext
  <2>1. CASE y = b
    <3>1. Holding(AllFrames', y) = {} /\ Writing(AllFrames', y) = {} /\ Naming(y)' = {} /\ Binding(y)' = {t}
      BY <1>3, <1>5, <1>8, <1>10, <2>1 DEF Held
    <3>2. Cardinality({t}) = 1 /\ Cardinality({}) = 0
      BY FS_Singleton, FS_EmptySet
    <3>3. count'[y] = 1
      BY <1>4, <2>1
    <3> QED  BY <3>1, <3>2, <3>3
  <2>2. CASE y # b
    <3>1. y \in used /\ y \in Blocks /\ y \notin Dying /\ kind[y] \in RcKinds
      BY <1>0, <1>2, <1>3, <1>4, <2>2
    <3>2. /\ Holding(AllFrames', y) = Holding(AllFrames, y) /\ Writing(AllFrames', y) = Writing(AllFrames, y)
          /\ Naming(y)' = Naming(y) /\ Binding(y)' = Binding(y) /\ count'[y] = count[y]
          /\ (y \notin loose' => y \notin loose)
      BY <1>2, <1>3, <1>4, <1>8, <1>10, <2>2, <3>1
    <3> QED  BY <3>1, <3>2, CountsNow
  <2> QED  BY <2>1, <2>2
<1>17. DropsOK'
  <2>1. b \notin Recycled'
    BY <1>0, <1>2 DEF Structure, Allocator, Recycled, Cache
  <2>2. Recycled \subseteq Blocks
    <3>1. gfree \in Seq(Blocks) /\ \A u \in Threads : lfree[u] \in Seq(Blocks)
      BY <1>0 DEF TypeOK
    <3> QED  BY <3>1, SeqRange DEF Recycled
  <2>3. b \notin ObjsOf(AllFrames, "free")
    BY <1>9 DEF Busy
  <2> QED  BY <1>0, <1>2, <1>3, <1>4, <2>1, <2>2, <2>3 DEF DropsOK, Safe, ObjsOf
<1> QED  BY <1>3, <1>11, <1>12, <1>13, <1>14, <1>15, <1>16, <1>17 DEF Safe

\* A thread that ends with bindings of its own releases none: what they name is
\* loose from then on.
LEMMA SafeExit ==
    ASSUME Structure, Safe, NEW t \in Threads, Exit(t)
    PROVE  Safe'
<1>0. Structure' /\ Recycled' = Recycled /\ TypeOK /\ TypeOK' /\ refs \in [Threads -> SUBSET Blocks]
  BY StructureExit DEF Structure, TypeOK
<1>1. /\ refs' = [refs EXCEPT ![t] = {}] /\ objects \subseteq objects' /\ loose' = loose \cup refs[t]
      /\ UNCHANGED <<used, kind, field, count, pending, stack, drops>>
  BY DEF Exit
<1>2. /\ AllFrames' = AllFrames /\ Dying' = Dying /\ Unique'
      /\ \A y : Holding(AllFrames', y) = Holding(AllFrames, y)
      /\ \A y : Writing(AllFrames', y) = Writing(AllFrames, y)
  BY <1>1, StillStack DEF Safe
<1>3. \A y : Binding(y)' = Binding(y) \ {t} /\ (y \notin loose' => Binding(y)' = Binding(y))
  BY <1>0, <1>1, Primed DEF Binding
<1>4. \A y : Naming(y)' = Naming(y)
  BY <1>1, <1>2, Primed DEF Naming
<1>5. DyingOK' /\ PendingOK'
  BY <1>1, <1>2 DEF DyingOK, PendingOK, Safe
<1>6. HeldOK'
  <2>1. \A y : Held(y)' => Held(y)
    BY <1>2, <1>3, Primed DEF Held
  <2> QED  BY <1>1, <1>2, <2>1 DEF HeldOK, Safe
<1>7. StoreOK'
  BY <1>1, StoreSame DEF Safe
<1>8. FieldOK'
  BY <1>1, <1>2 DEF FieldOK, Safe, ObjsOf, Counted
<1>9. CountOK'
  <2>1. ASSUME NEW y \in used, y \notin Dying, kind[y] \in RcKinds
        PROVE  /\ count[y] >= Cardinality(Binding(y)') + Cardinality(Holding(AllFrames, y))
                               + Cardinality(Writing(AllFrames, y)) + Cardinality(Naming(y))
               /\ y \notin loose' =>
                    count[y] = Cardinality(Binding(y)') + Cardinality(Holding(AllFrames, y))
                               + Cardinality(Writing(AllFrames, y)) + Cardinality(Naming(y))
    <3>1. /\ count[y] \in Nat /\ IsFiniteSet(Binding(y))
          /\ Cardinality(Binding(y)) \in Nat /\ Cardinality(Holding(AllFrames, y)) \in Nat
          /\ Cardinality(Writing(AllFrames, y)) \in Nat /\ Cardinality(Naming(y)) \in Nat
          /\ count[y] >= Cardinality(Binding(y)) + Cardinality(Holding(AllFrames, y))
                         + Cardinality(Writing(AllFrames, y)) + Cardinality(Naming(y))
          /\ y \notin loose =>
               count[y] = Cardinality(Binding(y)) + Cardinality(Holding(AllFrames, y))
                          + Cardinality(Writing(AllFrames, y)) + Cardinality(Naming(y))
      BY <2>1, CountsNow
    <3>2. Cardinality(Binding(y)') \in Nat /\ Cardinality(Binding(y)') <= Cardinality(Binding(y))
      <4>1. Binding(y)' \subseteq Binding(y)
        BY <1>3
      <4>2. Cardinality(Binding(y)') <= Cardinality(Binding(y)) /\ IsFiniteSet(Binding(y)')
        BY <3>1, <4>1, FS_Subset
      <4> QED  BY <4>2, FS_CardinalityType
    <3> QED  BY <1>1, <1>3, <3>1, <3>2
  <2> QED  BY <1>0, <1>1, <1>2, <1>4, <2>1, CountsNext
<1>10. DropsOK'
  BY <1>0, <1>1, <1>2 DEF DropsOK, Safe, ObjsOf
<1> QED  BY <1>2, <1>5, <1>6, <1>7, <1>8, <1>9, <1>10 DEF Safe
\* A binding ends and its object lives on.
LEMMA SafeUnbindMore ==
    ASSUME Structure, Safe, NEW t \in Threads, NEW x \in Blocks, Unbind(t, x),
           ~(Rc(x) /\ count[x] = 1)
    PROVE  Safe'
<1>0. Structure' /\ TypeOK /\ TypeOK' /\ refs \in [Threads -> SUBSET Blocks] /\ x # Null /\ count \in [Blocks -> Nat]
      /\ used \subseteq Blocks
  BY StructureUnbind, HeapAssumption DEF Structure, TypeOK
<1>1. /\ InCode(t) /\ x \in refs[t] /\ Release(t, x, count, stack[t], refs[t] \ {x})
      /\ UNCHANGED <<slabs, used, kind, field, objects, pending, drops, loose>>
  BY DEF Unbind, gcvars
<1>2. stack[t] \in Seq(Frame) /\ stack \in [Threads -> Seq(Frame)] /\ refs[t] \ {x} \in SUBSET Blocks
      /\ x \in Blocks \cup {Null}
  BY <1>0 DEF TypeOK
<1>3. /\ \A y \in Blocks : count'[y] = IF Rc(x) /\ y = x /\ count[y] > 0 THEN count[y] - 1 ELSE count[y]
      /\ \A u \in Threads \ {t} : refs'[u] = refs[u]
      /\ stack' = stack /\ refs'[t] = refs[t] \ {x}
  <2>1. /\ \A y \in Blocks : count'[y] = IF Rc(x) /\ y = x /\ count[y] > 0 THEN count[y] - 1 ELSE count[y]
        /\ \A u \in Threads \ {t} : refs'[u] = refs[u]
        /\ stack' = [stack EXCEPT ![t] = stack[t]] /\ refs'[t] = refs[t] \ {x}
    BY <1>0, <1>1, <1>2, Released
  <2> QED  BY <1>2, <2>1
<1>4. /\ AllFrames' = AllFrames /\ Dying' = Dying /\ Unique'
      /\ \A y : Holding(AllFrames', y) = Holding(AllFrames, y)
      /\ \A y : Writing(AllFrames', y) = Writing(AllFrames, y)
      /\ Recycled' = Recycled
  BY <1>1, <1>3, StillStack DEF Safe, Recycled, slabs
<1>5. Held(x) /\ t \in Binding(x)
  BY <1>1 DEF Held, Binding
<1>6. x \in used /\ x \notin Dying /\ x \notin pending
  BY <1>5 DEF Safe, HeldOK
<1>7. \A y : Binding(y)' = IF y = x THEN Binding(y) \ {t} ELSE Binding(y)
  BY <1>0, <1>3, Primed DEF Binding
<1>8. \A y : Naming(y)' = Naming(y)
  BY <1>1, <1>4, Primed DEF Naming
<1>9. DyingOK' /\ PendingOK'
  <2>1. \A f \in AllFrames : f.pc \in Destroy => f.obj \in Dying /\ f.obj \in used /\ f.obj \in Blocks
    BY <1>0, DyingFacts
  <2>2. \A f \in AllFrames : f.pc \in Destroy => count'[f.obj] = count[f.obj]
    BY <1>3, <1>6, <2>1
  <2> QED  BY <1>1, <1>4, <2>2 DEF DyingOK, PendingOK, Safe
<1>10. HeldOK'
  <2>1. \A y : Held(y)' => Held(y)
    BY <1>4, <1>7, Primed DEF Held
  <2> QED  BY <1>1, <1>4, <2>1 DEF HeldOK, Safe
<1>11. StoreOK'
  BY <1>1, <1>3, StoreSame DEF Safe
<1>12. FieldOK'
  BY <1>1, <1>4 DEF FieldOK, Safe, ObjsOf, Counted
<1>13. CountOK'
  <2> SUFFICES ASSUME NEW y \in used', y \notin Dying', kind'[y] \in RcKinds
               PROVE  /\ count'[y] >= Cardinality(Binding(y)') + Cardinality(Holding(AllFrames', y))
                                      + Cardinality(Writing(AllFrames', y)) + Cardinality(Naming(y)')
                      /\ y \notin loose' =>
                           count'[y] = Cardinality(Binding(y)') + Cardinality(Holding(AllFrames', y))
                                       + Cardinality(Writing(AllFrames', y)) + Cardinality(Naming(y)')
    BY <1>0, CountsNext
  <2>1. y \in used /\ y \in Blocks /\ y \notin Dying /\ kind[y] \in RcKinds /\ loose' = loose
    BY <1>0, <1>1, <1>4
  <2>2. /\ count[y] \in Nat /\ IsFiniteSet(Binding(y))
        /\ Cardinality(Binding(y)) \in Nat /\ Cardinality(Holding(AllFrames, y)) \in Nat
        /\ Cardinality(Writing(AllFrames, y)) \in Nat /\ Cardinality(Naming(y)) \in Nat
        /\ count[y] >= Cardinality(Binding(y)) + Cardinality(Holding(AllFrames, y))
                       + Cardinality(Writing(AllFrames, y)) + Cardinality(Naming(y))
        /\ y \notin loose =>
             count[y] = Cardinality(Binding(y)) + Cardinality(Holding(AllFrames, y))
                        + Cardinality(Writing(AllFrames, y)) + Cardinality(Naming(y))
    BY <2>1, CountsNow
  <2>3. CASE y = x
    <3>1. Cardinality(Binding(y)') = Cardinality(Binding(y)) - 1 /\ Cardinality(Binding(y)) \in Nat \ {0}
      BY <1>5, <1>7, <2>2, <2>3, CardMinus
    <3>2. count'[y] = count[y] - 1
      <4>1. count[y] # 0
        BY <2>2, <3>1
      <4> QED  BY <1>0, <1>3, <2>1, <2>2, <2>3, <4>1 DEF Rc
    <3> QED  BY <1>4, <1>8, <2>1, <2>2, <3>1, <3>2
  <2>4. CASE y # x
    BY <1>3, <1>4, <1>7, <1>8, <2>1, <2>2, <2>4
  <2> QED  BY <2>3, <2>4
<1>14. DropsOK'
  BY <1>1, <1>4 DEF DropsOK, Safe, ObjsOf
<1> QED  BY <1>4, <1>9, <1>10, <1>11, <1>12, <1>13, <1>14 DEF Safe

\* A frame pushed on a stack whose top is no store.
LEMMA PushedFrame ==
    ASSUME Structure, Safe, NEW t \in Threads, NEW f \in Frame,
           stack[t] = <<>> \/ Top(t).pc # "store",
           stack' = [stack EXCEPT ![t] = Append(stack[t], f)],
           f.pc \in Destroy, f.obj \notin Dying,
           \A g \in AllFrames : g.pc = "store" => kind'[g.obj] = kind[g.obj] /\ field'[g.obj] = field[g.obj]
    PROVE  /\ AllFrames' = AllFrames \cup {f} /\ f \notin AllFrames
           /\ Unique' /\ StoreOK'
<1> DEFINE s == Append(stack[t], f)
           n == Len(stack[t])
<1>0. TypeOK /\ Unique /\ StoreOK
  BY DEF Structure, Safe
<1>1. /\ Restacked(t, s, n) /\ n \in Nat /\ Len(s) = n + 1 /\ s[n + 1] = f
      /\ \A i \in 1 .. n : s[i] = stack[t][i]
  BY <1>0, PushTo
<1>2. /\ \A i \in 1 .. n : stack[t][i] \in AllFrames
      /\ n # 0 => Top(t) = stack[t][n] /\ stack[t] # <<>>
  BY <1>0, StackFacts
<1>3. \A u \in Threads : \A i \in 1 .. Len(stack[u]) : stack[u][i] \in AllFrames
  BY <1>0, StackFacts
<1> HIDE DEF s, n
<1>4. \A g \in AllFrames : ~Alike(f, g)
  BY DEF Alike, Dying, Destroy
<1>5. f \notin AllFrames
  BY DEF Dying, Destroy
<1>6. \A i \in n + 1 .. Len(s) : i = n + 1 /\ s[i] = f
  BY <1>1
<1>7. Unique'
  <2>1. \A i \in n + 1 .. Len(s) : \A j \in 1 .. Len(s) : Alike(s[i], s[j]) => i = j
    <3> SUFFICES ASSUME NEW j \in 1 .. Len(s), Alike(f, s[j])  PROVE j = n + 1
      BY <1>6
    <3>1. CASE j \in 1 .. n
      BY <1>1, <1>2, <1>4, <3>1
    <3>2. CASE j \notin 1 .. n
      BY <1>1, <3>2
    <3> QED  BY <3>1, <3>2
  <2>2. \A i \in n + 1 .. Len(s) : \A u \in Threads \ {t} : \A j \in 1 .. Len(stack[u]) : ~Alike(s[i], stack[u][j])
    BY <1>3, <1>4, <1>6
  <2> QED  BY <1>0, <1>1, <2>1, <2>2, UniqueStep
<1>8. AllFrames' = AllFrames \cup {f}
  <2>1. \A i \in n + 1 .. Len(stack[t]) : FALSE
    BY <1>1 DEF n
  <2>2. AllFrames' = (AllFrames \ {stack[t][i] : i \in n + 1 .. Len(stack[t])}) \cup {s[i] : i \in n + 1 .. Len(s)}
    BY <1>0, <1>1, <2>1, RestackedExact
  <2>3. {s[i] : i \in n + 1 .. Len(s)} = {f}
    BY <1>1, <1>6
  <2> QED  BY <2>1, <2>2, <2>3
<1>9. StoreOK'
  <2>1. \A i \in 1 .. Len(s) - 1 : i >= n => s[i].pc # "store"
    <3> SUFFICES ASSUME NEW i \in 1 .. Len(s) - 1, i >= n  PROVE s[i].pc # "store"
      OBVIOUS
    <3>1. i = n /\ i \in 1 .. n /\ n # 0
      BY <1>1
    <3> QED  BY <1>1, <1>2, <3>1
  <2> QED  BY <1>0, <1>1, <2>1, StoreKept
<1> QED  BY <1>5, <1>7, <1>8, <1>9
\* A destruction of x starts: nobody refers to x any more but x itself, the code
\* that ends and stores under way, and the thread's bindings are put aside.
LEMMA SafeDestroy ==
    ASSUME Structure, Structure', Safe, NEW t \in Threads, NEW f \in Frame, NEW x \in used,
           stack[t] = <<>> \/ Top(t).pc # "store",
           stack' = [stack EXCEPT ![t] = Append(stack[t], f)],
           refs' = [refs EXCEPT ![t] = {}],
           f.pc = (IF kind[x] \in DropKinds THEN "drop" ELSE "kids"), f.obj = x, f.outer = refs[t] \ {x},
           x \notin Dying, ~f.gc => x \in objects /\ kind[x] \in RcKinds /\ count'[x] = 0,
           \A y \in Blocks \ {x} : count'[y] = count[y],
           Binding(x) \subseteq {t}, Holding(AllFrames, x) = {}, Writing(AllFrames, x) = {},
           \A o \in used \ ObjsOf(AllFrames, "free") :
               field[o] = x => o = x \/ o \in ObjsOf(AllFrames, "store"),
           pending' = pending \ {x},
           UNCHANGED <<slabs, used, kind, field, objects, drops, loose>>
    PROVE  Safe'
<1>0. TypeOK /\ TypeOK' /\ refs \in [Threads -> SUBSET Blocks] /\ used \subseteq Blocks /\ x \in Blocks
  BY DEF Structure, TypeOK
<1>1. f.pc \in {"drop", "kids"} /\ f.pc \in Destroy /\ f.pc # "free" /\ f.pc # "store"
  BY DEF Destroy
<1>2. AllFrames' = AllFrames \cup {f} /\ f \notin AllFrames /\ Unique' /\ StoreOK'
  BY <1>1, PushedFrame
<1>3. /\ Dying' = Dying \cup {x}
      /\ ObjsOf(AllFrames', "free") = ObjsOf(AllFrames, "free")
      /\ ObjsOf(AllFrames', "store") = ObjsOf(AllFrames, "store")
      /\ \A y : Holding(AllFrames', y) = Holding(AllFrames, y) \cup (IF y \in f.outer THEN {f} ELSE {})
      /\ \A y : Writing(AllFrames', y) = Writing(AllFrames, y)
  <2>1. Dying' = Dying \cup {x}
    BY <1>1, <1>2, Primed DEF DyingOf
  <2>2. ObjsOf(AllFrames', "free") = ObjsOf(AllFrames, "free")
    BY <1>1, <1>2 DEF ObjsOf
  <2>3. ObjsOf(AllFrames', "store") = ObjsOf(AllFrames, "store")
    BY <1>1, <1>2 DEF ObjsOf
  <2>4. \A y : Holding(AllFrames', y) = Holding(AllFrames, y) \cup (IF y \in f.outer THEN {f} ELSE {})
    BY <1>2 DEF Holding
  <2>5. \A y : Writing(AllFrames', y) = Writing(AllFrames, y)
    BY <1>1, <1>2 DEF Writing
  <2> QED  BY <2>1, <2>2, <2>3, <2>4, <2>5
<1>4. \A y : Binding(y)' = Binding(y) \ {t}
  BY <1>0, Primed DEF Binding
<1>5. \A y : Naming(y)' = Naming(y)
  BY <1>3, Primed DEF Naming, Busy
<1>6. DyingOK'
  <2>1. \A g \in AllFrames : g.pc \in Destroy => g.obj \in Dying /\ g.obj \in used /\ g.obj \in Blocks
    BY <1>0, DyingFacts
  <2>2. \A g \in AllFrames : g.pc \in Destroy => count'[g.obj] = count[g.obj]
    BY <2>1
  <2>3. \A g \in AllFrames : g.pc \in Destroy =>
          /\ g.obj \in used'
          /\ ~g.gc => g.obj \in objects' /\ kind'[g.obj] \in RcKinds /\ count'[g.obj] = 0
          /\ g.pc = "drop" => kind'[g.obj] \in DropKinds
          /\ g.pc = "kids" => kind'[g.obj] \notin DropKinds
    BY <2>2 DEF DyingOK, Safe
  <2>4. /\ f.obj \in used'
        /\ ~f.gc => f.obj \in objects' /\ kind'[f.obj] \in RcKinds /\ count'[f.obj] = 0
        /\ f.pc = "drop" => kind'[f.obj] \in DropKinds
        /\ f.pc = "kids" => kind'[f.obj] \notin DropKinds
    OBVIOUS
  <2> QED  BY <1>2, <2>3, <2>4 DEF DyingOK, Destroy
<1>7. PendingOK'
  BY DEF PendingOK, Safe
<1>8. HeldOK'
  <2>1. ASSUME NEW y, Held(y)'  PROVE Held(y) /\ y # x
    <3>1. Held(y)' <=> \/ Binding(y)' # {} \/ Holding(AllFrames', y) # {} \/ Writing(AllFrames', y) # {}
      BY Primed
    <3>2. CASE Binding(y)' # {}
      BY <1>4, <3>2 DEF Held
    <3>3. CASE Holding(AllFrames', y) # {}
      <4>1. CASE y \in f.outer
        BY <4>1 DEF Held, Binding
      <4>2. CASE y \notin f.outer
        BY <1>3, <3>3, <4>2 DEF Held
      <4> QED  BY <4>1, <4>2
    <3>4. CASE Writing(AllFrames', y) # {}
      BY <1>3, <3>4 DEF Held
    <3> QED  BY <2>1, <3>1, <3>2, <3>3, <3>4
  <2> QED  BY <1>3, <2>1 DEF HeldOK, Safe
<1>9. FieldOK'
  <2> SUFFICES ASSUME NEW o \in used, o \notin ObjsOf(AllFrames', "free"), field[o] # Null
               PROVE  /\ field[o] \in used
                      /\ field[o] \in Dying' \cup pending' => field[o] = o \/ o \in ObjsOf(AllFrames', "store")
                      /\ ~Counted(o) => field[o] \in loose
    BY DEF FieldOK, ObjsOf, Counted
  <2>1. /\ field[o] \in used
        /\ field[o] \in Dying \cup pending => field[o] = o \/ o \in ObjsOf(AllFrames, "store")
        /\ ~Counted(o) => field[o] \in loose
    BY <1>3 DEF FieldOK, Safe
  <2> QED  BY <1>3, <2>1
<1>10. CountOK'
  <2> SUFFICES ASSUME NEW y \in used', y \notin Dying', kind'[y] \in RcKinds
               PROVE  /\ count'[y] >= Cardinality(Binding(y)') + Cardinality(Holding(AllFrames', y))
                                      + Cardinality(Writing(AllFrames', y)) + Cardinality(Naming(y)')
                      /\ y \notin loose' =>
                           count'[y] = Cardinality(Binding(y)') + Cardinality(Holding(AllFrames', y))
                                       + Cardinality(Writing(AllFrames', y)) + Cardinality(Naming(y)')
    BY <1>0, CountsNext
  <2>1. y \in used /\ y \in Blocks /\ y \notin Dying /\ kind[y] \in RcKinds /\ y # x /\ count'[y] = count[y]
    BY <1>0, <1>3
  <2>2. /\ count[y] \in Nat /\ IsFiniteSet(Binding(y)) /\ IsFiniteSet(Holding(AllFrames, y))
        /\ Cardinality(Binding(y)) \in Nat /\ Cardinality(Holding(AllFrames, y)) \in Nat
        /\ Cardinality(Writing(AllFrames, y)) \in Nat /\ Cardinality(Naming(y)) \in Nat
        /\ count[y] >= Cardinality(Binding(y)) + Cardinality(Holding(AllFrames, y))
                       + Cardinality(Writing(AllFrames, y)) + Cardinality(Naming(y))
        /\ y \notin loose =>
             count[y] = Cardinality(Binding(y)) + Cardinality(Holding(AllFrames, y))
                        + Cardinality(Writing(AllFrames, y)) + Cardinality(Naming(y))
    BY <2>1, CountsNow
  <2>3. y \in f.outer <=> t \in Binding(y)
    BY <2>1 DEF Binding
  <2>4. Holding(AllFrames', y) = Holding(AllFrames, y) \cup (IF t \in Binding(y) THEN {f} ELSE {})
    BY <1>3, <2>3
  <2>5. f \notin Holding(AllFrames, y)
    BY <1>2 DEF Holding
  <2>6. Cardinality(Binding(y)') + Cardinality(Holding(AllFrames', y))
        = Cardinality(Binding(y)) + Cardinality(Holding(AllFrames, y))
    <3> DEFINE B == Binding(y)
               H == Holding(AllFrames, y)
    <3>1. IsFiniteSet(B) /\ IsFiniteSet(H) /\ f \notin H
      BY <2>2, <2>5
    <3>2. Binding(y)' = B \ {t} /\ Holding(AllFrames', y) = H \cup (IF t \in B THEN {f} ELSE {})
      BY <1>4, <2>4
    <3> HIDE DEF B, H
    <3>3. Cardinality(B \ {t}) + Cardinality(H \cup (IF t \in B THEN {f} ELSE {})) = Cardinality(B) + Cardinality(H)
      BY <3>1, PutAside
    <3> QED  BY <3>2, <3>3 DEF B, H
  <2>7. Cardinality(Writing(AllFrames', y)) = Cardinality(Writing(AllFrames, y))
        /\ Cardinality(Naming(y)') = Cardinality(Naming(y))
    BY <1>3, <1>5
  <2> QED  BY <2>1, <2>2, <2>6, <2>7
<1>11. DropsOK'
  <2>1. Recycled' = Recycled
    BY DEF Recycled, slabs
  <2>2. ObjsOf(AllFrames, "free")' = ObjsOf(AllFrames, "free")
    BY <1>3 DEF ObjsOf
  <2> QED  BY <2>1, <2>2 DEF DropsOK, Safe
<1> QED  BY <1>2, <1>6, <1>7, <1>8, <1>9, <1>10, <1>11 DEF Safe

\* A variable that goes out of scope, the last owner or not.
LEMMA SafeUnbind ==
    ASSUME Structure, Safe, NEW t \in Threads, NEW x \in Blocks, Unbind(t, x)
    PROVE  Safe'
<1>1. CASE ~(Rc(x) /\ count[x] = 1)
  BY <1>1, SafeUnbindMore
<1>2. CASE Rc(x) /\ count[x] = 1
  <2> DEFINE rs == refs[t] \ {x}
             f == Finalize(x, rs)
             last == Rc(x) /\ count[x] = 1
  <2>0. Structure' /\ TypeOK /\ refs \in [Threads -> SUBSET Blocks]
    BY StructureUnbind DEF Structure, TypeOK
  <2>1. /\ InCode(t) /\ x \in refs[t] /\ Release(t, x, count, stack[t], rs)
        /\ UNCHANGED <<slabs, used, kind, field, objects, pending, drops, loose>>
    BY DEF Unbind, gcvars
  <2>2. /\ stack[t] \in Seq(Frame) /\ count \in [Blocks -> Nat] /\ rs \in SUBSET Blocks
        /\ x \in Blocks \cup {Null}
    BY <2>0 DEF TypeOK
  <2>3. /\ count' \in [Blocks -> Nat] /\ refs' \in [Threads -> SUBSET Blocks]
        /\ \A y \in Blocks : count'[y] = IF Rc(x) /\ y = x /\ count[y] > 0 THEN count[y] - 1 ELSE count[y]
        /\ \A u \in Threads \ {t} : refs'[u] = refs[u]
        /\ Rc(x) => x \in Blocks
        /\ ~last => stack' = [stack EXCEPT ![t] = stack[t]] /\ refs'[t] = rs
        /\ last => /\ stack' = [stack EXCEPT ![t] = Append(stack[t], f)] /\ refs'[t] = {}
                   /\ f \in Frame /\ f.pc = (IF kind[x] \in DropKinds THEN "drop" ELSE "kids")
                   /\ f.obj = x /\ f.val = Null /\ ~f.gc /\ f.outer = rs /\ FrameFits(f)
    <3> HIDE DEF rs
    <3> QED  BY <2>0, <2>1, <2>2, Released
  <2>4. refs' = [refs EXCEPT ![t] = {}]
    BY <1>2, <2>1 DEF Release
  <2>5. Held(x) /\ t \in Binding(x)
    BY <2>1 DEF Held, Binding
  <2>6. x \in used /\ x \notin Dying /\ x \notin pending /\ kind[x] \in RcKinds
    BY <1>2, <2>5 DEF Safe, HeldOK, Rc
  <2>7. x \in objects
    BY <2>6, LiveCounted
  <2>8. Binding(x) = {t} /\ Holding(AllFrames, x) = {} /\ Writing(AllFrames, x) = {} /\ Naming(x) = {}
    BY <1>2, <2>5, <2>6, Alone
  <2>9. \A o \in used \ ObjsOf(AllFrames, "free") : field[o] = x => o = x \/ o \in ObjsOf(AllFrames, "store")
    BY <2>8 DEF Naming, Busy
  <2>10. stack[t] = <<>> \/ Top(t).pc # "store"
    BY <2>1 DEF InCode, At
  <2>11. count'[x] = 0 /\ \A y \in Blocks \ {x} : count'[y] = count[y]
    BY <1>2, <2>2, <2>3
  <2>12. pending' = pending \ {x}
    BY <2>1, <2>6
  <2> HIDE DEF f
  <2> QED  BY <1>2, <2>0, <2>1, <2>3, <2>4, <2>6, <2>7, <2>8, <2>9, <2>10, <2>11, <2>12, SafeDestroy
<1> QED  BY <1>1, <1>2

\* The collector's finalizer: nobody owns the cell it destroys.
LEMMA SafeRunFinalizer ==
    ASSUME Structure, Safe, NEW t \in Threads, RunFinalizer(t)
    PROVE  Safe'
<1>0. Structure' /\ TypeOK /\ Registry
  BY StructureRunFinalizer DEF Structure
<1>1. PICK x \in pending :
        /\ pending' = pending \ {x}
        /\ stack' = [stack EXCEPT ![t] = Append(@, Frm("drop", x, Null, TRUE, refs[t]))]
  BY DEF RunFinalizer
<1> DEFINE f == Frm("drop", x, Null, TRUE, refs[t])
<1>2. /\ stack[t] # <<>> /\ Top(t).pc = "loop" /\ refs' = [refs EXCEPT ![t] = {}]
      /\ UNCHANGED <<slabs, used, kind, field, count, objects, drops, loose>>
  BY DEF RunFinalizer, At
<1>3. x \in used /\ x \in Blocks /\ refs[t] \in SUBSET Blocks
  BY <1>0 DEF Registry, TypeOK
<1>4. /\ f \in Frame /\ f.pc = "drop" /\ f.obj = x /\ f.gc = TRUE /\ f.outer = refs[t]
  BY <1>3 DEF Frm, Frame
<1>5. ~Held(x) /\ kind[x] \in DropKinds
  BY <1>3 DEF Safe, HeldOK, PendingOK
<1>6. x \notin Dying
  <2>1. \A g \in AllFrames : g.pc \in Destroy => g.obj \notin pending
    BY DyingFacts
  <2> QED  BY <2>1 DEF Dying, Destroy
<1>7. Binding(x) = {} /\ Holding(AllFrames, x) = {} /\ Writing(AllFrames, x) = {}
  BY <1>5 DEF Held
<1>8. f.outer = refs[t] \ {x}
  BY <1>4, <1>7 DEF Binding
<1>9. \A o \in used \ ObjsOf(AllFrames, "free") : field[o] = x => o = x \/ o \in ObjsOf(AllFrames, "store")
  <2>1. x # Null
    BY <1>3, HeapAssumption
  <2> QED  BY <2>1 DEF Safe, FieldOK
<1>10. stack' = [stack EXCEPT ![t] = Append(stack[t], f)]
  BY <1>0, <1>1 DEF TypeOK
<1> HIDE DEF f
<1> QED  BY <1>0, <1>1, <1>2, <1>3, <1>4, <1>5, <1>6, <1>7, <1>8, <1>9, <1>10, SafeDestroy
\* The end of the finalizer loop.
LEMMA SafeFinalizersDone ==
    ASSUME Structure, Safe, NEW t \in Threads, FinalizersDone(t)
    PROVE  Safe'
<1> DEFINE s == Front(stack[t])
           k == Len(stack[t]) - 1
<1>0. TypeOK /\ TypeOK' /\ FrameOK
  BY StructureFinalizersDone DEF Structure
<1>1. /\ Structure' /\ Restacked(t, s, k)
      /\ \A f \in AllFrames' : f \in AllFrames /\ f.pc # "loop"
      /\ \A f \in AllFrames : f \in AllFrames' \/ f = Top(t)
  BY StructureFinalizersDone
<1>2. /\ stack[t] # <<>> /\ Top(t).pc = "loop"
      /\ UNCHANGED <<slabs, used, kind, field, count, objects, pending, refs, drops, loose>>
  BY DEF FinalizersDone, At
<1>3. Len(s) = k /\ k \in Nat /\ Top(t) \in AllFrames
  BY <1>0, <1>2, PopFacts
<1>4. Top(t).outer = {}
  BY <1>0, <1>2, <1>3 DEF FrameOK, FrameFits
<1>5. /\ Dying' = Dying
      /\ ObjsOf(AllFrames', "free") = ObjsOf(AllFrames, "free")
      /\ ObjsOf(AllFrames', "store") = ObjsOf(AllFrames, "store")
      /\ \A y : Holding(AllFrames', y) = Holding(AllFrames, y)
      /\ \A y : Writing(AllFrames', y) = Writing(AllFrames, y)
  <2>1. \A f \in AllFrames : f.pc # "loop" \/ f.outer # {} => f \in AllFrames'
    BY <1>1, <1>2, <1>4
  <2>2. Dying' = Dying
    BY <1>1, <2>1 DEF Dying
  <2>3. ObjsOf(AllFrames', "free") = ObjsOf(AllFrames, "free")
    BY <1>1, <2>1 DEF ObjsOf
  <2>4. ObjsOf(AllFrames', "store") = ObjsOf(AllFrames, "store")
    BY <1>1, <2>1 DEF ObjsOf
  <2>5. \A y : Holding(AllFrames', y) = Holding(AllFrames, y)
    BY <1>1, <2>1 DEF Holding
  <2>6. \A y : Writing(AllFrames', y) = Writing(AllFrames, y)
    BY <1>1, <2>1 DEF Writing
  <2> QED  BY <2>2, <2>3, <2>4, <2>5, <2>6
<1>6. (\A y : Binding(y)' = Binding(y)) /\ \A y : Naming(y)' = Naming(y)
  BY <1>2, <1>5, Primed DEF Binding, Naming, Busy
<1> HIDE DEF s, k
<1>7. \A i \in k + 1 .. Len(s) : FALSE
  BY <1>3
<1>8. Unique'
  BY <1>0, <1>1, <1>7, UniqueStep DEF Safe
<1>9. StoreOK'
  <2>1. \A i \in 1 .. Len(s) - 1 : i < k
    BY <1>3
  <2>2. \A i \in 1 .. Len(s) - 1 : ~(i >= k)
    BY <1>3, <2>1
  <2> QED  BY <1>1, <1>2, <2>2, StoreKept DEF Safe
<1>10. DyingOK' /\ PendingOK'
  BY <1>1, <1>2 DEF DyingOK, PendingOK, Safe
<1>11. HeldOK'
  BY <1>2, <1>5, <1>6, Primed DEF HeldOK, Safe, Held
<1>12. FieldOK'
  <2>1. ObjsOf(AllFrames, "free")' = ObjsOf(AllFrames, "free") /\ ObjsOf(AllFrames, "store")' = ObjsOf(AllFrames, "store")
    BY <1>5 DEF ObjsOf
  <2> QED  BY <1>2, <1>5, <2>1 DEF FieldOK, Safe, Counted
<1>13. CountOK'
  <2>1. \A y \in used : y \notin Dying /\ kind[y] \in RcKinds =>
          /\ count[y] >= Cardinality(Binding(y)) + Cardinality(Holding(AllFrames, y))
                         + Cardinality(Writing(AllFrames, y)) + Cardinality(Naming(y))
          /\ y \notin loose =>
               count[y] = Cardinality(Binding(y)) + Cardinality(Holding(AllFrames, y))
                          + Cardinality(Writing(AllFrames, y)) + Cardinality(Naming(y))
    BY CountsNow
  <2> QED  BY <1>0, <1>2, <1>5, <1>6, <2>1, CountsNext
<1>14. DropsOK'
  <2>1. Recycled' = Recycled /\ ObjsOf(AllFrames, "free")' = ObjsOf(AllFrames, "free")
    BY <1>2, <1>5 DEF Recycled, slabs, ObjsOf
  <2> QED  BY <1>2, <2>1 DEF DropsOK, Safe
<1> QED  BY <1>8, <1>9, <1>10, <1>11, <1>12, <1>13, <1>14 DEF Safe

\* The frame of a destruction leaves the stacks.
LEMMA DeadFrame ==
    ASSUME Structure, Safe, NEW f \in AllFrames, f.pc \in Destroy, AllFrames' = AllFrames \ {f}
    PROVE  /\ Dying' = Dying \ {f.obj}
           /\ ObjsOf(AllFrames', "free") = ObjsOf(AllFrames, "free") \ {f.obj}
           /\ ObjsOf(AllFrames', "store") = ObjsOf(AllFrames, "store")
           /\ \A y : Holding(AllFrames', y) = Holding(AllFrames, y) \ {f}
           /\ \A y : Writing(AllFrames', y) = Writing(AllFrames, y)
<1>1. \A g \in AllFrames : g.pc \in Destroy /\ g.obj = f.obj => g = f
  BY DyingFacts
<1>2. f.pc # "store"
  BY DEF Destroy
<1>3. Dying' = Dying \ {f.obj}
  BY <1>1, Primed DEF DyingOf
<1>4. ObjsOf(AllFrames', "free") = ObjsOf(AllFrames, "free") \ {f.obj}
  BY <1>1 DEF ObjsOf, Destroy
<1>5. ObjsOf(AllFrames', "store") = ObjsOf(AllFrames, "store")
  BY <1>2 DEF ObjsOf
<1>6. \A y : Holding(AllFrames', y) = Holding(AllFrames, y) \ {f}
  BY DEF Holding
<1>7. \A y : Writing(AllFrames', y) = Writing(AllFrames, y)
  BY <1>2 DEF Writing
<1> QED  BY <1>3, <1>4, <1>5, <1>6, <1>7

\* The bindings that a frame put aside come back.
LEMMA Resumed ==
    ASSUME Structure, Safe, NEW t \in Threads, NEW f \in AllFrames, refs[t] = {},
           refs' = [refs EXCEPT ![t] = f.outer],
           \A y : Holding(AllFrames', y) = Holding(AllFrames, y) \ {f}
    PROVE  /\ \A y : Binding(y)' = Binding(y) \cup (IF f \in Holding(AllFrames, y) THEN {t} ELSE {})
           /\ \A y : Cardinality(Binding(y)') + Cardinality(Holding(AllFrames', y))
                     = Cardinality(Binding(y)) + Cardinality(Holding(AllFrames, y))
<1>0. TypeOK /\ refs \in [Threads -> SUBSET Blocks]
  BY DEF Structure, TypeOK
<1>1. \A y : Binding(y)' = Binding(y) \cup (IF f \in Holding(AllFrames, y) THEN {t} ELSE {})
  BY <1>0, Primed DEF Binding, Holding
<1>2. ASSUME NEW y
      PROVE  Cardinality(Binding(y)') + Cardinality(Holding(AllFrames', y))
             = Cardinality(Binding(y)) + Cardinality(Holding(AllFrames, y))
  <2> DEFINE B == Binding(y)
             H == Holding(AllFrames, y)
  <2>1. IsFiniteSet(B) /\ IsFiniteSet(H) /\ t \notin B
    BY <1>0, OwnersAre DEF RefSets, Binding
  <2>2. Binding(y)' = B \cup (IF f \in H THEN {t} ELSE {}) /\ Holding(AllFrames', y) = H \ {f}
    BY <1>1
  <2> HIDE DEF B, H
  <2>3. Cardinality(B \cup (IF f \in H THEN {t} ELSE {})) + Cardinality(H \ {f}) = Cardinality(B) + Cardinality(H)
    BY <2>1, TakeBack
  <2> QED  BY <2>2, <2>3 DEF B, H
<1> QED  BY <1>1, <1>2
\* A finalized cell is freed: nobody names it any more.
LEMMA SafeFinalizerEnd ==
    ASSUME Structure, Safe, NEW t \in Threads, FinalizerEnd(t)
    PROVE  Safe'
<1> DEFINE f == Top(t)
           x == f.obj
           y == field[x]
           s == Front(stack[t])
           k == Len(stack[t]) - 1
<1>0. TypeOK /\ TypeOK' /\ Structure' /\ Unique /\ used \subseteq Blocks /\ count \in [Blocks -> Nat]
      /\ drops \in [Blocks -> Nat] /\ Registry
  BY StructureFinalizerEnd DEF Structure, Safe, TypeOK
<1>1. /\ Restacked(t, s, k) /\ x \in used /\ Recycled' = Recycled \cup {x}
      /\ used' = used \ {x} /\ GcObjs = {x}
  BY StructureFinalizerEnd
<1>2. /\ stack[t] # <<>> /\ f.pc = "drop" /\ f.gc /\ refs[t] = {}
      /\ drops' = [drops EXCEPT ![x] = @ + 1]
      /\ count' = IF Rc(y) /\ Counted(x) /\ y \in objects /\ count[y] > 0
                  THEN [count EXCEPT ![y] = @ - 1] ELSE count
      /\ refs' = [refs EXCEPT ![t] = f.outer]
      /\ UNCHANGED <<kind, field, objects, pending, loose>>
  BY DEF FinalizerEnd, At, gcvars
<1>3. /\ Len(s) = k /\ k \in Nat /\ f \in AllFrames /\ f = stack[t][Len(stack[t])]
      /\ Len(stack[t]) \in Nat \ {0} /\ \A i \in k + 1 .. Len(stack[t]) : i = Len(stack[t])
  BY <1>0, <1>2, PopFacts
<1>4. f.pc \in Destroy /\ f.pc # "free" /\ f.pc # "store"
  BY <1>2 DEF Destroy
<1>5. /\ x \in Dying /\ x \notin pending /\ x \in Blocks /\ x \notin ObjsOf(AllFrames, "free")
      /\ \A g \in AllFrames : g.pc \in Destroy /\ g.obj = x => g = f
  BY <1>3, <1>4, DyingFacts
<1>6. /\ x \notin ObjsOf(AllFrames, "store")
      /\ \A o \in used \ ObjsOf(AllFrames, "free") : field[o] = x => o = x
  BY <1>2, <1>4, TopDies
<1>7. x # Null /\ kind[x] \in DropKinds /\ x \notin objects
  BY <1>0, <1>1, <1>2, <1>3, <1>4, <1>5, HeapAssumption DEF Safe, DyingOK, Registry, Registered
<1> HIDE DEF s, k
<1>8. AllFrames' = AllFrames \ {f}
  <2>1. \A i \in k + 1 .. Len(s) : FALSE
    BY <1>3
  <2>2. {stack[t][i] : i \in k + 1 .. Len(stack[t])} = {f}
    <3>1. Len(stack[t]) \in k + 1 .. Len(stack[t])
      BY <1>3 DEF k
    <3> QED  BY <1>3, <3>1
  <2>3. \A i \in k + 1 .. Len(stack[t]) : stack[t][i].pc \in Destroy \cup {"store"}
    BY <1>3, <1>4
  <2>4. AllFrames' = (AllFrames \ {stack[t][i] : i \in k + 1 .. Len(stack[t])}) \cup {s[i] : i \in k + 1 .. Len(s)}
    BY <1>0, <1>1, <2>3, RestackedExact
  <2>5. {s[i] : i \in k + 1 .. Len(s)} = {}
    BY <2>1
  <2> QED  BY <2>2, <2>4, <2>5
<1>9. /\ Dying' = Dying \ {x}
      /\ ObjsOf(AllFrames', "free") = ObjsOf(AllFrames, "free")
      /\ ObjsOf(AllFrames', "store") = ObjsOf(AllFrames, "store")
      /\ \A z : Holding(AllFrames', z) = Holding(AllFrames, z) \ {f}
      /\ \A z : Writing(AllFrames', z) = Writing(AllFrames, z)
  <2>1. /\ Dying' = Dying \ {f.obj}
        /\ ObjsOf(AllFrames', "free") = ObjsOf(AllFrames, "free") \ {f.obj}
        /\ ObjsOf(AllFrames', "store") = ObjsOf(AllFrames, "store")
        /\ \A z : Holding(AllFrames', z) = Holding(AllFrames, z) \ {f}
        /\ \A z : Writing(AllFrames', z) = Writing(AllFrames, z)
    <3> HIDE DEF f
    <3> QED  BY <1>3, <1>4, <1>8, DeadFrame
  <2> QED  BY <1>5, <2>1
<1>10. /\ \A z : Binding(z)' = Binding(z) \cup (IF f \in Holding(AllFrames, z) THEN {t} ELSE {})
       /\ \A z : Cardinality(Binding(z)') + Cardinality(Holding(AllFrames', z))
                 = Cardinality(Binding(z)) + Cardinality(Holding(AllFrames, z))
  BY <1>2, <1>3, <1>9, Resumed
<1> HIDE DEF f, x
<1>11. \A z : Naming(z)' = Naming(z) \ {x}
  BY <1>1, <1>2, <1>9, Primed DEF Naming, Busy
<1>12. y # Null => y \in used /\ (y # x => y \notin Dying /\ y \notin pending) /\ (~Counted(x) => y \in loose)
  BY <1>1, <1>5, <1>6 DEF Safe, FieldOK
<1>13. Unique'
  <2>1. \A i \in k + 1 .. Len(s) : FALSE
    BY <1>3
  <2> QED  BY <1>0, <1>1, <2>1, UniqueStep
<1>14. StoreOK'
  <2>1. \A i \in 1 .. Len(s) - 1 : ~(i >= k)
    BY <1>3
  <2> QED  BY <1>1, <1>2, <2>1, StoreKept DEF Safe
<1>15. DyingOK'
  <2> SUFFICES ASSUME NEW g \in AllFrames', g.pc \in Destroy
               PROVE  /\ g.obj \in used'
                      /\ ~g.gc => g.obj \in objects' /\ kind'[g.obj] \in RcKinds /\ count'[g.obj] = 0
                      /\ g.pc = "drop" => kind'[g.obj] \in DropKinds
                      /\ g.pc = "kids" => kind'[g.obj] \notin DropKinds
    BY DEF DyingOK
  <2>1. g \in AllFrames /\ g # f
    BY <1>8
  <2>2. g.obj # x /\ g.obj \in Dying /\ g.obj \in used /\ g.obj \in Blocks
    BY <1>5, <2>1, DyingFacts
  <2>3. count'[g.obj] = count[g.obj]
    <3>1. y # g.obj
      BY <1>12, <2>2, HeapAssumption
    <3> QED  BY <1>0, <1>2, <2>2, <3>1
  <2> QED  BY <1>1, <1>2, <2>1, <2>2, <2>3 DEF Safe, DyingOK
<1>16. PendingOK'
  BY <1>2 DEF PendingOK, Safe
<1>17. HeldOK'
  <2>1. ASSUME NEW z, Held(z)'  PROVE Held(z)
    <3>1. Held(z)' <=> \/ Binding(z)' # {} \/ Holding(AllFrames', z) # {} \/ Writing(AllFrames', z) # {}
      BY Primed
    <3> QED  BY <1>9, <1>10, <2>1, <3>1 DEF Held
  <2> QED  BY <1>1, <1>2, <1>5, <1>9, <2>1 DEF HeldOK, Safe
<1>18. FieldOK'
  <2> SUFFICES ASSUME NEW o \in used', o \notin ObjsOf(AllFrames', "free"), field[o] # Null
               PROVE  /\ field[o] \in used'
                      /\ field[o] \in Dying' \cup pending' => field[o] = o \/ o \in ObjsOf(AllFrames', "store")
                      /\ ~Counted(o) => field[o] \in loose
    BY <1>2 DEF FieldOK, ObjsOf, Counted
  <2>1. o \in used /\ o # x /\ o \notin ObjsOf(AllFrames, "free")
    BY <1>1, <1>9
  <2>2. /\ field[o] \in used
        /\ field[o] \in Dying \cup pending => field[o] = o \/ o \in ObjsOf(AllFrames, "store")
        /\ ~Counted(o) => field[o] \in loose
    BY <2>1 DEF FieldOK, Safe
  <2>3. field[o] # x
    BY <1>6, <2>1
  <2> QED  BY <1>1, <1>2, <1>9, <2>2, <2>3
<1>19. CountOK'
  <2> SUFFICES ASSUME NEW z \in used', z \notin Dying', kind'[z] \in RcKinds
               PROVE  /\ count'[z] >= Cardinality(Binding(z)') + Cardinality(Holding(AllFrames', z))
                                      + Cardinality(Writing(AllFrames', z)) + Cardinality(Naming(z)')
                      /\ z \notin loose' =>
                           count'[z] = Cardinality(Binding(z)') + Cardinality(Holding(AllFrames', z))
                                       + Cardinality(Writing(AllFrames', z)) + Cardinality(Naming(z)')
    BY <1>0, CountsNext
  <2>1. z \in used /\ z \in Blocks /\ z \notin Dying /\ kind[z] \in RcKinds /\ z # x /\ z # Null /\ loose' = loose
    BY <1>0, <1>1, <1>2, <1>9, HeapAssumption
  <2>2. /\ count[z] \in Nat /\ IsFiniteSet(Naming(z))
        /\ Cardinality(Binding(z)) \in Nat /\ Cardinality(Holding(AllFrames, z)) \in Nat
        /\ Cardinality(Writing(AllFrames, z)) \in Nat /\ Cardinality(Naming(z)) \in Nat
        /\ count[z] >= Cardinality(Binding(z)) + Cardinality(Holding(AllFrames, z))
                       + Cardinality(Writing(AllFrames, z)) + Cardinality(Naming(z))
        /\ z \notin loose =>
             count[z] = Cardinality(Binding(z)) + Cardinality(Holding(AllFrames, z))
                        + Cardinality(Writing(AllFrames, z)) + Cardinality(Naming(z))
    BY <2>1, CountsNow
  <2>3. /\ Cardinality(Binding(z)') + Cardinality(Holding(AllFrames', z))
           = Cardinality(Binding(z)) + Cardinality(Holding(AllFrames, z))
        /\ Cardinality(Writing(AllFrames', z)) = Cardinality(Writing(AllFrames, z))
    BY <1>9, <1>10
  <2>4. CASE z # y
    <3>1. Naming(z)' = Naming(z)
      BY <1>11, <2>4 DEF Naming
    <3>2. count'[z] = count[z]
      BY <1>0, <1>2, <2>1, <2>4
    <3> QED  BY <2>1, <2>2, <2>3, <3>1, <3>2
  <2>5. CASE z = y
    <3>1. x \in Naming(z)
      BY <1>1, <1>5, <1>6, <2>5 DEF Naming, Busy
    <3>2. Cardinality(Naming(z)') = Cardinality(Naming(z)) - 1 /\ Cardinality(Naming(z)) \in Nat \ {0}
      BY <1>11, <2>2, <3>1, CardMinus
    <3>3. CASE Counted(x)
      <4>1. z \in objects
        BY <1>12, <2>1, <2>5, LiveCounted
      <4>2. count[z] > 0
        BY <2>2, <3>2
      <4>3. count'[z] = count[z] - 1
        BY <1>0, <1>2, <2>1, <2>5, <3>3, <4>1, <4>2 DEF Rc
      <4> QED  BY <2>1, <2>2, <2>3, <3>2, <4>3
    <3>4. CASE ~Counted(x)
      <4>1. count'[z] = count[z]
        BY <1>2, <3>4
      <4>2. z \in loose
        BY <1>12, <2>1, <2>5, <3>4
      <4> QED  BY <2>1, <2>2, <2>3, <3>2, <4>1, <4>2
    <3> QED  BY <3>3, <3>4
  <2> QED  BY <2>4, <2>5
<1>20. DropsOK'
  <2>1. drops[x] = 0
    BY <1>1, <1>5 DEF DropsOK, Safe
  <2>2. drops'[x] = 1 /\ \A b \in Blocks : b # x => drops'[b] = drops[b]
    BY <1>0, <1>2, <1>5, <2>1
  <2>3. ObjsOf(AllFrames, "free")' = ObjsOf(AllFrames, "free")
    BY <1>9 DEF ObjsOf
  <2>4. \A b \in used' : drops'[b] = IF b \in ObjsOf(AllFrames, "free") /\ kind[b] \in DropKinds THEN 1 ELSE 0
    BY <1>0, <1>1, <2>2 DEF DropsOK, Safe
  <2>5. \A b \in Recycled' : kind[b] \in DropKinds => drops'[b] = 1
    <3>1. \A b \in Recycled : b \in Blocks
      <4>1. gfree \in Seq(Blocks) /\ \A u \in Threads : lfree[u] \in Seq(Blocks)
        BY <1>0 DEF TypeOK
      <4> QED  BY <4>1, SeqRange DEF Recycled
    <3> QED  BY <1>1, <2>2, <3>1 DEF DropsOK, Safe
  <2>6. \A b \in Blocks : drops'[b] <= 1
    BY <2>2 DEF DropsOK, Safe
  <2> QED  BY <1>2, <2>3, <2>4, <2>5, <2>6 DEF DropsOK
<1> QED  BY <1>13, <1>14, <1>15, <1>16, <1>17, <1>18, <1>19, <1>20 DEF Safe
\* A dead cell is freed: nobody names it any more.
LEMMA SafeReclaim ==
    ASSUME Structure, Safe, NEW t \in Threads, Reclaim(t)
    PROVE  Safe'
<1> DEFINE n  == Len(stack[t])
           st == n > 1 /\ stack[t][n - 1].pc = "store"
           k  == IF st THEN n - 2 ELSE n - 1
           f  == Top(t)
           x  == f.obj
           g  == stack[t][n - 1]
           o  == g.obj
           v  == g.val
<1>0. TypeOK /\ TypeOK' /\ Structure' /\ Unique /\ used \subseteq Blocks /\ field \in [Blocks -> Blocks \cup {Null}]
      /\ Registry /\ Allocator /\ FrameOK
  BY StructureReclaim DEF Structure, Safe, TypeOK
<1>1. /\ objects' = objects \ {x}
      /\ IF x \in objects THEN FreeBlock(x) ELSE UNCHANGED <<slabs, used>>
      /\ UNCHANGED <<kind, count, pending, drops, loose>>
  BY DEF Reclaim
<1>2. /\ n \in Nat \ {0} /\ k \in 0 .. n - 1 /\ f = stack[t][n] /\ f.pc = "free"
      /\ stack[t] # <<>> /\ refs[t] = {}
      /\ refs' = [refs EXCEPT ![t] = f.outer]
      /\ \E s : Restacked(t, s, k) /\ Len(s) = k
      /\ ~st => field' = field
      /\ st => field' = [field EXCEPT ![g.obj] = g.val]
  BY ReclaimStack
<1>3. PICK s : Restacked(t, s, k) /\ Len(s) = k
  BY <1>2
<1>4. f \in AllFrames /\ f.pc \in Destroy /\ ~f.gc /\ (st => g \in AllFrames /\ n - 1 \in 1 .. n)
  <2>1. \A i \in 1 .. n : stack[t][i] \in AllFrames
    BY <1>0, StackFacts
  <2>2. n \in 1 .. n /\ (st => n - 1 \in 1 .. n)
    BY <1>2
  <2>3. f \in AllFrames
    BY <1>2, <2>1, <2>2
  <2> QED  BY <1>0, <1>2, <2>1, <2>2, <2>3 DEF FrameOK, FrameFits, Destroy
<1>5. /\ x \in used /\ x \in Dying /\ x \notin pending /\ x \in Blocks /\ x \in objects
      /\ \A h \in AllFrames : h.pc \in Destroy /\ h.obj = x => h = f
      /\ x \in ObjsOf(AllFrames, "free") /\ x # Null
  <2>1. x \in objects
    BY <1>4 DEF Safe, DyingOK
  <2>2. x \in ObjsOf(AllFrames, "free")
    BY <1>2, <1>4 DEF ObjsOf
  <2> QED  BY <1>4, <2>1, <2>2, DyingFacts, HeapAssumption
<1>6. /\ x \notin ObjsOf(AllFrames, "store")
      /\ \A p \in used \ ObjsOf(AllFrames, "free") : field[p] = x => p = x \/ (st /\ p = o)
  BY <1>2, <1>4, TopDies
<1>7. used' = used \ {x} /\ Recycled' = Recycled \cup {x}
  BY <1>0, <1>1, <1>5, FreedBlock
<1>8. st => /\ g.pc = "store" /\ o \in used /\ o \notin ObjsOf(AllFrames, "free") /\ Counted(o) /\ o # x
            /\ o \in Blocks /\ g.outer = {} /\ o \in ObjsOf(AllFrames, "store")
            /\ \A h \in AllFrames : h.pc = "store" /\ h.obj = o => h = g
            /\ v # Null => v \in used /\ v \notin Dying /\ v \notin pending /\ v # x
  <2> SUFFICES ASSUME st
               PROVE  /\ g.pc = "store" /\ o \in used /\ o \notin ObjsOf(AllFrames, "free") /\ Counted(o) /\ o # x
                      /\ o \in Blocks /\ g.outer = {} /\ o \in ObjsOf(AllFrames, "store")
                      /\ \A h \in AllFrames : h.pc = "store" /\ h.obj = o => h = g
                      /\ v # Null => v \in used /\ v \notin Dying /\ v \notin pending /\ v # x
    OBVIOUS
  <2>1. g \in AllFrames /\ g.pc = "store"
    BY <1>4
  <2> HIDE DEF g, st
  <2>2. o \in used /\ o \notin ObjsOf(AllFrames, "free") /\ Counted(o)
    BY <2>1, StoreFacts
  <2>3. o \in ObjsOf(AllFrames, "store")
    BY <2>1 DEF ObjsOf
  <2>4. \A h \in AllFrames : h.pc = "store" /\ h.obj = o => h = g
    BY <1>0, <2>1, OneFrame DEF Alike
  <2>5. g.outer = {} /\ v \in Blocks \cup {Null}
    BY <1>0, <2>1 DEF FrameOK, FrameFits, Frame
  <2>6. v # Null => v \in used /\ v \notin Dying /\ v \notin pending
    <3>1. Held(v)
      BY <2>1 DEF Held, Writing
    <3> QED  BY <2>5, <3>1 DEF Safe, HeldOK
  <2> QED  BY <1>0, <1>5, <2>1, <2>2, <2>3, <2>4, <2>5, <2>6
<1>9. AllFrames' = (AllFrames \ {f}) \ (IF st THEN {g} ELSE {})
  <2>1. {stack[t][i] : i \in k + 1 .. n} = {f} \cup (IF st THEN {g} ELSE {})
    <3>1. CASE st
      <4>1. k + 1 = n - 1 /\ \A i \in n - 1 .. n : i = n - 1 \/ i = n
        BY <1>2, <3>1
      <4>2. n - 1 \in n - 1 .. n /\ n \in n - 1 .. n
        BY <1>2
      <4> HIDE DEF n
      <4> QED  BY <1>2, <3>1, <4>1, <4>2
    <3>2. CASE ~st
      <4>1. k + 1 = n /\ \A i \in n .. n : i = n
        BY <1>2, <3>2
      <4>2. n \in n .. n
        BY <1>2
      <4> HIDE DEF n
      <4> QED  BY <1>2, <3>2, <4>1, <4>2
    <3> QED  BY <3>1, <3>2
  <2>2. \A i \in k + 1 .. n : stack[t][i].pc \in Destroy \cup {"store"}
    <3>1. \A h \in {f} \cup (IF st THEN {g} ELSE {}) : h.pc \in Destroy \cup {"store"}
      BY <1>4
    <3> HIDE DEF f, g, st, k, n
    <3> QED  BY <2>1, <3>1
  <2>3. {s[i] : i \in k + 1 .. Len(s)} = {}
    <3>1. \A i \in k + 1 .. Len(s) : FALSE
      BY <1>2, <1>3
    <3> QED  BY <3>1
  <2> HIDE DEF k, st, f, g
  <2>4. AllFrames' = (AllFrames \ {stack[t][i] : i \in k + 1 .. n}) \cup {s[i] : i \in k + 1 .. Len(s)}
    BY <1>0, <1>3, <2>2, RestackedExact
  <2> QED  BY <2>1, <2>3, <2>4
<1>10. \A i \in k + 1 .. Len(s) : FALSE
  BY <1>2, <1>3
<1>11. \A i \in 1 .. Len(s) - 1 : ~(i >= k)
  BY <1>2, <1>3
<1> HIDE DEF k, st, f, g, n
<1>12. /\ Dying' = Dying \ {x}
       /\ ObjsOf(AllFrames', "free") = ObjsOf(AllFrames, "free") \ {x}
       /\ ObjsOf(AllFrames', "store") = ObjsOf(AllFrames, "store") \ (IF st THEN {o} ELSE {})
       /\ \A z : Holding(AllFrames', z) = Holding(AllFrames, z) \ {f}
       /\ \A z : Writing(AllFrames', z) = Writing(AllFrames, z) \ (IF st THEN {g} ELSE {})
  <2>0. \A h : h \in AllFrames' <=> h \in AllFrames /\ h # f /\ (st => h # g)
    BY <1>9
  <2>1. Dying' = Dying \ {x}
    <3>1. Dying' = {h.obj : h \in {e \in AllFrames' : e.pc \in Destroy}}
          /\ Dying = {h.obj : h \in {e \in AllFrames : e.pc \in Destroy}}
      BY Primed DEF DyingOf
    <3>2. st => g.pc \notin Destroy
      BY <1>8 DEF Destroy
    <3> QED  BY <1>4, <1>5, <2>0, <3>1, <3>2
  <2>2. ObjsOf(AllFrames', "free") = ObjsOf(AllFrames, "free") \ {x}
    BY <1>2, <1>4, <1>5, <1>8, <2>0 DEF ObjsOf, Destroy
  <2>3. ObjsOf(AllFrames', "store") = ObjsOf(AllFrames, "store") \ (IF st THEN {o} ELSE {})
    BY <1>2, <1>4, <1>8, <2>0 DEF ObjsOf
  <2>4. \A z : Holding(AllFrames', z) = Holding(AllFrames, z) \ {f}
    BY <1>8, <2>0 DEF Holding
  <2>5. \A z : Writing(AllFrames', z) = Writing(AllFrames, z) \ (IF st THEN {g} ELSE {})
    BY <1>2, <1>8, <2>0 DEF Writing
  <2> QED  BY <2>1, <2>2, <2>3, <2>4, <2>5
<1>13. /\ \A z : Binding(z)' = Binding(z) \cup (IF f \in Holding(AllFrames, z) THEN {t} ELSE {})
       /\ \A z : Cardinality(Binding(z)') + Cardinality(Holding(AllFrames', z))
                 = Cardinality(Binding(z)) + Cardinality(Holding(AllFrames, z))
  BY <1>2, <1>4, <1>12, Resumed
<1> HIDE DEF x
<1>14. \A p \in Blocks : field'[p] = IF st /\ p = o THEN v ELSE field[p]
  BY <1>0, <1>2, <1>8
<1>15. \A z : Naming(z)' = Naming(z) \cup (IF st /\ z = v THEN {o} ELSE {})
  <2> SUFFICES ASSUME NEW z, NEW p  PROVE p \in Naming(z)' <=> p \in Naming(z) \/ (st /\ z = v /\ p = o)
    OBVIOUS
  <2>1. p \in Naming(z)' <=> /\ p \in used /\ p # x /\ field'[p] = z
                             /\ p \notin ObjsOf(AllFrames, "free") /\ (p \notin ObjsOf(AllFrames, "store") \/ (st /\ p = o))
    BY <1>7, <1>12, Primed DEF Busy
  <2>2. p \in Naming(z) <=> /\ p \in used /\ field[p] = z
                            /\ p \notin ObjsOf(AllFrames, "free") /\ p \notin ObjsOf(AllFrames, "store")
    BY DEF Naming, Busy
  <2>3. CASE st /\ p = o
    BY <1>8, <1>14, <2>1, <2>2, <2>3
  <2>4. CASE ~(st /\ p = o)
    BY <1>0, <1>5, <1>14, <2>1, <2>2, <2>4
  <2> QED  BY <2>3, <2>4
<1>16. ASSUME NEW z \in used, z \notin Dying
       PROVE  Cardinality(Writing(AllFrames', z)) + Cardinality(Naming(z)')
              = Cardinality(Writing(AllFrames, z)) + Cardinality(Naming(z))
  <2>1. CASE st
    <3> DEFINE B == Naming(z)
               H == Writing(AllFrames, z)
    <3>1. IsFiniteSet(B) /\ IsFiniteSet(H) /\ Cardinality(B) \in Nat /\ Cardinality(H) \in Nat
      BY <1>0, OwnersAre DEF RefSets
    <3>2. o \notin B
      BY <1>8, <2>1 DEF Naming, Busy
    <3>3. g \in H <=> z = v
      BY <1>4, <1>8, <2>1 DEF Writing
    <3>4. Writing(AllFrames', z) = H \ {g} /\ Naming(z)' = B \cup (IF g \in H THEN {o} ELSE {})
      BY <1>12, <1>15, <2>1, <3>3
    <3> HIDE DEF B, H
    <3>5. Cardinality(B \cup (IF g \in H THEN {o} ELSE {})) + Cardinality(H \ {g}) = Cardinality(B) + Cardinality(H)
      BY <3>1, <3>2, TakeBack
    <3>6. Cardinality(B \cup (IF g \in H THEN {o} ELSE {})) \in Nat /\ Cardinality(H \ {g}) \in Nat
      <4>1. IsFiniteSet(B \cup (IF g \in H THEN {o} ELSE {})) /\ IsFiniteSet(H \ {g})
        <5>1. IsFiniteSet(H \ {g})
          BY <3>1, FS_Difference
        <5>2. IsFiniteSet(IF g \in H THEN {o} ELSE {})
          BY FS_EmptySet, FS_Singleton
        <5> QED  BY <3>1, <5>1, <5>2, FS_Union
      <4> QED  BY <4>1, FS_CardinalityType
    <3> QED  BY <3>1, <3>4, <3>5, <3>6 DEF B, H
  <2>2. CASE ~st
    <3>1. Writing(AllFrames', z) = Writing(AllFrames, z) /\ Naming(z)' = Naming(z)
      BY <1>12, <1>15, <2>2
    <3> QED  BY <3>1
  <2> QED  BY <2>1, <2>2
<1>17. Unique'
  BY <1>0, <1>3, <1>10, UniqueStep
<1>18. StoreOK'
  <2>1. \A h \in AllFrames : h.pc = "store" /\ h \in AllFrames' =>
             kind'[h.obj] = kind[h.obj] /\ field'[h.obj] = field[h.obj]
    <3> SUFFICES ASSUME NEW h \in AllFrames, h.pc = "store", h \in AllFrames'
                 PROVE  field'[h.obj] = field[h.obj]
      BY <1>1
    <3>1. st => h.obj # o
      BY <1>8, <1>9
    <3>2. h.obj \in Blocks
      BY <1>0, StoreFacts
    <3> QED  BY <1>14, <3>1, <3>2
  <2> QED  BY <1>3, <1>11, <2>1, StoreKept DEF Safe
<1>19. DyingOK'
  <2> SUFFICES ASSUME NEW h \in AllFrames', h.pc \in Destroy
               PROVE  /\ h.obj \in used'
                      /\ ~h.gc => h.obj \in objects' /\ kind'[h.obj] \in RcKinds /\ count'[h.obj] = 0
                      /\ h.pc = "drop" => kind'[h.obj] \in DropKinds
                      /\ h.pc = "kids" => kind'[h.obj] \notin DropKinds
    BY DEF DyingOK
  <2>1. h \in AllFrames /\ h.obj # x
    BY <1>5, <1>9
  <2> QED  BY <1>1, <1>7, <2>1 DEF Safe, DyingOK
<1>20. PendingOK'
  BY <1>1 DEF PendingOK, Safe
<1>21. HeldOK'
  <2>1. ASSUME NEW z, Held(z)'  PROVE Held(z)
    <3>1. Held(z)' <=> \/ Binding(z)' # {} \/ Holding(AllFrames', z) # {} \/ Writing(AllFrames', z) # {}
      BY Primed
    <3> QED  BY <1>12, <1>13, <2>1, <3>1 DEF Held
  <2> QED  BY <1>1, <1>5, <1>7, <1>12, <2>1 DEF HeldOK, Safe
<1>22. FieldOK'
  <2> SUFFICES ASSUME NEW p \in used', p \notin ObjsOf(AllFrames', "free"), field'[p] # Null
               PROVE  /\ field'[p] \in used'
                      /\ field'[p] \in Dying' \cup pending' => field'[p] = p \/ p \in ObjsOf(AllFrames', "store")
                      /\ ~Counted(p) => field'[p] \in loose
    BY <1>1 DEF FieldOK, ObjsOf, Counted
  <2>1. p \in used /\ p # x /\ p \notin ObjsOf(AllFrames, "free") /\ p \in Blocks
    BY <1>0, <1>7, <1>12
  <2>2. CASE st /\ p = o
    <3>1. field'[p] = v
      BY <1>14, <2>1, <2>2
    <3> QED  BY <1>1, <1>7, <1>8, <1>12, <2>2, <3>1
  <2>3. CASE ~(st /\ p = o)
    <3>1. field'[p] = field[p]
      BY <1>14, <2>1, <2>3
    <3>2. /\ field[p] \in used
          /\ field[p] \in Dying \cup pending => field[p] = p \/ p \in ObjsOf(AllFrames, "store")
          /\ ~Counted(p) => field[p] \in loose
      BY <2>1, <3>1 DEF FieldOK, Safe
    <3>3. field[p] # x
      BY <1>6, <2>1, <2>3
    <3> QED  BY <1>1, <1>7, <1>12, <2>3, <3>1, <3>2, <3>3
  <2> QED  BY <2>2, <2>3
<1>23. CountOK'
  <2> SUFFICES ASSUME NEW z \in used', z \notin Dying', kind'[z] \in RcKinds
               PROVE  /\ count'[z] >= Cardinality(Binding(z)') + Cardinality(Holding(AllFrames', z))
                                      + Cardinality(Writing(AllFrames', z)) + Cardinality(Naming(z)')
                      /\ z \notin loose' =>
                           count'[z] = Cardinality(Binding(z)') + Cardinality(Holding(AllFrames', z))
                                       + Cardinality(Writing(AllFrames', z)) + Cardinality(Naming(z)')
    BY <1>0, CountsNext
  <2>1. z \in used /\ z \notin Dying /\ kind[z] \in RcKinds /\ loose' = loose /\ count' = count
    BY <1>1, <1>7, <1>12
  <2>2. /\ count[z] \in Nat
        /\ Cardinality(Binding(z)) \in Nat /\ Cardinality(Holding(AllFrames, z)) \in Nat
        /\ Cardinality(Writing(AllFrames, z)) \in Nat /\ Cardinality(Naming(z)) \in Nat
        /\ count[z] >= Cardinality(Binding(z)) + Cardinality(Holding(AllFrames, z))
                       + Cardinality(Writing(AllFrames, z)) + Cardinality(Naming(z))
        /\ z \notin loose =>
             count[z] = Cardinality(Binding(z)) + Cardinality(Holding(AllFrames, z))
                        + Cardinality(Writing(AllFrames, z)) + Cardinality(Naming(z))
    BY <2>1, CountsNow
  <2>3. RefSets(z)'
    BY <1>0, OwnersNext
  <2>4. /\ Cardinality(Binding(z)') \in Nat /\ Cardinality(Holding(AllFrames', z)) \in Nat
        /\ Cardinality(Writing(AllFrames', z)) \in Nat /\ Cardinality(Naming(z)') \in Nat
    BY <2>3 DEF RefSets, Holding, Writing
  <2>5. /\ Cardinality(Binding(z)') + Cardinality(Holding(AllFrames', z))
           = Cardinality(Binding(z)) + Cardinality(Holding(AllFrames, z))
        /\ Cardinality(Writing(AllFrames', z)) + Cardinality(Naming(z)')
           = Cardinality(Writing(AllFrames, z)) + Cardinality(Naming(z))
    BY <1>13, <1>16, <2>1
  <2> QED  BY <2>1, <2>2, <2>4, <2>5
<1>24. DropsOK'
  <2>1. drops[x] = IF kind[x] \in DropKinds THEN 1 ELSE 0
    BY <1>5 DEF DropsOK, Safe
  <2>2. ObjsOf(AllFrames, "free")' = ObjsOf(AllFrames, "free") \ {x}
    BY <1>12 DEF ObjsOf
  <2>3. \A b \in used' : drops[b] = IF b \in ObjsOf(AllFrames, "free") \ {x} /\ kind[b] \in DropKinds THEN 1 ELSE 0
    BY <1>7 DEF DropsOK, Safe
  <2>4. \A b \in Recycled' : kind[b] \in DropKinds => drops[b] = 1
    BY <1>7, <2>1 DEF DropsOK, Safe
  <2> QED  BY <1>1, <2>2, <2>3, <2>4 DEF DropsOK, Safe
<1> QED  BY <1>17, <1>18, <1>19, <1>20, <1>21, <1>22, <1>23, <1>24 DEF Safe
\* What a store does to the counts, the stacks and the bindings.
Stored(o) == IF Counted(o) THEN field[o] ELSE Null
LastStore(o, x) == Rc(Stored(o)) /\ Retained(count, x)[Stored(o)] = 1

\* What a write does, to the counts and to the stack.
LEMMA StoreEffect ==
    ASSUME Structure, NEW t \in Threads, NEW o \in Blocks, NEW x \in Blocks \cup {Null}, Store(t, o, x)
    PROVE  /\ \A y \in Blocks : Retained(count, x)[y] = IF Rc(x) /\ y = x THEN count[y] + 1 ELSE count[y]
           /\ \A y \in Blocks : count'[y] = IF Rc(Stored(o)) /\ y = Stored(o) /\ Retained(count, x)[y] > 0
                                             THEN Retained(count, x)[y] - 1 ELSE Retained(count, x)[y]
           /\ ~LastStore(o, x) => stack' = stack /\ refs' = refs /\ field' = [field EXCEPT ![o] = x]
           /\ LastStore(o, x) => refs' = [refs EXCEPT ![t] = {}] /\ field' = field
           /\ LastStore(o, x) => \E st, f \in Frame :
                /\ stack' = [stack EXCEPT ![t] = Append(Append(stack[t], st), f)]
                /\ f.pc = (IF kind[Stored(o)] \in DropKinds THEN "drop" ELSE "kids")
                /\ f.obj = Stored(o) /\ f.val = Null /\ ~f.gc /\ f.outer = refs[t]
                /\ st.pc = "store" /\ st.obj = o /\ st.val = x /\ ~st.gc /\ st.outer = {}
<1> DEFINE old  == Stored(o)
           c    == Retained(count, x)
           last == Rc(old) /\ c[old] = 1
           st   == Frm("store", o, x, FALSE, {})
           stk  == IF last THEN Append(stack[t], st) ELSE stack[t]
           rs   == refs[t]
           f    == Finalize(old, rs)
<1>0. TypeOK /\ refs \in [Threads -> SUBSET Blocks] /\ stack \in [Threads -> Seq(Frame)]
  BY DEF Structure, TypeOK
<1>1. /\ Release(t, old, c, stk, rs)
      /\ field' = IF last THEN field ELSE [field EXCEPT ![o] = x]
  BY DEF Store, Stored
<1>2. /\ c \in [Blocks -> Nat] /\ stack[t] \in Seq(Frame) /\ rs \in SUBSET Blocks
      /\ old \in Blocks \cup {Null}
      /\ \A y \in Blocks : c[y] = IF Rc(x) /\ y = x THEN count[y] + 1 ELSE count[y]
  BY <1>0, RetainedType DEF TypeOK, Stored
<1>3. st \in Frame /\ st.pc = "store" /\ ~st.gc /\ st.obj = o /\ st.val = x /\ st.outer = {}
  BY DEF Frm, Frame
<1> HIDE DEF st, c, old
<1>4. stk \in Seq(Frame)
  BY <1>2, <1>3
<1>5. refs' = [refs EXCEPT ![t] = IF last THEN {} ELSE rs]
  BY <1>1 DEF Release
<1>6. ~last => stk = stack[t]
  OBVIOUS
<1>7. last => stk = Append(stack[t], st)
  OBVIOUS
<1> HIDE DEF stk, rs
<1>8. /\ \A y \in Blocks : count'[y] = IF Rc(old) /\ y = old /\ c[y] > 0 THEN c[y] - 1 ELSE c[y]
      /\ ~last => stack' = [stack EXCEPT ![t] = stk] /\ refs'[t] = rs
      /\ last => /\ stack' = [stack EXCEPT ![t] = Append(stk, f)] /\ refs'[t] = {}
                 /\ f \in Frame /\ f.pc = (IF kind[old] \in DropKinds THEN "drop" ELSE "kids")
                 /\ f.obj = old /\ f.val = Null /\ ~f.gc /\ f.outer = rs /\ FrameFits(f)
  <2> HIDE DEF f, last
  <2>00. TypeOK
    BY <1>0
  <2>0. Release(t, old, c, stk, rs) /\ c \in [Blocks -> Nat] /\ rs \in SUBSET Blocks
        /\ old \in Blocks \cup {Null}
    BY <1>1, <1>2
  <2>1. \A y \in Blocks : count'[y] = IF Rc(old) /\ y = old /\ c[y] > 0 THEN c[y] - 1 ELSE c[y]
    BY <2>00, <2>0, <1>4, Released
  <2>2. ~last => stack' = [stack EXCEPT ![t] = stk] /\ refs'[t] = rs
    BY <2>00, <2>0, <1>4, Released DEF last
  <2>3. last => /\ stack' = [stack EXCEPT ![t] = Append(stk, f)] /\ refs'[t] = {}
                /\ f \in Frame /\ f.pc = (IF kind[old] \in DropKinds THEN "drop" ELSE "kids")
                /\ f.obj = old /\ f.val = Null /\ ~f.gc /\ f.outer = rs /\ FrameFits(f)
    BY <2>00, <2>0, <1>4, Released DEF last, f
  <2> QED  BY <2>1, <2>2, <2>3
<1> HIDE DEF f
<1>9. LastStore(o, x) <=> last
  BY DEF LastStore, c, old
<1> HIDE DEF last
<1>10. ~last => stack' = stack /\ refs' = refs /\ field' = [field EXCEPT ![o] = x]
  BY <1>0, <1>1, <1>5, <1>6, <1>8 DEF rs
<1>11. last => /\ stack' = [stack EXCEPT ![t] = Append(Append(stack[t], st), f)]
               /\ refs' = [refs EXCEPT ![t] = {}] /\ field' = field
  BY <1>1, <1>5, <1>7, <1>8
<1>12. last => /\ f \in Frame /\ f.pc = (IF kind[old] \in DropKinds THEN "drop" ELSE "kids")
               /\ f.obj = old /\ f.val = Null /\ ~f.gc /\ f.outer = refs[t]
  BY <1>8 DEF rs
<1>13. last => \E sf, ff \in Frame :
                /\ stack' = [stack EXCEPT ![t] = Append(Append(stack[t], sf), ff)]
                /\ ff.pc = (IF kind[old] \in DropKinds THEN "drop" ELSE "kids")
                /\ ff.obj = old /\ ff.val = Null /\ ~ff.gc /\ ff.outer = refs[t]
                /\ sf.pc = "store" /\ sf.obj = o /\ sf.val = x /\ ~sf.gc /\ sf.outer = {}
  BY <1>3, <1>11, <1>12
<1> QED  BY <1>2, <1>8, <1>9, <1>10, <1>11, <1>13 DEF c, old

\* What a clean store names: its operands live, and the field is free to write.
LEMMA StoreOperands ==
    ASSUME Structure, Safe, Clean', NEW t \in Threads, NEW o \in Blocks, NEW x \in Blocks \cup {Null},
           Store(t, o, x)
    PROVE  /\ o \in used /\ o \notin Busy(AllFrames) /\ o \notin pending
           /\ o \in refs[t] \/ (stack[t] # <<>> /\ Top(t).pc = "drop" /\ Top(t).obj = o)
           /\ stack[t] = <<>> \/ Top(t).pc = "drop"
           /\ x # field[o] /\ x \notin Dying /\ field[o] \notin Dying
           /\ x # Null => x \in refs[t] /\ x \in used /\ x \notin pending
           /\ field[o] # Null => /\ field[o] \in used /\ field[o] \in Blocks /\ field[o] \notin pending
                                 /\ ~Counted(o) => field[o] \in loose
           /\ loose' = (IF Counted(o) THEN loose ELSE loose \cup ({x} \ {Null}))
           /\ UNCHANGED <<slabs, used, kind, objects, pending, drops>>
<1>0. TypeOK
  BY DEF Structure
<1>1. /\ InCode(t) /\ o \in Visible(t) /\ x \in refs[t] \cup Self(t) \cup {Null} /\ x # field[o]
      /\ loose' = (IF Counted(o) THEN loose ELSE loose \cup ({x} \ {Null}))
      /\ UNCHANGED <<slabs, used, kind, objects, pending, drops>>
  BY DEF Store, gcvars
<1>2. tame' = (tame /\ {x, field[o]} \cap Dying = {})
  BY DEF Store
<1>3. x \notin Dying /\ field[o] \notin Dying
  BY <1>2 DEF Clean
<1>4. stack[t] = <<>> \/ (stack[t] # <<>> /\ Top(t).pc = "drop")
  BY <1>1 DEF InCode, At
<1>5. x \notin Self(t)
  <2> SUFFICES ASSUME At(t, "drop"), x = Top(t).obj  PROVE FALSE
    BY DEF Self
  <2>1. Top(t) \in AllFrames /\ Top(t).pc = "drop"
    BY <1>0, PopFacts DEF At
  <2> QED  BY <1>3, <2>1 DEF Dying
<1>6. x # Null => x \in refs[t] /\ x \in used /\ x \notin pending
  <2> SUFFICES ASSUME x # Null  PROVE x \in refs[t] /\ x \in used /\ x \notin pending
    OBVIOUS
  <2>1. x \in refs[t] /\ x \in Blocks
    BY <1>1, <1>5
  <2>2. Held(x)
    BY <2>1 DEF Held, Binding
  <2> QED  BY <2>1, <2>2 DEF Safe, HeldOK
<1>7. /\ o \in used /\ o \notin pending
      /\ o \in refs[t] \/ (stack[t] # <<>> /\ Top(t).pc = "drop" /\ Top(t).obj = o)
  BY <1>1, VisibleFacts
<1>8. /\ o \notin Busy(AllFrames)
      /\ field[o] # Null => /\ field[o] \in used /\ field[o] \in Blocks /\ field[o] \notin pending
                            /\ ~Counted(o) => field[o] \in loose
  BY <1>1, <1>3, FieldLives
<1> QED  BY <1>1, <1>3, <1>4, <1>6, <1>7, <1>8

\* A write whose old value stays alive.
LEMMA SafeStoreMore ==
    ASSUME Structure, Safe, Clean', NEW t \in Threads, NEW o \in Blocks, NEW x \in Blocks \cup {Null},
           Store(t, o, x), ~LastStore(o, x)
    PROVE  Safe'
<1> DEFINE old == Stored(o)
           c   == Retained(count, x)
<1>0. TypeOK /\ TypeOK' /\ Structure' /\ used \subseteq Blocks /\ field \in [Blocks -> Blocks \cup {Null}]
      /\ count \in [Blocks -> Nat]
  BY StructureStore DEF Structure, TypeOK
<1>1. /\ \A y \in Blocks : c[y] = IF Rc(x) /\ y = x THEN count[y] + 1 ELSE count[y]
      /\ \A y \in Blocks : count'[y] = IF Rc(old) /\ y = old /\ c[y] > 0 THEN c[y] - 1 ELSE c[y]
      /\ stack' = stack /\ refs' = refs /\ field' = [field EXCEPT ![o] = x]
  BY StoreEffect
<1> HIDE DEF c
<1>2. /\ o \in used /\ o \notin Busy(AllFrames)
      /\ x # field[o] /\ x \notin Dying /\ field[o] \notin Dying
      /\ x # Null => x \in refs[t] /\ x \in used /\ x \notin pending
      /\ field[o] # Null => /\ field[o] \in used /\ field[o] \in Blocks /\ field[o] \notin pending
                            /\ ~Counted(o) => field[o] \in loose
      /\ loose' = (IF Counted(o) THEN loose ELSE loose \cup ({x} \ {Null}))
      /\ UNCHANGED <<slabs, used, kind, objects, pending, drops>>
  BY StoreOperands
<1>3. /\ AllFrames' = AllFrames /\ Dying' = Dying /\ Unique'
      /\ \A y : Holding(AllFrames', y) = Holding(AllFrames, y)
      /\ \A y : Writing(AllFrames', y) = Writing(AllFrames, y)
      /\ Recycled' = Recycled
  BY <1>1, <1>2, StillStack DEF Safe, Recycled, slabs
<1>4. \A y : Binding(y)' = Binding(y)
  BY <1>1, Primed DEF Binding
<1>5. field'[o] = x /\ \A p \in Blocks : p # o => field'[p] = field[p]
  BY <1>0, <1>1
<1>6. \A z : Naming(z)' = (Naming(z) \ {o}) \cup (IF z = x THEN {o} ELSE {})
  <2> SUFFICES ASSUME NEW z, NEW p
               PROVE  p \in Naming(z)' <=> (p \in Naming(z) /\ p # o) \/ (z = x /\ p = o)
    OBVIOUS
  <2>1. p \in Naming(z)' <=> p \in used /\ field'[p] = z /\ p \notin Busy(AllFrames)
    BY <1>2, <1>3, Primed
  <2>2. p \in Naming(z) <=> p \in used /\ field[p] = z /\ p \notin Busy(AllFrames)
    BY DEF Naming
  <2>3. CASE p = o
    BY <1>2, <1>5, <2>1, <2>2, <2>3
  <2>4. CASE p # o
    BY <1>0, <1>5, <2>1, <2>2, <2>4
  <2> QED  BY <2>3, <2>4
<1>7. o \notin ObjsOf(AllFrames, "store") /\ o \notin ObjsOf(AllFrames, "free")
  BY <1>2 DEF Busy
<1>8. DyingOK' /\ PendingOK'
  <2>1. \A g \in AllFrames : g.pc \in Destroy => g.obj \in Dying /\ g.obj \in Blocks
    BY <1>0, DyingFacts
  <2>2. \A g \in AllFrames : g.pc \in Destroy => count'[g.obj] = count[g.obj]
    <3> SUFFICES ASSUME NEW g \in AllFrames, g.pc \in Destroy  PROVE count'[g.obj] = count[g.obj]
      OBVIOUS
    <3>1. g.obj \in Blocks /\ g.obj # x /\ g.obj # field[o] /\ g.obj # Null
      BY <1>2, <2>1, HeapAssumption
    <3>2. g.obj # old
      BY <3>1 DEF Stored
    <3> QED  BY <1>1, <3>1, <3>2
  <2> QED  BY <1>2, <1>3, <2>2 DEF DyingOK, PendingOK, Safe
<1>9. HeldOK'
  BY <1>2, <1>3, <1>4, Primed DEF HeldOK, Safe, Held
<1>10. StoreOK'
  <2>1. \A g \in AllFrames : g.pc = "store" => g.obj # o /\ g.obj \in Blocks
    BY <1>0, <1>7, StoreFacts DEF ObjsOf
  <2> QED  BY <1>1, <1>2, <1>5, <2>1, StoreSame DEF Safe
<1>11. FieldOK'
  <2> SUFFICES ASSUME NEW p \in used, p \notin ObjsOf(AllFrames, "free"), field'[p] # Null
               PROVE  /\ field'[p] \in used
                      /\ field'[p] \in Dying \cup pending => field'[p] = p \/ p \in ObjsOf(AllFrames, "store")
                      /\ ~Counted(p) => field'[p] \in loose'
    BY <1>2, <1>3 DEF FieldOK, ObjsOf, Counted
  <2>1. CASE p = o
    BY <1>2, <1>5, <2>1
  <2>2. CASE p # o
    <3>1. field'[p] = field[p]
      BY <1>0, <1>5, <2>2
    <3>2. /\ field[p] \in used
          /\ field[p] \in Dying \cup pending => field[p] = p \/ p \in ObjsOf(AllFrames, "store")
          /\ ~Counted(p) => field[p] \in loose
      BY <3>1 DEF FieldOK, Safe
    <3> QED  BY <1>2, <3>1, <3>2
  <2> QED  BY <2>1, <2>2
<1>12. CountOK'
  <2> SUFFICES ASSUME NEW z \in used', z \notin Dying', kind'[z] \in RcKinds
               PROVE  /\ count'[z] >= Cardinality(Binding(z)') + Cardinality(Holding(AllFrames', z))
                                      + Cardinality(Writing(AllFrames', z)) + Cardinality(Naming(z)')
                      /\ z \notin loose' =>
                           count'[z] = Cardinality(Binding(z)') + Cardinality(Holding(AllFrames', z))
                                       + Cardinality(Writing(AllFrames', z)) + Cardinality(Naming(z)')
    BY <1>0, CountsNext
  <2>1. /\ z \in used /\ z \in Blocks /\ z \notin Dying /\ kind[z] \in RcKinds /\ z # Null
        /\ (z \notin loose' => z \notin loose) /\ Rc(z)
    BY <1>0, <1>2, <1>3, HeapAssumption DEF Rc
  <2>2. /\ count[z] \in Nat /\ IsFiniteSet(Naming(z))
        /\ Cardinality(Binding(z)) \in Nat /\ Cardinality(Holding(AllFrames, z)) \in Nat
        /\ Cardinality(Writing(AllFrames, z)) \in Nat /\ Cardinality(Naming(z)) \in Nat
        /\ count[z] >= Cardinality(Binding(z)) + Cardinality(Holding(AllFrames, z))
                       + Cardinality(Writing(AllFrames, z)) + Cardinality(Naming(z))
        /\ z \notin loose =>
             count[z] = Cardinality(Binding(z)) + Cardinality(Holding(AllFrames, z))
                        + Cardinality(Writing(AllFrames, z)) + Cardinality(Naming(z))
    BY <2>1, CountsNow
  <2>3. /\ Cardinality(Binding(z)') = Cardinality(Binding(z))
        /\ Cardinality(Holding(AllFrames', z)) = Cardinality(Holding(AllFrames, z))
        /\ Cardinality(Writing(AllFrames', z)) = Cardinality(Writing(AllFrames, z))
    BY <1>3, <1>4
  <2>4. CASE z = x
    <3>1. o \notin Naming(z)
      BY <1>2, <2>4 DEF Naming
    <3>2. Naming(z)' = Naming(z) \cup {o}
      BY <1>6, <2>4, <3>1
    <3>3. Cardinality(Naming(z)') = Cardinality(Naming(z)) + 1
      BY <2>2, <3>1, <3>2, CardPlus
    <3>4. z # old
      BY <1>2, <2>1, <2>4 DEF Stored
    <3>5. count'[z] = count[z] + 1
      BY <1>1, <2>1, <2>4, <3>4
    <3> QED  BY <2>1, <2>2, <2>3, <3>3, <3>5
  <2>5. CASE z = field[o]
    <3>1. o \in Naming(z)
      BY <1>2, <2>5 DEF Naming
    <3>2. Naming(z)' = Naming(z) \ {o} /\ z # x
      BY <1>2, <1>6, <2>5
    <3>3. Cardinality(Naming(z)') = Cardinality(Naming(z)) - 1 /\ Cardinality(Naming(z)) \in Nat \ {0}
      BY <2>2, <3>1, <3>2, CardMinus
    <3>4. c[z] = count[z]
      BY <1>1, <2>1, <3>2
    <3>5. CASE Counted(o)
      <4>1. old = z /\ count[z] > 0
        BY <2>2, <2>5, <3>3, <3>5 DEF Stored
      <4>2. count'[z] = count[z] - 1
        BY <1>1, <2>1, <3>4, <4>1
      <4> QED  BY <2>1, <2>2, <2>3, <3>3, <4>2
    <3>6. CASE ~Counted(o)
      <4>1. old = Null /\ z \in loose /\ z \in loose'
        BY <1>2, <2>1, <2>5, <3>6 DEF Stored
      <4>2. count'[z] = count[z]
        BY <1>1, <2>1, <3>4, <4>1
      <4> QED  BY <2>1, <2>2, <2>3, <3>3, <4>1, <4>2
    <3> QED  BY <3>5, <3>6
  <2>6. CASE z # x /\ z # field[o]
    <3>1. Naming(z)' = Naming(z)
      BY <1>6, <2>6 DEF Naming
    <3>2. count'[z] = count[z]
      BY <1>1, <2>1, <2>6 DEF Stored
    <3> QED  BY <2>1, <2>2, <2>3, <3>1, <3>2
  <2> QED  BY <2>4, <2>5, <2>6
<1>13. DropsOK'
  BY <1>2, <1>3 DEF DropsOK, Safe, ObjsOf
<1> QED  BY <1>3, <1>8, <1>9, <1>10, <1>11, <1>12, <1>13 DEF Safe
\* A write that releases the last reference to the old value: the destructor
\* runs before the new value is in the field.
LEMMA SafeStoreLast ==
    ASSUME Structure, Safe, Clean', NEW t \in Threads, NEW o \in Blocks, NEW x \in Blocks \cup {Null},
           Store(t, o, x), LastStore(o, x)
    PROVE  Safe'
<1> DEFINE old == Stored(o)
           c   == Retained(count, x)
           n   == Len(stack[t])
<1>0. TypeOK /\ TypeOK' /\ Structure' /\ used \subseteq Blocks /\ field \in [Blocks -> Blocks \cup {Null}]
      /\ count \in [Blocks -> Nat] /\ refs \in [Threads -> SUBSET Blocks] /\ Unique /\ StoreOK
      /\ stack[t] \in Seq(Frame)
  BY StructureStore DEF Structure, TypeOK, Safe
<1>1. /\ \A y \in Blocks : c[y] = IF Rc(x) /\ y = x THEN count[y] + 1 ELSE count[y]
      /\ \A y \in Blocks : count'[y] = IF Rc(old) /\ y = old /\ c[y] > 0 THEN c[y] - 1 ELSE c[y]
      /\ refs' = [refs EXCEPT ![t] = {}] /\ field' = field
      /\ \E st, f \in Frame :
           /\ stack' = [stack EXCEPT ![t] = Append(Append(stack[t], st), f)]
           /\ f.pc = (IF kind[old] \in DropKinds THEN "drop" ELSE "kids")
           /\ f.obj = old /\ f.val = Null /\ ~f.gc /\ f.outer = refs[t]
           /\ st.pc = "store" /\ st.obj = o /\ st.val = x /\ ~st.gc /\ st.outer = {}
  BY StoreEffect
<1>2. PICK st \in Frame, f \in Frame :
        /\ stack' = [stack EXCEPT ![t] = Append(Append(stack[t], st), f)]
        /\ f.pc = (IF kind[old] \in DropKinds THEN "drop" ELSE "kids")
        /\ f.obj = old /\ f.val = Null /\ ~f.gc /\ f.outer = refs[t]
        /\ st.pc = "store" /\ st.obj = o /\ st.val = x /\ ~st.gc /\ st.outer = {}
  BY <1>1
<1>3. Rc(old) /\ c[old] = 1
  BY DEF LastStore
<1> HIDE DEF c
<1>4. /\ o \in used /\ o \notin Busy(AllFrames)
      /\ o \in refs[t] \/ (stack[t] # <<>> /\ Top(t).pc = "drop" /\ Top(t).obj = o)
      /\ stack[t] = <<>> \/ Top(t).pc = "drop"
      /\ x # field[o] /\ x \notin Dying /\ field[o] \notin Dying
      /\ x # Null => x \in refs[t] /\ x \in used /\ x \notin pending
      /\ field[o] # Null => field[o] \in used /\ field[o] \in Blocks /\ field[o] \notin pending
      /\ loose' = (IF Counted(o) THEN loose ELSE loose \cup ({x} \ {Null}))
      /\ UNCHANGED <<slabs, used, kind, objects, pending, drops>>
  BY StoreOperands
<1>5. /\ Counted(o) /\ old = field[o] /\ old \in used /\ old \in Blocks /\ old \notin Dying /\ old \notin pending
      /\ kind[old] \in RcKinds /\ x # old /\ loose' = loose /\ old # Null
  <2>1. Counted(o)
    BY <1>3 DEF Stored, Rc
  <2>2. old = field[o] /\ old # Null /\ kind[old] \in RcKinds
    BY <1>3, <2>1 DEF Stored, Rc
  <2> QED  BY <1>4, <2>1, <2>2
<1> HIDE DEF old
<1>6. count[old] = 1 /\ count'[old] = 0
      /\ \A y \in Blocks : y # old => count'[y] = IF y = x /\ Rc(x) THEN count[y] + 1 ELSE count[y]
  BY <1>1, <1>3, <1>5
<1>7. o \in Naming(old)
  BY <1>4, <1>5 DEF Naming
<1>8. Naming(old) = {o} /\ Holding(AllFrames, old) = {} /\ Writing(AllFrames, old) = {} /\ Binding(old) = {}
  BY <1>5, <1>6, <1>7, Alone
<1>9. old \in objects
  BY <1>5, LiveCounted
<1>10. o \notin ObjsOf(AllFrames, "store") /\ o \notin ObjsOf(AllFrames, "free")
  BY <1>4 DEF Busy
<1>11. f.pc \in {"drop", "kids"} /\ f.pc \in Destroy
  BY <1>2 DEF Destroy
\* The stack.
<1> DEFINE s == Append(Append(stack[t], st), f)
<1>12. /\ Restacked(t, s, n) /\ n \in Nat /\ Len(s) = n + 2 /\ s[n + 1] = st /\ s[n + 2] = f
       /\ \A i \in 1 .. n : s[i] = stack[t][i]
  <2> DEFINE r == Append(stack[t], st)
  <2>1. /\ r \in Seq(Frame) /\ n \in Nat /\ Len(r) = n + 1 /\ r[n + 1] = st /\ \A i \in 1 .. n : r[i] = stack[t][i]
    BY <1>0, StackFacts, AppendProperties
  <2> HIDE DEF r, n
  <2>2. /\ Append(r, f) \in Seq(Frame) /\ Len(Append(r, f)) = Len(r) + 1 /\ Append(r, f)[Len(r) + 1] = f
        /\ \A i \in 1 .. Len(r) : Append(r, f)[i] = r[i]
    BY <2>1, AppendProperties
  <2>3. s = Append(r, f)
    BY DEF r
  <2> HIDE DEF s
  <2>4. Len(s) = n + 2 /\ s[n + 2] = f /\ \A i \in 1 .. n + 1 : s[i] = r[i]
    BY <2>1, <2>2, <2>3
  <2>5. s[n + 1] = st /\ \A i \in 1 .. n : s[i] = stack[t][i]
    BY <2>1, <2>4
  <2> QED  BY <1>2, <2>1, <2>2, <2>3, <2>4, <2>5 DEF Restacked, n, s
<1>13. (\A u \in Threads : \A i \in 1 .. Len(stack[u]) : stack[u][i] \in AllFrames)
       /\ (n # 0 => Top(t) = stack[t][n] /\ stack[t] # <<>>) /\ (stack[t] # <<>> => n # 0)
  BY <1>0, StackFacts
<1>14. (\A g \in AllFrames : ~Alike(f, g) /\ ~Alike(st, g)) /\ f \notin AllFrames /\ st \notin AllFrames
  <2>1. \A g \in AllFrames : g.pc \in Destroy => g.obj # old
    BY <1>5 DEF Dying, Destroy
  <2>2. \A g \in AllFrames : g.pc = "store" => g.obj # o
    BY <1>10 DEF ObjsOf
  <2> QED  BY <1>2, <1>11, <2>1, <2>2 DEF Alike, Destroy
<1>15. ~Alike(f, st) /\ ~Alike(st, f) /\ f # st
  BY <1>2, <1>11 DEF Alike, Destroy
<1> HIDE DEF s, n
<1>16. \A i \in n + 1 .. Len(s) : (i = n + 1 /\ s[i] = st) \/ (i = n + 2 /\ s[i] = f)
  BY <1>12
<1>17. Unique'
  <2>1. ASSUME NEW i \in n + 1 .. Len(s), NEW j \in 1 .. Len(s), Alike(s[i], s[j])  PROVE i = j
    <3>1. CASE j \in 1 .. n
      <4>1. s[j] \in AllFrames
        BY <1>12, <1>13, <3>1 DEF n
      <4> QED  BY <1>14, <1>16, <2>1, <4>1
    <3>2. CASE j \notin 1 .. n
      <4>1. j \in n + 1 .. Len(s)
        BY <1>12, <3>2
      <4> QED  BY <1>15, <1>16, <2>1, <4>1
    <3> QED  BY <3>1, <3>2
  <2>2. \A i \in n + 1 .. Len(s) : \A u \in Threads \ {t} : \A j \in 1 .. Len(stack[u]) : ~Alike(s[i], stack[u][j])
    BY <1>13, <1>14, <1>16
  <2> QED  BY <1>0, <1>12, <2>1, <2>2, UniqueStep
<1>18. AllFrames' = AllFrames \cup {st, f}
  <2>1. \A i \in n + 1 .. Len(stack[t]) : FALSE
    BY <1>12 DEF n
  <2>2. AllFrames' = (AllFrames \ {stack[t][i] : i \in n + 1 .. Len(stack[t])}) \cup {s[i] : i \in n + 1 .. Len(s)}
    BY <1>0, <1>12, <2>1, RestackedExact
  <2>3. {s[i] : i \in n + 1 .. Len(s)} = {st, f}
    <3>1. n + 1 \in n + 1 .. Len(s) /\ n + 2 \in n + 1 .. Len(s)
      BY <1>12
    <3> QED  BY <1>12, <1>16, <3>1
  <2> QED  BY <2>1, <2>2, <2>3
<1>19. StoreOK'
  <2>1. ASSUME NEW i \in 1 .. Len(s) - 1, i >= n, s[i].pc = "store"
        PROVE  /\ kind'[s[i].obj] \notin HolderKinds /\ field'[s[i].obj] = s[i + 1].obj
               /\ \/ s[i].obj \in s[i + 1].outer
                  \/ i > 1 /\ s[i - 1].pc = "drop" /\ s[i - 1].obj = s[i].obj
    <3>1. CASE i = n
      <4>1. i \in 1 .. n /\ n # 0
        BY <1>12, <3>1
      <4> QED  BY <1>4, <1>12, <1>13, <2>1, <3>1, <4>1
    <3>2. CASE i # n
      <4>1. i = n + 1 /\ i + 1 = n + 2
        BY <1>12, <2>1, <3>2
      <4>2. s[i] = st /\ s[i + 1] = f
        BY <1>12, <4>1
      <4>3. CASE o \in refs[t]
        BY <1>1, <1>2, <1>4, <1>5, <4>2, <4>3 DEF Counted
      <4>4. CASE stack[t] # <<>> /\ Top(t).pc = "drop" /\ Top(t).obj = o
        <5>1. n \in 1 .. n /\ i > 1 /\ i - 1 = n
          BY <1>12, <1>13, <4>1, <4>4
        <5>2. s[i - 1] = Top(t)
          BY <1>12, <1>13, <4>4, <5>1
        <5> QED  BY <1>1, <1>2, <1>4, <1>5, <4>2, <4>4, <5>1, <5>2 DEF Counted
      <4> QED  BY <1>4, <4>3, <4>4
    <3> QED  BY <3>1, <3>2
  <2>2. \A g \in AllFrames : kind'[g.obj] = kind[g.obj] /\ field'[g.obj] = field[g.obj]
    BY <1>1, <1>4
  <2> QED  BY <1>0, <1>12, <2>1, <2>2, StoreKept
\* The references.
<1>20. /\ Dying' = Dying \cup {old}
       /\ ObjsOf(AllFrames', "free") = ObjsOf(AllFrames, "free")
       /\ ObjsOf(AllFrames', "store") = ObjsOf(AllFrames, "store") \cup {o}
       /\ \A z : Holding(AllFrames', z) = Holding(AllFrames, z) \cup (IF z \in refs[t] THEN {f} ELSE {})
       /\ \A z : Writing(AllFrames', z) = Writing(AllFrames, z) \cup (IF z = x THEN {st} ELSE {})
  <2>0. st.pc \notin Destroy /\ st.pc # "free" /\ f.pc # "free" /\ f.pc # "store"
    BY <1>2, <1>11 DEF Destroy
  <2>1. Dying' = Dying \cup {old}
    BY <1>2, <1>11, <1>18, <2>0, Primed DEF DyingOf
  <2>2. ObjsOf(AllFrames', "free") = ObjsOf(AllFrames, "free")
    BY <1>18, <2>0 DEF ObjsOf
  <2>3. ObjsOf(AllFrames', "store") = ObjsOf(AllFrames, "store") \cup {o}
    BY <1>2, <1>18, <2>0 DEF ObjsOf
  <2>4. \A z : Holding(AllFrames', z) = Holding(AllFrames, z) \cup (IF z \in refs[t] THEN {f} ELSE {})
    BY <1>2, <1>18 DEF Holding
  <2>5. \A z : Writing(AllFrames', z) = Writing(AllFrames, z) \cup (IF z = x THEN {st} ELSE {})
    BY <1>2, <1>18, <2>0 DEF Writing
  <2> QED  BY <2>1, <2>2, <2>3, <2>4, <2>5
<1>21. \A z : Binding(z)' = Binding(z) \ {t}
  BY <1>0, <1>1, Primed DEF Binding
<1>22. \A z : Naming(z)' = Naming(z) \ {o}
  BY <1>1, <1>4, <1>20, Primed DEF Naming, Busy
<1>23. DyingOK'
  <2>1. \A g \in AllFrames : g.pc \in Destroy => g.obj \in Dying /\ g.obj \in Blocks
    BY <1>0, DyingFacts
  <2>2. \A g \in AllFrames : g.pc \in Destroy => count'[g.obj] = count[g.obj]
    BY <1>4, <1>5, <1>6, <2>1
  <2> SUFFICES ASSUME NEW g \in AllFrames', g.pc \in Destroy
               PROVE  /\ g.obj \in used'
                      /\ ~g.gc => g.obj \in objects' /\ kind'[g.obj] \in RcKinds /\ count'[g.obj] = 0
                      /\ g.pc = "drop" => kind'[g.obj] \in DropKinds
                      /\ g.pc = "kids" => kind'[g.obj] \notin DropKinds
    BY DEF DyingOK
  <2>3. CASE g \in AllFrames
    BY <1>4, <2>2, <2>3 DEF Safe, DyingOK
  <2>4. CASE g = f
    BY <1>2, <1>4, <1>5, <1>6, <1>9, <2>4
  <2>5. g # st
    BY <1>2 DEF Destroy
  <2> QED  BY <1>18, <2>3, <2>4, <2>5
<1>24. PendingOK'
  BY <1>4 DEF PendingOK, Safe
<1>25. HeldOK'
  <2>1. ASSUME NEW z, Held(z)'  PROVE (Held(z) /\ z # old) \/ z = x
    <3>1. Held(z)' <=> \/ Binding(z)' # {} \/ Holding(AllFrames', z) # {} \/ Writing(AllFrames', z) # {}
      BY Primed
    <3>2. CASE Binding(z)' # {}
      BY <1>8, <1>21, <3>2 DEF Held
    <3>3. CASE Holding(AllFrames', z) # {}
      <4>1. CASE z \in refs[t]
        <5>1. t \in Binding(z)
          BY <4>1 DEF Binding
        <5> QED  BY <1>8, <5>1 DEF Held
      <4>2. CASE z \notin refs[t]
        BY <1>8, <1>20, <3>3, <4>2 DEF Held
      <4> QED  BY <4>1, <4>2
    <3>4. CASE Writing(AllFrames', z) # {}
      BY <1>8, <1>20, <3>4 DEF Held
    <3> QED  BY <2>1, <3>1, <3>2, <3>3, <3>4
  <2> SUFFICES ASSUME NEW z \in Blocks, Held(z)'
               PROVE  z \in used' /\ z \notin Dying' /\ z \notin pending'
    BY DEF HeldOK
  <2>2. CASE Held(z) /\ z # old
    BY <1>4, <1>20, <2>2 DEF Safe, HeldOK
  <2>3. CASE z = x
    <3>1. z # Null
      BY HeapAssumption
    <3> QED  BY <1>4, <1>5, <1>20, <2>3, <3>1
  <2> QED  BY <2>1, <2>2, <2>3
<1>26. FieldOK'
  <2> SUFFICES ASSUME NEW p \in used, p \notin ObjsOf(AllFrames', "free"), field[p] # Null
               PROVE  /\ field[p] \in used
                      /\ field[p] \in Dying' \cup pending => field[p] = p \/ p \in ObjsOf(AllFrames', "store")
                      /\ ~Counted(p) => field[p] \in loose
    BY <1>1, <1>4, <1>5 DEF FieldOK, ObjsOf, Counted
  <2>1. /\ field[p] \in used
        /\ field[p] \in Dying \cup pending => field[p] = p \/ p \in ObjsOf(AllFrames, "store")
        /\ ~Counted(p) => field[p] \in loose
    BY <1>20 DEF FieldOK, Safe
  <2>2. field[p] = old => p \in ObjsOf(AllFrames', "store")
    BY <1>8, <1>20 DEF Naming, Busy
  <2> QED  BY <1>20, <2>1, <2>2
<1>27. CountOK'
  <2> SUFFICES ASSUME NEW z \in used', z \notin Dying', kind'[z] \in RcKinds
               PROVE  /\ count'[z] >= Cardinality(Binding(z)') + Cardinality(Holding(AllFrames', z))
                                      + Cardinality(Writing(AllFrames', z)) + Cardinality(Naming(z)')
                      /\ z \notin loose' =>
                           count'[z] = Cardinality(Binding(z)') + Cardinality(Holding(AllFrames', z))
                                       + Cardinality(Writing(AllFrames', z)) + Cardinality(Naming(z)')
    BY <1>0, CountsNext
  <2>1. /\ z \in used /\ z \in Blocks /\ z \notin Dying /\ kind[z] \in RcKinds /\ z # old /\ loose' = loose
        /\ z # Null /\ Rc(z)
    BY <1>0, <1>4, <1>5, <1>20, HeapAssumption DEF Rc
  <2>2. /\ count[z] \in Nat /\ IsFiniteSet(Binding(z)) /\ IsFiniteSet(Holding(AllFrames, z))
        /\ IsFiniteSet(Writing(AllFrames, z))
        /\ Cardinality(Binding(z)) \in Nat /\ Cardinality(Holding(AllFrames, z)) \in Nat
        /\ Cardinality(Writing(AllFrames, z)) \in Nat /\ Cardinality(Naming(z)) \in Nat
        /\ count[z] >= Cardinality(Binding(z)) + Cardinality(Holding(AllFrames, z))
                       + Cardinality(Writing(AllFrames, z)) + Cardinality(Naming(z))
        /\ z \notin loose =>
             count[z] = Cardinality(Binding(z)) + Cardinality(Holding(AllFrames, z))
                        + Cardinality(Writing(AllFrames, z)) + Cardinality(Naming(z))
    BY <2>1, CountsNow
  <2>3. Cardinality(Binding(z)') + Cardinality(Holding(AllFrames', z))
        = Cardinality(Binding(z)) + Cardinality(Holding(AllFrames, z))
    <3> DEFINE B == Binding(z)
               H == Holding(AllFrames, z)
    <3>1. IsFiniteSet(B) /\ IsFiniteSet(H) /\ f \notin H
      BY <1>14, <2>2 DEF Holding
    <3>2. Binding(z)' = B \ {t} /\ Holding(AllFrames', z) = H \cup (IF t \in B THEN {f} ELSE {})
      <4>1. z \in refs[t] <=> t \in B
        BY DEF Binding
      <4> QED  BY <1>20, <1>21, <4>1
    <3> HIDE DEF B, H
    <3>3. Cardinality(B \ {t}) + Cardinality(H \cup (IF t \in B THEN {f} ELSE {})) = Cardinality(B) + Cardinality(H)
      BY <3>1, PutAside
    <3> QED  BY <3>2, <3>3 DEF B, H
  <2>4. Naming(z)' = Naming(z)
    BY <1>5, <1>22, <2>1 DEF Naming
  <2>5. CASE z = x
    <3>1. Writing(AllFrames', z) = Writing(AllFrames, z) \cup {st} /\ st \notin Writing(AllFrames, z)
      BY <1>14, <1>20, <2>5 DEF Writing
    <3>2. Cardinality(Writing(AllFrames', z)) = Cardinality(Writing(AllFrames, z)) + 1
      BY <2>2, <3>1, CardPlus
    <3>3. count'[z] = count[z] + 1
      BY <1>6, <2>1, <2>5
    <3> QED  BY <2>1, <2>2, <2>3, <2>4, <3>2, <3>3
  <2>6. CASE z # x
    <3>1. Writing(AllFrames', z) = Writing(AllFrames, z) /\ count'[z] = count[z]
      BY <1>6, <1>20, <2>1, <2>6
    <3> QED  BY <2>1, <2>2, <2>3, <2>4, <3>1
  <2> QED  BY <2>5, <2>6
<1>28. DropsOK'
  <2>1. Recycled' = Recycled /\ ObjsOf(AllFrames, "free")' = ObjsOf(AllFrames, "free")
    <3>1. Recycled' = Recycled
      BY <1>4 DEF Recycled, slabs
    <3>2. ObjsOf(AllFrames, "free")' = ObjsOf(AllFrames, "free")
      BY <1>20 DEF ObjsOf
    <3> QED  BY <3>1, <3>2
  <2> QED  BY <1>4, <2>1 DEF DropsOK, Safe
<1> QED  BY <1>17, <1>19, <1>23, <1>24, <1>25, <1>26, <1>27, <1>28 DEF Safe

\* A write to a field.
LEMMA SafeStore ==
    ASSUME Structure, Safe, Clean', NEW t \in Threads, NEW o \in Blocks, NEW x \in Blocks \cup {Null},
           Store(t, o, x)
    PROVE  Safe'
  BY SafeStoreMore, SafeStoreLast
\* rc_finalize's frame moves on to "free"; the frame of a child that dies with it
\* goes on top.
LEMMA KidsStack ==
    ASSUME Structure, NEW t \in Threads, ReleaseKids(t)
    PROVE  LET f    == Top(t)
               kid  == Stored(f.obj)
               last == Rc(kid) /\ count[kid] = 1
               n    == Len(stack[t])
           IN  /\ stack[t] # <<>> /\ f.pc \in {"drop", "kids"} /\ ~f.gc /\ refs[t] = {} /\ refs' = refs
               /\ n \in Nat \ {0} /\ f = stack[t][n] /\ f \in AllFrames
               /\ \A y \in Blocks : count'[y] = IF Rc(kid) /\ y = kid /\ count[y] > 0 THEN count[y] - 1 ELSE count[y]
               /\ \E s, h : \E g \in Frame :
                    /\ Restacked(t, s, n - 1) /\ s[n] = g
                    /\ \A i \in 1 .. n - 1 : s[i] = stack[t][i]
                    /\ g.pc = "free" /\ g.obj = f.obj /\ g.outer = f.outer /\ ~g.gc
                    /\ ~last => Len(s) = n
                    /\ last => /\ Len(s) = n + 1 /\ s[n + 1] = h
                               /\ h.pc = (IF kind[kid] \in DropKinds THEN "drop" ELSE "kids")
                               /\ h.obj = kid /\ ~h.gc /\ h.outer = {}
<1> DEFINE f    == Top(t)
           g    == [f EXCEPT !.pc = "free"]
           stk  == Append(Front(stack[t]), g)
           kid  == Stored(f.obj)
           last == Rc(kid) /\ count[kid] = 1
           rs   == {}
           h    == Finalize(kid, rs)
           n    == Len(stack[t])
           k    == n - 1
<1>0. TypeOK /\ FrameOK /\ stack \in [Threads -> Seq(Frame)] /\ refs \in [Threads -> SUBSET Blocks]
  BY DEF Structure, TypeOK
<1>1. /\ At(t, "drop") \/ At(t, "kids")
      /\ ~f.gc /\ refs[t] = {}
      /\ Release(t, kid, count, stk, rs)
  BY DEF ReleaseKids, Stored
<1>2. /\ stack[t] # <<>> /\ f.pc \in {"drop", "kids"}
  BY <1>1 DEF At
<1>3. /\ Front(stack[t]) \in Seq(Frame) /\ n \in Nat \ {0} /\ Len(Front(stack[t])) = n - 1
      /\ \A i \in 1 .. n - 1 : Front(stack[t])[i] = stack[t][i] /\ i \in 1 .. n
      /\ f = stack[t][n] /\ f \in Frame /\ f \in AllFrames
  BY <1>0, <1>2, PopFacts
<1>4. FrameFits(f)
  BY <1>0, <1>3 DEF FrameOK
<1>5. refs' = refs
  BY <1>0, <1>1 DEF Release
<1> HIDE DEF f
<1>6. g \in Frame /\ g.pc = "free" /\ g.obj = f.obj /\ g.gc = f.gc /\ g.outer = f.outer
  BY <1>3 DEF Frame
<1> HIDE DEF g
<1>7. /\ stk \in Seq(Frame) /\ Len(stk) = n /\ stk[n] = g
      /\ \A i \in 1 .. n - 1 : stk[i] = stack[t][i]
  <2>1. /\ stk \in Seq(Frame) /\ Len(stk) = Len(Front(stack[t])) + 1
        /\ stk[Len(Front(stack[t])) + 1] = g
        /\ \A i \in 1 .. Len(Front(stack[t])) : stk[i] = Front(stack[t])[i]
    BY <1>3, <1>6, AppendProperties
  <2> HIDE DEF stk, n
  <2> QED  BY <1>3, <2>1
<1> HIDE DEF stk
<1>8. count \in [Blocks -> Nat] /\ kid \in Blocks \cup {Null} /\ rs \in SUBSET Blocks
  BY <1>0, <1>2, <1>4 DEF TypeOK, FrameFits, Stored
<1> HIDE DEF kid, rs
<1>9. /\ \A y \in Blocks : count'[y] = IF Rc(kid) /\ y = kid /\ count[y] > 0 THEN count[y] - 1 ELSE count[y]
      /\ ~last => stack' = [stack EXCEPT ![t] = stk] /\ refs'[t] = rs
      /\ last => /\ stack' = [stack EXCEPT ![t] = Append(stk, h)] /\ refs'[t] = {}
                 /\ h \in Frame /\ h.pc = (IF kind[kid] \in DropKinds THEN "drop" ELSE "kids")
                 /\ h.obj = kid /\ h.val = Null /\ ~h.gc /\ h.outer = rs /\ FrameFits(h)
  <2>00. TypeOK
    BY <1>0
  <2>0. Release(t, kid, count, stk, rs) /\ count \in [Blocks -> Nat] /\ rs \in SUBSET Blocks
        /\ kid \in Blocks \cup {Null} /\ stk \in Seq(Frame)
    BY <1>1, <1>7, <1>8
  <2> HIDE DEF last, h
  <2>1. \A y \in Blocks : count'[y] = IF Rc(kid) /\ y = kid /\ count[y] > 0 THEN count[y] - 1 ELSE count[y]
    <3>1. count' = IF Rc(kid) /\ count[kid] > 0 THEN [count EXCEPT ![kid] = @ - 1] ELSE count
      BY <2>0 DEF Release
    <3> QED  BY <2>0, <3>1
  <2>2. ~last => stack' = [stack EXCEPT ![t] = stk] /\ refs'[t] = rs
    BY <2>00, <2>0, Released DEF last
  <2>3. last => /\ stack' = [stack EXCEPT ![t] = Append(stk, h)] /\ refs'[t] = {}
                /\ h \in Frame /\ h.pc = (IF kind[kid] \in DropKinds THEN "drop" ELSE "kids")
                /\ h.obj = kid /\ h.val = Null /\ ~h.gc /\ h.outer = rs /\ FrameFits(h)
    BY <2>00, <2>0, Released DEF last, h
  <2> QED  BY <2>1, <2>2, <2>3
<1> HIDE DEF h, last
<1> DEFINE s == IF last THEN Append(stk, h) ELSE stk
<1>10. /\ s \in Seq(Frame) /\ Len(s) = (IF last THEN n + 1 ELSE n) /\ (last => s[n + 1] = h)
       /\ \A i \in 1 .. n : s[i] = stk[i]
  <2>1. CASE last
    <3>1. h \in Frame
      BY <1>9, <2>1
    <3>2. /\ Append(stk, h) \in Seq(Frame) /\ Len(Append(stk, h)) = n + 1 /\ Append(stk, h)[n + 1] = h
          /\ \A i \in 1 .. n : Append(stk, h)[i] = stk[i]
      BY <1>7, <3>1, AppendProperties
    <3> QED  BY <2>1, <3>2
  <2>2. CASE ~last
    BY <1>7, <2>2
  <2> QED  BY <2>1, <2>2
<1>11. stack' = [stack EXCEPT ![t] = s]
  BY <1>9
<1> HIDE DEF s, n
<1>12. /\ \A i \in 1 .. n - 1 : s[i] = stack[t][i]
       /\ s[n] = g /\ k \in 0 .. Len(s) /\ k <= Len(stack[t])
  <2>1. n \in 1 .. n /\ \A i \in 1 .. n - 1 : i \in 1 .. n
    BY <1>3
  <2>2. k \in 0 .. Len(s) /\ k <= n
    BY <1>3, <1>10
  <2> QED  BY <1>7, <1>10, <2>1, <2>2 DEF n
<1>13. Restacked(t, s, n - 1)
  BY <1>10, <1>11, <1>12 DEF Restacked
<1>14. \E ss, hh : \E gg \in Frame :
         /\ Restacked(t, ss, n - 1) /\ ss[n] = gg
         /\ \A i \in 1 .. n - 1 : ss[i] = stack[t][i]
         /\ gg.pc = "free" /\ gg.obj = f.obj /\ gg.outer = f.outer /\ ~gg.gc
         /\ ~last => Len(ss) = n
         /\ last => /\ Len(ss) = n + 1 /\ ss[n + 1] = hh
                    /\ hh.pc = (IF kind[kid] \in DropKinds THEN "drop" ELSE "kids")
                    /\ hh.obj = kid /\ ~hh.gc /\ hh.outer = {}
  <2>1. /\ Restacked(t, s, n - 1) /\ s[n] = g
        /\ \A i \in 1 .. n - 1 : s[i] = stack[t][i]
        /\ g.pc = "free" /\ g.obj = f.obj /\ g.outer = f.outer /\ ~g.gc
        /\ ~last => Len(s) = n
        /\ last => /\ Len(s) = n + 1 /\ s[n + 1] = h
                   /\ h.pc = (IF kind[kid] \in DropKinds THEN "drop" ELSE "kids")
                   /\ h.obj = kid /\ ~h.gc /\ h.outer = {}
    BY <1>1, <1>6, <1>9, <1>10, <1>12, <1>13 DEF rs
  <2> QED  BY <1>6, <2>1
<1> QED  BY <1>1, <1>2, <1>3, <1>5, <1>9, <1>14 DEF f, kid, last, n

\* Releasing what a dying cell holds: the child loses one owner, and dies with
\* it if that was the last.
LEMMA SafeReleaseKids ==
    ASSUME Structure, Safe, NEW t \in Threads, ReleaseKids(t)
    PROVE  Safe'
<1> DEFINE f    == Top(t)
           x    == f.obj
           kid  == Stored(f.obj)
           last == Rc(kid) /\ count[kid] = 1
           n    == Len(stack[t])
<1>0. /\ TypeOK /\ TypeOK' /\ Structure' /\ used \subseteq Blocks /\ count \in [Blocks -> Nat]
      /\ drops \in [Blocks -> Nat] /\ Unique /\ StoreOK /\ kind \in [Blocks -> Kinds]
  BY StructureReleaseKids DEF Structure, TypeOK, Safe
<1>1. /\ stack[t] # <<>> /\ f.pc \in {"drop", "kids"} /\ ~f.gc /\ refs' = refs
      /\ n \in Nat \ {0} /\ f = stack[t][n] /\ f \in AllFrames
      /\ \A y \in Blocks : count'[y] = IF Rc(kid) /\ y = kid /\ count[y] > 0 THEN count[y] - 1 ELSE count[y]
      /\ \E s, h : \E g \in Frame :
           /\ Restacked(t, s, n - 1) /\ s[n] = g
           /\ \A i \in 1 .. n - 1 : s[i] = stack[t][i]
           /\ g.pc = "free" /\ g.obj = f.obj /\ g.outer = f.outer /\ ~g.gc
           /\ ~last => Len(s) = n
           /\ last => /\ Len(s) = n + 1 /\ s[n + 1] = h
                      /\ h.pc = (IF kind[kid] \in DropKinds THEN "drop" ELSE "kids")
                      /\ h.obj = kid /\ ~h.gc /\ h.outer = {}
  BY KidsStack
<1>2. PICK s, h : \E g \in Frame :
           /\ Restacked(t, s, n - 1) /\ s[n] = g
           /\ \A i \in 1 .. n - 1 : s[i] = stack[t][i]
           /\ g.pc = "free" /\ g.obj = f.obj /\ g.outer = f.outer /\ ~g.gc
           /\ ~last => Len(s) = n
           /\ last => /\ Len(s) = n + 1 /\ s[n + 1] = h
                      /\ h.pc = (IF kind[kid] \in DropKinds THEN "drop" ELSE "kids")
                      /\ h.obj = kid /\ ~h.gc /\ h.outer = {}
  BY <1>1
<1>3. PICK g \in Frame :
           /\ Restacked(t, s, n - 1) /\ s[n] = g
           /\ \A i \in 1 .. n - 1 : s[i] = stack[t][i]
           /\ g.pc = "free" /\ g.obj = f.obj /\ g.outer = f.outer /\ ~g.gc
           /\ ~last => Len(s) = n
           /\ last => /\ Len(s) = n + 1 /\ s[n + 1] = h
                      /\ h.pc = (IF kind[kid] \in DropKinds THEN "drop" ELSE "kids")
                      /\ h.obj = kid /\ ~h.gc /\ h.outer = {}
  BY <1>2
<1>4. /\ drops' = [drops EXCEPT ![x] = IF f.pc = "drop" THEN @ + 1 ELSE @]
      /\ UNCHANGED <<slabs, used, kind, field, objects, pending, loose>>
  BY DEF ReleaseKids, gcvars
<1>5. f.pc \in Destroy /\ f.pc # "free" /\ f.pc # "store"
  BY <1>1 DEF Destroy
<1>6. /\ x \in used /\ x \in Dying /\ x \in Blocks /\ x \notin ObjsOf(AllFrames, "free")
      /\ \A e \in AllFrames : e.pc \in Destroy /\ e.obj = x => e = f
  BY <1>1, <1>5, DyingFacts
<1>7. x \notin ObjsOf(AllFrames, "store")
  BY <1>1, <1>5, TopDies
<1>8. /\ x \in objects /\ kind[x] \in RcKinds /\ count[x] = 0
      /\ f.pc = "drop" <=> kind[x] \in DropKinds
  BY <1>1, <1>5 DEF Safe, DyingOK
<1>9. Counted(x) /\ kid = field[x]
  BY <1>8, HeapAssumption DEF Counted, Stored
<1>10. (\A u \in Threads : \A i \in 1 .. Len(stack[u]) : stack[u][i] \in AllFrames)
       /\ \A i \in 1 .. n - 1 : i \in 1 .. Len(stack[t]) /\ stack[t][i] \in AllFrames
  <2>1. \A u \in Threads : \A i \in 1 .. Len(stack[u]) : stack[u][i] \in AllFrames
    BY <1>0, StackFacts
  <2>2. \A i \in 1 .. n - 1 : i \in 1 .. Len(stack[t])
    BY <1>1
  <2> QED  BY <2>1, <2>2
<1>11. \A u \in Threads : \A i \in 1 .. Len(stack[u]) : stack[u][i].pc \in Destroy /\ stack[u][i].obj = x => u = t /\ i = n
  <2>1. n \in 1 .. Len(stack[t]) /\ stack[t][n].pc \in Destroy /\ stack[t][n].obj = x
    BY <1>1, <1>5
  <2> HIDE DEF f, n, x
  <2> SUFFICES ASSUME NEW u \in Threads, NEW i \in 1 .. Len(stack[u]),
                      stack[u][i].pc \in Destroy, stack[u][i].obj = x
               PROVE  u = t /\ i = n
    OBVIOUS
  <2>2. Alike(stack[u][i], stack[t][n])
    BY <2>1 DEF Alike
  <2> QED  BY <1>0, <2>1, <2>2 DEF Unique
<1> HIDE DEF f, kid, n
<1>12. kid # Null /\ kid # x => /\ kid \in used /\ kid \in Blocks /\ kid \notin Dying /\ kid \notin pending
                                /\ x \in Naming(kid)
  <2>1. kid # Null => kid \in used /\ (kid \in Dying \cup pending => kid = x)
    BY <1>6, <1>7, <1>9 DEF Safe, FieldOK
  <2>2. x \in Naming(kid)
    BY <1>6, <1>7, <1>9 DEF Naming, Busy
  <2> QED  BY <1>0, <2>1, <2>2
<1>13. last => /\ kid \in used /\ kid \in Blocks /\ kid \notin Dying /\ kid \notin pending /\ kid # x
               /\ kind[kid] \in RcKinds /\ kid \in objects /\ kid # Null
               /\ Naming(kid) = {x} /\ ~Held(kid) /\ count'[kid] = 0
  <2> SUFFICES ASSUME last
               PROVE  /\ kid \in used /\ kid \in Blocks /\ kid \notin Dying /\ kid \notin pending /\ kid # x
                      /\ kind[kid] \in RcKinds /\ kid \in objects /\ kid # Null
                      /\ Naming(kid) = {x} /\ ~Held(kid) /\ count'[kid] = 0
    OBVIOUS
  <2>1. kid # Null /\ kind[kid] \in RcKinds /\ kid # x /\ count[kid] = 1
    BY <1>8 DEF Rc
  <2>2. kid \in used /\ kid \in Blocks /\ kid \notin Dying /\ kid \notin pending /\ x \in Naming(kid)
    BY <1>12, <2>1
  <2>3. kid \in objects
    BY <2>1, <2>2, LiveCounted
  <2>4. Naming(kid) = {x} /\ Holding(AllFrames, kid) = {} /\ Writing(AllFrames, kid) = {} /\ Binding(kid) = {}
    BY <2>1, <2>2, Alone
  <2>5. count'[kid] = 0
    BY <1>1, <2>1, <2>2
  <2> QED  BY <2>1, <2>2, <2>3, <2>4, <2>5 DEF Held
<1>14. \A z \in Blocks : z \in Dying => count'[z] = count[z]
  <2> SUFFICES ASSUME NEW z \in Blocks, z \in Dying  PROVE count'[z] = count[z]
    OBVIOUS
  <2>1. CASE z = x
    BY <1>1, <1>8, <2>1
  <2>2. CASE z # x
    <3>1. z # kid
      BY <1>12, <2>2, HeapAssumption
    <3> QED  BY <1>1, <3>1
  <2> QED  BY <2>1, <2>2
<1> HIDE DEF x, last
<1>15. last => h.pc \in {"drop", "kids"} /\ h.pc \in Destroy
  BY <1>3 DEF Destroy
<1>16. \A i \in n .. Len(s) : (i = n /\ s[i] = g) \/ (last /\ i = n + 1 /\ s[i] = h)
  BY <1>1, <1>3
<1>17. AllFrames' = ((AllFrames \ {f}) \cup {g}) \cup (IF last THEN {h} ELSE {})
  <2>1. (n - 1) + 1 = n /\ \A i \in n .. n : i = n
    BY <1>1
  <2>2. {stack[t][i] : i \in n .. Len(stack[t])} = {f}
    <3>1. n \in n .. Len(stack[t]) /\ \A i \in n .. Len(stack[t]) : i = n
      BY <1>1, <2>1 DEF n
    <3> QED  BY <1>1, <3>1
  <2>3. \A i \in n .. Len(stack[t]) : stack[t][i].pc \in Destroy \cup {"store"}
    BY <1>5, <2>2
  <2>4. {s[i] : i \in n .. Len(s)} = {g} \cup (IF last THEN {h} ELSE {})
    <3>1. n \in n .. Len(s) /\ (last => n + 1 \in n .. Len(s))
      BY <1>1, <1>3
    <3> QED  BY <1>3, <1>16, <3>1
  <2>5. AllFrames' = (AllFrames \ {stack[t][i] : i \in (n - 1) + 1 .. Len(stack[t])})
                     \cup {s[i] : i \in (n - 1) + 1 .. Len(s)}
    <3>1. \A i \in (n - 1) + 1 .. Len(stack[t]) : stack[t][i].pc \in Destroy \cup {"store"}
      BY <2>1, <2>3
    <3>2. TypeOK /\ Unique /\ Restacked(t, s, n - 1)
      BY <1>0, <1>3
    <3> QED  BY <3>1, <3>2, RestackedExact
  <2>6. AllFrames' = (AllFrames \ {stack[t][i] : i \in n .. Len(stack[t])}) \cup {s[i] : i \in n .. Len(s)}
    BY <2>1, <2>5
  <2>7. AllFrames' = (AllFrames \ {f}) \cup ({g} \cup (IF last THEN {h} ELSE {}))
    BY <2>2, <2>4, <2>6
  <2> QED  BY <2>7
<1>18. g \notin AllFrames /\ (last => h \notin AllFrames)
  <2>1. g \notin AllFrames
    BY <1>3, <1>5, <1>6 DEF Destroy, x
  <2>2. last => h \notin AllFrames
    BY <1>3, <1>13, <1>15 DEF Dying, Destroy
  <2> QED  BY <2>1, <2>2
<1>19. Unique'
  <2>1. ASSUME NEW i \in n .. Len(s), NEW j \in 1 .. Len(s), Alike(s[i], s[j])  PROVE i = j
    <3>1. CASE j \in 1 .. n - 1
      <4>1. s[j] = stack[t][j] /\ j \in 1 .. Len(stack[t]) /\ stack[t][j] \in AllFrames /\ j # n
        BY <1>1, <1>3, <1>10, <3>1
      <4>2. CASE i = n /\ s[i] = g
        BY <1>3, <1>11, <2>1, <4>1, <4>2 DEF Alike, Destroy, x
      <4>3. CASE last /\ s[i] = h
        BY <1>3, <1>13, <1>15, <2>1, <4>1, <4>3 DEF Alike, Dying, Destroy
      <4> QED  BY <1>16, <4>2, <4>3
    <3>2. CASE j \notin 1 .. n - 1
      <4>1. j \in n .. Len(s)
        BY <1>1, <3>2
      <4>2. last => g.obj # h.obj
        BY <1>3, <1>13 DEF x
      <4> QED  BY <1>16, <2>1, <4>1, <4>2 DEF Alike
    <3> QED  BY <3>1, <3>2
  <2>2. ASSUME NEW i \in n .. Len(s), NEW u \in Threads \ {t}, NEW j \in 1 .. Len(stack[u]),
               Alike(s[i], stack[u][j])
        PROVE  FALSE
    <3>1. stack[u][j] \in AllFrames
      BY <1>10
    <3>2. CASE i = n /\ s[i] = g
      BY <1>3, <1>11, <2>2, <3>2 DEF Alike, Destroy, x
    <3>3. CASE last /\ s[i] = h
      BY <1>3, <1>13, <1>15, <2>2, <3>1, <3>3 DEF Alike, Dying, Destroy
    <3> QED  BY <1>16, <3>2, <3>3
  <2>3. (n - 1) + 1 = n
    BY <1>1
  <2> QED  BY <1>0, <1>3, <2>1, <2>2, <2>3, UniqueStep
<1>20. StoreOK'
  <2>1. ASSUME NEW i \in 1 .. Len(s) - 1, i >= n - 1, s[i].pc = "store"
        PROVE  /\ kind'[s[i].obj] \notin HolderKinds /\ field'[s[i].obj] = s[i + 1].obj
               /\ \/ s[i].obj \in s[i + 1].outer
                  \/ i > 1 /\ s[i - 1].pc = "drop" /\ s[i - 1].obj = s[i].obj
    <3>1. i # n
      BY <1>3, <2>1
    <3>2. i = n - 1 /\ i \in 1 .. n - 1 /\ i + 1 = n /\ (i > 1 => i - 1 \in 1 .. n - 1)
      BY <1>1, <1>3, <2>1, <3>1
    <3>3. s[i] = stack[t][i] /\ s[i + 1] = g /\ stack[t][i + 1] = f /\ (i > 1 => s[i - 1] = stack[t][i - 1])
          /\ i \in 1 .. Len(stack[t])
      BY <1>1, <1>3, <1>10, <3>2
    <3>4. /\ Counted(stack[t][i].obj) /\ field[stack[t][i].obj] = stack[t][i + 1].obj
          /\ \/ stack[t][i].obj \in stack[t][i + 1].outer
             \/ i > 1 /\ stack[t][i - 1].pc = "drop" /\ stack[t][i - 1].obj = stack[t][i].obj
      BY <1>0, <2>1, <3>3, StoreAt
    <3> QED  BY <1>3, <1>4, <3>3, <3>4 DEF Counted
  <2> QED  BY <1>0, <1>3, <1>4, <2>1, StoreKept
<1>21. /\ Dying' = Dying \cup (IF last THEN {kid} ELSE {})
       /\ ObjsOf(AllFrames', "free") = ObjsOf(AllFrames, "free") \cup {x}
       /\ ObjsOf(AllFrames', "store") = ObjsOf(AllFrames, "store")
       /\ \A z : Holding(AllFrames', z) = (Holding(AllFrames, z) \ {f}) \cup (IF f \in Holding(AllFrames, z) THEN {g} ELSE {})
       /\ \A z : Writing(AllFrames', z) = Writing(AllFrames, z)
  <2>0. g.pc \in Destroy /\ g.pc = "free" /\ g.obj = x /\ f.obj = x
        /\ (last => h.pc \in Destroy /\ h.pc # "free" /\ h.pc # "store" /\ h.obj = kid /\ h.outer = {})
    BY <1>3, <1>15 DEF Destroy, x
  <2>1. Dying' = Dying \cup (IF last THEN {kid} ELSE {})
    <3>1. \A z : z \in Dying' <=> \E e \in AllFrames' : e.pc \in Destroy /\ e.obj = z
      BY Primed DEF DyingOf
    <3>2. \A z : z \in Dying <=> \E e \in AllFrames : e.pc \in Destroy /\ e.obj = z
      BY Primed DEF DyingOf
    <3>3. \A e : e \in AllFrames' <=> (e \in AllFrames /\ e # f) \/ e = g \/ (last /\ e = h)
      BY <1>17
    <3>4. ASSUME NEW z \in Dying'  PROVE z \in Dying \/ (last /\ z = kid)
      <4>1. PICK e \in AllFrames' : e.pc \in Destroy /\ e.obj = z
        BY <3>1, <3>4
      <4>2. CASE e = g
        BY <1>6, <2>0, <4>1, <4>2
      <4>3. CASE e # g
        BY <2>0, <3>2, <3>3, <4>1, <4>3
      <4> QED  BY <4>2, <4>3
    <3>5. ASSUME NEW z \in Dying  PROVE z \in Dying'
      <4>1. PICK e \in AllFrames : e.pc \in Destroy /\ e.obj = z
        BY <3>2, <3>5
      <4>2. CASE e = f
        BY <2>0, <3>1, <3>3, <4>1, <4>2
      <4>3. CASE e # f
        BY <3>1, <3>3, <4>1, <4>3
      <4> QED  BY <4>2, <4>3
    <3>6. last => kid \in Dying'
      BY <2>0, <3>1, <3>3
    <3> QED  BY <3>4, <3>5, <3>6
  <2>2. ObjsOf(AllFrames', "free") = ObjsOf(AllFrames, "free") \cup {x}
    BY <1>5, <1>17, <2>0 DEF ObjsOf
  <2>3. ObjsOf(AllFrames', "store") = ObjsOf(AllFrames, "store")
    BY <1>5, <1>17, <2>0 DEF ObjsOf
  <2>4. \A z : Holding(AllFrames', z) = (Holding(AllFrames, z) \ {f}) \cup (IF f \in Holding(AllFrames, z) THEN {g} ELSE {})
    BY <1>1, <1>3, <1>17, <2>0 DEF Holding
  <2>5. \A z : Writing(AllFrames', z) = Writing(AllFrames, z)
    BY <1>5, <1>17, <2>0 DEF Writing
  <2> QED  BY <2>1, <2>2, <2>3, <2>4, <2>5
<1>22. \A z : Binding(z)' = Binding(z)
  BY <1>1, Primed DEF Binding
<1>23. \A z : Naming(z)' = Naming(z) \ {x}
  BY <1>4, <1>21, Primed DEF Naming, Busy
<1>24. DyingOK'
  <2>1. \A e \in AllFrames : e.pc \in Destroy => e.obj \in Dying /\ e.obj \in Blocks
    BY <1>0, DyingFacts
  <2>2. \A e \in AllFrames : e.pc \in Destroy => count'[e.obj] = count[e.obj]
    BY <1>14, <2>1
  <2> SUFFICES ASSUME NEW e \in AllFrames', e.pc \in Destroy
               PROVE  /\ e.obj \in used'
                      /\ ~e.gc => e.obj \in objects' /\ kind'[e.obj] \in RcKinds /\ count'[e.obj] = 0
                      /\ e.pc = "drop" => kind'[e.obj] \in DropKinds
                      /\ e.pc = "kids" => kind'[e.obj] \notin DropKinds
    BY DEF DyingOK
  <2>3. CASE e \in AllFrames
    BY <1>4, <2>2, <2>3 DEF Safe, DyingOK
  <2>4. CASE e = g
    BY <1>3, <1>4, <1>6, <1>8, <1>14, <2>4 DEF x
  <2>5. CASE last /\ e = h
    BY <1>3, <1>4, <1>13, <2>5
  <2> QED  BY <1>17, <2>3, <2>4, <2>5
<1>25. PendingOK'
  BY <1>4 DEF PendingOK, Safe
<1>26. HeldOK'
  <2>1. ASSUME NEW z, Held(z)'  PROVE Held(z)
    <3>1. Held(z)' <=> \/ Binding(z)' # {} \/ Holding(AllFrames', z) # {} \/ Writing(AllFrames', z) # {}
      BY Primed
    <3> QED  BY <1>21, <1>22, <2>1, <3>1 DEF Held
  <2> QED  BY <1>4, <1>13, <1>21, <2>1 DEF HeldOK, Safe
<1>27. FieldOK'
  <2> SUFFICES ASSUME NEW p \in used, p \notin ObjsOf(AllFrames', "free"), field[p] # Null
               PROVE  /\ field[p] \in used
                      /\ field[p] \in Dying' \cup pending => field[p] = p \/ p \in ObjsOf(AllFrames', "store")
                      /\ ~Counted(p) => field[p] \in loose
    BY <1>4 DEF FieldOK, ObjsOf, Counted
  <2>1. /\ field[p] \in used
        /\ field[p] \in Dying \cup pending => field[p] = p \/ p \in ObjsOf(AllFrames, "store")
        /\ ~Counted(p) => field[p] \in loose
    BY <1>21 DEF FieldOK, Safe
  <2>2. last /\ field[p] = kid => p \in ObjsOf(AllFrames, "store")
    <3>1. p # x /\ p \notin ObjsOf(AllFrames, "free")
      BY <1>21
    <3> QED  BY <1>13, <3>1 DEF Naming, Busy
  <2> QED  BY <1>21, <2>1, <2>2
<1>28. CountOK'
  <2> SUFFICES ASSUME NEW z \in used', z \notin Dying', kind'[z] \in RcKinds
               PROVE  /\ count'[z] >= Cardinality(Binding(z)') + Cardinality(Holding(AllFrames', z))
                                      + Cardinality(Writing(AllFrames', z)) + Cardinality(Naming(z)')
                      /\ z \notin loose' =>
                           count'[z] = Cardinality(Binding(z)') + Cardinality(Holding(AllFrames', z))
                                       + Cardinality(Writing(AllFrames', z)) + Cardinality(Naming(z)')
    BY <1>0, CountsNext
  <2>1. /\ z \in used /\ z \in Blocks /\ z \notin Dying /\ kind[z] \in RcKinds /\ loose' = loose
        /\ z # Null /\ Rc(z) /\ z # x /\ (last => z # kid)
    BY <1>0, <1>4, <1>6, <1>21, HeapAssumption DEF Rc
  <2>2. /\ count[z] \in Nat /\ IsFiniteSet(Holding(AllFrames, z)) /\ IsFiniteSet(Naming(z))
        /\ Cardinality(Binding(z)) \in Nat /\ Cardinality(Holding(AllFrames, z)) \in Nat
        /\ Cardinality(Writing(AllFrames, z)) \in Nat /\ Cardinality(Naming(z)) \in Nat
        /\ count[z] >= Cardinality(Binding(z)) + Cardinality(Holding(AllFrames, z))
                       + Cardinality(Writing(AllFrames, z)) + Cardinality(Naming(z))
        /\ z \notin loose =>
             count[z] = Cardinality(Binding(z)) + Cardinality(Holding(AllFrames, z))
                        + Cardinality(Writing(AllFrames, z)) + Cardinality(Naming(z))
    BY <2>1, CountsNow
  <2>3. Cardinality(Holding(AllFrames', z)) = Cardinality(Holding(AllFrames, z))
    <3> DEFINE H == Holding(AllFrames, z)
    <3>1. IsFiniteSet(H) /\ g \notin H
      BY <1>18, <2>2 DEF Holding
    <3>2. Holding(AllFrames', z) = (H \ {f}) \cup (IF f \in H THEN {g} ELSE {})
      BY <1>21
    <3> HIDE DEF H
    <3>3. Cardinality((H \ {f}) \cup (IF f \in H THEN {g} ELSE {})) = Cardinality(H)
      BY <3>1, Exchanged
    <3> QED  BY <3>2, <3>3 DEF H
  <2>4. CASE z = kid
    <3>1. x \in Naming(z)
      BY <1>12, <2>1, <2>4
    <3>2. Cardinality(Naming(z)') = Cardinality(Naming(z)) - 1 /\ Cardinality(Naming(z)) \in Nat \ {0}
      BY <1>23, <2>2, <3>1, CardMinus
    <3>3. count[z] > 0
      BY <2>2, <3>2
    <3>4. count'[z] = count[z] - 1
      BY <1>1, <2>1, <2>4, <3>3
    <3> QED  BY <1>21, <1>22, <2>1, <2>2, <2>3, <3>2, <3>4
  <2>5. CASE z # kid
    <3>1. Naming(z)' = Naming(z) /\ count'[z] = count[z]
      BY <1>1, <1>9, <1>23, <2>1, <2>5 DEF Naming
    <3> QED  BY <1>21, <1>22, <2>1, <2>2, <2>3, <3>1
  <2> QED  BY <2>4, <2>5
<1>29. DropsOK'
  <2>1. drops[x] = 0
    BY <1>6 DEF DropsOK, Safe
  <2>2. drops'[x] = (IF kind[x] \in DropKinds THEN 1 ELSE 0) /\ \A b \in Blocks : b # x => drops'[b] = drops[b]
    BY <1>0, <1>4, <1>6, <1>8, <2>1
  <2>3. ObjsOf(AllFrames, "free")' = ObjsOf(AllFrames, "free") \cup {x}
    BY <1>21 DEF ObjsOf
  <2>4. Recycled' = Recycled
    BY <1>4 DEF Recycled, slabs
  <2>5. \A b \in used : drops'[b] = IF b \in ObjsOf(AllFrames, "free") \cup {x} /\ kind[b] \in DropKinds THEN 1 ELSE 0
    BY <1>0, <2>2 DEF DropsOK, Safe
  <2>6. \A b \in Recycled : kind[b] \in DropKinds => drops'[b] = 1
    <3>1. \A b \in Recycled : b \in Blocks
      <4>1. gfree \in Seq(Blocks) /\ \A u \in Threads : lfree[u] \in Seq(Blocks)
        BY <1>0 DEF TypeOK
      <4> QED  BY <4>1, SeqRange DEF Recycled
    <3> QED  BY <2>2, <3>1 DEF DropsOK, Safe
  <2>7. \A b \in Blocks : drops'[b] <= 1
    BY <2>2 DEF DropsOK, Safe
  <2> QED  BY <1>4, <2>3, <2>4, <2>5, <2>6, <2>7 DEF DropsOK
<1> QED  BY <1>19, <1>20, <1>24, <1>25, <1>26, <1>27, <1>28, <1>29 DEF Safe
\* A collection leaves destructions, stores and suspended bindings as they are:
\* at most a finalizer loop is pushed.
LEMMA CollectFrames ==
    ASSUME Structure, Safe, NEW t \in Threads, Collect(t)
    PROVE  /\ Dying' = Dying /\ Unique' /\ StoreOK'
           /\ \A f \in AllFrames' : f.pc \in Destroy \cup {"store"} => f \in AllFrames
           /\ ObjsOf(AllFrames', "free") = ObjsOf(AllFrames, "free")
           /\ ObjsOf(AllFrames', "store") = ObjsOf(AllFrames, "store")
           /\ \A y : Holding(AllFrames', y) = Holding(AllFrames, y)
           /\ \A y : Writing(AllFrames', y) = Writing(AllFrames, y)
<1> DEFINE f == Frm("loop", Null, Null, TRUE, {})
<1>0. TypeOK /\ Unique /\ StoreOK
  BY DEF Structure, Safe
<1>1. /\ AllFrames \subseteq AllFrames'
      /\ \A g \in AllFrames' : g \in AllFrames \/ g = f
  BY CollectStack
<1>2. f \in Frame /\ f.pc = "loop" /\ f.outer = {} /\ f.pc \notin Destroy
  BY LoopFrame DEF Destroy
<1>3. /\ InCode(t) /\ UNCHANGED <<kind, field>>
      /\ IF pending' # {}
         THEN stack' = [stack EXCEPT ![t] = Append(@, f)]
         ELSE stack' = stack
  BY DEF Collect
<1> HIDE DEF f
<1>4. Dying' = Dying
  BY <1>1, <1>2 DEF Dying, Destroy
<1>5. ObjsOf(AllFrames', "free") = ObjsOf(AllFrames, "free")
  BY <1>1, <1>2 DEF ObjsOf
<1>6. ObjsOf(AllFrames', "store") = ObjsOf(AllFrames, "store")
  BY <1>1, <1>2 DEF ObjsOf
<1>7. \A y : Holding(AllFrames', y) = Holding(AllFrames, y)
  BY <1>1, <1>2 DEF Holding
<1>8. \A y : Writing(AllFrames', y) = Writing(AllFrames, y)
  BY <1>1, <1>2 DEF Writing
<1>9. Unique' /\ StoreOK'
  <2>1. CASE pending' = {}
    <3>1. stack' = stack
      BY <1>3, <2>1
    <3> QED  BY <1>0, <1>3, <3>1, StillStack, StoreSame
  <2>2. CASE pending' # {}
    <3> DEFINE s == Append(stack[t], f)
               n == Len(stack[t])
    <3>1. stack' = [stack EXCEPT ![t] = Append(stack[t], f)]
      BY <1>3, <2>2
    <3>2. /\ Restacked(t, s, n) /\ n \in Nat /\ Len(s) = n + 1 /\ s[n + 1] = f
          /\ \A i \in 1 .. n : s[i] = stack[t][i]
      BY <1>0, <1>2, <3>1, PushTo
    <3>3. n # 0 => Top(t) = stack[t][n] /\ stack[t] # <<>>
      BY <1>0, StackFacts
    <3> HIDE DEF s, n
    <3>4. \A i \in n + 1 .. Len(s) : s[i] = f
      BY <3>2
    <3>5. \A g : ~Alike(f, g)
      BY <1>2 DEF Alike
    <3>6. Unique'
      BY <1>0, <3>2, <3>4, <3>5, UniqueStep
    <3>7. \A i \in 1 .. Len(s) - 1 : i >= n => s[i].pc # "store"
      <4> SUFFICES ASSUME NEW i \in 1 .. Len(s) - 1, i >= n  PROVE s[i].pc # "store"
        OBVIOUS
      <4>1. i = n /\ i \in 1 .. n /\ n # 0
        BY <3>2
      <4> QED  BY <1>3, <3>2, <3>3, <4>1 DEF InCode, At
    <3>8. StoreOK'
      BY <1>0, <1>3, <3>2, <3>7, StoreKept
    <3> QED  BY <3>6, <3>8
  <2> QED  BY <2>1, <2>2
<1> QED  BY <1>1, <1>2, <1>4, <1>5, <1>6, <1>7, <1>8, <1>9

\* The parts of the stack roots.
LEMMA RootsOfStacks ==
    /\ \A u \in Threads : refs[u] \subseteq StackRoots
    /\ \A f \in AllFrames : f.outer \subseteq StackRoots
    /\ \A f \in AllFrames : f.pc = "store" => f.obj \in StackRoots /\ f.val \in StackRoots
    /\ \A x \in StackRoots :
          \/ \E u \in Threads : x \in refs[u]
          \/ \E f \in AllFrames : x \in f.outer
          \/ \E g \in AllFrames : g.pc = "store" /\ (x = g.obj \/ x = g.val)
<1> DEFINE A == UNION {refs[t] : t \in Threads}
           B == UNION {f.outer : f \in AllFrames}
           C == UNION {{f.obj, f.val} : f \in {g \in AllFrames : g.pc = "store"}}
<1>1. StackRoots = A \cup B \cup C
  BY DEF StackRoots
<1>2. (\A u \in Threads : refs[u] \subseteq A) /\ \A x \in A : \E u \in Threads : x \in refs[u]
  OBVIOUS
<1>3. (\A f \in AllFrames : f.outer \subseteq B) /\ \A x \in B : \E f \in AllFrames : x \in f.outer
  OBVIOUS
<1>4. /\ \A f \in AllFrames : f.pc = "store" => f.obj \in C /\ f.val \in C
      /\ \A x \in C : \E g \in AllFrames : g.pc = "store" /\ (x = g.obj \/ x = g.val)
  OBVIOUS
<1> HIDE DEF A, B, C
<1>5. A \subseteq StackRoots /\ B \subseteq StackRoots /\ C \subseteq StackRoots
  BY <1>1
<1>6. \A x \in StackRoots : x \in A \/ x \in B \/ x \in C
  BY <1>1
<1>7. \A u \in Threads : refs[u] \subseteq StackRoots
  BY <1>2, <1>5
<1>8. \A f \in AllFrames : f.outer \subseteq StackRoots
  BY <1>3, <1>5
<1>9. \A f \in AllFrames : f.pc = "store" => f.obj \in StackRoots /\ f.val \in StackRoots
  BY <1>4, <1>5
<1>10. ASSUME NEW x \in StackRoots
       PROVE  \/ \E u \in Threads : x \in refs[u]
              \/ \E f \in AllFrames : x \in f.outer
              \/ \E g \in AllFrames : g.pc = "store" /\ (x = g.obj \/ x = g.val)
  BY <1>2, <1>3, <1>4, <1>6
<1> QED  BY <1>7, <1>8, <1>9, <1>10

\* What the collector marks: all that is held, being destroyed or written to, and
\* what marked objects name; it keeps what the kept objects name.
LEMMA CollectMarks ==
    ASSUME Structure, Safe, turn = NoOne
    PROVE  /\ pending = {} /\ used = Registered
           /\ \A x \in Blocks : Held(x) => x \in Marked
           /\ \A f \in AllFrames : f.pc \in Destroy => ~f.gc
           /\ Dying \subseteq Marked
           /\ ObjsOf(AllFrames, "store") \subseteq Marked /\ ObjsOf(AllFrames, "free") \subseteq Marked
           /\ \A b \in Marked : field[b] \in used => field[b] \in Marked
           /\ \A b \in Kept : field[b] \in used => field[b] \in Kept
<1>0. TypeOK /\ Registry /\ FrameOK
  BY DEF Structure
<1>1. pending = {} /\ GcObjs = {}
  BY <1>0, GcTurn DEF Registry
<1>2. used = Registered /\ Registered \cup pending = Registered
  BY <1>0, <1>1 DEF Registry
<1>3. \A f \in AllFrames : f.pc \in Destroy => ~f.gc
  <2> SUFFICES ASSUME NEW f \in AllFrames, f.pc \in Destroy, f.gc  PROVE FALSE
    OBVIOUS
  <2>1. f.pc = "drop"
    BY <1>0 DEF FrameOK, FrameFits, Destroy
  <2> QED  BY <1>1, <2>1 DEF GcObjs
<1>4. /\ Roots \cap used \subseteq Marked
      /\ \A b \in Marked : field[b] \in used => field[b] \in Marked
      /\ \A b \in Reach(Newly, used) : field[b] \in used => field[b] \in Reach(Newly, used)
      /\ Kept = Marked \cup Reach(Newly, used)
  BY <1>2, ReachFacts DEF Marked, Kept
<1>5. \A x \in Blocks : Held(x) => x \in Marked
  <2> SUFFICES ASSUME NEW x \in Blocks, Held(x)  PROVE x \in Marked
    OBVIOUS
  <2>1. x \in used
    BY DEF Safe, HeldOK
  <2>2. x \in StackRoots
    BY RootsOfStacks DEF Held, Binding, Holding, Writing
  <2> QED  BY <1>4, <2>1, <2>2 DEF Roots
<1>6. Dying \subseteq Marked
  <2> SUFFICES ASSUME NEW f \in AllFrames, f.pc \in Destroy  PROVE f.obj \in Marked
    BY DEF Dying, Destroy
  <2>1. f.obj \in ExtraRoots
    BY <1>3 DEF ExtraRoots, Destroy
  <2>2. f.obj \in used
    BY DyingFacts
  <2> QED  BY <1>4, <2>1, <2>2 DEF Roots
<1>7. ObjsOf(AllFrames, "free") \subseteq Marked
  BY <1>6 DEF ObjsOf, Dying
<1>8. ObjsOf(AllFrames, "store") \subseteq Marked
  <2> SUFFICES ASSUME NEW f \in AllFrames, f.pc = "store"  PROVE f.obj \in Marked
    BY DEF ObjsOf
  <2>1. f.obj \in StackRoots
    BY RootsOfStacks
  <2>2. f.obj \in used
    BY StoreFacts
  <2> QED  BY <1>4, <2>1, <2>2 DEF Roots
<1>9. \A b \in Kept : field[b] \in used => field[b] \in Kept
  BY <1>4
<1> QED  BY <1>1, <1>2, <1>3, <1>4, <1>5, <1>6, <1>7, <1>8, <1>9

\* A set of owners loses the ones that are swept.
LEMMA Decremented ==
    ASSUME NEW N, IsFiniteSet(N), NEW D \in SUBSET N, NEW M \in SUBSET (N \ D)
    PROVE  /\ Cardinality(N) \in Nat /\ Cardinality(D) \in Nat /\ Cardinality(M) \in Nat
           /\ Cardinality(D) <= Cardinality(N)
           /\ Cardinality(M) <= Cardinality(N) - Cardinality(D)
           /\ M = N \ D => Cardinality(M) = Cardinality(N) - Cardinality(D)
<1>1. IsFiniteSet(D) /\ IsFiniteSet(N \ D) /\ IsFiniteSet(M) /\ Cardinality(D) <= Cardinality(N)
  <2>1. IsFiniteSet(D) /\ Cardinality(D) <= Cardinality(N)
    BY FS_Subset
  <2>2. IsFiniteSet(N \ D)
    BY FS_Difference
  <2> QED  BY <2>1, <2>2, FS_Subset
<1>2. Cardinality(N) \in Nat /\ Cardinality(D) \in Nat /\ Cardinality(M) \in Nat /\ Cardinality(N \ D) \in Nat
  BY <1>1, FS_CardinalityType
<1>3. Cardinality(N \ D) = Cardinality(N) - Cardinality(N \cap D)
  BY FS_Difference
<1>4. N \cap D = D
  OBVIOUS
<1>5. Cardinality(M) <= Cardinality(N \ D)
  BY <1>1, FS_Subset
<1> QED  BY <1>1, <1>2, <1>3, <1>4, <1>5
\* A collection frees only what nobody refers to, and takes exactly the references
\* of the objects it frees out of the counts of the others.
LEMMA SafeCollect ==
    ASSUME Structure, Safe, Clean', NEW t \in Threads, Collect(t)
    PROVE  Safe'
<1>0. /\ TypeOK /\ TypeOK' /\ Recycled' = Recycled \cup ToFree /\ used' = used \ ToFree
      /\ used \subseteq Blocks /\ count \in [Blocks -> Nat] /\ turn = NoOne
  BY StructureCollect DEF Structure, TypeOK, Collect
<1>1. /\ objects' = (Registered \cap Kept) \ Newly
      /\ pending' = pending \cup Newly
      /\ count' = Swept /\ ~Entangled
      /\ UNCHANGED <<kind, field, refs, drops, loose>>
  BY DEF Collect, Clean
<1>2. /\ Dying' = Dying /\ Unique' /\ StoreOK'
      /\ \A f \in AllFrames' : f.pc \in Destroy \cup {"store"} => f \in AllFrames
      /\ ObjsOf(AllFrames', "free") = ObjsOf(AllFrames, "free")
      /\ ObjsOf(AllFrames', "store") = ObjsOf(AllFrames, "store")
      /\ \A y : Holding(AllFrames', y) = Holding(AllFrames, y)
      /\ \A y : Writing(AllFrames', y) = Writing(AllFrames, y)
  BY CollectFrames
<1>3. /\ pending = {} /\ used = Registered
      /\ \A x \in Blocks : Held(x) => x \in Marked
      /\ \A f \in AllFrames : f.pc \in Destroy => ~f.gc
      /\ Dying \subseteq Marked
      /\ ObjsOf(AllFrames, "store") \subseteq Marked /\ ObjsOf(AllFrames, "free") \subseteq Marked
      /\ \A b \in Marked : field[b] \in used => field[b] \in Marked
      /\ \A b \in Kept : field[b] \in used => field[b] \in Kept
  BY <1>0, CollectMarks
<1>4. /\ Newly \subseteq used \ Marked /\ Newly \subseteq Kept /\ Marked \subseteq Kept /\ Kept \subseteq used
      /\ ToFree = used \ Kept /\ IsFiniteSet(ToFree)
  BY <1>3, Sets
<1>5. \A x \in Blocks :
        /\ Cardinality(Dropped(x)) \in Nat
        /\ count'[x] = IF Rc(x) /\ x \notin ToFree
                       THEN IF count[x] >= Cardinality(Dropped(x))
                            THEN count[x] - Cardinality(Dropped(x)) ELSE 0
                       ELSE count[x]
  BY <1>1, SweptCounts
<1>6. used' = Kept /\ pending' = Newly
  BY <1>0, <1>1, <1>3, <1>4
<1>7. DyingOK'
  <2> SUFFICES ASSUME NEW f \in AllFrames', f.pc \in Destroy
               PROVE  /\ f.obj \in used'
                      /\ ~f.gc => f.obj \in objects' /\ kind'[f.obj] \in RcKinds /\ count'[f.obj] = 0
                      /\ f.pc = "drop" => kind'[f.obj] \in DropKinds
                      /\ f.pc = "kids" => kind'[f.obj] \notin DropKinds
    BY DEF DyingOK
  <2>1. f \in AllFrames
    BY <1>2
  <2>2. f.obj \in Dying /\ f.obj \in Marked /\ f.obj \in used /\ f.obj \in Blocks
    BY <1>3, <2>1, DyingFacts
  <2>3. f.obj \in objects'
    BY <1>1, <1>3, <1>4, <2>2
  <2>4. /\ kind[f.obj] \in RcKinds /\ count[f.obj] = 0
        /\ f.pc = "drop" => kind[f.obj] \in DropKinds
        /\ f.pc = "kids" => kind[f.obj] \notin DropKinds
    BY <1>3, <2>1 DEF Safe, DyingOK
  <2>5. count'[f.obj] = 0
    BY <1>5, <2>2, <2>4
  <2> QED  BY <1>1, <1>4, <1>6, <2>2, <2>3, <2>4, <2>5
<1>8. PendingOK'
  BY <1>1, <1>6 DEF PendingOK, Newly
<1>9. \A y : Binding(y)' = Binding(y)
  BY <1>1, Primed DEF Binding
<1>10. HeldOK'
  <2> SUFFICES ASSUME NEW y \in Blocks, Held(y)'  PROVE y \in used' /\ y \notin Dying' /\ y \notin pending'
    BY DEF HeldOK
  <2>1. Held(y)
    <3>1. Binding(y)' # {} \/ Holding(AllFrames', y) # {} \/ Writing(AllFrames', y) # {}
      BY Primed
    <3> QED  BY <1>2, <1>9, <3>1 DEF Held
  <2>2. y \in Marked /\ y \notin Dying
    BY <1>3, <2>1 DEF Safe, HeldOK
  <2> QED  BY <1>2, <1>4, <1>6, <2>2
<1>11. FieldOK'
  <2> SUFFICES ASSUME NEW p \in used', p \notin ObjsOf(AllFrames', "free"), field[p] # Null
               PROVE  /\ field[p] \in used'
                      /\ field[p] \in Dying' \cup pending' => field[p] = p \/ p \in ObjsOf(AllFrames', "store")
                      /\ ~Counted(p) => field[p] \in loose
    BY <1>1 DEF FieldOK, ObjsOf, Counted
  <2>1. p \in Kept /\ p \in used
    BY <1>4, <1>6
  <2>2. /\ field[p] \in used
        /\ field[p] \in Dying \cup pending => field[p] = p \/ p \in ObjsOf(AllFrames, "store")
        /\ ~Counted(p) => field[p] \in loose
    BY <1>2, <2>1 DEF FieldOK, Safe
  <2>3. field[p] \in Kept
    BY <1>3, <2>1, <2>2
  <2>4. field[p] \in Newly => field[p] = p
    <3>1. CASE p \in Marked
      BY <1>3, <1>4, <2>2, <3>1
    <3>2. CASE p \notin Marked
      BY <1>1, <2>1, <3>2 DEF Entangled
    <3> QED  BY <3>1, <3>2
  <2> QED  BY <1>2, <1>6, <2>2, <2>3, <2>4
<1>12. \A z : /\ Naming(z)' \subseteq Naming(z) \ Dropped(z) /\ Dropped(z) \subseteq Naming(z)
              /\ z # Null /\ z \notin loose => Naming(z)' = Naming(z) \ Dropped(z)
  <2>1. Busy(AllFrames') = Busy(AllFrames) /\ Busy(AllFrames) \cap ToFree = {}
    BY <1>2, <1>3, <1>4 DEF Busy
  <2>2. \A z : Naming(z)' = {o \in used \ ToFree : field[o] = z /\ o \notin Busy(AllFrames)}
    BY <1>0, <1>1, <2>1, Primed
  <2>3. \A z : Dropped(z) \subseteq Naming(z)
    BY <1>4, <2>1 DEF Dropped, Naming
  <2>4. \A z : Naming(z)' \subseteq Naming(z) \ Dropped(z)
    BY <2>2 DEF Dropped, Naming
  <2>5. ASSUME NEW z, z # Null, z \notin loose  PROVE Naming(z) \ Dropped(z) \subseteq Naming(z)'
    <3> SUFFICES ASSUME NEW o \in Naming(z), o \notin Dropped(z)  PROVE o \in Naming(z)'
      OBVIOUS
    <3>1. o \in used /\ field[o] = z /\ o \notin Busy(AllFrames)
      BY DEF Naming
    <3>2. Counted(o)
      BY <2>5, <3>1 DEF Safe, FieldOK, Busy
    <3>3. o \notin ToFree
      BY <3>1, <3>2 DEF Dropped
    <3> QED  BY <2>2, <3>1, <3>3
  <2> QED  BY <2>3, <2>4, <2>5
<1>13. CountOK'
  <2> SUFFICES ASSUME NEW z \in used', z \notin Dying', kind'[z] \in RcKinds
               PROVE  /\ count'[z] >= Cardinality(Binding(z)') + Cardinality(Holding(AllFrames', z))
                                      + Cardinality(Writing(AllFrames', z)) + Cardinality(Naming(z)')
                      /\ z \notin loose' =>
                           count'[z] = Cardinality(Binding(z)') + Cardinality(Holding(AllFrames', z))
                                       + Cardinality(Writing(AllFrames', z)) + Cardinality(Naming(z)')
    BY <1>0, CountsNext
  <2>1. /\ z \in used /\ z \in Blocks /\ z \notin Dying /\ kind[z] \in RcKinds /\ loose' = loose
        /\ z # Null /\ Rc(z) /\ z \notin ToFree
    BY <1>0, <1>1, <1>2, HeapAssumption DEF Rc
  <2>2. /\ count[z] \in Nat /\ IsFiniteSet(Naming(z))
        /\ Cardinality(Binding(z)) \in Nat /\ Cardinality(Holding(AllFrames, z)) \in Nat
        /\ Cardinality(Writing(AllFrames, z)) \in Nat /\ Cardinality(Naming(z)) \in Nat
        /\ count[z] >= Cardinality(Binding(z)) + Cardinality(Holding(AllFrames, z))
                       + Cardinality(Writing(AllFrames, z)) + Cardinality(Naming(z))
        /\ z \notin loose =>
             count[z] = Cardinality(Binding(z)) + Cardinality(Holding(AllFrames, z))
                        + Cardinality(Writing(AllFrames, z)) + Cardinality(Naming(z))
    BY <2>1, CountsNow
  <2>3. /\ Cardinality(Dropped(z)) \in Nat /\ Cardinality(Naming(z)') \in Nat
        /\ Cardinality(Dropped(z)) <= Cardinality(Naming(z))
        /\ Cardinality(Naming(z)') <= Cardinality(Naming(z)) - Cardinality(Dropped(z))
        /\ z \notin loose => Cardinality(Naming(z)') = Cardinality(Naming(z)) - Cardinality(Dropped(z))
    <3> DEFINE N == Naming(z)
               D == Dropped(z)
               M == Naming(z)'
    <3>1. IsFiniteSet(N) /\ D \in SUBSET N /\ M \in SUBSET (N \ D) /\ (z \notin loose => M = N \ D)
      BY <1>12, <2>1, <2>2
    <3> HIDE DEF N, D, M
    <3>2. /\ Cardinality(D) \in Nat /\ Cardinality(M) \in Nat
          /\ Cardinality(D) <= Cardinality(N)
          /\ Cardinality(M) <= Cardinality(N) - Cardinality(D)
          /\ M = N \ D => Cardinality(M) = Cardinality(N) - Cardinality(D)
      BY <3>1, Decremented
    <3> QED  BY <3>1, <3>2 DEF N, D, M
  <2>4. count[z] >= Cardinality(Dropped(z))
    BY <2>2, <2>3
  <2>5. count'[z] = count[z] - Cardinality(Dropped(z))
    BY <1>5, <2>1, <2>4
  <2> QED  BY <1>2, <1>9, <2>1, <2>2, <2>3, <2>5
<1>14. DropsOK'
  <2>1. ObjsOf(AllFrames, "free")' = ObjsOf(AllFrames, "free")
    BY <1>2 DEF ObjsOf
  <2>2. \A b \in ToFree : kind[b] \notin DropKinds
    BY <1>3, <1>4 DEF Newly
  <2>3. \A b \in used' : b \in used
    BY <1>0
  <2> QED  BY <1>0, <1>1, <2>1, <2>2, <2>3 DEF DropsOK, Safe
<1> QED  BY <1>2, <1>7, <1>8, <1>10, <1>11, <1>13, <1>14 DEF Safe-----------------------------------------------------------------------------
(* The invariant, and what follows from it.                                *)

\* The counts are exact in the empty heap ...
LEMMA SafeInit == Init => Safe
<1> SUFFICES ASSUME Init  PROVE Safe
  OBVIOUS
<1>1. \A t \in Threads : stack[t] = <<>> /\ lfree[t] = <<>> /\ refs[t] = {} /\ Frames(t) = {}
  BY DEF Init, Frames
<1>2. AllFrames = {} /\ used = {} /\ pending = {} /\ gfree = <<>> /\ drops = [b \in Blocks |-> 0]
  BY <1>1 DEF AllFrames, Init
<1>3. Unique /\ StoreOK
  <2>1. \A t \in Threads : Len(stack[t]) = 0 /\ \A i \in 1 .. 0 : FALSE
    BY <1>1
  <2>2. Unique
    BY <2>1 DEF Unique
  <2>3. \A t \in Threads : \A i \in 1 .. Len(stack[t]) - 1 : FALSE
    BY <2>1
  <2> QED  BY <2>2, <2>3 DEF StoreOK
<1>4. DyingOK /\ PendingOK
  BY <1>2 DEF DyingOK, PendingOK
<1>5. HeldOK
  BY <1>1, <1>2 DEF HeldOK, Held, Binding, Holding, Writing
<1>6. FieldOK /\ CountOK
  BY <1>2 DEF FieldOK, CountOK
<1>7. Recycled = {}
  BY <1>1, <1>2, EmptyInjective DEF Recycled
<1>8. DropsOK
  BY <1>2, <1>7 DEF DropsOK
<1> QED  BY <1>3, <1>4, <1>5, <1>6, <1>8 DEF Safe

\* ... and every step of a clean run keeps them so.
LEMMA SafeStep == Structure /\ Safe /\ Clean' /\ [Next]_vars => Safe'
<1> SUFFICES ASSUME Structure, Safe, Clean', [Next]_vars  PROVE Safe'
  OBVIOUS
<1>1. CASE UNCHANGED vars
  <2>1. /\ AllFrames' = AllFrames /\ Recycled' = Recycled
        /\ UNCHANGED <<used, kind, field, count, objects, pending, refs, stack, drops, loose>>
    BY <1>1 DEF vars, slabs, gcvars, AllFrames, Frames, Recycled
  <2>2. Unique' /\ StoreOK'
    BY <2>1 DEF Safe, Unique, StoreOK, Counted
  <2>3. Dying' = Dying /\ ObjsOf(AllFrames, "free")' = ObjsOf(AllFrames, "free")
        /\ ObjsOf(AllFrames, "store")' = ObjsOf(AllFrames, "store")
    BY <2>1 DEF Dying, ObjsOf
  <2>4. \A x : Held(x)' <=> Held(x)
    BY <2>1 DEF Held, Binding, Holding, Writing
  <2>5. \A x : Owners(x)' = Owners(x) /\ (Rc(x)' <=> Rc(x))
    BY <2>1 DEF Owners, Rc
  <2>6. DyingOK' /\ PendingOK'
    BY <2>1 DEF Safe, DyingOK, PendingOK
  <2>7. HeldOK'
    BY <2>1, <2>3, <2>4 DEF Safe, HeldOK
  <2>8. FieldOK'
    BY <2>1, <2>3 DEF Safe, FieldOK, Counted
  <2>9. CountOK'
    BY <2>1, <2>3, <2>5 DEF Safe, CountOK
  <2>10. DropsOK'
    BY <2>1, <2>3 DEF Safe, DropsOK
  <2> QED  BY <2>2, <2>6, <2>7, <2>8, <2>9, <2>10 DEF Safe
<1>2. ASSUME NEW t \in Threads, NEW k \in Kinds, Alloc(t, k)  PROVE Safe'
  BY <1>2, SafeAlloc
<1>3. ASSUME NEW t \in Threads, NEW o \in Blocks, Load(t, o)  PROVE Safe'
  BY <1>3, SafeLoad
<1>4. ASSUME NEW t \in Threads, NEW u \in Threads, NEW x \in Blocks, Share(t, u, x)  PROVE Safe'
  BY <1>4, SafeShare
<1>5. ASSUME NEW t \in Threads, NEW x \in Blocks, Unbind(t, x)  PROVE Safe'
  BY <1>5, SafeUnbind
<1>6. ASSUME NEW t \in Threads, NEW o \in Blocks, NEW x \in Blocks \cup {Null}, Store(t, o, x)
      PROVE  Safe'
  BY <1>6, SafeStore
<1>7. ASSUME NEW t \in Threads, ReleaseKids(t)  PROVE Safe'
  BY <1>7, SafeReleaseKids
<1>8. ASSUME NEW t \in Threads, Reclaim(t)  PROVE Safe'
  BY <1>8, SafeReclaim
<1>9. ASSUME NEW t \in Threads, Collect(t)  PROVE Safe'
  BY <1>9, SafeCollect
<1>10. ASSUME NEW t \in Threads, RunFinalizer(t)  PROVE Safe'
  BY <1>10, SafeRunFinalizer
<1>11. ASSUME NEW t \in Threads, FinalizersDone(t)  PROVE Safe'
  BY <1>11, SafeFinalizersDone
<1>12. ASSUME NEW t \in Threads, FinalizerEnd(t)  PROVE Safe'
  BY <1>12, SafeFinalizerEnd
<1>13. ASSUME NEW t \in Threads, Exit(t)  PROVE Safe'
  BY <1>13, SafeExit
<1> QED  BY <1>1, <1>2, <1>3, <1>4, <1>5, <1>6, <1>7, <1>8, <1>9, <1>10, <1>11, <1>12, <1>13 DEF Next

\* The heap is well formed on every run, and safe as long as drop bodies are clean.
HeapInv == Structure /\ (Clean => Safe)

\* The two together are inductive.
LEMMA HeapInvariant == Spec => []HeapInv
<1>1. Init => HeapInv
  BY StructureInit, SafeInit DEF HeapInv
<1>2. HeapInv /\ [Next]_vars => HeapInv'
  <2> SUFFICES ASSUME HeapInv, [Next]_vars  PROVE HeapInv'
    OBVIOUS
  <2>1. Structure' /\ Structure /\ TypeOK
    BY StructureStep DEF HeapInv, Structure
  <2>2. Clean' => Safe'
    BY <2>1, CleanFalls, SafeStep DEF HeapInv
  <2> QED  BY <2>1, <2>2 DEF HeapInv
<1> QED  BY <1>1, <1>2, PTL DEF Spec

\* On clean runs the strong count of every live object covers its references, and
\* is exact unless a list slot or an abandoned frame holds one for good.
THEOREM CountsAreExact == Spec => []CountsExact
<1>1. HeapInv => CountsExact
  BY DEF HeapInv, Safe, CountOK, CountsExact
<1> QED  BY <1>1, HeapInvariant, PTL

\* On clean runs no drop body runs twice on an object, and a block whose type has
\* one is not free before it has run.
THEOREM DropsRunOnce == Spec => []DropOnce
<1>1. HeapInv => DropOnce
  BY DEF HeapInv, Safe, DropsOK, DropOnce
<1> QED  BY <1>1, HeapInvariant, PTL

\* On clean runs what code can reach from its bindings, from stores under way and
\* from the objects given to drop bodies is never freed.
THEOREM ReachableLives == Spec => []NoDangling
<1>1. ASSUME HeapInv, Clean  PROVE NoDangling
  <2> DEFINE Objs(stg) == {f.obj : f \in {g \in AllFrames : g.pc = stg}}
             starts    == (StackRoots \cup Objs("drop") \cup pending) \ {Null}
             bases     == Blocks \ Objs("free")
             C         == used \ Objs("free")
  <2>0. Structure /\ Safe /\ TypeOK /\ Registry /\ used \subseteq Blocks
    BY <1>1 DEF HeapInv, Structure, TypeOK
  <2>1. Objs("free") = ObjsOf(AllFrames, "free")
    BY DEF ObjsOf
  <2>2. \A x \in Blocks : Held(x) => x \in used
    BY <2>0 DEF Safe, HeldOK
  <2>3. \A x \in StackRoots : x \in Blocks => x \in used
    <3> SUFFICES ASSUME NEW x \in StackRoots, x \in Blocks  PROVE x \in used
      OBVIOUS
    <3>1. CASE \E u \in Threads : x \in refs[u]
      BY <2>2, <3>1 DEF Held, Binding
    <3>2. CASE \E f \in AllFrames : x \in f.outer
      BY <2>2, <3>2 DEF Held, Holding
    <3>3. CASE \E f \in AllFrames : f.pc = "store" /\ x = f.val
      BY <2>2, <3>3 DEF Held, Writing
    <3>4. CASE \E f \in AllFrames : f.pc = "store" /\ x = f.obj
      BY <2>0, <3>4, StoreFacts
    <3> QED  BY <3>1, <3>2, <3>3, <3>4, RootsOfStacks
  <2>4. Objs("drop") \subseteq used
    <3> SUFFICES ASSUME NEW f \in AllFrames, f.pc = "drop"  PROVE f.obj \in used
      OBVIOUS
    <3> QED  BY <2>0, DyingFacts DEF Destroy
  <2>5. pending \subseteq used
    BY <2>0 DEF Registry
  <2>6. \A b \in C : field[b] \in bases => field[b] \in C
    <3> SUFFICES ASSUME NEW b \in C, field[b] \in bases  PROVE field[b] \in C
      OBVIOUS
    <3> HIDE DEF Objs
    <3>1. field[b] # Null
      BY HeapAssumption
    <3>2. field[b] \in used
      BY <2>0, <2>1, <3>1 DEF Safe, FieldOK
    <3> QED  BY <3>2
  <2> HIDE DEF Objs
  <2>7. starts \cap bases \subseteq C
    BY <2>3, <2>4, <2>5
  <2>8. C \in SUBSET bases
    BY <2>0
  <2> HIDE DEF starts, bases, C
  <2>9. Reach(starts, bases) \subseteq C
    BY <2>6, <2>7, <2>8, ReachFacts
  <2>10. Reach(starts, bases) \subseteq used
    BY <2>9 DEF C
  <2> QED  BY <2>10, Zenon DEF starts, bases, Objs, NoDangling
<1>2. HeapInv => NoDangling
  BY <1>1 DEF NoDangling
<1> QED  BY <1>2, HeapInvariant, PTL
-----------------------------------------------------------------------------
(* The world barrier.                                                      *)

\* On the way out of RUNNING, outside, or on the way back.
Out == {"parking", "entering", "native", "wait", "asleep", "contend"}

\* Places where a thread runs nothing that a collector must wait for.
Quiet == {"new", "born", "exited", "native", "wait", "asleep", "contend"}

\* Between TakeWorld and DropWorld.
WorldPcs == {"stopping", "quiesce", "collect", "release", "woke", "clear",
             "notify", "drop"}

\* The collector holds WORLD from before it sets STOP until after it has
\* notified, and a collector that blocked in its own sweep still does.
WorldHeld ==
    \A t \in Mutators :
        /\ pc[t] \in WorldPcs => world = t
        /\ pc[t] \in {"collect", "release", "woke", "clear"} => marking = t
        /\ pc[t] \in Out /\ back[t] = "woke" => world = t /\ marking = t

\* MUTATORS has every started thread, RUNNING unless it is out.
MutatorsKnown ==
    \A t \in Mutators :
        /\ pc[t] \notin {"new", "exited"} => t \in registered
        /\ pc[t] \notin Quiet \cup {"parking"} => mstate[t] = "running"
        /\ pc[t] \in {"new", "born", "parking"} => mstate[t] = "running"
        /\ pc[t] \in {"new", "born"} => back[t] = "code"

\* While a collector marks, it holds WORLD and everybody else is quiet.
OthersQuiet ==
    marking # Nobody =>
        /\ world = marking
        /\ \/ pc[marking] \in {"collect", "release", "woke", "clear"}
           \/ pc[marking] \in Out /\ back[marking] = "woke"
        /\ \A t \in Mutators \ {marking} : pc[t] \in Quiet

\* A thread that is out has published what its frames hold, unless it went out
\* through a contended runtime lock.
FramesSeen ==
    \A t \in frames :
        /\ pc[t] \notin {"new", "born", "exited"}
        /\ pc[t] \in Out =>
              t \in roots \/ (back[t] # "code" /\ (mstate[t] = "native" \/ pc[t] = "entering"))

WorldInv ==
    /\ WorldTypeOK /\ WorldHeld /\ MutatorsKnown
    /\ OthersQuiet /\ FramesSeen /\ NoLostResume

\* Every step keeps the invariant; what matters is that EnterRunning needs WORLD.
LEMMA WorldStep == WorldInv /\ [WorldNext]_worldVars => WorldInv'
<1> SUFFICES ASSUME WorldInv, [WorldNext]_worldVars  PROVE WorldInv'
  OBVIOUS
<1> USE WorldAssumption DEF WorldInv, WorldTypeOK, WorldHeld, MutatorsKnown, OthersQuiet,
                            FramesSeen, NoLostResume, Out, Quiet, WorldPcs, Labels
<1>0. CASE UNCHANGED worldVars
  BY <1>0 DEF worldVars
<1>1. ASSUME NEW t \in Mutators, SetParked(t)  PROVE WorldInv'
  BY <1>1 DEF SetParked, Goto
<1>2. ASSUME NEW t \in Mutators, SetNative(t)  PROVE WorldInv'
  BY <1>2 DEF SetNative, Goto
<1>3. ASSUME NEW t \in Mutators, WaitForResume(t)  PROVE WorldInv'
  BY <1>3 DEF WaitForResume, Goto
<1>4. ASSUME NEW t \in Mutators, EnterRunning(t)  PROVE WorldInv'
  BY <1>4 DEF EnterRunning, Goto
<1>5. ASSUME NEW t \in Mutators, Register(t)  PROVE WorldInv'
  <2>1. WorldTypeOK'
    BY <1>5 DEF Register, Goto
  <2>2. WorldHeld'
    BY <1>5 DEF Register, Goto
  <2>3. MutatorsKnown'
    BY <1>5 DEF Register, Goto
  <2>4. OthersQuiet'
    BY <1>5 DEF Register, Goto
  <2>5. FramesSeen'
    BY <1>5 DEF Register, Goto
  <2>6. NoLostResume'
    BY <1>5 DEF Register, Goto
  <2> QED
    BY <2>1, <2>2, <2>3, <2>4, <2>5, <2>6
<1>6. ASSUME NEW t \in Mutators, ThreadStart(t)  PROVE WorldInv'
  BY <1>6 DEF ThreadStart, Goto, Rejoin
<1>7. ASSUME NEW t \in Mutators, ThreadExit(t)  PROVE WorldInv'
  BY <1>7 DEF ThreadExit, Goto
<1>8. ASSUME NEW t \in Mutators, Mutate(t)  PROVE WorldInv'
  BY <1>8 DEF Mutate, Goto
<1>9. ASSUME NEW t \in Mutators, Safepoint(t)  PROVE WorldInv'
  BY <1>9 DEF Safepoint, Goto, Park, Publish
<1>10. ASSUME NEW t \in Mutators, Pause(t)  PROVE WorldInv'
  BY <1>10 DEF Pause, Goto
<1>11. ASSUME NEW t \in Mutators, Resume(t)  PROVE WorldInv'
  BY <1>11 DEF Resume, Goto, Park, Publish
<1>12. ASSUME NEW t \in Mutators, EnterNative(t)  PROVE WorldInv'
  BY <1>12 DEF EnterNative, Goto, Publish
<1>13. ASSUME NEW t \in Mutators, LeaveNative(t)  PROVE WorldInv'
  BY <1>13 DEF LeaveNative, Goto, Rejoin
<1>14. ASSUME NEW t \in Mutators, RuntimeLock(t)  PROVE WorldInv'
  BY <1>14 DEF RuntimeLock, Goto, LockOrBlock, Publish
<1>15. ASSUME NEW t \in Mutators, Granted(t)  PROVE WorldInv'
  BY <1>15 DEF Granted, Goto, Rejoin
<1>16. ASSUME NEW t \in Mutators, LockedSafepoint(t)  PROVE WorldInv'
  BY <1>16 DEF LockedSafepoint, Goto, Park, Publish
<1>17. ASSUME NEW t \in Mutators, RuntimeUnlock(t)  PROVE WorldInv'
  BY <1>17 DEF RuntimeUnlock, Goto
<1>18. ASSUME NEW t \in Mutators, SendCall(t)  PROVE WorldInv'
  BY <1>18 DEF SendCall, Goto
<1>19. ASSUME NEW t \in Mutators, SendLock(t)  PROVE WorldInv'
  BY <1>19 DEF SendLock, Goto
<1>20. ASSUME NEW t \in Mutators, SendSafepoint(t)  PROVE WorldInv'
  BY <1>20 DEF SendSafepoint, Goto, Park, Publish
<1>21. ASSUME NEW t \in Mutators, SendUnlock(t)  PROVE WorldInv'
  BY <1>21 DEF SendUnlock, Goto
<1>22. ASSUME NEW t \in Mutators, TakeTurn(t)  PROVE WorldInv'
  BY <1>22 DEF TakeTurn, Goto
<1>23. ASSUME NEW t \in Mutators, TakeWorld(t)  PROVE WorldInv'
  BY <1>23 DEF TakeWorld, Goto
<1>24. ASSUME NEW t \in Mutators, SetStop(t)  PROVE WorldInv'
  BY <1>24 DEF SetStop, Goto
<1>25. ASSUME NEW t \in Mutators, Quiescent(t)  PROVE WorldInv'
  BY <1>25 DEF Quiescent, Goto
<1>26. ASSUME NEW t \in Mutators, CollectHeap(t)  PROVE WorldInv'
  BY <1>26 DEF CollectHeap, Goto
<1>27. ASSUME NEW t \in Mutators, ReleaseEndpoint(t)  PROVE WorldInv'
  <2>1. WorldTypeOK'
    BY <1>27 DEF ReleaseEndpoint, Goto, LockOrBlock, Publish
  <2>2. WorldHeld'
    BY <1>27 DEF ReleaseEndpoint, Goto, LockOrBlock, Publish
  <2>3. MutatorsKnown'
    BY <1>27 DEF ReleaseEndpoint, Goto, LockOrBlock, Publish
  <2>4. OthersQuiet'
    BY <1>27 DEF ReleaseEndpoint, Goto, LockOrBlock, Publish
  <2>5. FramesSeen'
    BY <1>27 DEF ReleaseEndpoint, Goto, LockOrBlock, Publish
  <2>6. NoLostResume'
    BY <1>27 DEF ReleaseEndpoint, Goto, LockOrBlock, Publish
  <2> QED
    BY <2>1, <2>2, <2>3, <2>4, <2>5, <2>6
<1>28. ASSUME NEW t \in Mutators, WakeDone(t)  PROVE WorldInv'
  BY <1>28 DEF WakeDone, Goto
<1>29. ASSUME NEW t \in Mutators, ClearStop(t)  PROVE WorldInv'
  <2>1. WorldTypeOK'
    BY <1>29 DEF ClearStop, Goto
  <2>2. WorldHeld'
    BY <1>29 DEF ClearStop, Goto
  <2>3. MutatorsKnown'
    BY <1>29 DEF ClearStop, Goto
  <2>4. OthersQuiet'
    BY <1>29 DEF ClearStop, Goto
  <2>5. FramesSeen'
    BY <1>29 DEF ClearStop, Goto
  <2>6. NoLostResume'
    BY <1>29 DEF ClearStop, Goto
  <2> QED
    BY <2>1, <2>2, <2>3, <2>4, <2>5, <2>6
<1>30. ASSUME NEW t \in Mutators, NotifyResume(t)  PROVE WorldInv'
  BY <1>30 DEF NotifyResume, Goto
<1>31. ASSUME NEW t \in Mutators, DropWorld(t)  PROVE WorldInv'
  BY <1>31 DEF DropWorld, Goto
<1>32. ASSUME NEW t \in Mutators, RunFinalizers(t)  PROVE WorldInv'
  BY <1>32 DEF RunFinalizers, Goto
<1> QED
  BY <1>0, <1>1, <1>2, <1>3, <1>4, <1>5, <1>6, <1>7, <1>8, <1>9, <1>10, <1>11,
     <1>12, <1>13, <1>14, <1>15, <1>16, <1>17, <1>18, <1>19, <1>20, <1>21,
     <1>22, <1>23, <1>24, <1>25, <1>26, <1>27, <1>28, <1>29, <1>30, <1>31, <1>32
     DEF WorldNext, Choose, Proceed, Acquire

\* The invariant holds from the first state on.
LEMMA WorldInvariant == WorldSpec => []WorldInv
<1>1. WorldInit => WorldInv
  <2> SUFFICES ASSUME WorldInit  PROVE WorldInv
    OBVIOUS
  <2> USE WorldAssumption DEF WorldInit, Out, Quiet, WorldPcs, Labels
  <2>1. WorldTypeOK
    <3>1. mstate \in [Mutators -> {"running", "parked", "native"}]
      OBVIOUS
    <3>2. pc \in [Mutators -> Labels]
      OBVIOUS
    <3>3. back \in [Mutators -> {"code", "holding", "sending", "woke"}]
      OBVIOUS
    <3>4. cycles \in 0 .. MaxGC
      OBVIOUS
    <3>5. stop \in BOOLEAN
      OBVIOUS
    <3> QED
      BY <3>1, <3>2, <3>3, <3>4, <3>5 DEF WorldTypeOK
  <2>2. WorldHeld
    BY DEF WorldHeld
  <2>3. MutatorsKnown
    BY DEF MutatorsKnown
  <2>4. OthersQuiet /\ FramesSeen /\ NoLostResume
    BY DEF OthersQuiet, FramesSeen, NoLostResume
  <2> QED
    BY <2>1, <2>2, <2>3, <2>4 DEF WorldInv
<1> QED
  BY <1>1, WorldStep, PTL DEF WorldSpec

\* The collector is the only thread that runs program code or touches the heap
\* from quiescence to resume: the world barrier of gc.rs does its work for every
\* number of threads, and a thread that starts, resumes or returns from a native
\* wait cannot slip in.
THEOREM CollectorIsAlone == WorldSpec => []MarkAlone
<1>1. WorldInv => MarkAlone
  BY DEF WorldInv, OthersQuiet, MarkAlone, InProgram, Quiet
<1> QED
  BY <1>1, WorldInvariant, PTL

\* A thread asleep in wait_for_resume is never left behind by resume_the_world.
THEOREM ResumeIsNotLost == WorldSpec => []NoLostResume
<1>1. WorldInv => NoLostResume
  BY DEF WorldInv
<1> QED
  BY <1>1, WorldInvariant, PTL

\* Whatever its threads do, the root set that stop_the_world gathers lacks only the
\* frames of threads that went native in a contended runtime_lock: every other
\* way to stop publishes them, and none leaves stale roots behind.
THEOREM RootsAreSeen == WorldSpec => []RootsComplete
<1>1. WorldInv => RootsComplete
  <2> SUFFICES ASSUME WorldInv, marking # Nobody, NEW t \in frames \ {marking}
               PROVE  t \in registered /\ (t \in roots \/ InRuntimeLock(t))
    BY DEF RootsComplete
  <2>1. t \in Mutators /\ pc[t] \in Quiet /\ pc[t] \notin {"new", "born", "exited"}
    BY DEF WorldInv, WorldTypeOK, OthersQuiet, FramesSeen
  <2>2. pc[t] \in Out /\ pc[t] # "entering"
    BY <2>1 DEF Out, Quiet
  <2> QED
    BY <2>1, <2>2 DEF WorldInv, FramesSeen, MutatorsKnown, InRuntimeLock
<1> QED
  BY <1>1, WorldInvariant, PTL
=============================================================================
