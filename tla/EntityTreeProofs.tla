--------------------------- MODULE EntityTreeProofs ---------------------------
(***************************************************************************)
(* Proofs about EntityTree for any entities, orders and calls of the game: *)
(* the state is well formed, nothing that a later frame visits is deleted  *)
(* but what was destroyed while it waited, and the tree stays one, in the  *)
(* order of zOrder.                                                        *)
(*                                                                         *)
(* Every entity that is not stray is in at most one list of a live entity, *)
(* once; it is live then, and knows that entity as its parent when the     *)
(* list is one of children. A list is locked, or keeps a child waiting,    *)
(* only while a call of updateEntity for its owner is under way.           *)
(***************************************************************************)
EXTENDS EntityTree, SequenceFacts

Nodes == Entities \cup {NoEntity}

-----------------------------------------------------------------------------
(* Lists of children.                                                       *)

Has(list, c) == \E i \in 1 .. Len(list) : list[i] = c

Once(list, c) == \A i, j \in 1 .. Len(list) : list[i] = c /\ list[j] = c => i = j

Sorted(list, order) ==
    \A i, j \in 1 .. Len(list) :
        i < j /\ list[i] # NoEntity /\ list[j] # NoEntity => order[list[i]] <= order[list[j]]

LEMMA EmptyList ==
    /\ \A S : <<>> \in Seq(S)
    /\ \A c : ~Has(<<>>, c) /\ Once(<<>>, c)
    /\ \A order : Sorted(<<>>, order)
  BY EmptySeq DEF Has, Once, Sorted

LEMMA ElementsOfList ==
    ASSUME NEW S, NEW list \in Seq(S), NEW c
    PROVE  c \in ToSet(list) <=> Has(list, c)
  BY ToSetOfSeq DEF Has

\* Holes instead of some of the children.
LEMMA HolesInList ==
    ASSUME NEW list \in Seq(Nodes), NEW es \in SUBSET Entities
    PROVE  /\ Without(list, es) \in Seq(Nodes)
           /\ Len(Without(list, es)) = Len(list)
           /\ \A c \in Entities : Has(Without(list, es), c) <=> Has(list, c) /\ c \notin es
           /\ \A c \in Entities : Once(list, c) => Once(Without(list, es), c)
           /\ \A order : Sorted(list, order) => Sorted(Without(list, es), order)
<1>1. DOMAIN list = 1 .. Len(list) /\ Len(list) \in Nat
      /\ \A i \in 1 .. Len(list) : list[i] \in Nodes
  BY LenProperties, ElementOfSeq
<1>2. Without(list, es) = [i \in 1 .. Len(list) |-> IF list[i] \in es THEN NoEntity ELSE list[i]]
  BY <1>1 DEF Without
<1>3. \A i \in 1 .. Len(list) : (IF list[i] \in es THEN NoEntity ELSE list[i]) \in Nodes
  BY <1>1 DEF Nodes
<1>4. Without(list, es) \in [1 .. Len(list) -> Nodes]
  BY <1>2, <1>3
<1>5. Without(list, es) \in Seq(Nodes) /\ Len(Without(list, es)) = Len(list)
  BY <1>1, <1>4
<1>6. \A i \in 1 .. Len(list) :
         Without(list, es)[i] = IF list[i] \in es THEN NoEntity ELSE list[i]
  BY <1>2
<1>q. QED
  BY <1>5, <1>6, NoEntityAssumption DEF Has, Once, Sorted

\* A child that has to wait.
LEMMA AppendToList ==
    ASSUME NEW S, NEW list \in Seq(S), NEW x \in S
    PROVE  /\ Append(list, x) \in Seq(S)
           /\ \A c : Has(Append(list, x), c) <=> Has(list, c) \/ c = x
           /\ \A c : c # x /\ Once(list, c) => Once(Append(list, x), c)
           /\ ~Has(list, x) => Once(Append(list, x), x)
<1>1. /\ Append(list, x) \in Seq(S) /\ Len(list) \in Nat
      /\ Len(Append(list, x)) = Len(list) + 1
      /\ \A i \in 1 .. Len(list) : Append(list, x)[i] = list[i]
      /\ Append(list, x)[Len(list) + 1] = x
  BY AppendToSeq
<1>2. PICK n, longer : n = Len(list) /\ longer = Append(list, x)
  OBVIOUS
<1>3. \A i \in 1 .. (n + 1) : i \in 1 .. n \/ i = n + 1
  BY <1>1, <1>2
<1>4. \A i \in 1 .. n : i \in 1 .. (n + 1)
  BY <1>1, <1>2
<1>5. n + 1 \in 1 .. (n + 1)
  BY <1>1, <1>2
<1>q. QED
  BY <1>1, <1>2, <1>3, <1>4, <1>5 DEF Has, Once

\* The first of those that wait, and the others.
LEMMA HeadOfList ==
    ASSUME NEW S, NEW list \in Seq(S), list # <<>>
    PROVE  /\ Head(list) \in S
           /\ Tail(list) \in Seq(S)
           /\ \A c : Has(list, c) <=> c = Head(list) \/ Has(Tail(list), c)
           /\ \A c : Once(list, c) => Once(Tail(list), c)
           /\ Once(list, Head(list)) => ~Has(Tail(list), Head(list))
<1>1. /\ Head(list) \in S /\ Tail(list) \in Seq(S) /\ Len(list) \in Nat \ {0}
      /\ Head(list) = list[1]
      /\ Len(Tail(list)) = Len(list) - 1
      /\ \A i \in 1 .. (Len(list) - 1) : Tail(list)[i] = list[i + 1]
  BY HeadTailProperties, EmptySeq
<1>2. PICK n, rest : n = Len(list) /\ rest = Tail(list)
  OBVIOUS
<1>3. 1 \in 1 .. n /\ \A i \in 1 .. (n - 1) : i + 1 \in 1 .. n /\ i + 1 # 1
  BY <1>1, <1>2
<1>4. \A i \in 1 .. n : i = 1 \/ (i - 1 \in 1 .. (n - 1) /\ (i - 1) + 1 = i)
  BY <1>1, <1>2
<1>5. \A i, j \in 1 .. (n - 1) : i + 1 = j + 1 => i = j
  BY <1>1, <1>2
<1>6. \A c : Has(list, c) <=> c = Head(list) \/ Has(Tail(list), c)
  BY <1>1, <1>2, <1>3, <1>4 DEF Has
<1>7. \A c : Once(list, c) => Once(Tail(list), c)
  BY <1>1, <1>2, <1>3, <1>5 DEF Once
<1>8. Once(list, Head(list)) => ~Has(Tail(list), Head(list))
  BY <1>1, <1>2, <1>3 DEF Once, Has
<1>q. QED
  BY <1>1, <1>6, <1>7, <1>8

-----------------------------------------------------------------------------
(* addChild's place for a child.                                            *)

\* packed has the children among the first n slots, in their order; f says where it
\* has them from.
Packed(list, n, packed, f) ==
    /\ packed \in Seq(Entities)
    /\ \A k \in 1 .. Len(packed) :
          f[k] \in 1 .. n /\ list[f[k]] # NoEntity /\ packed[k] = list[f[k]]
    /\ \A j, k \in 1 .. Len(packed) : j < k => f[j] < f[k]
    /\ \A i \in 1 .. n : list[i] # NoEntity => \E k \in 1 .. Len(packed) : f[k] = i

\* The recursive function in Present: its value for n.
Pack(list, n, packs) ==
    IF n = 0 THEN <<>>
    ELSE IF list[n] = NoEntity THEN packs[n - 1] ELSE Append(packs[n - 1], list[n])

\* There is such a function.
LEMMA PacksExists ==
    ASSUME NEW list, NEW n \in Nat
    PROVE  \E packs : packs = [m \in 0 .. n |-> Pack(list, m, packs)]
<1> DEFINE Missing == {l \in Nat : ~ \E packs : packs = [m \in 0 .. l |-> Pack(list, m, packs)]}
<1> SUFFICES ASSUME Missing # {}
             PROVE  FALSE
  OBVIOUS
<1>1. PICK l \in Missing : \A m \in Missing : l <= m
  BY HasSmallest
<1>2. CASE l = 0
  <2>1. PICK packs : packs = [m \in 0 .. 0 |-> <<>>]
    OBVIOUS
  <2>2. \A m \in 0 .. 0 : Pack(list, m, packs) = <<>>
    BY DEF Pack
  <2>3. packs = [m \in 0 .. 0 |-> Pack(list, m, packs)]
    BY <2>1, <2>2
  <2>q. QED
    BY <1>1, <1>2, <2>3
<1>3. CASE l # 0
  <2>1. l - 1 \in Nat /\ ~(l <= l - 1) /\ l \in Nat
    BY <1>1, <1>3
  <2>2. l - 1 \notin Missing
    BY <1>1, <2>1
  <2>3. PICK packs : packs = [m \in 0 .. (l - 1) |-> Pack(list, m, packs)]
    BY <2>1, <2>2
  <2>4. PICK longer :
          longer = [m \in 0 .. l |-> IF m = l THEN Pack(list, l, packs) ELSE packs[m]]
    OBVIOUS
  <2>5. \A m \in 0 .. l : Pack(list, m, longer) = Pack(list, m, packs)
    <3>1. ASSUME NEW m \in 0 .. l, m # 0
          PROVE  m - 1 \in 0 .. l /\ m - 1 # l
      BY <2>1, <3>1
    <3>2. \A m \in 0 .. l : m # 0 => longer[m - 1] = packs[m - 1]
      BY <2>4, <3>1
    <3>q. QED
      BY <3>2 DEF Pack
  <2>6. \A m \in 0 .. l : m = l \/ m \in 0 .. (l - 1)
    BY <2>1
  <2>7. \A m \in 0 .. (l - 1) : packs[m] = Pack(list, m, packs)
    BY <2>3
  <2>8. \A m \in 0 .. l : longer[m] = Pack(list, m, longer)
    BY <2>4, <2>5, <2>6, <2>7
  <2>9. longer = [m \in 0 .. l |-> Pack(list, m, longer)]
    BY <2>4, <2>8
  <2>q. QED
    BY <1>1, <2>9
<1>q. QED
  BY <1>2, <1>3

LEMMA PresentIsPacked ==
    ASSUME NEW list \in Seq(Nodes)
    PROVE  \E f : Packed(list, Len(list), Present(list), f)
<1>1. Len(list) \in Nat /\ \A i \in 1 .. Len(list) : list[i] \in Nodes
  BY ElementOfSeq
<1>2. PICK packs : /\ Present(list) = packs[Len(list)]
                   /\ packs = [m \in 0 .. Len(list) |-> Pack(list, m, packs)]
  <2>1. PICK g : g = [m \in 0 .. Len(list) |-> Pack(list, m, g)]
    BY <1>1, PacksExists
  <2>2. g = [n \in 0 .. Len(list) |->
                IF n = 0 THEN <<>>
                ELSE IF list[n] = NoEntity THEN g[n - 1] ELSE Append(g[n - 1], list[n])]
    BY <2>1 DEF Pack
  <2>3. \E f : /\ Present(list) = f[Len(list)]
               /\ f = [n \in 0 .. Len(list) |->
                         IF n = 0 THEN <<>>
                         ELSE IF list[n] = NoEntity THEN f[n - 1] ELSE Append(f[n - 1], list[n])]
    BY <2>2 DEF Present
  <2>q. QED
    BY <2>3 DEF Pack
<1>3. \A m \in 0 .. Len(list) : packs[m] = Pack(list, m, packs)
  BY <1>2
<1> DEFINE Wrong == {n \in Nat : n <= Len(list) /\ ~ \E f : Packed(list, n, packs[n], f)}
<1>4. Wrong = {}
  <2> SUFFICES ASSUME Wrong # {}
               PROVE  FALSE
    OBVIOUS
  <2>1. PICK n \in Wrong : \A m \in Wrong : n <= m
    BY HasSmallest
  <2>2. n \in Nat /\ n \in 0 .. Len(list)
    BY <1>1, <2>1
  <2>3. CASE n = 0
    <3>1. packs[n] = <<>>
      BY <1>3, <2>2, <2>3 DEF Pack
    <3>2. \A f : Packed(list, n, <<>>, f)
      BY <2>3, EmptySeq DEF Packed
    <3>q. QED
      BY <2>1, <3>1, <3>2
  <2>4. CASE n # 0
    <3>1. /\ n - 1 \in Nat /\ n - 1 \in 0 .. Len(list) /\ ~(n <= n - 1) /\ n \in 1 .. Len(list)
          /\ n \in 1 .. n /\ \A i \in 1 .. n : i = n \/ i \in 1 .. (n - 1)
          /\ \A i \in 1 .. (n - 1) : i \in 1 .. n /\ i < n
      BY <1>1, <2>2, <2>4
    <3>2. n - 1 \notin Wrong
      BY <2>1, <3>1
    <3>3. PICK f : Packed(list, n - 1, packs[n - 1], f)
      BY <1>1, <3>1, <3>2
    <3>4. CASE list[n] = NoEntity
      <4>1. packs[n] = packs[n - 1]
        BY <1>3, <2>2, <2>4, <3>4 DEF Pack
      <4>2. Packed(list, n, packs[n - 1], f)
        BY <3>1, <3>3, <3>4 DEF Packed
      <4>q. QED
        BY <2>1, <4>1, <4>2
    <3>5. CASE list[n] # NoEntity
      <4>1. packs[n] = Append(packs[n - 1], list[n])
        BY <1>3, <2>2, <2>4, <3>5 DEF Pack
      <4>2. PICK s, x : s = packs[n - 1] /\ x = list[n]
        OBVIOUS
      <4>3. x \in Entities /\ s \in Seq(Entities)
        BY <1>1, <3>1, <3>3, <3>5, <4>2 DEF Nodes, Packed
      <4>4. /\ Append(s, x) \in Seq(Entities) /\ Len(s) \in Nat
            /\ Len(Append(s, x)) = Len(s) + 1
            /\ \A i \in 1 .. Len(s) : Append(s, x)[i] = s[i]
            /\ Append(s, x)[Len(s) + 1] = x
        BY <4>3, AppendToSeq
      <4>5. PICK g : g = [k \in 1 .. (Len(s) + 1) |-> IF k = Len(s) + 1 THEN n ELSE f[k]]
        OBVIOUS
      <4>6. /\ Len(s) + 1 \in 1 .. (Len(s) + 1)
            /\ \A k \in 1 .. (Len(s) + 1) : k = Len(s) + 1 \/ k \in 1 .. Len(s)
            /\ \A k \in 1 .. Len(s) : k \in 1 .. (Len(s) + 1) /\ k # Len(s) + 1 /\ k < Len(s) + 1
            /\ \A k \in 1 .. (Len(s) + 1) : ~(Len(s) + 1 < k)
        BY <4>4
      <4>7. g[Len(s) + 1] = n /\ \A k \in 1 .. Len(s) : g[k] = f[k]
        BY <4>5, <4>6
      <4>8. \A k \in 1 .. Len(s) : f[k] \in 1 .. (n - 1) /\ list[f[k]] # NoEntity /\ s[k] = list[f[k]]
        BY <3>3, <4>2 DEF Packed
      <4>9. \A k \in 1 .. (Len(s) + 1) :
               g[k] \in 1 .. n /\ list[g[k]] # NoEntity /\ Append(s, x)[k] = list[g[k]]
        BY <3>1, <3>5, <4>2, <4>4, <4>6, <4>7, <4>8, SMTT(30)
      <4>10. \A j, k \in 1 .. (Len(s) + 1) : j < k => g[j] < g[k]
        <5>1. \A j, k \in 1 .. Len(s) : j < k => f[j] < f[k]
          BY <3>3, <4>2 DEF Packed
        <5>q. QED
          BY <3>1, <4>6, <4>7, <4>8, <5>1
      <4>11. \A i \in 1 .. n : list[i] # NoEntity => \E k \in 1 .. (Len(s) + 1) : g[k] = i
        <5>1. \A i \in 1 .. (n - 1) : list[i] # NoEntity => \E k \in 1 .. Len(s) : f[k] = i
          BY <3>3, <4>2 DEF Packed
        <5>q. QED
          BY <3>1, <4>6, <4>7, <5>1
      <4>12. Packed(list, n, Append(s, x), g)
        BY <4>4, <4>9, <4>10, <4>11 DEF Packed
      <4>q. QED
        BY <2>1, <4>1, <4>2, <4>12
    <3>q. QED
      BY <3>4, <3>5
  <2>q. QED
    BY <2>3, <2>4
<1>q. QED
  BY <1>1, <1>2, <1>4

\* merged has the children of list, in their order, and child at place q; f says where
\* it has the others from.
Merged(list, merged, child, q, f) ==
    /\ q \in 1 .. Len(merged) /\ merged[q] = child
    /\ \A k \in 1 .. Len(merged) : k # q => f[k] \in 1 .. Len(list) /\ merged[k] = list[f[k]]
    /\ \A j, k \in 1 .. Len(merged) : j < k /\ j # q /\ k # q => f[j] < f[k]
    /\ \A i \in 1 .. Len(list) :
          list[i] # NoEntity => \E k \in 1 .. Len(merged) : k # q /\ f[k] = i

\* Nothing before it has a greater order, and nothing after it a smaller one.
Fits(merged, child, q, order) ==
    \A k \in 1 .. Len(merged) : merged[k] # NoEntity =>
        /\ k < q => order[merged[k]] <= order[child]
        /\ k > q => order[child] <= order[merged[k]]

LEMMA MergedList ==
    ASSUME NEW list \in Seq(Nodes), NEW merged \in Seq(Nodes), NEW child \in Entities,
           NEW q, NEW f, Merged(list, merged, child, q, f)
    PROVE  /\ \A c \in Entities : Has(merged, c) <=> Has(list, c) \/ c = child
           /\ \A c \in Entities : c # child /\ Once(list, c) => Once(merged, c)
           /\ ~Has(list, child) => Once(merged, child)
           /\ \A order \in [Entities -> Int] :
                 Sorted(list, order) /\ Fits(merged, child, q, order) => Sorted(merged, order)
<1>1. PICK n, m : n = Len(list) /\ m = Len(merged)
  OBVIOUS
<1>2. /\ n \in Nat /\ m \in Nat
      /\ \A k \in 1 .. m : merged[k] \in Nodes
      /\ q \in 1 .. m /\ merged[q] = child
      /\ \A k \in 1 .. m : k # q => f[k] \in 1 .. n /\ merged[k] = list[f[k]]
      /\ \A j, k \in 1 .. m : j < k /\ j # q /\ k # q => f[j] < f[k]
      /\ \A i \in 1 .. n : list[i] # NoEntity => \E k \in 1 .. m : k # q /\ f[k] = i
  BY <1>1, ElementOfSeq DEF Merged
<1>3. \A j, k \in 1 .. m : j = k \/ j < k \/ k < j
  BY <1>2
<1>4. \A c \in Entities : Has(merged, c) <=> Has(list, c) \/ c = child
  <2>1. ASSUME NEW c \in Entities
        PROVE  Has(merged, c) => Has(list, c) \/ c = child
    BY <1>1, <1>2 DEF Has
  <2>2. ASSUME NEW c \in Entities, Has(list, c)
        PROVE  Has(merged, c)
    <3>1. PICK i \in 1 .. n : list[i] = c
      BY <1>1, <2>2 DEF Has
    <3>2. PICK k \in 1 .. m : k # q /\ f[k] = i
      BY <1>2, <3>1, NoEntityAssumption
    <3>q. QED
      BY <1>1, <1>2, <3>1, <3>2 DEF Has
  <2>3. Has(merged, child)
    BY <1>1, <1>2 DEF Has
  <2>q. QED
    BY <2>1, <2>2, <2>3
<1>5. ASSUME NEW c \in Entities, c # child, Once(list, c)
      PROVE  Once(merged, c)
  <2>1. SUFFICES ASSUME NEW j \in 1 .. m, NEW k \in 1 .. m, merged[j] = c, merged[k] = c
                 PROVE  j = k
    BY <1>1 DEF Once
  <2>2. j # q /\ k # q
    BY <1>2, <1>5, <2>1
  <2>3. f[j] = f[k] /\ f[j] \in 1 .. n
    BY <1>1, <1>2, <1>5, <2>1, <2>2 DEF Once
  <2>4. ~(f[j] < f[k]) /\ ~(f[k] < f[j])
    BY <1>2, <2>3
  <2>q. QED
    BY <1>2, <1>3, <2>2, <2>4
<1>6. ASSUME ~Has(list, child)
      PROVE  Once(merged, child)
  <2>1. \A k \in 1 .. m : merged[k] = child => k = q
    BY <1>1, <1>2, <1>6 DEF Has
  <2>q. QED
    BY <1>1, <2>1 DEF Once
<1>7. ASSUME NEW order \in [Entities -> Int], Sorted(list, order), Fits(merged, child, q, order)
      PROVE  Sorted(merged, order)
  <2>1. SUFFICES ASSUME NEW j \in 1 .. m, NEW k \in 1 .. m, j < k,
                        merged[j] # NoEntity, merged[k] # NoEntity
                 PROVE  order[merged[j]] <= order[merged[k]]
    BY <1>1 DEF Sorted
  <2>2. CASE j = q
    BY <1>1, <1>2, <1>7, <2>1, <2>2 DEF Fits
  <2>3. CASE k = q
    BY <1>1, <1>2, <1>7, <2>1, <2>3 DEF Fits
  <2>4. CASE j # q /\ k # q
    <3>1. /\ f[j] \in 1 .. n /\ f[k] \in 1 .. n /\ f[j] < f[k]
          /\ merged[j] = list[f[j]] /\ merged[k] = list[f[k]]
      BY <1>2, <2>1, <2>4
    <3>q. QED
      BY <1>1, <1>7, <2>1, <3>1 DEF Sorted
  <2>q. QED
    BY <2>2, <2>3, <2>4
<1>q. QED
  BY <1>4, <1>5, <1>6, <1>7

\* At the end of a list that keeps its holes, or has lost them.
LEMMA MergedAtEnd ==
    ASSUME NEW list \in Seq(Nodes), NEW kept \in Seq(Nodes), NEW child \in Entities, NEW f,
           \A k \in 1 .. Len(kept) : f[k] \in 1 .. Len(list) /\ kept[k] = list[f[k]],
           \A j, k \in 1 .. Len(kept) : j < k => f[j] < f[k],
           \A i \in 1 .. Len(list) : list[i] # NoEntity => \E k \in 1 .. Len(kept) : f[k] = i,
           NEW order, \A i \in 1 .. Len(list) : list[i] # NoEntity => order[list[i]] <= order[child]
    PROVE  LET merged == Append(kept, child)
           IN  /\ merged \in Seq(Nodes)
               /\ \E q : Merged(list, merged, child, q, f) /\ Fits(merged, child, q, order)
<1>1. PICK merged, n : merged = Append(kept, child) /\ n = Len(kept)
  OBVIOUS
<1>2. /\ merged \in Seq(Nodes) /\ n \in Nat /\ Len(merged) = n + 1
      /\ \A i \in 1 .. n : merged[i] = kept[i]
      /\ merged[n + 1] = child
  <2>1. child \in Nodes
    BY DEF Nodes
  <2>q. QED
    BY <1>1, <2>1, AppendToSeq
<1>3. /\ n + 1 \in 1 .. (n + 1)
      /\ \A k \in 1 .. (n + 1) : (k # n + 1 <=> k \in 1 .. n) /\ ~(k > n + 1)
      /\ \A k \in 1 .. n : k \in 1 .. (n + 1) /\ k # n + 1
  BY <1>2
<1>4. Merged(list, merged, child, n + 1, f)
  BY <1>1, <1>2, <1>3 DEF Merged
<1>5. Fits(merged, child, n + 1, order)
  <2>1. ASSUME NEW k \in 1 .. (n + 1), merged[k] # NoEntity, k < n + 1
        PROVE  order[merged[k]] <= order[child]
    <3>1. k \in 1 .. n
      BY <1>2, <2>1
    <3>2. merged[k] = list[f[k]] /\ f[k] \in 1 .. Len(list)
      BY <1>1, <1>2, <3>1
    <3>q. QED
      BY <2>1, <3>2
  <2>q. QED
    BY <1>2, <1>3, <2>1 DEF Fits
<1>q. QED
  BY <1>1, <1>2, <1>4, <1>5

\* Before the first that has a greater order, when holes on the way are erased.
LEMMA MergedBefore ==
    ASSUME NEW list \in Seq(Nodes), NEW child \in Entities, NEW order \in [Entities -> Int],
           NEW first \in 1 .. Len(list), list[first] # NoEntity,
           order[child] < order[list[first]],
           \A i \in 1 .. (first - 1) : list[i] # NoEntity => order[list[i]] <= order[child],
           Sorted(list, order)
    PROVE  LET merged == Present(SubSeq(list, 1, first - 1)) \o <<child>>
                             \o SubSeq(list, first, Len(list))
           IN  /\ merged \in Seq(Nodes)
               /\ \E q, f : Merged(list, merged, child, q, f) /\ Fits(merged, child, q, order)
<1>1. PICK n : n = Len(list)
  OBVIOUS
<1>2. /\ n \in Nat /\ first \in 1 .. n /\ first - 1 \in 0 .. n /\ first \in Nat
      /\ \A i \in 1 .. n : list[i] \in Nodes
  BY <1>1, ElementOfSeq
<1>3. PICK low : low = SubSeq(list, 1, first - 1)
  OBVIOUS
<1>4. /\ low \in Seq(Nodes) /\ Len(low) = first - 1
      /\ \A i \in 1 .. (first - 1) : low[i] = list[i]
  BY <1>1, <1>2, <1>3, PrefixOfSeq
<1>5. PICK high : high = SubSeq(list, first, n)
  OBVIOUS
<1>6. /\ high \in Seq(Nodes) /\ Len(high) = n - first + 1
      /\ \A i \in 1 .. (n - first + 1) : high[i] = list[first + i - 1]
  <2>1. /\ SubSeq(list, first, n) \in Seq(Nodes)
        /\ Len(SubSeq(list, first, n)) = IF first <= n THEN n - first + 1 ELSE 0
        /\ \A i \in 1 .. (n - first + 1) : SubSeq(list, first, n)[i] = list[first + i - 1]
    BY <1>1, <1>2, SubSeqProperties
  <2>q. QED
    BY <1>2, <1>5, <2>1
<1>7. PICK g : Packed(low, first - 1, Present(low), g)
  BY <1>4, PresentIsPacked
<1>8. PICK kept, m : kept = Present(low) /\ m = Len(kept)
  OBVIOUS
<1>9. /\ kept \in Seq(Nodes) /\ m \in Nat
      /\ \A k \in 1 .. m : g[k] \in 1 .. (first - 1) /\ kept[k] = list[g[k]]
      /\ \A j, k \in 1 .. m : j < k => g[j] < g[k]
      /\ \A i \in 1 .. (first - 1) : list[i] # NoEntity => \E k \in 1 .. m : g[k] = i
  <2>1. kept \in Seq(Entities) /\ Entities \subseteq Nodes
    BY <1>7, <1>8 DEF Packed, Nodes
  <2>2. kept \in Seq(Nodes)
    BY <2>1, SeqMonotonic
  <2>3. \A k \in 1 .. m : g[k] \in 1 .. (first - 1) /\ kept[k] = low[g[k]]
    BY <1>7, <1>8 DEF Packed
  <2>4. \A i \in 1 .. (first - 1) : low[i] # NoEntity => \E k \in 1 .. m : g[k] = i
    BY <1>7, <1>8 DEF Packed
  <2>5. \A j, k \in 1 .. m : j < k => g[j] < g[k]
    BY <1>7, <1>8 DEF Packed
  <2>6. m \in Nat
    BY <1>8, <2>2
  <2>7. \A k \in 1 .. m : g[k] \in 1 .. (first - 1) /\ kept[k] = list[g[k]]
    BY <1>4, <2>3
  <2>8. \A i \in 1 .. (first - 1) : list[i] # NoEntity => \E k \in 1 .. m : g[k] = i
    BY <1>4, <2>4
  <2>q. QED
    BY <2>2, <2>5, <2>6, <2>7, <2>8
<1>10. PICK merged : merged = (kept \o <<child>>) \o high
  OBVIOUS
<1>11. /\ merged \in Seq(Nodes) /\ Len(merged) = m + 1 + (n - first + 1)
       /\ \A k \in 1 .. m : merged[k] = kept[k]
       /\ merged[m + 1] = child
       /\ \A k \in (m + 2) .. (m + 1 + (n - first + 1)) : merged[k] = high[k - (m + 1)]
  <2>1. child \in Nodes
    BY DEF Nodes
  <2>2. /\ kept \o <<child>> = Append(kept, child)
        /\ Append(kept, child) \in Seq(Nodes) /\ Len(Append(kept, child)) = m + 1
        /\ \A k \in 1 .. m : Append(kept, child)[k] = kept[k]
        /\ Append(kept, child)[m + 1] = child
    BY <1>8, <1>9, <2>1, AppendIsConcat, AppendToSeq
  <2>3. PICK longer : longer = Append(kept, child)
    OBVIOUS
  <2>4. /\ longer \o high \in Seq(Nodes)
        /\ Len(longer \o high) = m + 1 + (n - first + 1)
        /\ \A k \in 1 .. (m + 1 + (n - first + 1)) :
              (longer \o high)[k] = IF k <= m + 1 THEN longer[k] ELSE high[k - (m + 1)]
    <3>1. longer \in Seq(Nodes) /\ Len(longer) = m + 1
      BY <2>2, <2>3
    <3>2. /\ longer \o high \in Seq(Nodes)
          /\ Len(longer \o high) = Len(longer) + Len(high)
          /\ \A k \in 1 .. (Len(longer) + Len(high)) :
                (longer \o high)[k] =
                    IF k <= Len(longer) THEN longer[k] ELSE high[k - Len(longer)]
      BY <1>6, <3>1, ConcatProperties
    <3>q. QED
      BY <1>6, <3>1, <3>2
  <2>5. /\ \A k \in 1 .. m : k \in 1 .. (m + 1 + (n - first + 1)) /\ k <= m + 1
        /\ m + 1 \in 1 .. (m + 1 + (n - first + 1))
        /\ \A k \in (m + 2) .. (m + 1 + (n - first + 1)) :
              k \in 1 .. (m + 1 + (n - first + 1)) /\ ~(k <= m + 1)
    BY <1>2, <1>9
  <2>q. QED
    BY <1>10, <2>2, <2>3, <2>4, <2>5, SMTT(30)
<1>12. PICK q, l : q = m + 1 /\ l = m + 1 + (n - first + 1)
  OBVIOUS
<1>13. /\ q \in 1 .. l /\ q \in Nat /\ l \in Nat
       /\ \A k \in 1 .. l : k \in 1 .. m \/ k = q \/ k \in (m + 2) .. l
       /\ \A k \in 1 .. m : k \in 1 .. l /\ k < q /\ k # q /\ ~(q < k)
       /\ \A k \in (m + 2) .. l : k \in 1 .. l /\ q < k /\ k # q /\ ~(k < q)
       /\ \A k \in (m + 2) .. l : k - q \in 1 .. (n - first + 1)
                                  /\ first + (k - q) - 1 \in first .. n
  BY <1>2, <1>9, <1>12
<1>14. PICK f : f = [k \in 1 .. l |-> IF k < q THEN g[k] ELSE first + (k - q) - 1]
  OBVIOUS
<1>15. /\ \A k \in 1 .. m : f[k] = g[k] /\ f[k] \in 1 .. (first - 1) /\ merged[k] = list[f[k]]
       /\ \A k \in (m + 2) .. l : /\ f[k] = first + (k - q) - 1
                                  /\ f[k] \in first .. n /\ merged[k] = list[f[k]]
  BY <1>6, <1>9, <1>11, <1>12, <1>13, <1>14, SMTT(30)
<1>16. /\ \A i \in 1 .. (first - 1) : i \in 1 .. n /\ i < first
       /\ \A i \in first .. n : i \in 1 .. n /\ first <= i
       /\ \A i \in 1 .. n : i \in 1 .. (first - 1) \/ i \in first .. n
       /\ \A i \in 1 .. (first - 1), j \in first .. n : i < j
  BY <1>2
<1>17. Merged(list, merged, child, q, f)
  <2>1. \A k \in 1 .. l : k # q => f[k] \in 1 .. n /\ merged[k] = list[f[k]]
    BY <1>13, <1>15, <1>16
  <2>2. ASSUME NEW j \in 1 .. l, NEW k \in 1 .. l, j < k, j # q, k # q
        PROVE  f[j] < f[k]
    <3>1. CASE k \in 1 .. m
      <4>1. j \in 1 .. m
        BY <1>13, <2>2, <3>1
      <4>q. QED
        BY <1>9, <1>15, <2>2, <3>1, <4>1
    <3>2. CASE j \in 1 .. m /\ k \in (m + 2) .. l
      BY <1>15, <1>16, <3>2
    <3>3. CASE j \in (m + 2) .. l /\ k \in (m + 2) .. l
      <4>1. f[j] = first + (j - q) - 1 /\ f[k] = first + (k - q) - 1
        BY <1>15, <3>3
      <4>q. QED
        BY <1>2, <1>13, <2>2, <4>1
    <3>4. j \in (m + 2) .. l /\ k \in 1 .. m => FALSE
      BY <1>13, <2>2
    <3>q. QED
      BY <1>13, <2>2, <3>1, <3>2, <3>3, <3>4
  <2>3. ASSUME NEW i \in 1 .. n, list[i] # NoEntity
        PROVE  \E k \in 1 .. l : k # q /\ f[k] = i
    <3>1. CASE i \in 1 .. (first - 1)
      <4>1. PICK k \in 1 .. m : g[k] = i
        BY <1>9, <2>3, <3>1
      <4>q. QED
        BY <1>13, <1>15, <4>1
    <3>2. CASE i \in first .. n
      <4>1. PICK k : k = i - first + 1 + q
        OBVIOUS
      <4>2. k \in (m + 2) .. l /\ first + (k - q) - 1 = i
        <5>1. i \in Int /\ first \in Int /\ n \in Int /\ m \in Int /\ first <= i /\ i <= n
          BY <1>2, <1>9, <3>2
        <5>q. QED
          BY <1>12, <4>1, <5>1
      <4>q. QED
        BY <1>13, <1>15, <4>2
    <3>q. QED
      BY <1>16, <3>1, <3>2
  <2>q. QED
    BY <1>1, <1>11, <1>12, <1>13, <2>1, <2>2, <2>3 DEF Merged
<1>18. Fits(merged, child, q, order)
  <2>1. ASSUME NEW k \in 1 .. m, merged[k] # NoEntity
        PROVE  order[merged[k]] <= order[child]
    BY <1>15, <2>1
  <2>2. ASSUME NEW k \in (m + 2) .. l, merged[k] # NoEntity
        PROVE  order[child] <= order[merged[k]]
    <3>1. f[k] \in 1 .. n /\ merged[k] = list[f[k]] /\ (first = f[k] \/ first < f[k])
      BY <1>2, <1>15, <1>16
    <3>2. first \in 1 .. n /\ (first < f[k] => order[list[first]] <= order[list[f[k]]])
      BY <1>1, <1>2, <2>2, <3>1 DEF Sorted
    <3>3. list[first] \in Entities /\ list[f[k]] \in Entities
      BY <1>2, <2>2, <3>1 DEF Nodes
    <3>4. order[child] \in Int /\ order[list[first]] \in Int /\ order[list[f[k]]] \in Int
      BY <3>3
    <3>5. order[list[first]] <= order[list[f[k]]]
      BY <3>1, <3>2, <3>4
    <3>q. QED
      BY <3>1, <3>4, <3>5
  <2>3. Len(merged) = l
    BY <1>11, <1>12
  <2>q. QED
    BY <1>13, <2>1, <2>2, <2>3 DEF Fits
<1>q. QED
  BY <1>1, <1>3, <1>5, <1>8, <1>10, <1>11, <1>17, <1>18

\* addChild's place keeps a list in order, and loses, moves and doubles no other child.
LEMMA InsertIntoList ==
    ASSUME NEW list \in Seq(Nodes), NEW child \in Entities, NEW order \in [Entities -> Int],
           Sorted(list, order)
    PROVE  LET merged == Insert(list, child, order)
           IN  /\ merged \in Seq(Nodes)
               /\ \A c \in Entities : Has(merged, c) <=> Has(list, c) \/ c = child
               /\ \A c \in Entities : c # child /\ Once(list, c) => Once(merged, c)
               /\ ~Has(list, child) => Once(merged, child)
               /\ Sorted(merged, order)
<1> DEFINE merged == Insert(list, child, order)
           greater == {i \in DOMAIN list : list[i] # NoEntity /\ order[list[i]] > order[child]}
<1>1. PICK n : n = Len(list)
  OBVIOUS
<1>2. /\ n \in Nat /\ DOMAIN list = 1 .. n /\ order[child] \in Int
      /\ \A i \in 1 .. n : list[i] \in Nodes
      /\ \A i \in 1 .. n : list[i] # NoEntity => order[list[i]] \in Int
  <2>1. \A i \in 1 .. n : list[i] \in Nodes
    BY <1>1, ElementOfSeq
  <2>q. QED
    BY <1>1, <2>1 DEF Nodes
<1>3. merged \in Seq(Nodes) /\ \E q, f : Merged(list, merged, child, q, f) /\ Fits(merged, child, q, order)
  <2>1. CASE list # <<>> /\ Last(list) # NoEntity /\ order[Last(list)] <= order[child]
    <3>1. merged = Append(list, child)
      BY <2>1 DEF Insert
    <3>2. n \in 1 .. n /\ Last(list) = list[n]
      <4>1. Len(list) \in Nat \ {0} /\ Last(list) = list[Len(list)]
        BY <2>1, FrontOfSeq
      <4>q. QED
        BY <1>1, <4>1
    <3>3. ASSUME NEW i \in 1 .. n, list[i] # NoEntity
          PROVE  order[list[i]] <= order[child]
      <4>1. i = n \/ i < n
        BY <1>2
      <4>2. order[list[i]] <= order[list[n]]
        BY <1>1, <1>2, <2>1, <3>2, <3>3, <4>1 DEF Sorted
      <4>q. QED
        BY <1>2, <2>1, <3>2, <3>3, <4>2
    <3>4. PICK f : f = [i \in 1 .. n |-> i]
      OBVIOUS
    <3>5. \A k \in 1 .. n : f[k] = k
      BY <3>4
    <3>6. /\ \A k \in 1 .. Len(list) : f[k] \in 1 .. Len(list) /\ list[k] = list[f[k]]
          /\ \A j, k \in 1 .. Len(list) : j < k => f[j] < f[k]
          /\ \A i \in 1 .. Len(list) : list[i] # NoEntity => \E k \in 1 .. Len(list) : f[k] = i
          /\ \A i \in 1 .. Len(list) : list[i] # NoEntity => order[list[i]] <= order[child]
      BY <1>1, <3>3, <3>5
    <3>7. /\ Append(list, child) \in Seq(Nodes)
          /\ \E q : /\ Merged(list, Append(list, child), child, q, f)
                    /\ Fits(Append(list, child), child, q, order)
      BY <3>6, MergedAtEnd
    <3>q. QED
      BY <3>1, <3>7
  <2>2. CASE ~(list # <<>> /\ Last(list) # NoEntity /\ order[Last(list)] <= order[child])
             /\ greater = {}
    <3>1. merged = Append(Present(list), child)
      BY <2>2 DEF Insert
    <3>2. PICK f : Packed(list, n, Present(list), f)
      BY <1>1, PresentIsPacked
    <3>3. PICK kept : kept = Present(list)
      OBVIOUS
    <3>4. kept \in Seq(Nodes)
      <4>1. kept \in Seq(Entities) /\ Entities \subseteq Nodes
        BY <3>2, <3>3 DEF Packed, Nodes
      <4>q. QED
        BY <4>1, SeqMonotonic
    <3>5. \A i \in 1 .. n : list[i] # NoEntity => order[list[i]] <= order[child]
      BY <1>2, <2>2
    <3>6. /\ \A k \in 1 .. Len(kept) : f[k] \in 1 .. n /\ kept[k] = list[f[k]]
          /\ \A j, k \in 1 .. Len(kept) : j < k => f[j] < f[k]
          /\ \A i \in 1 .. n : list[i] # NoEntity => \E k \in 1 .. Len(kept) : f[k] = i
      BY <3>2, <3>3 DEF Packed
    <3>7. /\ Append(kept, child) \in Seq(Nodes)
          /\ \E q : /\ Merged(list, Append(kept, child), child, q, f)
                    /\ Fits(Append(kept, child), child, q, order)
      BY <1>1, <3>4, <3>5, <3>6, MergedAtEnd
    <3>q. QED
      BY <3>1, <3>3, <3>7
  <2>3. CASE ~(list # <<>> /\ Last(list) # NoEntity /\ order[Last(list)] <= order[child])
             /\ greater # {}
    <3>1. PICK first : first = Min(greater)
      OBVIOUS
    <3>2. merged = (Present(SubSeq(list, 1, first - 1)) \o <<child>>)
                       \o SubSeq(list, first, Len(list))
      BY <2>3, <3>1 DEF Insert
    <3>3. greater \in SUBSET Nat
      BY <1>2
    <3>4. \E x \in greater : \A y \in greater : x <= y
      BY <2>3, <3>3, HasSmallest
    <3>5. first \in greater /\ \A y \in greater : first <= y
      BY <3>1, <3>4 DEF Min
    <3>6. /\ first \in 1 .. n /\ list[first] # NoEntity /\ order[child] < order[list[first]]
      BY <1>2, <3>5
    <3>7. ASSUME NEW i \in 1 .. (first - 1), list[i] # NoEntity
          PROVE  order[list[i]] <= order[child]
      <4>1. i \in 1 .. n /\ ~(first <= i)
        BY <1>2, <3>6
      <4>q. QED
        BY <1>2, <3>5, <3>7, <4>1
    <3>q. QED
      BY <1>1, <3>2, <3>6, <3>7, MergedBefore
  <2>q. QED
    BY <2>1, <2>2, <2>3
<1> HIDE DEF merged
<1>4. PICK q, f : Merged(list, merged, child, q, f) /\ Fits(merged, child, q, order)
  BY <1>3
<1>5. /\ \A c \in Entities : Has(merged, c) <=> Has(list, c) \/ c = child
      /\ \A c \in Entities : c # child /\ Once(list, c) => Once(merged, c)
      /\ ~Has(list, child) => Once(merged, child)
      /\ \A o \in [Entities -> Int] :
            Sorted(list, o) /\ Fits(merged, child, q, o) => Sorted(merged, o)
  BY <1>3, <1>4, MergedList
<1>q. QED
  BY <1>3, <1>4, <1>5 DEF merged

-----------------------------------------------------------------------------
(* The inductive invariant.                                                 *)

\* An entity that is not stray is in one list, once, and knows its parent.
Linked(c) ==
    /\ c \notin stray =>
          /\ \A p \in Live : Has(children[p], c) =>
                parent[c] = p /\ Once(children[p], c) /\ c \in Live
          /\ \A p \in Entities : Has(toAdd[p], c) =>
                /\ c \in Live /\ Once(toAdd[p], c)
                /\ \A q \in Live : ~Has(children[q], c)
                /\ \A q \in Entities : Has(toAdd[q], c) => q = p
    /\ c \in Live => \/ parent[c] = NoEntity
                     \/ parent[c] \in Live /\ Has(children[parent[c]], c)

Tree ==
    /\ \A c \in Entities : Linked(c)
    /\ \A p \in Live : Sorted(children[p], zOrder)
    /\ \A p \in destroyed : toAdd[p] = <<>>
    /\ \A i \in 1 .. Len(roots) : roots[i] \notin destroyed

\* A call of updateEntity for e is under way, and adds the children that waited or not yet.
Updates(frames, e) ==
    \E k \in 1 .. Len(frames) : frames[k].entity = e /\ frames[k].part # "adding"
Adds(frames, e) ==
    \E k \in 1 .. Len(frames) : frames[k].entity = e /\ frames[k].part = "adding"

Control ==
    /\ pos = 0 => stack = <<>>
    /\ \A e \in Live : /\ e \in locked => Updates(stack, e)
                       /\ toAdd[e] # <<>> => e \in locked \/ Adds(stack, e)

Inv == TypeOK /\ Tree /\ Control

Frames == [entity : Entities, rest : Seq(Nodes), part : Parts]

TreeTypes ==
    /\ parent \in [Entities -> Nodes]
    /\ zOrder \in [Entities -> Orders]
    /\ children \in [Entities -> Seq(Nodes)]
    /\ toAdd \in [Entities -> Seq(Entities)]
    /\ roots \in Seq(Nodes)
    /\ destroyed \in SUBSET Entities
    /\ stray \in SUBSET destroyed

LEMMA Types ==
    ASSUME TypeOK
    PROVE  /\ TreeTypes
           /\ locked \in SUBSET Entities /\ deleted \in SUBSET destroyed
           /\ stack \in Seq(Frames)
           /\ Len(roots) \in Nat /\ pos \in Nat /\ pos <= Len(roots) + 1
           /\ \A e \in Live : e \in Entities /\ e # NoEntity /\ e \notin stray
           /\ NoEntity \notin Live /\ NoEntity \notin destroyed
<1>1. TreeTypes
  BY DEF TypeOK, TreeTypes, Nodes
<1>2. Len(roots) \in Nat
  BY <1>1 DEF TreeTypes
<1>3. pos \in 0 .. Len(roots) + 1
  BY DEF TypeOK
<1>4. pos \in Nat /\ pos <= Len(roots) + 1
  BY <1>2, <1>3
<1>5. stack \in Seq(Frames)
  BY DEF TypeOK, Frames, Nodes
<1>q. QED
  BY <1>1, <1>2, <1>4, <1>5, NoEntityAssumption DEF TypeOK, Live

LEMMA LiveOnes ==
    ASSUME TreeTypes
    PROVE  /\ \A e \in Live : e \in Entities /\ e # NoEntity /\ e \notin stray
           /\ NoEntity \notin Live /\ NoEntity \notin destroyed
           /\ \A p \in Entities : /\ children[p] \in Seq(Nodes)
                                  /\ toAdd[p] \in Seq(Entities)
                                  /\ parent[p] \in Nodes
           /\ zOrder \in [Entities -> Int]
<1>1. zOrder \in [Entities -> Int]
  BY OrdersAssumption DEF TreeTypes
<1>q. QED
  BY <1>1, NoEntityAssumption DEF Live, TreeTypes

-----------------------------------------------------------------------------
(* What is destroyed.                                                       *)

LEMMA BelowIt ==
    ASSUME TreeTypes, NEW p \in Entities, NEW c
    PROVE  c \in Below(p) <=> c \in Live /\ (Has(children[p], c) \/ Has(toAdd[p], c))
<1>1. children[p] \in Seq(Nodes) /\ toAdd[p] \in Seq(Entities)
  BY LiveOnes
<1>2. c \in ToSet(children[p]) <=> Has(children[p], c)
  BY <1>1, ElementsOfList
<1>3. c \in ToSet(toAdd[p]) <=> Has(toAdd[p], c)
  BY <1>1, ElementsOfList
<1>4. ToSet(children[p]) \subseteq Nodes /\ ToSet(toAdd[p]) \subseteq Entities
  BY <1>1, ToSetOfSeq
<1>q. QED
  BY <1>2, <1>3, <1>4, NoEntityAssumption DEF Below, Live, Nodes

\* Only what lives is destroyed, and with an entity all that is below it.
LEMMA SubtreesAreClosed ==
    ASSUME TreeTypes, NEW es \in SUBSET Live
    PROVE  /\ es \subseteq Subtrees(es)
           /\ Subtrees(es) \subseteq Live
           /\ \A p \in Subtrees(es) : \A c \in Live :
                 Has(children[p], c) \/ Has(toAdd[p], c) => c \in Subtrees(es)
<1>1. es \subseteq Entities /\ Live \in SUBSET Entities
  BY DEF Live
<1>2. es \subseteq Subtrees(es)
  BY <1>1 DEF Subtrees
<1>3. Subtrees(es) \subseteq Live
  <2>1. \A p \in Live : Below(p) \subseteq Live
    BY <1>1, BelowIt
  <2>q. QED
    BY <1>1, <2>1 DEF Subtrees
<1>4. ASSUME NEW p \in Subtrees(es), NEW c \in Below(p)
      PROVE  c \in Subtrees(es)
  <2>1. p \in Entities /\ c \in Entities
    BY <1>1, <1>3, <1>4, BelowIt
  <2>2. ASSUME NEW s \in SUBSET Entities, es \subseteq s, \A r \in s : Below(r) \subseteq s
        PROVE  c \in s
    <3>1. p \in s
      BY <2>2 DEF Subtrees
    <3>q. QED
      BY <1>4, <2>2, <3>1
  <2>q. QED
    BY <2>1, <2>2 DEF Subtrees
<1>5. ASSUME NEW p \in Subtrees(es), NEW c \in Live, Has(children[p], c) \/ Has(toAdd[p], c)
      PROVE  c \in Subtrees(es)
  BY <1>1, <1>3, <1>4, <1>5, BelowIt
<1>q. QED
  BY <1>2, <1>3, <1>5

-----------------------------------------------------------------------------
(* destroyEntity and addChild.                                              *)

\* What becomes of the tree and of the lists of those that wait in a call of the game.
Grows ==
    /\ TreeTypes' /\ Tree'
    /\ destroyed \subseteq destroyed'
    /\ \A e \in Live : toAdd'[e] # <<>> => toAdd[e] # <<>> \/ e \in locked
    /\ Len(roots') \in Nat /\ Len(roots) <= Len(roots')

\* lists are the children as they are, but for some of those that are destroyed.
LEMMA DestroyKeeps ==
    ASSUME TreeTypes, Tree, NEW es \in SUBSET Entities, NEW lists \in [Entities -> Seq(Nodes)],
           \A p \in Live, c \in Entities :
              /\ Has(lists[p], c) => Has(children[p], c)
              /\ Has(children[p], c) /\ c \notin es => Has(lists[p], c)
              /\ Once(children[p], c) => Once(lists[p], c),
           \A p \in Live : Sorted(children[p], zOrder) => Sorted(lists[p], zOrder),
           Destroy(es, lists), zOrder' = zOrder, parent' \in [Entities -> Nodes],
           \A c \in Entities : c \notin es => parent'[c] = parent[c]
    PROVE  Grows
<1>1. PICK gone : gone = Subtrees(es \ destroyed)
  OBVIOUS
<1>2. /\ es \ destroyed \subseteq gone /\ gone \subseteq Live
      /\ \A p \in gone : \A c \in Live : Has(children[p], c) \/ Has(toAdd[p], c) => c \in gone
  <2>1. es \ destroyed \in SUBSET Live
    BY DEF Live
  <2>q. QED
    BY <1>1, <2>1, SubtreesAreClosed
<1>3. gone \in SUBSET Entities
  BY <1>2 DEF Live
<1>4. /\ destroyed' = destroyed \cup gone
      /\ children' = [e \in Entities |-> Without(lists[e], {c \in gone : parent[c] = e})]
      /\ toAdd' = [e \in Entities |-> IF e \in gone THEN <<>> ELSE toAdd[e]]
      /\ roots' = Without(roots, gone)
      /\ stray' = stray \cup (gone \cap UNION {ToSet(toAdd[e]) : e \in Live \ gone})
  BY <1>1 DEF Destroy
<1>5. Live' = Live \ gone
  BY <1>4 DEF Live
<1>6. /\ children' \in [Entities -> Seq(Nodes)]
      /\ \A p \in Entities : \A c \in Entities :
            /\ Has(children'[p], c) <=> Has(lists[p], c) /\ ~(c \in gone /\ parent[c] = p)
            /\ Once(lists[p], c) => Once(children'[p], c)
      /\ \A p \in Entities : Sorted(lists[p], zOrder) => Sorted(children'[p], zOrder)
  <2>1. ASSUME NEW p \in Entities
        PROVE  /\ children'[p] \in Seq(Nodes)
               /\ \A c \in Entities :
                     /\ Has(children'[p], c) <=> Has(lists[p], c) /\ ~(c \in gone /\ parent[c] = p)
                     /\ Once(lists[p], c) => Once(children'[p], c)
               /\ Sorted(lists[p], zOrder) => Sorted(children'[p], zOrder)
    <3>1. PICK holes : holes = {c \in gone : parent[c] = p}
      OBVIOUS
    <3>2. holes \in SUBSET Entities /\ lists[p] \in Seq(Nodes)
      BY <1>3, <3>1
    <3>3. children'[p] = Without(lists[p], holes)
      BY <1>4, <3>1
    <3>4. \A c : c \in holes <=> c \in gone /\ parent[c] = p
      BY <3>1
    <3>q. QED
      BY <3>2, <3>3, <3>4, HolesInList
  <2>2. children' = [e \in Entities |-> children'[e]]
    BY <1>4
  <2>q. QED
    BY <2>1, <2>2
<1>7. /\ toAdd' \in [Entities -> Seq(Entities)]
      /\ \A p \in Entities : toAdd'[p] = IF p \in gone THEN <<>> ELSE toAdd[p]
  <2>1. \A p \in Entities : (IF p \in gone THEN <<>> ELSE toAdd[p]) \in Seq(Entities)
    BY LiveOnes, EmptyList
  <2>q. QED
    BY <1>4, <2>1
<1>8. /\ roots' \in Seq(Nodes) /\ Len(roots') = Len(roots) /\ Len(roots) \in Nat
      /\ \A c \in Entities : Has(roots', c) <=> Has(roots, c) /\ c \notin gone
  <2>1. roots \in Seq(Nodes)
    BY DEF TreeTypes
  <2>2. Len(roots) \in Nat
    BY <2>1
  <2>3. PICK list, holes : list = roots /\ holes = gone
    OBVIOUS
  <2>4. /\ Without(list, holes) \in Seq(Nodes) /\ Len(Without(list, holes)) = Len(list)
        /\ \A c \in Entities : Has(Without(list, holes), c) <=> Has(list, c) /\ c \notin holes
    BY <1>3, <2>1, <2>3, HolesInList
  <2>q. QED
    BY <1>4, <2>2, <2>3, <2>4
<1>9. /\ stray \subseteq stray' /\ stray' \in SUBSET destroyed'
      /\ \A p \in Live \ gone : \A c \in gone : Has(toAdd[p], c) => c \in stray'
  <2>1. \A p \in Live \ gone : \A c : c \in ToSet(toAdd[p]) <=> Has(toAdd[p], c)
    BY LiveOnes, ElementsOfList
  <2>q. QED
    BY <1>4, <2>1 DEF TreeTypes
<1>10. TreeTypes'
  BY <1>3, <1>4, <1>6, <1>7, <1>8, <1>9 DEF TreeTypes
<1>11. ASSUME NEW c \in Entities
       PROVE  Linked(c)'
  <2>1. Linked(c)
    BY DEF Tree
  <2>2. ASSUME c \notin stray', NEW p \in Live', Has(children'[p], c)
        PROVE  parent'[c] = p /\ Once(children'[p], c) /\ c \in Live'
    <3>1. /\ p \in Live /\ p \in Entities /\ Has(lists[p], c) /\ c \notin stray
          /\ ~(c \in gone /\ parent[c] = p)
      BY <1>5, <1>6, <1>9, <2>2, LiveOnes
    <3>2. parent[c] = p /\ Once(children[p], c) /\ c \in Live
      BY <2>1, <3>1 DEF Linked
    <3>3. c \in Live' /\ c \notin es
      BY <1>2, <1>5, <3>1, <3>2 DEF Live
    <3>q. QED
      BY <1>6, <3>1, <3>2, <3>3
  <2>3. ASSUME c \notin stray', NEW p \in Entities, Has(toAdd'[p], c)
        PROVE  /\ c \in Live' /\ Once(toAdd'[p], c)
               /\ \A q \in Live' : ~Has(children'[q], c)
               /\ \A q \in Entities : Has(toAdd'[q], c) => q = p
    <3>1. p \notin gone /\ toAdd'[p] = toAdd[p] /\ Has(toAdd[p], c) /\ c \notin stray
      BY <1>7, <1>9, <2>3, EmptyList
    <3>2. p \in Live
      BY <3>1, EmptyList DEF Tree, Live
    <3>3. /\ c \in Live /\ Once(toAdd[p], c)
          /\ \A q \in Live : ~Has(children[q], c)
          /\ \A q \in Entities : Has(toAdd[q], c) => q = p
      BY <2>1, <3>1 DEF Linked
    <3>4. c \notin gone
      BY <1>9, <2>3, <3>1, <3>2
    <3>5. \A q \in Live' : ~Has(children'[q], c)
      BY <1>5, <1>6, <3>3, LiveOnes
    <3>6. \A q \in Entities : Has(toAdd'[q], c) => q = p
      BY <1>7, <3>3, EmptyList
    <3>q. QED
      BY <1>5, <3>1, <3>3, <3>4, <3>5, <3>6
  <2>4. ASSUME c \in Live'
        PROVE  \/ parent'[c] = NoEntity
               \/ parent'[c] \in Live' /\ Has(children'[parent'[c]], c)
    <3>1. c \in Live /\ c \notin gone /\ c \notin es
      BY <1>2, <1>5, <2>4 DEF Live
    <3>2. PICK p : p = parent[c] /\ p = parent'[c]
      BY <3>1
    <3>3. CASE p # NoEntity
      <4>1. p \in Live /\ p \in Entities /\ Has(children[p], c)
        BY <2>1, <3>1, <3>2, <3>3, LiveOnes DEF Linked
      <4>2. p \notin gone
        BY <1>2, <3>1, <4>1
      <4>3. Has(children'[p], c)
        BY <1>6, <3>1, <4>1
      <4>q. QED
        BY <1>5, <3>2, <4>1, <4>2, <4>3
    <3>q. QED
      BY <3>2, <3>3
  <2>q. QED
    BY <2>2, <2>3, <2>4 DEF Linked
<1>12. Tree'
  <2>1. \A p \in Live' : Sorted(children'[p], zOrder')
    BY <1>5, <1>6, LiveOnes DEF Tree
  <2>2. \A p \in destroyed' : toAdd'[p] = <<>>
    BY <1>3, <1>4, <1>7 DEF Tree, TreeTypes
  <2>3. \A i \in 1 .. Len(roots') : roots'[i] \notin destroyed'
    <3>1. \A c \in destroyed : ~Has(roots, c)
      BY DEF Tree, Has
    <3>2. \A c \in destroyed' : ~Has(roots', c)
      BY <1>3, <1>4, <1>8, <3>1 DEF TreeTypes
    <3>q. QED
      BY <3>2 DEF Has
  <2>q. QED
    BY <1>11, <2>1, <2>2, <2>3 DEF Tree
<1>13. \A e \in Live : toAdd'[e] # <<>> => toAdd[e] # <<>> \/ e \in locked
  BY <1>7, LiveOnes
<1>q. QED
  BY <1>4, <1>8, <1>10, <1>12, <1>13 DEF Grows

LEMMA SortedByOther ==
    \A list \in Seq(Nodes) : \A child, order, other :
        /\ ~Has(list, child)
        /\ \A c \in Entities : c # child => other[c] = order[c]
        /\ Sorted(list, order)
        => Sorted(list, other)
<1> SUFFICES ASSUME NEW list \in Seq(Nodes), NEW child, ~Has(list, child), NEW order, NEW other,
                    \A c \in Entities : c # child => other[c] = order[c], Sorted(list, order)
             PROVE  Sorted(list, other)
  OBVIOUS
<1>1. \A i \in 1 .. Len(list) : list[i] \in Nodes
  BY ElementOfSeq
<1>2. \A i \in 1 .. Len(list) : list[i] # NoEntity => other[list[i]] = order[list[i]]
  BY <1>1 DEF Has, Nodes
<1>q. QED
  BY <1>2 DEF Sorted

\* lists are the children as they are without child, which does not wait.
LEMMA AddKeeps ==
    ASSUME TreeTypes, Tree, NEW p \in Live, NEW child \in Live, NEW order \in [Entities -> Orders],
           \A c \in Entities : c # child => order[c] = zOrder[c],
           NEW lists \in [Entities -> Seq(Nodes)],
           \A q \in Live : /\ ~Has(lists[q], child)
                           /\ \A o : Sorted(children[q], o) => Sorted(lists[q], o),
           \A q \in Live, c \in Entities : c # child =>
              /\ Has(lists[q], c) <=> Has(children[q], c)
              /\ Once(children[q], c) => Once(lists[q], c),
           \A q \in Entities : ~Has(toAdd[q], child),
           Add(p, child, order, lists), UNCHANGED <<roots, destroyed, stray>>
    PROVE  Grows
<1>1. /\ order \in [Entities -> Int] /\ p \in Entities /\ child \in Entities /\ Live' = Live
      /\ child \notin stray /\ Len(roots) \in Nat /\ child # NoEntity
  <2>1. /\ p \in Entities /\ child \in Entities /\ child \notin stray /\ child # NoEntity
    BY LiveOnes
  <2>2. order \in [Entities -> Int]
    BY OrdersAssumption
  <2>3. Live' = Live
    BY DEF Live
  <2>4. roots \in Seq(Nodes)
    BY DEF TreeTypes
  <2>5. Len(roots) \in Nat
    BY <2>4
  <2>q. QED
    BY <2>1, <2>2, <2>3, <2>5
<1>2. \A q \in Live : Sorted(lists[q], order)
  <2>1. ASSUME NEW q \in Live
        PROVE  Sorted(lists[q], order)
    <3>1. lists[q] \in Seq(Nodes) /\ ~Has(lists[q], child) /\ Sorted(lists[q], zOrder)
      BY LiveOnes DEF Tree
    <3>2. PICK list : list = lists[q]
      OBVIOUS
    <3>3. list \in Seq(Nodes) /\ ~Has(list, child) /\ Sorted(list, zOrder)
      BY <3>1, <3>2
    <3>4. Sorted(list, order)
      <4>1. PICK o : o = zOrder
        OBVIOUS
      <4>2. Sorted(list, o) /\ \A c \in Entities : c # child => order[c] = o[c]
        BY <3>3, <4>1
      <4>q. QED
        <5>1. \A other :
                 ~Has(list, child) /\ (\A c \in Entities : c # child => other[c] = o[c])
                     => Sorted(list, other)
          BY <3>3, <4>2, SortedByOther, SMTT(30)
        <5>q. QED
          BY <3>3, <4>2, <5>1
    <3>q. QED
      BY <3>2, <3>4
  <2>q. QED
    BY <2>1
<1>3. CASE p \notin locked
  <2>1. /\ zOrder' = order /\ toAdd' = toAdd
        /\ children' = [lists EXCEPT ![p] = Insert(lists[p], child, order)]
        /\ parent' = [parent EXCEPT ![child] = p]
    BY <1>3 DEF Add
  <2>2. PICK merged : merged = Insert(lists[p], child, order)
    OBVIOUS
  <2>3. /\ merged \in Seq(Nodes)
        /\ \A c \in Entities : Has(merged, c) <=> Has(lists[p], c) \/ c = child
        /\ \A c \in Entities : c # child /\ Once(lists[p], c) => Once(merged, c)
        /\ Once(merged, child)
        /\ Sorted(merged, order)
    <3>1. lists[p] \in Seq(Nodes) /\ Sorted(lists[p], order) /\ ~Has(lists[p], child)
      BY <1>1, <1>2
    <3>2. PICK list : list = lists[p]
      OBVIOUS
    <3>3. list \in Seq(Nodes) /\ Sorted(list, order) /\ ~Has(list, child)
      BY <3>1, <3>2
    <3>4. /\ Insert(list, child, order) \in Seq(Nodes)
          /\ \A c \in Entities : Has(Insert(list, child, order), c) <=> Has(list, c) \/ c = child
          /\ \A c \in Entities : c # child /\ Once(list, c) => Once(Insert(list, child, order), c)
          /\ Once(Insert(list, child, order), child)
          /\ Sorted(Insert(list, child, order), order)
      BY <1>1, <3>3, InsertIntoList
    <3>q. QED
      BY <2>2, <3>2, <3>4
  <2>4. /\ children' \in [Entities -> Seq(Nodes)]
        /\ children'[p] = merged /\ \A q \in Entities : q # p => children'[q] = lists[q]
    BY <1>1, <2>1, <2>2, <2>3
  <2>5. /\ \A q \in Live : Sorted(children'[q], order)
        /\ \A q \in Live : Has(children'[q], child) <=> q = p
        /\ Once(children'[p], child)
    BY <1>1, <1>2, <2>3, <2>4, LiveOnes
  <2>6. \A q \in Live, c \in Entities : c # child =>
           /\ Has(children'[q], c) <=> Has(children[q], c)
           /\ Once(children[q], c) => Once(children'[q], c)
    BY <2>3, <2>4, LiveOnes
  <2>7. /\ parent' \in [Entities -> Nodes] /\ parent'[child] = p
        /\ \A c \in Entities : c # child => parent'[c] = parent[c]
    BY <1>1, <2>1 DEF TreeTypes, Nodes
  <2>8. TreeTypes'
    BY <2>1, <2>4, <2>7 DEF TreeTypes
  <2>9. ASSUME NEW c \in Entities
        PROVE  Linked(c)'
    <3>1. CASE c = child
      BY <1>1, <2>1, <2>5, <2>7, <3>1 DEF Linked
    <3>2. CASE c # child
      <4>1. Linked(c) /\ parent'[c] = parent[c]
        BY <2>7, <3>2 DEF Tree
      <4>q. QED
        BY <1>1, <2>1, <2>6, <3>2, <4>1 DEF Linked
    <3>q. QED
      BY <3>1, <3>2
  <2>10. Tree'
    BY <1>1, <2>1, <2>5, <2>9 DEF Tree
  <2>q. QED
    BY <1>1, <2>1, <2>8, <2>10 DEF Grows
<1>4. CASE p \in locked
  <2>1. /\ zOrder' = order /\ children' = lists
        /\ toAdd' = [toAdd EXCEPT ![p] = Append(toAdd[p], child)]
        /\ parent' = [parent EXCEPT ![child] = NoEntity]
    BY <1>4 DEF Add
  <2>2. PICK longer : longer = Append(toAdd[p], child)
    OBVIOUS
  <2>3. /\ longer \in Seq(Entities)
        /\ \A c : Has(longer, c) <=> Has(toAdd[p], c) \/ c = child
        /\ \A c : c # child /\ Once(toAdd[p], c) => Once(longer, c)
        /\ Once(longer, child)
    <3>1. toAdd[p] \in Seq(Entities)
      BY <1>1, LiveOnes
    <3>q. QED
      BY <1>1, <2>2, <3>1, AppendToList
  <2>4. /\ toAdd' \in [Entities -> Seq(Entities)]
        /\ toAdd'[p] = longer /\ \A q \in Entities : q # p => toAdd'[q] = toAdd[q]
    BY <1>1, <2>1, <2>2, <2>3 DEF TreeTypes
  <2>5. /\ \A q \in Entities : Has(toAdd'[q], child) <=> q = p
        /\ Once(toAdd'[p], child)
        /\ \A q \in Entities : \A c \in Entities : c # child =>
              /\ Has(toAdd'[q], c) <=> Has(toAdd[q], c)
              /\ Once(toAdd[q], c) => Once(toAdd'[q], c)
    BY <1>1, <2>3, <2>4
  <2>6. /\ parent' \in [Entities -> Nodes] /\ parent'[child] = NoEntity
        /\ \A c \in Entities : c # child => parent'[c] = parent[c]
    BY <1>1, <2>1 DEF TreeTypes, Nodes
  <2>7. TreeTypes'
    BY <2>1, <2>4, <2>6 DEF TreeTypes
  <2>8. ASSUME NEW c \in Entities
        PROVE  Linked(c)'
    <3>1. CASE c = child
      BY <1>1, <2>1, <2>5, <2>6, <3>1 DEF Linked
    <3>2. CASE c # child
      <4>1. Linked(c) /\ parent'[c] = parent[c]
        BY <2>6, <3>2 DEF Tree
      <4>q. QED
        BY <1>1, <2>1, <2>5, <3>2, <4>1 DEF Linked
    <3>q. QED
      BY <3>1, <3>2
  <2>9. \A q \in destroyed' : toAdd'[q] = <<>>
    <3>1. \A q \in destroyed : q # p /\ q \in Entities
      BY DEF Live, TreeTypes
    <3>q. QED
      BY <2>4, <3>1 DEF Tree
  <2>10. Tree'
    BY <1>1, <1>2, <2>1, <2>8, <2>9 DEF Tree
  <2>11. \A e \in Live : toAdd'[e] # <<>> => toAdd[e] # <<>> \/ e \in locked
    BY <1>4, <2>4, LiveOnes
  <2>q. QED
    BY <1>1, <2>7, <2>10, <2>11 DEF Grows
<1>q. QED
  BY <1>3, <1>4

-----------------------------------------------------------------------------
(* The calls of the game.                                                   *)

\* What a game adds is in no list.
LEMMA FreeIsNowhere ==
    ASSUME TreeTypes, Tree, NEW e \in Live, parent[e] = NoEntity
    PROVE  /\ \A q \in Live : ~Has(children[q], e)
           /\ e \notin Waiting => \A q \in Entities : ~Has(toAdd[q], e)
<1>1. Linked(e) /\ e \notin stray
  BY LiveOnes DEF Tree
<1>2. \A q \in Live : ~Has(children[q], e)
  BY <1>1, LiveOnes DEF Linked
<1>3. ASSUME e \notin Waiting, NEW q \in Entities
      PROVE  ~Has(toAdd[q], e)
  <2>1. CASE q \in Live
    <3>1. toAdd[q] \in Seq(Entities)
      BY LiveOnes
    <3>2. e \in ToSet(toAdd[q]) <=> Has(toAdd[q], e)
      BY <3>1, ElementsOfList
    <3>q. QED
      BY <1>3, <2>1, <3>2 DEF Waiting
  <2>2. CASE q \notin Live
    BY <2>2, EmptyList DEF Tree, Live
  <2>q. QED
    BY <2>1, <2>2
<1>q. QED
  BY <1>2, <1>3

\* A child that has a parent does not wait, and is in no list when it is removed.
LEMMA RemovedIsNowhere ==
    ASSUME TreeTypes, Tree, NEW e \in Live, parent[e] \in Live
    PROVE  /\ Removed(e) \in [Entities -> Seq(Nodes)]
           /\ \A q \in Live : /\ ~Has(Removed(e)[q], e)
                              /\ \A o : Sorted(children[q], o) => Sorted(Removed(e)[q], o)
           /\ \A q \in Live, c \in Entities :
                 /\ c # e => (Has(Removed(e)[q], c) <=> Has(children[q], c))
                 /\ Once(children[q], c) => Once(Removed(e)[q], c)
           /\ \A q \in Entities : ~Has(toAdd[q], e)
<1>1. PICK p : p = parent[e]
  OBVIOUS
<1>2. /\ p \in Live /\ p \in Entities /\ e \in Entities /\ e \notin stray /\ Linked(e)
      /\ p # NoEntity /\ children \in [Entities -> Seq(Nodes)]
  BY <1>1, LiveOnes DEF Tree, TreeTypes
<1>3. PICK list, holed : list = children[p] /\ holed = Without(children[p], {e})
  OBVIOUS
<1>4. /\ holed \in Seq(Nodes)
      /\ \A c \in Entities : Has(holed, c) <=> Has(list, c) /\ c # e
      /\ \A c \in Entities : Once(list, c) => Once(holed, c)
      /\ \A o : Sorted(list, o) => Sorted(holed, o)
  <2>1. list \in Seq(Nodes) /\ {e} \in SUBSET Entities /\ holed = Without(list, {e})
    BY <1>2, <1>3
  <2>q. QED
    BY <2>1, HolesInList
<1>5. Removed(e) = [children EXCEPT ![p] = holed]
  BY <1>1, <1>3 DEF Removed
<1>6. /\ Removed(e) \in [Entities -> Seq(Nodes)] /\ Removed(e)[p] = holed
      /\ \A q \in Entities : q # p => Removed(e)[q] = children[q]
  BY <1>2, <1>4, <1>5
<1>7. \A q \in Live : q # p => ~Has(children[q], e)
  BY <1>1, <1>2 DEF Linked
<1>8. \A q \in Entities : ~Has(toAdd[q], e)
  BY <1>1, <1>2, LiveOnes DEF Linked
<1>9. ASSUME NEW q \in Live
      PROVE  /\ ~Has(Removed(e)[q], e)
             /\ \A o : Sorted(children[q], o) => Sorted(Removed(e)[q], o)
             /\ \A c \in Entities :
                   /\ c # e => (Has(Removed(e)[q], c) <=> Has(children[q], c))
                   /\ Once(children[q], c) => Once(Removed(e)[q], c)
  <2>1. CASE q = p
    BY <1>2, <1>3, <1>4, <1>6, <2>1
  <2>2. CASE q # p
    BY <1>6, <1>7, <2>2, LiveOnes
  <2>q. QED
    BY <2>1, <2>2
<1>q. QED
  BY <1>6, <1>8, <1>9

LEMMA GrowsAnyway ==
    ASSUME TypeOK
    PROVE  /\ TreeTypes /\ Len(roots) \in Nat /\ Len(roots) <= Len(roots)
           /\ destroyed \subseteq destroyed
  BY Types

LEMMA AddEntityKeeps ==
    ASSUME Inv, NEW e \in Entities, AddEntity(e)
    PROVE  Grows
<1>1. TreeTypes /\ Tree /\ roots \in Seq(Nodes) /\ e \in Live
  BY Types DEF Inv, AddEntity, Free, TreeTypes
<1>2. /\ roots' = Append(roots, e)
      /\ UNCHANGED <<parent, zOrder, children, toAdd, destroyed, stray>> /\ Live' = Live
  BY DEF AddEntity, tree, Live
<1>3. /\ roots' \in Seq(Nodes) /\ Len(roots) \in Nat /\ Len(roots') = Len(roots) + 1
      /\ \A i \in 1 .. Len(roots) : roots'[i] = roots[i]
      /\ roots'[Len(roots) + 1] = e
  BY <1>1, <1>2, AppendToSeq DEF Nodes
<1>4. \A i \in 1 .. Len(roots') : i = Len(roots) + 1 \/ i \in 1 .. Len(roots)
  BY <1>3
<1>5. TreeTypes'
  BY <1>1, <1>2, <1>3 DEF TreeTypes
<1>6. \A c \in Entities : Linked(c)'
  BY <1>1, <1>2 DEF Tree, Linked
<1>7. \A i \in 1 .. Len(roots') : roots'[i] \notin destroyed'
  BY <1>1, <1>2, <1>3, <1>4 DEF Tree, Live
<1>8. Tree'
  BY <1>1, <1>2, <1>6, <1>7 DEF Tree
<1>9. Len(roots') \in Nat /\ Len(roots) <= Len(roots')
  BY <1>3
<1>q. QED
  BY <1>2, <1>5, <1>8, <1>9 DEF Grows

LEMMA AddChildKeeps ==
    ASSUME Inv, NEW p \in Entities, NEW child \in Entities, NEW z \in Orders, AddChild(p, child, z)
    PROVE  Grows
<1>1. /\ TreeTypes /\ Tree /\ p \in Live /\ child \in Live
      /\ parent[child] = NoEntity /\ child \notin Waiting
      /\ UNCHANGED <<roots, destroyed, stray>>
  BY Types DEF Inv, AddChild, Free
<1>2. PICK order : order = [zOrder EXCEPT ![child] = z]
  OBVIOUS
<1>3. /\ order \in [Entities -> Orders] /\ \A c \in Entities : c # child => order[c] = zOrder[c]
      /\ Add(p, child, order, children)
  BY <1>1, <1>2 DEF TreeTypes, AddChild
<1>4. /\ \A q \in Live : ~Has(children[q], child)
      /\ \A q \in Entities : ~Has(toAdd[q], child)
  BY <1>1, FreeIsNowhere
<1>5. children \in [Entities -> Seq(Nodes)]
  BY <1>1 DEF TreeTypes
<1>6. PICK lists : lists = children
  OBVIOUS
<1>q. QED
  BY <1>1, <1>3, <1>4, <1>5, <1>6, AddKeeps

LEMMA SetZOrderKeeps ==
    ASSUME Inv, NEW e \in Entities, NEW z \in Orders, SetZOrder(e, z)
    PROVE  Grows
<1>1. /\ TreeTypes /\ Tree /\ e \in Live /\ UNCHANGED <<roots, destroyed, stray>> /\ Live' = Live
  BY Types DEF Inv, SetZOrder, Live
<1>2. PICK order : order = [zOrder EXCEPT ![e] = z]
  OBVIOUS
<1>3. order \in [Entities -> Orders] /\ \A c \in Entities : c # e => order[c] = zOrder[c]
  BY <1>1, <1>2 DEF TreeTypes
<1>4. CASE parent[e] = NoEntity
  <2>1. zOrder' = order /\ UNCHANGED <<parent, children, toAdd>>
    BY <1>2, <1>4 DEF SetZOrder
  <2>2. \A q \in Live : ~Has(children[q], e)
    BY <1>1, <1>4, FreeIsNowhere
  <2>3. TreeTypes'
    BY <1>1, <1>3, <2>1 DEF TreeTypes
  <2>4. \A c \in Entities : Linked(c)'
    BY <1>1, <2>1 DEF Tree, Linked
  <2>5. ASSUME NEW q \in Live
        PROVE  Sorted(children[q], order)
    <3>1. PICK list, o : list = children[q] /\ o = zOrder
      OBVIOUS
    <3>2. /\ list \in Seq(Nodes) /\ ~Has(list, e) /\ Sorted(list, o)
          /\ \A c \in Entities : c # e => order[c] = o[c]
      BY <1>1, <1>3, <2>2, <3>1, LiveOnes DEF Tree
    <3>3. \A other :
             ~Has(list, e) /\ (\A c \in Entities : c # e => other[c] = o[c])
                 => Sorted(list, other)
      BY <3>2, SortedByOther
    <3>q. QED
      BY <3>1, <3>2, <3>3
  <2>6. Tree'
    BY <1>1, <2>1, <2>4, <2>5 DEF Tree
  <2>7. Len(roots') \in Nat /\ Len(roots) <= Len(roots')
    BY <1>1, GrowsAnyway DEF Inv
  <2>q. QED
    BY <1>1, <2>1, <2>3, <2>6, <2>7 DEF Grows
<1>5. CASE parent[e] # NoEntity
  <2>1. PICK p, lists : p = parent[e] /\ lists = Removed(e)
    OBVIOUS
  <2>2. p \in Live /\ Add(p, e, order, lists)
    BY <1>2, <1>5, <2>1 DEF SetZOrder
  <2>3. /\ lists \in [Entities -> Seq(Nodes)]
        /\ \A q \in Live : /\ ~Has(lists[q], e)
                           /\ \A o : Sorted(children[q], o) => Sorted(lists[q], o)
        /\ \A q \in Live, c \in Entities : c # e =>
              /\ Has(lists[q], c) <=> Has(children[q], c)
              /\ Once(children[q], c) => Once(lists[q], c)
        /\ \A q \in Entities : ~Has(toAdd[q], e)
    BY <1>1, <2>1, <2>2, RemovedIsNowhere
  <2>q. QED
    BY <1>1, <1>3, <2>2, <2>3, AddKeeps
<1>q. QED
  BY <1>4, <1>5

LEMMA RemoveChildKeeps ==
    ASSUME Inv, NEW e \in Entities, RemoveChild(e)
    PROVE  Grows
<1>1. /\ TreeTypes /\ Tree /\ e \in Live /\ parent[e] \in Live /\ Live' = Live
      /\ UNCHANGED <<zOrder, toAdd, roots, destroyed, stray>>
  BY Types DEF Inv, RemoveChild, Live
<1>2. PICK lists : lists = Removed(e)
  OBVIOUS
<1>3. /\ children' = lists /\ parent' = [parent EXCEPT ![e] = NoEntity]
  BY <1>2 DEF RemoveChild
<1>4. /\ lists \in [Entities -> Seq(Nodes)]
      /\ \A q \in Live : /\ ~Has(lists[q], e)
                         /\ \A o : Sorted(children[q], o) => Sorted(lists[q], o)
      /\ \A q \in Live, c \in Entities : c # e =>
            /\ Has(lists[q], c) <=> Has(children[q], c)
            /\ Once(children[q], c) => Once(lists[q], c)
      /\ \A q \in Entities : ~Has(toAdd[q], e)
  BY <1>1, <1>2, RemovedIsNowhere
<1>5. /\ parent' \in [Entities -> Nodes] /\ parent'[e] = NoEntity
      /\ \A c \in Entities : c # e => parent'[c] = parent[c]
  BY <1>1, <1>3 DEF TreeTypes, Nodes
<1>6. TreeTypes'
  BY <1>1, <1>3, <1>4, <1>5 DEF TreeTypes
<1>7. ASSUME NEW c \in Entities
      PROVE  Linked(c)'
  <2>1. CASE c = e
    BY <1>1, <1>3, <1>4, <1>5, <2>1 DEF Linked
  <2>2. CASE c # e
    <3>1. Linked(c) /\ parent'[c] = parent[c]
      BY <1>1, <1>5, <2>2 DEF Tree
    <3>q. QED
      BY <1>1, <1>3, <1>4, <2>2, <3>1 DEF Linked
  <2>q. QED
    BY <2>1, <2>2
<1>8. Tree'
  BY <1>1, <1>3, <1>4, <1>7 DEF Tree
<1>9. Len(roots') \in Nat /\ Len(roots) <= Len(roots')
  BY <1>1, GrowsAnyway DEF Inv
<1>q. QED
  BY <1>1, <1>6, <1>8, <1>9 DEF Grows

LEMMA RemoveAndDestroyChildKeeps ==
    ASSUME Inv, NEW e \in Entities, RemoveAndDestroyChild(e)
    PROVE  Grows
<1>1. /\ TreeTypes /\ Tree /\ e \in Live /\ parent[e] \in Live /\ zOrder' = zOrder
  BY Types DEF Inv, RemoveAndDestroyChild
<1>2. PICK lists, es : lists = Removed(e) /\ es = {e}
  OBVIOUS
<1>3. /\ parent' = [parent EXCEPT ![e] = NoEntity] /\ Destroy(es, lists)
      /\ es \in SUBSET Entities
  BY <1>2 DEF RemoveAndDestroyChild
<1>4. /\ lists \in [Entities -> Seq(Nodes)]
      /\ \A q \in Live : /\ ~Has(lists[q], e)
                         /\ \A o : Sorted(children[q], o) => Sorted(lists[q], o)
      /\ \A q \in Live, c \in Entities :
            /\ c # e => (Has(lists[q], c) <=> Has(children[q], c))
            /\ Once(children[q], c) => Once(lists[q], c)
  BY <1>1, <1>2, RemovedIsNowhere
<1>5. /\ parent' \in [Entities -> Nodes]
      /\ \A c \in Entities : c \notin es => parent'[c] = parent[c]
  BY <1>1, <1>2, <1>3 DEF TreeTypes, Nodes
<1>6. \A q \in Live, c \in Entities :
         /\ Has(lists[q], c) => Has(children[q], c)
         /\ Has(children[q], c) /\ c \notin es => Has(lists[q], c)
         /\ Once(children[q], c) => Once(lists[q], c)
  BY <1>2, <1>4
<1>q. QED
  BY <1>1, <1>3, <1>4, <1>5, <1>6, DestroyKeeps

LEMMA RemoveAllChildrenKeeps ==
    ASSUME Inv, NEW p \in Entities, RemoveAllChildren(p)
    PROVE  Grows
<1>1. TreeTypes /\ Tree /\ p \in Live /\ UNCHANGED <<parent, zOrder>>
  BY Types DEF Inv, RemoveAllChildren
<1>2. PICK lists, es : /\ lists = [children EXCEPT ![p] = <<>>]
                       /\ es = ToSet(children[p]) \ {NoEntity}
  OBVIOUS
<1>3. Destroy(es, lists)
  BY <1>2 DEF RemoveAllChildren
<1>4. children[p] \in Seq(Nodes)
  BY <1>1, LiveOnes
<1>5. es \in SUBSET Entities /\ \A c \in Entities : c \in es <=> Has(children[p], c)
  <2>1. ToSet(children[p]) \subseteq Nodes
    BY <1>4, ToSetOfSeq
  <2>2. \A c : c \in ToSet(children[p]) <=> Has(children[p], c)
    BY <1>4, ElementsOfList
  <2>q. QED
    BY <1>2, <2>1, <2>2, NoEntityAssumption DEF Nodes
<1>6. /\ lists \in [Entities -> Seq(Nodes)] /\ lists[p] = <<>>
      /\ \A q \in Entities : q # p => lists[q] = children[q]
  BY <1>1, <1>2, EmptyList DEF TreeTypes
<1>7. \A q \in Live, c \in Entities :
         /\ Has(lists[q], c) => Has(children[q], c)
         /\ Has(children[q], c) /\ c \notin es => Has(lists[q], c)
         /\ Once(children[q], c) => Once(lists[q], c)
  BY <1>1, <1>5, <1>6, EmptyList, LiveOnes
<1>8. \A q \in Live : Sorted(children[q], zOrder) => Sorted(lists[q], zOrder)
  BY <1>1, <1>6, EmptyList, LiveOnes
<1>9. parent' \in [Entities -> Nodes] /\ \A c \in Entities : c \notin es => parent'[c] = parent[c]
  BY <1>1 DEF TreeTypes
<1>q. QED
  BY <1>1, <1>3, <1>5, <1>6, <1>7, <1>8, <1>9, DestroyKeeps

LEMMA DestroyEntityKeeps ==
    ASSUME Inv, NEW e \in Entities, DestroyEntity(e)
    PROVE  Grows
<1>1. TreeTypes /\ Tree /\ UNCHANGED <<parent, zOrder>>
  BY Types DEF Inv, DestroyEntity
<1>2. PICK lists, es : lists = children /\ es = {e}
  OBVIOUS
<1>3. Destroy(es, lists) /\ es \in SUBSET Entities /\ lists \in [Entities -> Seq(Nodes)]
  BY <1>1, <1>2 DEF DestroyEntity, TreeTypes
<1>4. /\ \A q \in Live, c \in Entities :
            /\ Has(lists[q], c) => Has(children[q], c)
            /\ Has(children[q], c) /\ c \notin es => Has(lists[q], c)
            /\ Once(children[q], c) => Once(lists[q], c)
      /\ \A q \in Live : Sorted(children[q], zOrder) => Sorted(lists[q], zOrder)
  BY <1>2
<1>5. parent' \in [Entities -> Nodes] /\ \A c \in Entities : c \notin es => parent'[c] = parent[c]
  BY <1>1 DEF TreeTypes
<1>q. QED
  BY <1>1, <1>3, <1>4, <1>5, DestroyKeeps

LEMMA GameKeeps ==
    ASSUME Inv, GameCalls
    PROVE  Inv'
<1>1. Grows
  BY AddEntityKeeps, AddChildKeeps, SetZOrderKeeps, RemoveChildKeeps,
     RemoveAndDestroyChildKeeps, RemoveAllChildrenKeeps, DestroyEntityKeeps DEF GameCalls
<1>2. Called
  BY DEF GameCalls, AddEntity, AddChild, SetZOrder, RemoveChild, RemoveAndDestroyChild,
         RemoveAllChildren, DestroyEntity
<1>3. /\ UNCHANGED <<locked, deleted, pos, stack>>
      /\ calls' \in 0 .. MaxCalls
  BY <1>2, BoundsAssumption DEF Called, GameRuns, Inv, TypeOK
<1>4. TypeOK'
  <2>1. pos' \in 0 .. Len(roots') + 1
    BY <1>1, <1>3, Types DEF Grows, Inv
  <2>2. deleted' \in SUBSET destroyed'
    BY <1>1, <1>3, Types DEF Grows, Inv
  <2>3. TreeTypes' /\ locked' \in SUBSET Entities /\ stack' \in Seq(Frames)
    BY <1>1, <1>3, Types DEF Grows, Inv
  <2>q. QED
    BY <1>3, <2>1, <2>2, <2>3 DEF TypeOK, TreeTypes, Nodes, Frames
<1>5. Control'
  <2>1. pos' = 0 => stack' = <<>>
    BY <1>3 DEF Inv, Control
  <2>2. ASSUME NEW e \in Live'
        PROVE  /\ e \in locked' => Updates(stack', e)
               /\ toAdd'[e] # <<>> => e \in locked' \/ Adds(stack', e)
    <3>1. e \in Live
      BY <1>1, <2>2 DEF Grows, Live
    <3>q. QED
      BY <1>1, <1>3, <3>1 DEF Grows, Inv, Control
  <2>q. QED
    BY <2>1, <2>2 DEF Control
<1>q. QED
  BY <1>1, <1>4, <1>5 DEF Grows, Inv

-----------------------------------------------------------------------------
(* The calls of updateEntity.                                               *)

LEMMA CallBegins ==
    ASSUME NEW frames \in Seq(Frames), NEW frame \in Frames
    PROVE  /\ Append(frames, frame) \in Seq(Frames)
           /\ \A e : /\ Updates(Append(frames, frame), e) <=>
                            Updates(frames, e) \/ (frame.entity = e /\ frame.part # "adding")
                     /\ Adds(Append(frames, frame), e) <=>
                            Adds(frames, e) \/ (frame.entity = e /\ frame.part = "adding")
<1>1. PICK n, more : n = Len(frames) /\ more = Append(frames, frame)
  OBVIOUS
<1>2. /\ more \in Seq(Frames) /\ n \in Nat /\ Len(more) = n + 1
      /\ \A i \in 1 .. n : more[i] = frames[i]
      /\ more[n + 1] = frame
  BY <1>1, AppendToSeq
<1>3. /\ n + 1 \in 1 .. (n + 1)
      /\ \A k \in 1 .. (n + 1) : k = n + 1 \/ k \in 1 .. n
      /\ \A k \in 1 .. n : k \in 1 .. (n + 1)
  BY <1>2
<1>q. QED
  BY <1>1, <1>2, <1>3 DEF Updates, Adds

\* The innermost call returns.
LEMMA CallEnds ==
    ASSUME NEW frames \in Seq(Frames), frames # <<>>
    PROVE  /\ Front(frames) \in Seq(Frames) /\ Last(frames) \in Frames
           /\ \A e : /\ Updates(frames, e) <=> \/ Updates(Front(frames), e)
                                               \/ /\ Last(frames).entity = e
                                                  /\ Last(frames).part # "adding"
                     /\ Adds(frames, e) <=> \/ Adds(Front(frames), e)
                                            \/ /\ Last(frames).entity = e
                                               /\ Last(frames).part = "adding"
<1>1. PICK n, less : n = Len(frames) /\ less = Front(frames)
  OBVIOUS
<1>2. /\ less \in Seq(Frames) /\ n \in Nat \ {0} /\ Len(less) = n - 1
      /\ \A i \in 1 .. (n - 1) : less[i] = frames[i]
      /\ Last(frames) = frames[n] /\ Last(frames) \in Frames
  BY <1>1, FrontOfSeq
<1>3. /\ n \in 1 .. n
      /\ \A k \in 1 .. n : k = n \/ k \in 1 .. (n - 1)
      /\ \A k \in 1 .. (n - 1) : k \in 1 .. n
  BY <1>2
<1>q. QED
  BY <1>1, <1>2, <1>3 DEF Updates, Adds

\* It goes on with another part.
LEMMA CallContinues ==
    ASSUME stack \in Seq(Frames), stack # <<>>, NEW part \in Parts, NEW rest \in Seq(Nodes),
           Last(stack).part # "adding"
    PROVE  /\ Continue(part, rest) \in Seq(Frames)
           /\ \A e : \/ e # Last(stack).entity
                     \/ part # "adding"
                     => /\ Updates(Continue(part, rest), e) <=> Updates(stack, e)
                        /\ Adds(Continue(part, rest), e) <=> Adds(stack, e)
           /\ part = "adding" => Adds(Continue(part, rest), Last(stack).entity)
<1>1. PICK top, less, frame : /\ top = Last(stack) /\ less = Front(stack)
                              /\ frame = [entity |-> top.entity, rest |-> rest, part |-> part]
  OBVIOUS
<1>2. /\ less \in Seq(Frames) /\ top \in Frames
      /\ \A e : /\ Updates(stack, e) <=>
                      Updates(less, e) \/ (top.entity = e /\ top.part # "adding")
                /\ Adds(stack, e) <=> Adds(less, e) \/ (top.entity = e /\ top.part = "adding")
  BY <1>1, CallEnds
<1>3. frame \in Frames /\ frame.entity = top.entity /\ frame.part = part
  BY <1>1, <1>2 DEF Frames
<1>4. /\ Append(less, frame) \in Seq(Frames)
      /\ \A e : /\ Updates(Append(less, frame), e) <=>
                      Updates(less, e) \/ (frame.entity = e /\ frame.part # "adding")
                /\ Adds(Append(less, frame), e) <=>
                      Adds(less, e) \/ (frame.entity = e /\ frame.part = "adding")
  BY <1>2, <1>3, CallBegins
<1>5. Continue(part, rest) = Append(less, frame)
  BY <1>1 DEF Continue
<1>q. QED
  BY <1>1, <1>2, <1>3, <1>4, <1>5

\* updateEntity is called.
LEMMA EntityEntered ==
    ASSUME TypeOK, NEW e \in Entities, NEW below \in Seq(Frames), Enter(e, below)
    PROVE  /\ stack' \in Seq(Frames) /\ locked' \in SUBSET Entities
           /\ \A x : Adds(stack', x) <=> Adds(below, x)
           /\ \A x : Updates(below, x) => Updates(stack', x)
           /\ \A x \in Live : x \in locked' <=> x \in locked \/ x = e
           /\ e \in Live => Updates(stack', e)
<1>1. TreeTypes /\ locked \in SUBSET Entities
  BY Types
<1>2. CASE e \in destroyed
  BY <1>1, <1>2 DEF Enter, Live
<1>3. CASE e \notin destroyed
  <2>1. PICK frame : frame = [entity |-> e, rest |-> children[e],
                              part |-> IF children[e] = <<>> THEN "ownAlone" ELSE "below"]
    OBVIOUS
  <2>2. locked' = locked \cup {e} /\ stack' = Append(below, frame)
    BY <1>3, <2>1 DEF Enter
  <2>3. frame \in Frames /\ frame.entity = e /\ frame.part # "adding"
    <3>1. children[e] \in Seq(Nodes)
      BY <1>1, LiveOnes
    <3>q. QED
      BY <2>1, <3>1 DEF Frames, Parts
  <2>4. /\ stack' \in Seq(Frames)
        /\ \A x : /\ Updates(stack', x) <=>
                        Updates(below, x) \/ (frame.entity = x /\ frame.part # "adding")
                  /\ Adds(stack', x) <=>
                        Adds(below, x) \/ (frame.entity = x /\ frame.part = "adding")
    BY <2>2, <2>3, CallBegins
  <2>q. QED
    BY <1>1, <2>2, <2>3, <2>4
<1>q. QED
  BY <1>2, <1>3

\* A step that leaves the tree alone.
LEMMA OnlyCallsChange ==
    ASSUME Inv, UNCHANGED <<tree, roots, life, calls, stray>>,
           stack' \in Seq(Frames), locked' \in SUBSET Entities,
           pos' \in Nat, pos' <= Len(roots) + 1, pos' # 0,
           \A e \in Live : /\ e \in locked' => Updates(stack', e)
                           /\ toAdd[e] # <<>> => e \in locked' \/ Adds(stack', e)
    PROVE  Inv'
<1>1. /\ UNCHANGED <<parent, zOrder, children, toAdd, roots, destroyed, deleted, calls, stray>>
      /\ Live' = Live
  BY DEF tree, life, Live
<1>2. pos' \in 0 .. Len(roots') + 1
  BY <1>1, Types DEF Inv
<1>3. TypeOK'
  BY <1>1, <1>2 DEF Inv, TypeOK, Frames, Nodes
<1>4. \A c \in Entities : Linked(c)'
  BY <1>1 DEF Inv, Tree, Linked
<1>5. Tree'
  BY <1>1, <1>4 DEF Inv, Tree
<1>6. Control'
  BY <1>1 DEF Control
<1>q. QED
  BY <1>3, <1>5, <1>6 DEF Inv
\* updateEntity is called by the calls of below, which are those under way.
LEMMA EnterKeeps ==
    ASSUME Inv, NEW e \in Entities, NEW below \in Seq(Frames), Enter(e, below),
           \A x : (Updates(below, x) <=> Updates(stack, x)) /\ (Adds(below, x) <=> Adds(stack, x)),
           UNCHANGED <<tree, roots, life, calls, stray>>,
           pos' \in Nat, pos' <= Len(roots) + 1, pos' # 0
    PROVE  Inv'
<1>1. TypeOK /\ Control
  BY DEF Inv
<1>2. /\ stack' \in Seq(Frames) /\ locked' \in SUBSET Entities
      /\ \A x : Adds(stack', x) <=> Adds(below, x)
      /\ \A x : Updates(below, x) => Updates(stack', x)
      /\ \A x \in Live : x \in locked' <=> x \in locked \/ x = e
      /\ e \in Live => Updates(stack', e)
  BY <1>1, EntityEntered
<1>3. \A x \in Live : /\ x \in locked' => Updates(stack', x)
                      /\ toAdd[x] # <<>> => x \in locked' \/ Adds(stack', x)
  BY <1>1, <1>2 DEF Control
<1>q. QED
  BY <1>2, <1>3, OnlyCallsChange

\* The innermost call goes on, or returns when its entity was destroyed.
LEMMA GoOnKeeps ==
    ASSUME Inv, stack # <<>>, NEW part \in Parts, NEW rest \in Seq(Nodes),
           Last(stack).part # "adding", part # "adding",
           stack' = IF Last(stack).entity \in destroyed THEN Front(stack) ELSE Continue(part, rest),
           UNCHANGED <<tree, locked, roots, life, pos, calls, stray>>
    PROVE  Inv'
<1>1. /\ TypeOK /\ Control /\ stack \in Seq(Frames) /\ locked \in SUBSET Entities
      /\ pos \in Nat /\ pos <= Len(roots) + 1 /\ pos # 0
  BY Types DEF Inv, Control
<1>2. PICK top : top = Last(stack).entity
  OBVIOUS
<1>3. stack' \in Seq(Frames) /\ \A x \in Live : /\ Updates(stack', x) <=> Updates(stack, x)
                                                /\ Adds(stack', x) <=> Adds(stack, x)
  <2>1. CASE top \in destroyed
    <3>1. stack' = Front(stack)
      BY <1>2, <2>1
    <3>2. \A x \in Live : x # top
      BY <2>1 DEF Live
    <3>q. QED
      BY <1>1, <1>2, <3>1, <3>2, CallEnds
  <2>2. CASE top \notin destroyed
    <3>1. stack' = Continue(part, rest)
      BY <1>2, <2>2
    <3>q. QED
      BY <1>1, <3>1, CallContinues
  <2>q. QED
    BY <2>1, <2>2
<1>4. \A x \in Live : /\ x \in locked' => Updates(stack', x)
                      /\ toAdd[x] # <<>> => x \in locked' \/ Adds(stack', x)
  BY <1>1, <1>3 DEF Control
<1>q. QED
  BY <1>1, <1>3, <1>4, OnlyCallsChange

-----------------------------------------------------------------------------
(* update.                                                                  *)

LEMMA BeginUpdateKeeps ==
    ASSUME Inv, BeginUpdate
    PROVE  Inv'
<1>1. /\ TypeOK /\ Control /\ stack \in Seq(Frames) /\ locked \in SUBSET Entities
      /\ Len(roots) \in Nat
  BY Types DEF Inv
<1>2. /\ UNCHANGED <<tree, roots, life, calls, stray>> /\ pos' = 1
      /\ locked' = locked /\ stack' = stack
  BY DEF BeginUpdate
<1>3. pos' \in Nat /\ pos' <= Len(roots) + 1 /\ pos' # 0
  BY <1>1, <1>2
<1>4. \A x \in Live : /\ x \in locked' => Updates(stack', x)
                      /\ toAdd[x] # <<>> => x \in locked' \/ Adds(stack', x)
  BY <1>1, <1>2 DEF Control
<1>q. QED
  BY <1>1, <1>2, <1>3, <1>4, OnlyCallsChange

LEMMA EraseHoleKeeps ==
    ASSUME Inv, EraseHole
    PROVE  Inv'
<1>1. /\ TypeOK /\ Tree /\ Control /\ roots \in Seq(Nodes)
      /\ Len(roots) \in Nat /\ pos \in Nat /\ pos <= Len(roots) /\ pos # 0
  BY Types DEF Inv, EraseHole, TreeTypes
<1>2. /\ UNCHANGED <<parent, zOrder, children, toAdd, locked, destroyed, deleted, pos, stack,
                     calls, stray>>
      /\ roots' = RemoveAt(roots, pos) /\ Live' = Live
  BY DEF EraseHole, tree, life, Live
<1>3. /\ roots' \in Seq(Nodes) /\ Len(roots') = Len(roots) - 1
      /\ \A i \in 1 .. (Len(roots) - 1) :
            roots'[i] = IF i < pos THEN roots[i] ELSE roots[i + 1]
  <2>1. pos \in 1 .. Len(roots)
    BY <1>1
  <2>2. PICK list, n : list = roots /\ n = pos
    OBVIOUS
  <2>3. /\ RemoveAt(list, n) \in Seq(Nodes) /\ Len(RemoveAt(list, n)) = Len(list) - 1
        /\ \A i \in 1 .. (Len(list) - 1) :
              RemoveAt(list, n)[i] = IF i < n THEN list[i] ELSE list[i + 1]
    BY <1>1, <2>1, <2>2, RemoveAtClosesGap
  <2>q. QED
    BY <1>2, <2>2, <2>3
<1>4. \A i \in 1 .. Len(roots') : roots'[i] \notin destroyed
  <2>1. \A i \in 1 .. (Len(roots) - 1) : i \in 1 .. Len(roots) /\ i + 1 \in 1 .. Len(roots)
    BY <1>1
  <2>q. QED
    BY <1>1, <1>3, <2>1 DEF Tree
<1>5. pos' \in 0 .. Len(roots') + 1
  BY <1>1, <1>2, <1>3
<1>6. TypeOK'
  BY <1>1, <1>2, <1>3, <1>5 DEF TypeOK, Nodes
<1>7. \A c \in Entities : Linked(c)'
  BY <1>1, <1>2 DEF Tree, Linked
<1>8. Tree'
  BY <1>1, <1>2, <1>4, <1>7 DEF Tree
<1>9. Control'
  BY <1>1, <1>2 DEF Control
<1>q. QED
  BY <1>6, <1>8, <1>9 DEF Inv

LEMMA UpdateRootKeeps ==
    ASSUME Inv, UpdateRoot
    PROVE  Inv'
<1>1. /\ TypeOK /\ Control /\ stack \in Seq(Frames) /\ locked \in SUBSET Entities
      /\ roots \in Seq(Nodes) /\ Len(roots) \in Nat /\ pos \in Nat /\ pos # 0 /\ pos <= Len(roots)
  BY Types DEF Inv, UpdateRoot, TreeTypes
<1>2. /\ UNCHANGED <<tree, roots, life, calls, stray>> /\ pos' = pos + 1
      /\ roots[pos] # NoEntity
      /\ Enter(roots[pos], stack) \/ UNCHANGED <<locked, stack>>
  BY DEF UpdateRoot
<1>3. pos' \in Nat /\ pos' <= Len(roots) + 1 /\ pos' # 0 /\ pos \in 1 .. Len(roots)
  BY <1>1, <1>2
<1>4. roots[pos] \in Entities
  BY <1>1, <1>2, <1>3, ElementOfSeq DEF Nodes
<1>5. CASE Enter(roots[pos], stack)
  BY <1>1, <1>2, <1>3, <1>4, <1>5, EnterKeeps
<1>6. CASE UNCHANGED <<locked, stack>>
  <2>1. \A x \in Live : /\ x \in locked' => Updates(stack', x)
                        /\ toAdd[x] # <<>> => x \in locked' \/ Adds(stack', x)
    BY <1>1, <1>6 DEF Control
  <2>2. stack' \in Seq(Frames) /\ locked' \in SUBSET Entities
    BY <1>1, <1>6
  <2>q. QED
    BY <1>2, <1>3, <2>1, <2>2, OnlyCallsChange
<1>q. QED
  BY <1>2, <1>5, <1>6

\* The innermost call, and the rest of its copy of the children.
LEMMA Innermost ==
    ASSUME Inv, stack # <<>>
    PROVE  /\ TypeOK /\ Control /\ stack \in Seq(Frames) /\ locked \in SUBSET Entities
           /\ pos \in Nat /\ pos <= Len(roots) + 1 /\ pos # 0
           /\ Last(stack) \in Frames /\ Last(stack).entity \in Entities
           /\ Last(stack).rest \in Seq(Nodes)
           /\ Last(stack).rest # <<>> => /\ Head(Last(stack).rest) \in Nodes
                                         /\ Tail(Last(stack).rest) \in Seq(Nodes)
<1>1. /\ TypeOK /\ Control /\ stack \in Seq(Frames) /\ locked \in SUBSET Entities
      /\ pos \in Nat /\ pos <= Len(roots) + 1 /\ pos # 0
  BY Types DEF Inv, Control
<1>2. Last(stack) \in Frames
  BY <1>1, CallEnds
<1>3. Last(stack).entity \in Entities /\ Last(stack).rest \in Seq(Nodes)
  BY <1>2 DEF Frames
<1>4. PICK rest : rest = Last(stack).rest
  OBVIOUS
<1>5. rest # <<>> => Head(rest) \in Nodes /\ Tail(rest) \in Seq(Nodes)
  BY <1>3, <1>4, HeadTailProperties
<1>q. QED
  BY <1>1, <1>2, <1>3, <1>4, <1>5

\* It passes over a hole, or calls updateEntity of the next child.
LEMMA NextChildKeeps ==
    ASSUME Inv, stack # <<>>, NEW part \in {"below", "above"}, Last(stack).part = part,
           Last(stack).rest # <<>>,
           LET next == Head(Last(stack).rest)
               below == Continue(part, Tail(Last(stack).rest))
           IN  IF next = NoEntity THEN stack' = below /\ UNCHANGED locked ELSE Enter(next, below),
           UNCHANGED <<tree, roots, life, pos, calls, stray>>
    PROVE  Inv'
<1>1. /\ TypeOK /\ Control /\ stack \in Seq(Frames) /\ locked \in SUBSET Entities
      /\ pos \in Nat /\ pos <= Len(roots) + 1 /\ pos # 0
      /\ Head(Last(stack).rest) \in Nodes /\ Tail(Last(stack).rest) \in Seq(Nodes)
  BY Innermost
<1>2. PICK next, below : /\ next = Head(Last(stack).rest)
                         /\ below = Continue(part, Tail(Last(stack).rest))
  OBVIOUS
<1>3. part \in Parts /\ part # "adding"
  BY DEF Parts
<1>4. /\ below \in Seq(Frames)
      /\ \A x : /\ Updates(below, x) <=> Updates(stack, x)
                /\ Adds(below, x) <=> Adds(stack, x)
  BY <1>1, <1>2, <1>3, CallContinues
<1>5. pos' \in Nat /\ pos' <= Len(roots) + 1 /\ pos' # 0
  BY <1>1
<1>6. CASE next = NoEntity
  <2>1. stack' = below /\ locked' = locked
    BY <1>2, <1>6
  <2>2. \A x \in Live : /\ x \in locked' => Updates(stack', x)
                        /\ toAdd[x] # <<>> => x \in locked' \/ Adds(stack', x)
    BY <1>1, <1>4, <2>1 DEF Control
  <2>3. stack' \in Seq(Frames) /\ locked' \in SUBSET Entities
    BY <1>1, <1>4, <2>1
  <2>q. QED
    BY <1>5, <2>2, <2>3, OnlyCallsChange
<1>7. CASE next # NoEntity
  <2>1. Enter(next, below) /\ next \in Entities
    BY <1>1, <1>2, <1>7 DEF Nodes
  <2>q. QED
    BY <1>4, <1>5, <2>1, EnterKeeps
<1>q. QED
  BY <1>6, <1>7

LEMMA UpdateBelowKeeps ==
    ASSUME Inv, UpdateBelow
    PROVE  Inv'
<1>1. /\ stack # <<>> /\ Last(stack).part = "below"
      /\ UNCHANGED <<tree, roots, life, pos, calls, stray>>
  BY DEF UpdateBelow, In
<1>2. PICK rest : rest = Last(stack).rest
  OBVIOUS
<1>3. CASE /\ rest # <<>> /\ Head(rest) = NoEntity
           /\ stack' = Continue("below", Tail(rest)) /\ UNCHANGED locked
  BY <1>1, <1>2, <1>3, NextChildKeeps
<1>4. CASE /\ rest # <<>> /\ Head(rest) # NoEntity
           /\ Enter(Head(rest), Continue("below", Tail(rest)))
  BY <1>1, <1>2, <1>4, NextChildKeeps
<1>5. CASE /\ stack' = IF Last(stack).entity \in destroyed
                       THEN Front(stack) ELSE Continue("own", rest)
           /\ UNCHANGED locked
  <2>1. rest \in Seq(Nodes) /\ "own" \in Parts
    BY <1>1, <1>2, Innermost DEF Parts
  <2>2. UNCHANGED <<tree, locked, roots, life, pos, calls, stray>>
    BY <1>1, <1>5
  <2>3. Last(stack).part # "adding"
    BY <1>1
  <2>q. QED
    BY <1>1, <1>5, <2>1, <2>2, <2>3, GoOnKeeps
<1>q. QED
  BY <1>2, <1>3, <1>4, <1>5 DEF UpdateBelow

LEMMA EndOnUpdateKeeps ==
    ASSUME Inv, EndOnUpdate
    PROVE  Inv'
<1>1. /\ stack # <<>> /\ Last(stack).part = "own"
      /\ UNCHANGED <<tree, locked, roots, life, pos, calls, stray>>
      /\ stack' = IF Last(stack).entity \in destroyed
                  THEN Front(stack) ELSE Continue("above", Last(stack).rest)
  BY DEF EndOnUpdate, In
<1>2. Last(stack).rest \in Seq(Nodes) /\ "above" \in Parts /\ Last(stack).part # "adding"
  BY <1>1, Innermost DEF Parts
<1>q. QED
  BY <1>1, <1>2, GoOnKeeps

LEMMA UpdateAboveKeeps ==
    ASSUME Inv, UpdateAbove
    PROVE  Inv'
  BY NextChildKeeps DEF UpdateAbove, In
LEMMA UnlockKeeps ==
    ASSUME Inv, Unlock
    PROVE  Inv'
<1>1. /\ stack # <<>> /\ Last(stack).part # "adding"
      /\ UNCHANGED <<tree, roots, life, pos, calls, stray>>
  BY DEF Unlock, In
<1>2. PICK e : e = Last(stack).entity
  OBVIOUS
<1>3. /\ locked' = locked \ {e}
      /\ stack' = IF e \in destroyed THEN Front(stack) ELSE Continue("adding", <<>>)
  BY <1>2 DEF Unlock
<1>4. /\ TypeOK /\ Control /\ stack \in Seq(Frames) /\ locked \in SUBSET Entities
      /\ pos' \in Nat /\ pos' <= Len(roots) + 1 /\ pos' # 0
  BY <1>1, Innermost
<1>5. /\ stack' \in Seq(Frames)
      /\ \A x \in Live : x # e => /\ Updates(stack', x) <=> Updates(stack, x)
                                  /\ Adds(stack', x) <=> Adds(stack, x)
      /\ e \in Live => Adds(stack', e)
  <2>1. CASE e \in destroyed
    <3>1. stack' = Front(stack) /\ e \notin Live
      BY <1>3, <2>1 DEF Live
    <3>q. QED
      BY <1>1, <1>2, <1>4, <3>1, CallEnds
  <2>2. CASE e \notin destroyed
    <3>1. stack' = Continue("adding", <<>>)
      BY <1>3, <2>2
    <3>2. "adding" \in Parts /\ <<>> \in Seq(Nodes)
      BY EmptyList DEF Parts
    <3>q. QED
      BY <1>1, <1>2, <1>4, <3>1, <3>2, CallContinues
  <2>q. QED
    BY <2>1, <2>2
<1>6. \A x \in Live : /\ x \in locked' => Updates(stack', x)
                      /\ toAdd[x] # <<>> => x \in locked' \/ Adds(stack', x)
  BY <1>3, <1>4, <1>5 DEF Control
<1>7. locked' \in SUBSET Entities
  BY <1>3, <1>4
<1>q. QED
  BY <1>1, <1>4, <1>5, <1>6, <1>7, OnlyCallsChange

\* The first of those that wait gets its place.
LEMMA WaitingChildAdded ==
    ASSUME TreeTypes, Tree, NEW e \in Entities, toAdd[e] # <<>>,
           children' = [children EXCEPT ![e] = Insert(@, Head(toAdd[e]), zOrder)],
           parent' = [parent EXCEPT ![Head(toAdd[e])] = e],
           toAdd' = [toAdd EXCEPT ![e] = Tail(@)],
           UNCHANGED <<zOrder, roots, destroyed, stray>>
    PROVE  TreeTypes' /\ Tree'
<1>1. PICK child, rest : child = Head(toAdd[e]) /\ rest = Tail(toAdd[e])
  OBVIOUS
<1>2. /\ child \in Entities /\ rest \in Seq(Entities)
      /\ \A c : Has(toAdd[e], c) <=> c = child \/ Has(rest, c)
      /\ \A c : Once(toAdd[e], c) => Once(rest, c)
      /\ Once(toAdd[e], child) => ~Has(rest, child)
  <2>1. PICK list : list = toAdd[e]
    OBVIOUS
  <2>2. list \in Seq(Entities) /\ list # <<>>
    BY <2>1, LiveOnes
  <2>q. QED
    BY <1>1, <2>1, <2>2, HeadOfList
<1>3. /\ e \in Live /\ e # NoEntity /\ Live' = Live /\ stray \subseteq destroyed
      /\ zOrder \in [Entities -> Int]
  BY LiveOnes DEF Tree, Live, TreeTypes
<1>4. PICK merged : merged = Insert(children[e], child, zOrder)
  OBVIOUS
<1>5. /\ merged \in Seq(Nodes)
      /\ \A c \in Entities : Has(merged, c) <=> Has(children[e], c) \/ c = child
      /\ \A c \in Entities : c # child /\ Once(children[e], c) => Once(merged, c)
      /\ ~Has(children[e], child) => Once(merged, child)
      /\ Sorted(merged, zOrder)
  <2>1. PICK list, order : list = children[e] /\ order = zOrder
    OBVIOUS
  <2>2. list \in Seq(Nodes) /\ order \in [Entities -> Int] /\ Sorted(list, order)
    BY <1>3, <2>1, LiveOnes DEF Tree
  <2>3. merged = Insert(list, child, order)
    BY <1>4, <2>1
  <2>4. LET m == Insert(list, child, order)
        IN  /\ m \in Seq(Nodes)
            /\ \A c \in Entities : Has(m, c) <=> Has(list, c) \/ c = child
            /\ \A c \in Entities : c # child /\ Once(list, c) => Once(m, c)
            /\ ~Has(list, child) => Once(m, child)
            /\ Sorted(m, order)
    BY <1>2, <2>2, InsertIntoList
  <2>q. QED
    BY <2>1, <2>3, <2>4
<1>6. /\ children' \in [Entities -> Seq(Nodes)]
      /\ children'[e] = merged /\ \A q \in Entities : q # e => children'[q] = children[q]
  BY <1>1, <1>4, <1>5 DEF TreeTypes
<1>7. /\ toAdd' \in [Entities -> Seq(Entities)]
      /\ toAdd'[e] = rest /\ \A q \in Entities : q # e => toAdd'[q] = toAdd[q]
  BY <1>1, <1>2 DEF TreeTypes
<1>8. /\ parent' \in [Entities -> Nodes]
      /\ parent'[child] = e /\ \A c \in Entities : c # child => parent'[c] = parent[c]
  BY <1>1, <1>2 DEF TreeTypes, Nodes
<1>9. TreeTypes'
  BY <1>6, <1>7, <1>8 DEF TreeTypes
<1>10. \A q \in Live, c \in Entities : c # child =>
          /\ Has(children'[q], c) <=> Has(children[q], c)
          /\ Once(children[q], c) => Once(children'[q], c)
  BY <1>3, <1>5, <1>6, LiveOnes
<1>11. \A q \in Entities, c \in Entities : c # child =>
          /\ Has(toAdd'[q], c) <=> Has(toAdd[q], c)
          /\ Once(toAdd[q], c) => Once(toAdd'[q], c)
  BY <1>2, <1>7
<1>12. ASSUME NEW c \in Entities
       PROVE  Linked(c)'
  <2>1. Linked(c) /\ Linked(child)
    BY <1>2 DEF Tree
  <2>2. CASE c # child
    <3>1. /\ c \notin stray' =>
                /\ \A p \in Live' : Has(children'[p], c) =>
                      parent'[c] = p /\ Once(children'[p], c) /\ c \in Live'
                /\ \A p \in Entities : Has(toAdd'[p], c) =>
                      /\ c \in Live' /\ Once(toAdd'[p], c)
                      /\ \A q \in Live' : ~Has(children'[q], c)
                      /\ \A q \in Entities : Has(toAdd'[q], c) => q = p
      BY <1>3, <1>8, <1>10, <1>11, <2>1, <2>2 DEF Linked
    <3>2. c \in Live' => \/ parent'[c] = NoEntity
                         \/ parent'[c] \in Live' /\ Has(children'[parent'[c]], c)
      BY <1>3, <1>8, <1>10, <2>1, <2>2 DEF Linked
    <3>q. QED
      BY <3>1, <3>2 DEF Linked
  <2>3. CASE c = child
    <3>1. Has(toAdd[e], child)
      BY <1>2
    <3>2. ASSUME child \notin stray
          PROVE  /\ child \in Live
                 /\ \A q \in Live : ~Has(children[q], child)
                 /\ \A q \in Entities : ~Has(toAdd'[q], child)
                 /\ \A q \in Live : Has(children'[q], child) <=> q = e
                 /\ Once(children'[e], child)
      <4>1. /\ child \in Live /\ Once(toAdd[e], child)
            /\ \A q \in Live : ~Has(children[q], child)
            /\ \A q \in Entities : Has(toAdd[q], child) => q = e
        BY <2>1, <3>1, <3>2 DEF Linked
      <4>2. \A q \in Entities : ~Has(toAdd'[q], child)
        BY <1>2, <1>7, <4>1
      <4>3. \A q \in Live : Has(children'[q], child) <=> q = e
        BY <1>2, <1>3, <1>5, <1>6, <4>1, LiveOnes
      <4>q. QED
        BY <1>3, <1>5, <1>6, <4>1, <4>2, <4>3
    <3>3. Has(children'[e], child)
      BY <1>2, <1>5, <1>6
    <3>4. child \notin stray =>
                /\ \A p \in Live' : Has(children'[p], child) =>
                      parent'[child] = p /\ Once(children'[p], child) /\ child \in Live'
                /\ \A p \in Entities : Has(toAdd'[p], child) =>
                      /\ child \in Live' /\ Once(toAdd'[p], child)
                      /\ \A q \in Live' : ~Has(children'[q], child)
                      /\ \A q \in Entities : Has(toAdd'[q], child) => q = p
      BY <1>3, <1>8, <3>2
    <3>q. QED
      BY <1>3, <1>8, <2>3, <3>3, <3>4 DEF Linked
  <2>q. QED
    BY <2>2, <2>3
<1>13. \A p \in Live' : Sorted(children'[p], zOrder')
  BY <1>3, <1>5, <1>6, LiveOnes DEF Tree
<1>14. \A p \in destroyed' : toAdd'[p] = <<>>
  BY <1>3, <1>7 DEF Tree, Live, TreeTypes
<1>q. QED
  BY <1>9, <1>12, <1>13, <1>14 DEF Tree

LEMMA ProcessAddChildrenKeeps ==
    ASSUME Inv, ProcessAddChildren
    PROVE  Inv'
<1>1. /\ stack # <<>> /\ Last(stack).part = "adding"
      /\ UNCHANGED <<locked, roots, life, pos, calls, stray>>
  BY DEF ProcessAddChildren, In
<1>2. PICK e : e = Last(stack).entity
  OBVIOUS
<1>3. /\ TypeOK /\ Tree /\ TreeTypes /\ Control /\ stack \in Seq(Frames) /\ e \in Entities
      /\ locked \in SUBSET Entities
      /\ pos \in Nat /\ pos <= Len(roots) + 1 /\ pos # 0
  BY <1>1, <1>2, Innermost, Types DEF Inv
<1>4. CASE toAdd[e] = <<>>
  <2>1. stack' = Front(stack) /\ UNCHANGED tree
    BY <1>2, <1>4 DEF ProcessAddChildren
  <2>2. /\ stack' \in Seq(Frames)
        /\ \A x : /\ Updates(stack', x) <=> Updates(stack, x)
                  /\ x # e => (Adds(stack', x) <=> Adds(stack, x))
    BY <1>1, <1>2, <1>3, <2>1, CallEnds
  <2>3. \A x \in Live : /\ x \in locked' => Updates(stack', x)
                        /\ toAdd[x] # <<>> => x \in locked' \/ Adds(stack', x)
    BY <1>1, <1>3, <1>4, <2>2 DEF Control
  <2>4. /\ pos' \in Nat /\ pos' <= Len(roots) + 1 /\ pos' # 0 /\ locked' \in SUBSET Entities
        /\ UNCHANGED <<tree, roots, life, calls, stray>>
    BY <1>1, <1>3, <2>1
  <2>q. QED
    BY <2>2, <2>3, <2>4, OnlyCallsChange
<1>5. CASE toAdd[e] # <<>>
  <2>1. /\ children' = [children EXCEPT ![e] = Insert(@, Head(toAdd[e]), zOrder)]
        /\ parent' = [parent EXCEPT ![Head(toAdd[e])] = e]
        /\ toAdd' = [toAdd EXCEPT ![e] = Tail(@)]
        /\ UNCHANGED <<zOrder, stack>>
    BY <1>2, <1>5 DEF ProcessAddChildren
  <2>2. UNCHANGED <<locked, zOrder, roots, destroyed, deleted, pos, stack, calls, stray>>
    BY <1>1, <2>1 DEF life
  <2>3. TreeTypes' /\ Tree'
    BY <1>3, <1>5, <2>1, <2>2, WaitingChildAdded
  <2>4. TypeOK'
    BY <1>3, <2>2, <2>3 DEF TypeOK, TreeTypes, Nodes
  <2>5. \A x \in Entities : x # e => toAdd'[x] = toAdd[x]
    BY <1>3, <2>1 DEF TreeTypes
  <2>6. Control'
    <3>1. Live' = Live /\ \A x \in Live : x \in Entities
      BY <2>2 DEF Live
    <3>2. \A x \in Live : toAdd'[x] # <<>> => toAdd[x] # <<>>
      BY <1>5, <2>5, <3>1
    <3>q. QED
      BY <1>3, <2>2, <3>1, <3>2 DEF Control
  <2>q. QED
    BY <2>3, <2>4, <2>6 DEF Inv
<1>q. QED
  BY <1>4, <1>5

LEMMA EndUpdateKeeps ==
    ASSUME Inv, EndUpdate
    PROVE  Inv'
<1>1. /\ TypeOK /\ Tree /\ TreeTypes /\ Control
      /\ Len(roots) \in Nat /\ locked \in SUBSET Entities
  BY Types DEF Inv
<1>2. /\ UNCHANGED <<zOrder, toAdd, roots, destroyed, stack, calls, stray>>
      /\ stack = <<>> /\ pos' = 0 /\ deleted' = destroyed /\ locked' = locked \ destroyed
      /\ children' = [e \in Entities |-> IF e \in destroyed THEN <<>> ELSE children[e]]
      /\ parent' = [e \in Entities |-> IF e \in destroyed THEN NoEntity ELSE parent[e]]
      /\ Live' = Live
  BY DEF EndUpdate, Live
<1>3. /\ children' \in [Entities -> Seq(Nodes)] /\ parent' \in [Entities -> Nodes]
      /\ \A e \in Live : children'[e] = children[e] /\ parent'[e] = parent[e]
  <2>1. \A e \in Entities : /\ (IF e \in destroyed THEN <<>> ELSE children[e]) \in Seq(Nodes)
                            /\ (IF e \in destroyed THEN NoEntity ELSE parent[e]) \in Nodes
    BY <1>1, LiveOnes, EmptyList DEF Nodes
  <2>q. QED
    BY <1>2, <2>1 DEF Live
<1>4. TypeOK'
  <2>1. pos' \in 0 .. Len(roots') + 1
    BY <1>1, <1>2
  <2>2. deleted' \in SUBSET destroyed' /\ locked' \in SUBSET Entities
    BY <1>1, <1>2
  <2>q. QED
    BY <1>1, <1>2, <1>3, <2>1, <2>2 DEF TypeOK, Nodes
<1>5. ASSUME NEW c \in Entities
      PROVE  Linked(c)'
  <2>1. Linked(c) /\ \A p \in Live : p \in Entities
    BY <1>1, LiveOnes DEF Tree
  <2>q. QED
    BY <1>2, <1>3, <2>1 DEF Linked
<1>6. Tree'
  BY <1>1, <1>2, <1>3, <1>5 DEF Tree
<1>7. Control'
  BY <1>1, <1>2 DEF Control, Live
<1>q. QED
  BY <1>4, <1>6, <1>7 DEF Inv

LEMMA UpdateKeeps ==
    ASSUME Inv, Update
    PROVE  Inv'
  BY BeginUpdateKeeps, EraseHoleKeeps, UpdateRootKeeps, UpdateBelowKeeps, EndOnUpdateKeeps,
     UpdateAboveKeeps, UnlockKeeps, ProcessAddChildrenKeeps, EndUpdateKeeps DEF Update

LEMMA InitInv ==
    ASSUME Init
    PROVE  Inv
<1>1. \A S : <<>> \in Seq(S)
  BY EmptyList
<1>2. Len(roots) = 0 /\ Live = Entities
  BY DEF Init, Live
<1>3. 0 \in 0 .. Len(roots) + 1 /\ 0 \in 0 .. MaxCalls
  BY <1>2, BoundsAssumption
<1>4. TypeOK
  BY <1>1, <1>2, <1>3, OrdersAssumption DEF Init, TypeOK
<1>5. \A c \in Entities : Linked(c)
  BY <1>2, EmptyList DEF Init, Linked
<1>6. Tree
  <2>1. \A i \in 1 .. Len(roots) : roots[i] \notin destroyed
    BY DEF Init
  <2>q. QED
    BY <1>2, <1>5, <2>1, EmptyList DEF Init, Tree
<1>7. Control
  BY <1>2 DEF Init, Control
<1>q. QED
  BY <1>4, <1>6, <1>7 DEF Inv

LEMMA StutterKeeps ==
    ASSUME Inv, UNCHANGED vars
    PROVE  Inv'
<1>1. UNCHANGED <<parent, zOrder, children, toAdd, locked, roots, destroyed, deleted, pos,
                  stack, calls, stray>> /\ Live' = Live
  BY DEF vars, Live
<1>2. TypeOK'
  BY <1>1 DEF Inv, TypeOK
<1>3. \A c \in Entities : Linked(c)'
  BY <1>1 DEF Inv, Tree, Linked
<1>4. Tree'
  BY <1>1, <1>3 DEF Inv, Tree
<1>5. Control'
  BY <1>1 DEF Inv, Control
<1>q. QED
  BY <1>2, <1>4, <1>5 DEF Inv

LEMMA Invariance == Spec => []Inv
<1>1. Inv /\ [Next]_vars => Inv'
  BY GameKeeps, UpdateKeeps, StutterKeeps DEF Next
<1>q. QED
  BY <1>1, InitInv, PTL DEF Spec

-----------------------------------------------------------------------------
(* What follows.                                                            *)

\* The state stays well formed, however deep the calls of updateEntity nest and whatever
\* they change (HLSceneManager::update and the lists of HLTransform2DComponent).
THEOREM TypeCorrect == Spec => []TypeOK
<1>1. Inv => TypeOK
  BY DEF Inv
<1>q. QED
  BY <1>1, Invariance, PTL

\* No root, child, waiting child or parent that a later frame visits was deleted by
\* destroyEntities, but what was destroyed while it waited (destroyEntity and
\* processAddChildren).
THEOREM NothingDeletedIsVisited == Spec => []NoDeletedInTree
<1>1. ASSUME Inv
      PROVE  NoDeletedInTree
  <2>1. TreeTypes /\ Tree /\ deleted \subseteq destroyed /\ destroyed \subseteq Entities
    BY <1>1, Types DEF Inv, TreeTypes
  <2>2. ToSet(roots) \cap deleted = {}
    <3>1. roots \in Seq(Nodes)
      BY <2>1 DEF TreeTypes
    <3>2. \A c : c \in ToSet(roots) <=> Has(roots, c)
      BY <3>1, ElementsOfList
    <3>3. \A c \in destroyed : ~Has(roots, c)
      BY <2>1 DEF Tree, Has
    <3>q. QED
      BY <2>1, <3>2, <3>3
  <2>3. ASSUME NEW e \in Live
        PROVE  /\ (ToSet(children[e]) \cup ToSet(toAdd[e])) \cap deleted \subseteq stray
               /\ parent[e] \notin deleted
    <3>1. /\ e \in Entities /\ children[e] \in Seq(Nodes) /\ toAdd[e] \in Seq(Entities)
          /\ NoEntity \notin destroyed
      BY <2>1, <2>3, LiveOnes
    <3>2. /\ \A c : c \in ToSet(children[e]) <=> Has(children[e], c)
          /\ \A c : c \in ToSet(toAdd[e]) <=> Has(toAdd[e], c)
      BY <3>1, ElementsOfList
    <3>3. ASSUME NEW c \in destroyed, Has(children[e], c) \/ Has(toAdd[e], c), c \notin stray
          PROVE  FALSE
      <4>1. Linked(c) /\ c \notin Live
        BY <2>1, <3>3 DEF Tree, Live
      <4>q. QED
        BY <2>3, <3>1, <3>3, <4>1 DEF Linked
    <3>4. parent[e] \notin destroyed
      <4>1. Linked(e)
        BY <2>1, <3>1 DEF Tree
      <4>q. QED
        BY <2>3, <3>1, <4>1 DEF Linked, Live
    <3>q. QED
      BY <2>1, <3>2, <3>3, <3>4
  <2>q. QED
    BY <2>2, <2>3 DEF NoDeletedInTree
<1>q. QED
  BY <1>1, Invariance, PTL

\* Parents and children agree, the children are in the order of zOrder, and when the
\* update is over no list is locked and no child waits (addChild, set_zOrder, removeChild,
\* processAddChildren).
THEOREM TreeStaysSound == Spec => []TreeIsSound
<1>1. ASSUME Inv
      PROVE  TreeIsSound
  <2>1. TreeTypes /\ Tree /\ Control
    BY <1>1, Types DEF Inv
  <2>2. ASSUME NEW p \in Entities
        PROVE  /\ DOMAIN children[p] = 1 .. Len(children[p])
               /\ \A i \in 1 .. Len(children[p]) : children[p][i] \in Nodes
               /\ \A c : c \in ToSet(children[p]) <=> Has(children[p], c)
               /\ \A c : c \in ToSet(toAdd[p]) <=> Has(toAdd[p], c)
    <3>1. PICK list, more : list = children[p] /\ more = toAdd[p]
      OBVIOUS
    <3>2. list \in Seq(Nodes) /\ more \in Seq(Entities)
      BY <2>1, <3>1, LiveOnes
    <3>3. DOMAIN list = 1 .. Len(list) /\ \A i \in 1 .. Len(list) : list[i] \in Nodes
      BY <3>2, LenProperties, ElementOfSeq
    <3>4. \A c : c \in ToSet(list) <=> Has(list, c)
      BY <3>2, ElementsOfList
    <3>5. \A c : c \in ToSet(more) <=> Has(more, c)
      BY <3>2, ElementsOfList
    <3>q. QED
      BY <3>1, <3>3, <3>4, <3>5
  <2>3. \A p \in Live : p \in Entities
    BY DEF Live
  <2>4. ParentsAgree
    <3>1. ASSUME NEW p \in Live, NEW i \in DOMAIN children[p], NEW c, c = children[p][i],
                 c \notin stray \cup {NoEntity}
          PROVE  /\ parent[c] = p
                 /\ c \notin Waiting
                 /\ \A j \in DOMAIN children[p] : children[p][j] = c => j = i
      <4>1. /\ p \in Entities /\ i \in 1 .. Len(children[p]) /\ c \in Entities
            /\ Has(children[p], c)
        BY <2>2, <2>3, <3>1 DEF Nodes, Has
      <4>2. /\ parent[c] = p /\ Once(children[p], c)
            /\ \A q \in Entities : ~Has(toAdd[q], c)
        BY <2>1, <3>1, <4>1 DEF Tree, Linked
      <4>3. c \notin Waiting
        BY <2>2, <2>3, <4>2 DEF Waiting
      <4>4. \A j \in 1 .. Len(children[p]) : children[p][j] = c => j = i
        BY <3>1, <4>1, <4>2 DEF Once
      <4>q. QED
        BY <2>2, <4>1, <4>2, <4>3, <4>4
    <3>2. ASSUME NEW e \in Live
          PROVE  parent[e] = NoEntity \/ e \in ToSet(children[parent[e]])
      <4>1. parent[e] = NoEntity \/ (parent[e] \in Live /\ Has(children[parent[e]], e))
        BY <2>1, <2>3, <3>2 DEF Tree, Linked
      <4>q. QED
        BY <2>2, <2>3, <4>1
    <3>q. QED
      BY <3>1, <3>2 DEF ParentsAgree
  <2>5. InOrder
    BY <2>1, <2>2, <2>3 DEF InOrder, Tree, Sorted
  <2>6. SettledBetweenUpdates
    <3>1. SUFFICES ASSUME pos = 0
                   PROVE  locked \cap Live = {} /\ Waiting = {}
      BY DEF SettledBetweenUpdates
    <3>2. \A e \in Live : ~Updates(stack, e) /\ ~Adds(stack, e)
      BY <2>1, <3>1 DEF Control, Updates, Adds
    <3>3. \A e \in Live : e \notin locked /\ toAdd[e] = <<>>
      BY <2>1, <3>2 DEF Control
    <3>4. \A e \in Live : ToSet(toAdd[e]) = {}
      BY <2>2, <2>3, <3>3, EmptyList
    <3>q. QED
      BY <3>3, <3>4 DEF Waiting
  <2>q. QED
    BY <2>4, <2>5, <2>6 DEF TreeIsSound
<1>q. QED
  BY <1>1, Invariance, PTL
=============================================================================
