---------------------------- MODULE SequenceFacts ----------------------------
(***************************************************************************)
(* Facts about the sequence operators the models use for the engine's      *)
(* vectors and lists, stated once for the proof modules; and that a search *)
(* along them finds a first place.                                         *)
(***************************************************************************)
EXTENDS SequencesExt, SequenceTheorems, WellFoundedInduction, TLAPS

\* pop_back and back of a non-empty vector: Front drops the last element and
\* keeps the others in place, Last is that element.
LEMMA FrontOfSeq ==
    ASSUME NEW S, NEW s \in Seq(S), s # <<>>
    PROVE  /\ Front(s) \in Seq(S)
           /\ Len(s) \in Nat \ {0}
           /\ Len(Front(s)) = Len(s) - 1
           /\ \A i \in 1..(Len(s) - 1) : Front(s)[i] = s[i]
           /\ Last(s) = s[Len(s)]
           /\ Last(s) \in S
<1>1. Len(s) \in Nat \ {0}
  BY EmptySeq
<1>2. \A i \in 1..(Len(s) - 1) : s[i] \in S
  BY <1>1
<1>3. SubSeq(s, 1, Len(s) - 1) \in Seq(S)
  BY <1>1, <1>2
<1>4. Len(SubSeq(s, 1, Len(s) - 1)) = Len(s) - 1
  <2>1. \A n \in Nat : Len(SubSeq(s, 1, n)) = n
    OBVIOUS
  <2>2. Len(s) - 1 \in Nat
    BY <1>1
  <2>q. QED
    BY <2>1, <2>2, Zenon
<1>5. \A i \in 1..(Len(s) - 1) : SubSeq(s, 1, Len(s) - 1)[i] = s[i]
  BY <1>1, <1>2
<1>q. QED
  BY <1>1, <1>3, <1>4, <1>5 DEF Front, Last

\* push_back: the new element is the last one, the others stay in place.
LEMMA AppendToSeq ==
    ASSUME NEW S, NEW s \in Seq(S), NEW e \in S
    PROVE  /\ Append(s, e) \in Seq(S)
           /\ Append(s, e) # <<>>
           /\ Len(s) \in Nat
           /\ Len(Append(s, e)) = Len(s) + 1
           /\ \A i \in 1..Len(s) : Append(s, e)[i] = s[i]
           /\ Append(s, e)[Len(s) + 1] = e
           /\ Last(Append(s, e)) = e
<1>1. /\ Append(s, e) \in Seq(S)
      /\ Append(s, e) # <<>>
      /\ Len(Append(s, e)) = Len(s) + 1
      /\ \A i \in 1..Len(s) : Append(s, e)[i] = s[i]
      /\ Append(s, e)[Len(s) + 1] = e
  BY AppendProperties
<1>q. QED
  BY <1>1 DEF Last

\* The elements of a sequence are what its indices hold.
LEMMA ToSetOfSeq ==
    ASSUME NEW S, NEW s \in Seq(S)
    PROVE  /\ ToSet(s) = {s[i] : i \in 1..Len(s)}
           /\ ToSet(s) \in SUBSET S
  BY DEF ToSet

\* pop_back once and twice as prefixes; the whole sequence is its own prefix.
LEMMA PrefixOfSeq ==
    ASSUME NEW S, NEW s \in Seq(S)
    PROVE  /\ SubSeq(s, 1, Len(s) - 0) = s
           /\ Front(s) = SubSeq(s, 1, Len(s) - 1)
           /\ \A n \in 0..Len(s) :
                 /\ SubSeq(s, 1, n) \in Seq(S)
                 /\ Len(SubSeq(s, 1, n)) = n
                 /\ \A i \in 1..n : SubSeq(s, 1, n)[i] = s[i]
           /\ Len(s) > 1 => /\ Front(Front(s)) = SubSeq(s, 1, Len(s) - 2)
                            /\ Front(Front(s)) \in Seq(S)
                            /\ Last(Front(s)) = s[Len(s) - 1]
<1>0. Len(s) \in Nat
  OBVIOUS
<1>1. \A n \in 0..Len(s) : /\ SubSeq(s, 1, n) \in Seq(S)
                           /\ Len(SubSeq(s, 1, n)) = n
                           /\ \A i \in 1..n : SubSeq(s, 1, n)[i] = s[i]
  <2> SUFFICES ASSUME NEW n \in 0..Len(s)
               PROVE  /\ SubSeq(s, 1, n) \in Seq(S)
                      /\ Len(SubSeq(s, 1, n)) = n
                      /\ \A i \in 1..n : SubSeq(s, 1, n)[i] = s[i]
    OBVIOUS
  <2>1. n \in Int /\ 1 \in Int /\ \A i \in 1..n : s[i] \in S
    BY <1>0
  <2>2. /\ SubSeq(s, 1, n) \in Seq(S)
        /\ Len(SubSeq(s, 1, n)) = IF 1 <= n THEN n - 1 + 1 ELSE 0
        /\ \A i \in 1..(n - 1 + 1) : SubSeq(s, 1, n)[i] = s[1 + i - 1]
    BY <2>1, SubSeqProperties
  <2>3. /\ n \in Nat
        /\ (IF 1 <= n THEN n - 1 + 1 ELSE 0) = n
        /\ n - 1 + 1 = n
        /\ \A i \in 1..n : 1 + i - 1 = i
    BY <1>0
  <2>4. \A i \in 1..n : SubSeq(s, 1, n)[i] = s[i]
    BY <2>2, <2>3, Zenon
  <2>q. QED
    BY <2>2, <2>3, <2>4, Zenon
<1>2. SubSeq(s, 1, Len(s) - 0) = s
  BY <1>0, SubSeqFull
<1>3. Front(s) = SubSeq(s, 1, Len(s) - 1)
  BY DEF Front
<1>4. ASSUME Len(s) > 1
      PROVE  /\ Front(Front(s)) = SubSeq(s, 1, Len(s) - 2)
             /\ Front(Front(s)) \in Seq(S)
             /\ Last(Front(s)) = s[Len(s) - 1]
  <2>1. /\ Front(s) \in Seq(S)
        /\ Len(Front(s)) = Len(s) - 1
        /\ \A i \in 1..(Len(s) - 1) : Front(s)[i] = s[i]
    BY <1>4, FrontOfSeq, EmptySeq
  <2>2. Front(s) # <<>>
    BY <1>0, <1>4, <2>1, EmptySeq
  <2>3. /\ Front(Front(s)) \in Seq(S)
        /\ Len(Front(Front(s))) = Len(s) - 2
        /\ \A i \in 1..(Len(s) - 2) : Front(Front(s))[i] = s[i]
        /\ Last(Front(s)) = s[Len(s) - 1]
    <3>1. /\ Front(Front(s)) \in Seq(S)
          /\ Len(Front(Front(s))) = Len(Front(s)) - 1
          /\ \A i \in 1..(Len(Front(s)) - 1) : Front(Front(s))[i] = Front(s)[i]
          /\ Last(Front(s)) = Front(s)[Len(Front(s))]
      BY <2>1, <2>2, FrontOfSeq
    <3>q. QED
      BY <1>0, <1>4, <2>1, <3>1
  <2>4. /\ SubSeq(s, 1, Len(s) - 2) \in Seq(S)
        /\ Len(SubSeq(s, 1, Len(s) - 2)) = Len(s) - 2
        /\ \A i \in 1..(Len(s) - 2) : SubSeq(s, 1, Len(s) - 2)[i] = s[i]
    <3>1. Len(s) - 2 \in 0..Len(s)
      BY <1>0, <1>4
    <3>q. QED
      BY <1>1, <3>1
  <2>5. Front(Front(s)) = SubSeq(s, 1, Len(s) - 2)
    <3>1. ASSUME NEW t \in Seq(S), NEW u \in Seq(S), Len(t) = Len(u),
                 \A i \in 1..Len(t) : t[i] = u[i]
          PROVE  t = u
      BY <3>1, SeqEqual
    <3>q. QED
      BY <1>0, <2>3, <2>4, <3>1
  <2>q. QED
    BY <2>3, <2>5
<1>q. QED
  BY <1>1, <1>2, <1>3, <1>4

\* pop_front of a list: the element before the rest; of two lists in a row, the rest of
\* the first before the second.
LEMMA HeadThenTail ==
    ASSUME NEW S, NEW s \in Seq(S), s # <<>>
    PROVE  /\ Head(s) \in S
           /\ Tail(s) \in Seq(S)
           /\ s = <<Head(s)>> \o Tail(s)
<1>1. Head(s) \in S /\ Tail(s) \in Seq(S)
  BY HeadTailProperties
<1>2. Len(s) \in Nat \ {0} /\ 1 \in 1 .. Len(s) /\ Len(s) \in 1 .. Len(s)
  BY EmptySeq
<1>3. SubSeq(s, 1, Len(s)) = <<s[1]>> \o SubSeq(s, 2, Len(s))
  <2>1. SubSeq(s, 1, Len(s)) = <<s[1]>> \o SubSeq(s, 1 + 1, Len(s))
    BY <1>2, SubSeqRecursiveFirst
  <2>q. QED
    BY <2>1
<1>4. SubSeq(s, 1, Len(s)) = s /\ SubSeq(s, 2, Len(s)) = Tail(s)
  BY SubSeqFull, TailIsSubSeq
<1>5. s[1] = Head(s)
  OBVIOUS
<1>q. QED
  BY <1>1, <1>3, <1>4, <1>5

LEMMA TailOfConcat ==
    ASSUME NEW S, NEW s \in Seq(S), NEW t \in Seq(S), s # <<>>
    PROVE  /\ s \o t # <<>>
           /\ Tail(s \o t) = Tail(s) \o t
<1>1. s \o t \in Seq(S) /\ s \o t # <<>>
  BY ConcatProperties, ConcatEqualIffEmpty
<1>2. Len(s) \in Nat \ {0} /\ Len(t) \in Nat /\ Len(s \o t) = Len(s) + Len(t)
  BY EmptySeq, ConcatProperties
<1>3. /\ Tail(s) \in Seq(S) /\ Len(Tail(s)) = Len(s) - 1
      /\ \A i \in 1 .. Len(Tail(s)) : Tail(s)[i] = s[i + 1]
  BY HeadTailProperties
<1>4. /\ Tail(s \o t) \in Seq(S) /\ Len(Tail(s \o t)) = Len(s \o t) - 1
      /\ \A i \in 1 .. Len(Tail(s \o t)) : Tail(s \o t)[i] = (s \o t)[i + 1]
  BY <1>1, HeadTailProperties
<1>5. /\ Tail(s) \o t \in Seq(S) /\ Len(Tail(s) \o t) = Len(s) - 1 + Len(t)
      /\ \A i \in 1 .. Len(Tail(s)) + Len(t) :
            (Tail(s) \o t)[i] = IF i <= Len(Tail(s)) THEN Tail(s)[i] ELSE t[i - Len(Tail(s))]
  BY <1>3, ConcatProperties
<1>6. \A i \in 1 .. Len(s) + Len(t) :
         (s \o t)[i] = IF i <= Len(s) THEN s[i] ELSE t[i - Len(s)]
  BY ConcatProperties
<1>7. Len(Tail(s \o t)) = Len(Tail(s) \o t)
  BY <1>2, <1>4, <1>5
<1>8. ASSUME NEW i \in 1 .. Len(Tail(s \o t))
      PROVE  Tail(s \o t)[i] = (Tail(s) \o t)[i]
  <2>1. /\ i \in 1 .. Len(Tail(s)) + Len(t) /\ i + 1 \in 1 .. Len(s) + Len(t)
        /\ i + 1 - Len(s) = i - Len(Tail(s))
        /\ i <= Len(Tail(s)) <=> i + 1 <= Len(s)
        /\ i <= Len(Tail(s)) => i \in 1 .. Len(Tail(s))
    BY <1>2, <1>3, <1>4
  <2>2. Tail(s \o t)[i] = (s \o t)[i + 1]
    BY <1>4
  <2>3. CASE i <= Len(Tail(s))
    <3>1. (s \o t)[i + 1] = s[i + 1] /\ Tail(s)[i] = s[i + 1] /\ (Tail(s) \o t)[i] = Tail(s)[i]
      BY <1>3, <1>5, <1>6, <2>1, <2>3
    <3>q. QED
      BY <2>2, <3>1
  <2>4. CASE ~(i <= Len(Tail(s)))
    <3>1. (s \o t)[i + 1] = t[i + 1 - Len(s)] /\ (Tail(s) \o t)[i] = t[i - Len(Tail(s))]
      BY <1>5, <1>6, <2>1, <2>4
    <3>q. QED
      BY <2>1, <2>2, <3>1
  <2>q. QED
    BY <2>3, <2>4
<1>q. QED
  BY <1>1, <1>4, <1>5, <1>7, <1>8, SeqEqual

\* erase closes the gap.
LEMMA RemoveAtClosesGap ==
    ASSUME NEW S, NEW list \in Seq(S), NEW n \in 1..Len(list)
    PROVE  /\ RemoveAt(list, n) \in Seq(S)
           /\ Len(RemoveAt(list, n)) = Len(list) - 1
           /\ \A i \in 1..(Len(list) - 1) :
                 RemoveAt(list, n)[i] = IF i < n THEN list[i] ELSE list[i + 1]
<1> DEFINE low == SubSeq(list, 1, n - 1)
           high == SubSeq(list, n + 1, Len(list))
<1>1. Len(list) \in Nat /\ n \in Nat
  OBVIOUS
<1>2. /\ low \in Seq(S)
      /\ Len(low) = n - 1
      /\ \A i \in 1..(n - 1) : low[i] = list[i]
  BY <1>1, SubSeqProperties
<1>3. /\ high \in Seq(S)
      /\ Len(high) = Len(list) - n
      /\ \A i \in 1..(Len(list) - n) : high[i] = list[n + i]
  BY <1>1, SubSeqProperties
<1>4. RemoveAt(list, n) = low \o high
  BY DEF RemoveAt
<1> HIDE DEF low, high
<1>5. /\ low \o high \in Seq(S)
      /\ Len(low \o high) = Len(list) - 1
  <2>1. low \o high \in Seq(S) /\ Len(low \o high) = Len(low) + Len(high)
    BY <1>2, <1>3, ConcatProperties
  <2>q. QED
    BY <1>1, <1>2, <1>3, <2>1
<1>6. \A i \in 1..(Len(list) - 1) :
         (low \o high)[i] = IF i < n THEN list[i] ELSE list[i + 1]
  <2> TAKE i \in 1..(Len(list) - 1)
  <2>1. (low \o high)[i] = IF i <= Len(low) THEN low[i] ELSE high[i - Len(low)]
    BY <1>1, <1>2, <1>3, ConcatProperties
  <2>2. CASE i < n
    BY <1>2, <2>1, <2>2
  <2>3. CASE i >= n
    <3>1. i - Len(low) \in 1..(Len(list) - n)
      BY <1>1, <1>2, <2>3
    <3>2. high[i - Len(low)] = list[n + (i - Len(low))]
      BY <1>3, <3>1
    <3>q. QED
      BY <1>1, <1>2, <2>1, <2>3, <3>2
  <2>4. i < n \/ i >= n
    BY <1>1
  <2>q. QED
    BY <2>2, <2>3, <2>4
<1>q. QED
  BY <1>4, <1>5, <1>6

\* A search that finds something finds a first: CHOOSE and Min have what they ask for.
Less == {ss \in Nat \X Nat : ss[1] < ss[2]}

LEMMA HasSmallest ==
    ASSUME NEW S \in SUBSET Nat, S # {}
    PROVE  \E m \in S : \A n \in S : m <= n
<1>1. IsWellFoundedOn(Less, Nat)
  <2>1. OpToRel(<, Nat) = Less
    BY DEF OpToRel, Less
  <2>q. QED
    BY <2>1, NatLessThanWellFounded
<1>2. PICK m \in S : \A n \in S : ~ (<<n, m>> \in Less)
  BY <1>1, WFMin
<1>3. ASSUME NEW n \in S
      PROVE  m <= n
  <2>1. m \in Nat /\ n \in Nat /\ <<n, m>> \in Nat \X Nat
    OBVIOUS
  <2>2. <<n, m>> \notin Less
    BY <1>2
  <2>3. ~(n < m)
    BY <2>1, <2>2 DEF Less
  <2>q. QED
    BY <2>1, <2>3
<1>q. QED
  BY <1>3
=============================================================================
