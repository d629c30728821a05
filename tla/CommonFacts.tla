----------------------------- MODULE CommonFacts -----------------------------
(* Facts that the proofs of several components rest on. *)
EXTENDS Integers, Recency, SequenceTheorems, WellFoundedInduction, TLAPS

\* A non-empty set of naturals has a least element, so a CHOOSE of it is meaningful.
LEMMA LeastExists ==
  ASSUME NEW S \in SUBSET Nat, S # {}
  PROVE  \E x \in S : \A y \in S : x <= y
<1> DEFINE R == {ss \in Nat \X Nat : ss[1] < ss[2]}
<1>1. IsWellFoundedOn(R, Nat)
  BY NatLessThanWellFounded, Zenon DEF OpToRel
<1>2. \E x \in S : \A y \in S : <<y, x>> \notin R
  <2> HIDE DEF R
  <2> QED BY <1>1, WFMin
<1>3. ASSUME NEW x \in S, NEW y \in S, <<y, x>> \notin R
      PROVE  x <= y
  BY <1>3
<1> QED BY <1>2, <1>3

\* What RemoveAt of the community modules leaves.
LEMMA RemoveAtProperties ==
  ASSUME NEW S, NEW s \in Seq(S), NEW k \in 1..Len(s)
  PROVE  /\ RemoveAt(s, k) \in Seq(S)
         /\ Len(RemoveAt(s, k)) = Len(s) - 1
         /\ \A i \in 1..(Len(s) - 1) :
              RemoveAt(s, k)[i] = IF i < k THEN s[i] ELSE s[i + 1]
<1> DEFINE a == SubSeq(s, 1, k - 1)
           b == SubSeq(s, k + 1, Len(s))
<1>1. Len(s) \in Nat /\ \A i \in 1..Len(s) : s[i] \in S
  BY LenProperties, ElementOfSeq
<1>2. /\ a \in Seq(S) /\ Len(a) = k - 1
      /\ \A i \in 1..(k - 1) : a[i] = s[i]
  <2>1. \A i \in 1..(k - 1) : s[i] \in S
    BY <1>1
  <2>2. /\ a \in Seq(S)
        /\ Len(a) = IF 1 <= k - 1 THEN (k - 1) - 1 + 1 ELSE 0
        /\ \A i \in 1..((k - 1) - 1 + 1) : a[i] = s[1 + i - 1]
    BY <2>1, SubSeqProperties
  <2> QED BY <2>2, <1>1
<1>3. /\ b \in Seq(S) /\ Len(b) = Len(s) - k
      /\ \A i \in 1..(Len(s) - k) : b[i] = s[k + i]
  <2>1. \A i \in (k + 1)..Len(s) : s[i] \in S
    BY <1>1
  <2>2. /\ b \in Seq(S)
        /\ Len(b) = IF k + 1 <= Len(s) THEN Len(s) - (k + 1) + 1 ELSE 0
        /\ \A i \in 1..(Len(s) - (k + 1) + 1) : b[i] = s[(k + 1) + i - 1]
    BY <2>1, <1>1, SubSeqProperties
  <2> QED BY <2>2, <1>1
<1>4. /\ a \o b \in Seq(S) /\ Len(a \o b) = Len(a) + Len(b)
      /\ \A i \in 1..(Len(a) + Len(b)) :
           (a \o b)[i] = IF i <= Len(a) THEN a[i] ELSE b[i - Len(a)]
  BY <1>2, <1>3, ConcatProperties
<1>5. RemoveAt(s, k) = a \o b
  BY DEF RemoveAt
<1> HIDE DEF a, b
<1>6. Len(a) + Len(b) = Len(s) - 1
  BY <1>1, <1>2, <1>3
<1>7. ASSUME NEW i \in 1..(Len(s) - 1)
      PROVE  (a \o b)[i] = IF i < k THEN s[i] ELSE s[i + 1]
  <2>1. CASE i < k
    BY <2>1, <1>1, <1>2, <1>4, <1>6
  <2>2. CASE ~(i < k)
    <3>1. (a \o b)[i] = b[i - Len(a)]
      BY <2>2, <1>1, <1>2, <1>4, <1>6
    <3>2. i - Len(a) \in 1..(Len(s) - k) /\ k + (i - Len(a)) = i + 1
      BY <2>2, <1>1, <1>2
    <3> QED BY <3>1, <3>2, <1>3, <2>2
  <2> QED BY <2>1, <2>2
<1> QED BY <1>4, <1>5, <1>6, <1>7

\* The prefixes of the selection.
IsSelection(kept, seq, positions, n) ==
  kept = [k \in 0..n |->
            IF k = 0 THEN <<>>
            ELSE IF k \in positions THEN Append(kept[k - 1], seq[k])
            ELSE kept[k - 1]]

\* The recursive function of Selected exists.
LEMMA SelectionExists ==
  ASSUME NEW X, NEW seq \in Seq(X), NEW positions
  PROVE  \A n \in 0..Len(seq) : \E kept : IsSelection(kept, seq, positions, n)
<1> DEFINE Bad == {n \in 0..Len(seq) : ~\E kept : IsSelection(kept, seq, positions, n)}
<1> SUFFICES ASSUME Bad # {}
             PROVE  FALSE
  OBVIOUS
<1>1. PICK n \in Bad : \A m \in Bad : n <= m
  <2>1. Bad \in SUBSET Nat
    OBVIOUS
  <2> HIDE DEF Bad
  <2> QED BY <2>1, LeastExists
<1>2. n # 0
  <2>1. IsSelection([k \in 0..0 |-> <<>>], seq, positions, 0)
    BY DEF IsSelection
  <2> QED BY <2>1
<1>3. n \in Nat /\ n - 1 \in 0..Len(seq) /\ n - 1 \notin Bad
  BY <1>1, <1>2
<1>4. PICK kept : IsSelection(kept, seq, positions, n - 1)
  BY <1>3
<1> DEFINE next == [k \in 0..n |->
                      IF k = n
                      THEN IF n \in positions THEN Append(kept[n - 1], seq[n]) ELSE kept[n - 1]
                      ELSE kept[k]]
<1>5. \A k \in 0..(n - 1) :
        kept[k] = IF k = 0 THEN <<>>
                  ELSE IF k \in positions THEN Append(kept[k - 1], seq[k])
                  ELSE kept[k - 1]
  BY <1>4 DEF IsSelection
<1>6. \A k \in 0..(n - 1) : next[k] = kept[k]
  BY <1>3
<1>7. next[n] = IF n \in positions THEN Append(next[n - 1], seq[n]) ELSE next[n - 1]
  BY <1>2, <1>3, <1>6
<1>8. \A k \in 0..n : next[k] = IF k = 0 THEN <<>>
                                ELSE IF k \in positions THEN Append(next[k - 1], seq[k])
                                ELSE next[k - 1]
  <2> SUFFICES ASSUME NEW k \in 0..n
               PROVE  next[k] = IF k = 0 THEN <<>>
                                ELSE IF k \in positions THEN Append(next[k - 1], seq[k])
                                ELSE next[k - 1]
    OBVIOUS
  <2>1. CASE k = n
    BY <1>2, <1>7, <2>1
  <2>2. CASE k # n
    <3>1. k \in 0..(n - 1) /\ (k # 0 => k - 1 \in 0..(n - 1))
      BY <1>3, <2>2
    <3>2. next[k] = kept[k] /\ (k # 0 => next[k - 1] = kept[k - 1])
      BY <1>6, <3>1
    <3> HIDE DEF next
    <3> QED BY <1>5, <3>1, <3>2
  <2> QED BY <2>1, <2>2
<1>9. IsSelection(next, seq, positions, n)
  <2>1. next = [k \in 0..n |-> next[k]]
    OBVIOUS
  <2> HIDE DEF next
  <2> QED BY <1>8, <2>1 DEF IsSelection
<1> QED BY <1>1, <1>9

\* What is selected is what stands at the positions.
LEMMA SelectedIs ==
  ASSUME NEW X, NEW seq \in Seq(X), NEW positions
  PROVE  /\ Selected(seq, positions) \in Seq(X)
         /\ \A j \in 1..Len(Selected(seq, positions)) :
              \E k \in 1..Len(seq) : k \in positions /\ Selected(seq, positions)[j] = seq[k]
         /\ \A k \in 1..Len(seq) : k \in positions =>
              \E j \in 1..Len(Selected(seq, positions)) : Selected(seq, positions)[j] = seq[k]
<1> DEFINE n == Len(seq)
<1>1. n \in Nat
  OBVIOUS
<1>2. PICK kept : IsSelection(kept, seq, positions, n) /\ Selected(seq, positions) = kept[n]
  <2>1. \E kept : IsSelection(kept, seq, positions, n)
    BY <1>1, SelectionExists
  <2> QED BY <2>1 DEF Selected, IsSelection
<1> DEFINE Good(k) ==
      /\ kept[k] \in Seq(X)
      /\ \A j \in 1..Len(kept[k]) : \E i \in 1..k : i \in positions /\ kept[k][j] = seq[i]
      /\ \A i \in 1..k : i \in positions => \E j \in 1..Len(kept[k]) : kept[k][j] = seq[i]
<1>3. \A k \in 0..n : Good(k)
  <2> DEFINE Bad == {k \in 0..n : ~Good(k)}
  <2> HIDE DEF Good
  <2> SUFFICES ASSUME Bad # {}
               PROVE  FALSE
    OBVIOUS
  <2>1. PICK k \in Bad : \A m \in Bad : k <= m
    <3>1. Bad \in SUBSET Nat
      BY <1>1
    <3> HIDE DEF Bad
    <3> QED BY <3>1, LeastExists
  <2>2. kept[0] = <<>>
    BY <1>1, <1>2 DEF IsSelection
  <2>3. k # 0
    <3>1. Good(0)
      BY <2>2 DEF Good
    <3> QED BY <3>1
  <2>4. k \in 1..n /\ Good(k - 1)
    BY <1>1, <2>1, <2>3
  <2>5. kept[k] = IF k \in positions THEN Append(kept[k - 1], seq[k]) ELSE kept[k - 1]
    <3>1. \A i \in 0..n : kept[i] = IF i = 0 THEN <<>>
                                   ELSE IF i \in positions THEN Append(kept[i - 1], seq[i])
                                   ELSE kept[i - 1]
      BY <1>2 DEF IsSelection
    <3> QED BY <1>1, <2>4, <3>1
  <2>6. Good(k)
    <3> DEFINE before == kept[k - 1]
               after == kept[k]
    <3>1. /\ before \in Seq(X)
          /\ \A j \in 1..Len(before) : \E i \in 1..(k - 1) : i \in positions /\ before[j] = seq[i]
          /\ \A i \in 1..(k - 1) : i \in positions => \E j \in 1..Len(before) : before[j] = seq[i]
      BY <2>4 DEF Good
    <3>2. seq[k] \in X
      BY <2>4
    <3>3. after = IF k \in positions THEN Append(before, seq[k]) ELSE before
      BY <2>5
    <3> HIDE DEF before, after
    <3>4. CASE k \in positions
      <4>1. /\ after \in Seq(X) /\ Len(after) = Len(before) + 1
            /\ \A j \in 1..Len(before) : after[j] = before[j]
            /\ after[Len(before) + 1] = seq[k]
        BY <3>1, <3>2, <3>3, <3>4
      <4>2. \A j \in 1..Len(after) : \E i \in 1..k : i \in positions /\ after[j] = seq[i]
        <5> SUFFICES ASSUME NEW j \in 1..Len(after)
                     PROVE  \E i \in 1..k : i \in positions /\ after[j] = seq[i]
          OBVIOUS
        <5>1. CASE j = Len(before) + 1
          BY <2>4, <3>4, <4>1, <5>1
        <5>2. CASE j # Len(before) + 1
          <6>1. j \in 1..Len(before)
            BY <3>1, <4>1, <5>2
          <6>2. PICK i \in 1..(k - 1) : i \in positions /\ before[j] = seq[i]
            BY <3>1, <6>1
          <6>3. i \in 1..k
            BY <2>4
          <6> QED BY <4>1, <6>1, <6>2, <6>3
        <5> QED BY <5>1, <5>2
      <4>3. \A i \in 1..k : i \in positions => \E j \in 1..Len(after) : after[j] = seq[i]
        <5> SUFFICES ASSUME NEW i \in 1..k, i \in positions
                     PROVE  \E j \in 1..Len(after) : after[j] = seq[i]
          OBVIOUS
        <5>1. CASE i = k
          <6>1. Len(before) + 1 \in 1..Len(after)
            BY <3>1, <4>1
          <6> QED BY <4>1, <5>1, <6>1
        <5>2. CASE i # k
          <6>1. i \in 1..(k - 1)
            BY <2>4, <5>2
          <6>2. PICK j \in 1..Len(before) : before[j] = seq[i]
            BY <3>1, <6>1
          <6>3. j \in 1..Len(after)
            BY <3>1, <4>1
          <6> QED BY <4>1, <6>2, <6>3
        <5> QED BY <5>1, <5>2
      <4> QED BY <4>1, <4>2, <4>3 DEF Good, after
    <3>5. CASE k \notin positions
      <4>1. after = before
        BY <3>3, <3>5
      <4>2. \A i \in 1..k : i \in positions => i \in 1..(k - 1)
        BY <2>4, <3>5
      <4>3. \A i \in 1..(k - 1) : i \in 1..k
        BY <2>4
      <4> QED BY <3>1, <4>1, <4>2, <4>3 DEF Good, after
    <3> QED BY <3>4, <3>5
  <2> QED BY <2>1, <2>6
<1>4. Good(n)
  BY <1>1, <1>3
<1> QED BY <1>2, <1>4

LEMMA AppendIs ==
  ASSUME NEW X, NEW s \in Seq(X), NEW e \in X
  PROVE  /\ Append(s, e) \in Seq(X) /\ Len(Append(s, e)) = Len(s) + 1
         /\ Append(s, e)[Len(s) + 1] = e /\ \A k \in 1..Len(s) : Append(s, e)[k] = s[k]
OBVIOUS

\* All but one, at most: those before it, and those behind it moved up.
LEMMA SelectedBut ==
  ASSUME NEW X, NEW seq \in Seq(X), NEW out \in 1..(Len(seq) + 1)
  PROVE  LET rest == Selected(seq, (1..Len(seq)) \ {out})
         IN  /\ rest \in Seq(X) /\ Len(rest) = IF out <= Len(seq) THEN Len(seq) - 1 ELSE Len(seq)
             /\ \A j \in 1..Len(rest) : rest[j] = IF j < out THEN seq[j] ELSE seq[j + 1]
<1> DEFINE n == Len(seq)
           positions == (1..n) \ {out}
<1>1. n \in Nat /\ out \in Nat /\ \A k \in 1..n : seq[k] \in X
  OBVIOUS
<1>2. PICK kept : IsSelection(kept, seq, positions, n) /\ Selected(seq, positions) = kept[n]
  <2>1. \E kept : IsSelection(kept, seq, positions, n)
    <3> HIDE DEF positions
    <3> QED BY <1>1, SelectionExists
  <2> QED BY <2>1 DEF Selected, IsSelection
<1> DEFINE Good(k) ==
      /\ kept[k] \in Seq(X) /\ Len(kept[k]) = IF out <= k THEN k - 1 ELSE k
      /\ \A j \in 1..Len(kept[k]) : kept[k][j] = IF j < out THEN seq[j] ELSE seq[j + 1]
<1>3. \A k \in 0..n : Good(k)
  <2> DEFINE Bad == {k \in 0..n : ~Good(k)}
  <2> HIDE DEF Good
  <2> SUFFICES ASSUME Bad # {}
               PROVE  FALSE
    OBVIOUS
  <2>1. PICK k \in Bad : \A m \in Bad : k <= m
    <3>1. Bad \in SUBSET Nat
      BY <1>1
    <3> HIDE DEF Bad
    <3> QED BY <3>1, LeastExists
  <2>2. kept[0] = <<>>
    BY <1>1, <1>2 DEF IsSelection
  <2>3. k # 0
    <3>1. Good(0)
      BY <1>1, <2>2 DEF Good
    <3> QED BY <3>1
  <2>4. k \in 1..n /\ Good(k - 1)
    BY <1>1, <2>1, <2>3
  <2>5. kept[k] = IF k # out THEN Append(kept[k - 1], seq[k]) ELSE kept[k - 1]
    <3>1. \A i \in 0..n : kept[i] = IF i = 0 THEN <<>>
                                   ELSE IF i \in positions THEN Append(kept[i - 1], seq[i])
                                   ELSE kept[i - 1]
      BY <1>2 DEF IsSelection
    <3>2. k \in positions <=> k # out
      BY <2>4
    <3> HIDE DEF positions
    <3> QED BY <1>1, <2>4, <3>1, <3>2
  <2>6. Good(k)
    <3> DEFINE before == kept[k - 1]
               after == kept[k]
    <3>1. /\ before \in Seq(X) /\ Len(before) = IF out <= k - 1 THEN k - 2 ELSE k - 1
          /\ \A j \in 1..Len(before) : before[j] = IF j < out THEN seq[j] ELSE seq[j + 1]
      BY <1>1, <2>4 DEF Good
    <3>2. seq[k] \in X /\ k \in Nat
      BY <1>1, <2>4
    <3>3. after = IF k # out THEN Append(before, seq[k]) ELSE before
      BY <2>5
    <3> HIDE DEF before, after
    <3>4. CASE k # out
      <4>1. /\ after \in Seq(X) /\ Len(after) = Len(before) + 1
            /\ \A j \in 1..Len(before) : after[j] = before[j]
            /\ after[Len(before) + 1] = seq[k]
        <5>1. after = Append(before, seq[k])
          BY <3>3, <3>4
        <5>2. /\ Append(before, seq[k]) \in Seq(X)
              /\ Len(Append(before, seq[k])) = Len(before) + 1
              /\ \A j \in 1..Len(before) : Append(before, seq[k])[j] = before[j]
              /\ Append(before, seq[k])[Len(before) + 1] = seq[k]
          BY <3>1, <3>2, AppendIs
        <5> QED BY ONLY <5>1, <5>2
      <4>2. Len(after) = IF out <= k THEN k - 1 ELSE k
        BY <1>1, <3>1, <3>2, <3>4, <4>1
      <4>3. ASSUME NEW j \in 1..Len(after)
            PROVE  after[j] = IF j < out THEN seq[j] ELSE seq[j + 1]
        <5>1. CASE j = Len(before) + 1
          <6>1. (j < out => j = k) /\ (~(j < out) => j + 1 = k)
            BY <1>1, <3>1, <3>2, <3>4, <5>1
          <6> QED BY <4>1, <5>1, <6>1
        <5>2. CASE j # Len(before) + 1
          <6>1. j \in 1..Len(before)
            BY <3>1, <4>1, <5>2
          <6> QED BY <3>1, <4>1, <6>1
        <5> QED BY <5>1, <5>2
      <4> QED BY <4>1, <4>2, <4>3 DEF Good, after
    <3>5. CASE k = out
      <4>1. after = before
        BY <3>3, <3>5
      <4>2. Len(after) = IF out <= k THEN k - 1 ELSE k
        BY <1>1, <3>1, <3>2, <3>5, <4>1
      <4> QED BY <3>1, <4>1, <4>2 DEF Good, after
    <3> QED BY <3>4, <3>5
  <2> QED BY <2>1, <2>6
<1>4. Good(n)
  BY <1>1, <1>3
<1> QED BY <1>2, <1>4

----------------------------------------------------------------------------
(* Sets of a table in the order of their last use (Recency) *)

\* What is left of a set without a tag, and what a use and a fill make of it.
LEMMA WithoutKeeps ==
  ASSUME NEW X, NEW set \in Seq(X), NEW tag, NEW Y, \A x \in X : x.tag # tag => x \in Y
  PROVE  Without(set, tag) \in Seq(Y)
<1> DEFINE positions == (1..Len(set)) \ Matching(set, tag)
           kept == Selected(set, positions)
<1>1. Without(set, tag) = kept
  BY DEF Without
<1>2. \A k \in 1..Len(set) : k \in positions => set[k] \in Y
  <2>1. \A k \in 1..Len(set) : set[k] \in X
    OBVIOUS
  <2> QED BY <2>1 DEF Matching
<1>3. /\ kept \in Seq(X)
      /\ \A j \in 1..Len(kept) : \E k \in 1..Len(set) : k \in positions /\ kept[j] = set[k]
  <2> HIDE DEF positions
  <2> QED BY SelectedIs
<1> HIDE DEF positions, kept
<1>4. \A j \in 1..Len(kept) : kept[j] \in Y
  BY <1>2, <1>3
<1>5. kept \in Seq(Y)
  BY <1>3, <1>4
<1> QED BY <1>1, <1>5

LEMMA FoundIn ==
  ASSUME NEW X, NEW set \in Seq(X), NEW tag, IsIn(set, tag)
  PROVE  ElementOf(set, tag) \in X /\ ElementOf(set, tag).tag = tag
<1>1. Matching(set, tag) # {}
  BY DEF IsIn
<1>2. (CHOOSE k \in Matching(set, tag) : TRUE) \in Matching(set, tag)
  BY <1>1
<1> QED BY <1>2 DEF ElementOf, Matching

LEMMA TouchKeeps ==
  ASSUME NEW X, NEW set \in Seq(X), NEW tag
  PROVE  Touch(set, tag) \in Seq(X)
<1>1. CASE IsIn(set, tag)
  <2>1. ElementOf(set, tag) \in X
    BY <1>1, FoundIn
  <2>2. Without(set, tag) \in Seq(X)
    BY WithoutKeeps
  <2>3. <<ElementOf(set, tag)>> \o Without(set, tag) \in Seq(X)
    BY <2>1, <2>2
  <2> QED BY <1>1, <2>3 DEF Touch
<1>2. CASE ~IsIn(set, tag)
  BY <1>2 DEF Touch
<1> QED BY <1>1, <1>2

LEMMA InsertKeeps ==
  ASSUME NEW X, NEW set \in Seq(X), NEW Y, NEW element \in Y, NEW ways \in Nat,
         \A x \in X : x.tag # element.tag => x \in Y
  PROVE  Insert(set, element, ways) \in Seq(Y)
<1> DEFINE all == <<element>> \o Without(set, element.tag)
           n == Lesser(Len(all), ways)
<1>1. all \in Seq(Y) /\ Len(all) \in Nat
  <2>1. Without(set, element.tag) \in Seq(Y)
    BY WithoutKeeps
  <2> QED BY <2>1
<1>2. Insert(set, element, ways) = SubSeq(all, 1, n)
  BY DEF Insert
<1> HIDE DEF all
<1>3. n \in Nat /\ n <= Len(all)
  BY <1>1 DEF Lesser
<1> HIDE DEF n
<1>4. \A k \in 1..n : all[k] \in Y
  BY <1>1, <1>3
<1> QED BY <1>2, <1>3, <1>4

\* A set that has the tag at one place, and one that does not have it.
LEMMA WithoutOne ==
  ASSUME NEW X, NEW set \in Seq(X), NEW tag, NEW out \in 1..(Len(set) + 1),
         \A k \in 1..Len(set) : set[k].tag = tag <=> k = out
  PROVE  LET rest == Without(set, tag)
         IN  /\ rest \in Seq(X) /\ Len(rest) = IF out <= Len(set) THEN Len(set) - 1 ELSE Len(set)
             /\ \A j \in 1..Len(rest) : rest[j] = IF j < out THEN set[j] ELSE set[j + 1]
<1>1. (1..Len(set)) \ Matching(set, tag) = (1..Len(set)) \ {out}
  BY DEF Matching
<1>2. Without(set, tag) = Selected(set, (1..Len(set)) \ {out})
  BY <1>1 DEF Without
<1> QED BY <1>2, SelectedBut
=============================================================================
