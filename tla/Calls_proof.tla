---------------------------- MODULE Calls_proof ----------------------------
(***************************************************************************)
(* Lemmas about the queue of calls: what is left of it when a call is      *)
(* over, left behind or added.                                             *)
(***************************************************************************)
EXTENDS Calls, SequenceTheorems, TLAPS

\* Removing one element keeps the others and their order.
LEMMA RemoveAtProperties ==
    ASSUME NEW S, NEW s \in Seq(S), NEW i \in DOMAIN s
    PROVE  /\ RemoveAt(s, i) \in Seq(S)
           /\ Len(RemoveAt(s, i)) = Len(s) - 1
           /\ \A k \in 1 .. Len(s) - 1 :
                  RemoveAt(s, i)[k] = s[IF k < i THEN k ELSE k + 1]
<1> DEFINE before == SubSeq(s, 1, i - 1)
           after  == SubSeq(s, i + 1, Len(s))
<1>1. Len(s) \in Nat /\ i \in 1 .. Len(s) /\ \A k \in 1 .. Len(s) : s[k] \in S
    BY ElementOfSeq
<1>2. /\ before \in Seq(S)
      /\ Len(before) = i - 1
      /\ \A k \in 1 .. i - 1 : before[k] = s[k]
    <2>1. \A k \in 1 .. i - 1 : s[k] \in S
        BY <1>1
    <2>2. 1 \in Int /\ i - 1 \in Int
        BY <1>1
    <2>3. /\ before \in Seq(S)
          /\ Len(before) = IF 1 <= i - 1 THEN (i - 1) - 1 + 1 ELSE 0
          /\ \A k \in 1 .. (i - 1) - 1 + 1 : before[k] = s[1 + k - 1]
        BY <2>1, <2>2, SubSeqProperties
    <2>4. QED
        BY <1>1, <2>3
<1>3. /\ after \in Seq(S)
      /\ Len(after) = Len(s) - i
      /\ \A k \in 1 .. Len(s) - i : after[k] = s[i + k]
    <2>1. \A k \in i + 1 .. Len(s) : s[k] \in S
        BY <1>1
    <2>2. i + 1 \in Int /\ Len(s) \in Int
        BY <1>1
    <2>3. /\ after \in Seq(S)
          /\ Len(after) =
                 IF i + 1 <= Len(s) THEN Len(s) - (i + 1) + 1 ELSE 0
          /\ \A k \in 1 .. Len(s) - (i + 1) + 1 : after[k] = s[(i + 1) + k - 1]
        BY <2>1, <2>2, SubSeqProperties
    <2>4. QED
        BY <1>1, <2>3
<1>4. RemoveAt(s, i) = before \o after
    BY DEF RemoveAt
<1>5. /\ before \o after \in Seq(S)
      /\ Len(before \o after) = Len(before) + Len(after)
      /\ \A k \in 1 .. Len(before) + Len(after) :
             (before \o after)[k] =
                 IF k <= Len(before) THEN before[k] ELSE after[k - Len(before)]
    BY <1>2, <1>3, ConcatProperties
<1>6. Len(RemoveAt(s, i)) = Len(s) - 1
    BY <1>1, <1>2, <1>3, <1>4, <1>5
<1>7. ASSUME NEW k \in 1 .. Len(s) - 1
      PROVE  RemoveAt(s, i)[k] = s[IF k < i THEN k ELSE k + 1]
    <2>1. k \in 1 .. Len(before) + Len(after)
        BY <1>1, <1>2, <1>3
    <2>2. CASE k < i
        BY <1>1, <1>2, <1>4, <1>5, <2>1, <2>2
    <2>3. CASE ~(k < i)
        <3>1. /\ k - Len(before) = k - i + 1
              /\ k - i + 1 \in 1 .. Len(s) - i
              /\ ~(k <= Len(before))
            BY <1>1, <1>2, <2>3
        <3>2. (before \o after)[k] = after[k - Len(before)]
            BY <1>5, <2>1, <3>1
        <3>3. i + (k - i + 1) = k + 1
            BY <1>1
        <3>4. QED
            BY <1>3, <1>4, <2>3, <3>1, <3>2, <3>3
    <2>4. QED
        BY <2>2, <2>3
<1>8. QED
    BY <1>4, <1>5, <1>6, <1>7

\* The same, element by element: where the elements of the shorter sequence
\* come from, and where those of the longer one go to.
LEMMA RemoveAtOrigin ==
    ASSUME NEW S, NEW s \in Seq(S), NEW i \in DOMAIN s,
           NEW k \in DOMAIN RemoveAt(s, i)
    PROVE  /\ k < i => k \in DOMAIN s /\ RemoveAt(s, i)[k] = s[k]
           /\ k >= i => k + 1 \in DOMAIN s /\ RemoveAt(s, i)[k] = s[k + 1]
           /\ k \in Nat /\ i \in Nat
<1>1. Len(s) \in Nat /\ DOMAIN s = 1 .. Len(s)
    BY LenProperties
<1>2. RemoveAt(s, i) \in Seq(S) /\ Len(RemoveAt(s, i)) = Len(s) - 1
    BY RemoveAtProperties
<1>3. k \in 1 .. Len(s) - 1
    BY <1>2, LenProperties
<1>4. RemoveAt(s, i)[k] = s[IF k < i THEN k ELSE k + 1]
    BY <1>3, RemoveAtProperties
<1>5. QED
    BY <1>1, <1>3, <1>4

LEMMA RemoveAtDestination ==
    ASSUME NEW S, NEW s \in Seq(S), NEW i \in DOMAIN s,
           NEW j \in DOMAIN s, j # i
    PROVE  /\ j < i => j \in DOMAIN RemoveAt(s, i) /\ RemoveAt(s, i)[j] = s[j]
           /\ j > i => /\ j - 1 \in DOMAIN RemoveAt(s, i)
                       /\ RemoveAt(s, i)[j - 1] = s[j]
           /\ i \in Nat /\ j \in Nat
<1>1. Len(s) \in Nat /\ DOMAIN s = 1 .. Len(s)
    BY LenProperties
<1>2. RemoveAt(s, i) \in Seq(S) /\ Len(RemoveAt(s, i)) = Len(s) - 1
    BY RemoveAtProperties
<1>3. DOMAIN RemoveAt(s, i) = 1 .. Len(s) - 1
    BY <1>2, LenProperties
<1>4. ASSUME j < i
      PROVE  j \in DOMAIN RemoveAt(s, i) /\ RemoveAt(s, i)[j] = s[j]
    <2>1. j \in 1 .. Len(s) - 1
        BY <1>1, <1>4
    <2>2. QED
        BY <1>3, <1>4, <2>1, RemoveAtProperties
<1>5. ASSUME j > i
      PROVE  j - 1 \in DOMAIN RemoveAt(s, i) /\ RemoveAt(s, i)[j - 1] = s[j]
    <2>1. j - 1 \in 1 .. Len(s) - 1 /\ ~(j - 1 < i) /\ (j - 1) + 1 = j
        BY <1>1, <1>5
    <2>2. RemoveAt(s, i)[j - 1] =
              s[IF j - 1 < i THEN j - 1 ELSE (j - 1) + 1]
        BY <2>1, RemoveAtProperties
    <2>3. QED
        BY <1>3, <2>1, <2>2
<1>6. QED
    BY <1>1, <1>4, <1>5

LEMMA RemoveAtKeepsOnly ==
    ASSUME NEW S, NEW s \in Seq(S), NEW i \in DOMAIN s
    PROVE  \A k \in DOMAIN RemoveAt(s, i) :
               \E m \in DOMAIN s : RemoveAt(s, i)[k] = s[m]
<1> SUFFICES ASSUME NEW k \in DOMAIN RemoveAt(s, i)
             PROVE  \E m \in DOMAIN s : RemoveAt(s, i)[k] = s[m]
    OBVIOUS
<1>1. QED
    BY RemoveAtOrigin

-----------------------------------------------------------------------------
(* Calls of one kind and of another in the queue, each kind a set of calls. *)

Absent(cs, A) == \A p \in DOMAIN cs : cs[p] \notin A

\* Those of A were sent before those of B.
Ordered(cs, A, B) ==
    \A p, q \in DOMAIN cs : cs[p] \in A /\ cs[q] \in B => p < q

\* What Append does, position by position.
LEMMA AppendAt ==
    ASSUME NEW S, NEW s \in Seq(S), NEW e \in S
    PROVE  /\ DOMAIN s = 1 .. Len(s) /\ Len(s) \in Nat
           /\ DOMAIN Append(s, e) = 1 .. Len(s) + 1
           /\ \A p \in DOMAIN s : Append(s, e)[p] = s[p]
           /\ Append(s, e)[Len(s) + 1] = e
           /\ \A p \in DOMAIN Append(s, e) : p \in DOMAIN s \/ p = Len(s) + 1
BY AppendProperties, LenProperties

LEMMA RemoveAbsent ==
    ASSUME NEW S, NEW cs \in Seq(S), NEW i \in DOMAIN cs, NEW A,
           Absent(cs, A)
    PROVE  Absent(RemoveAt(cs, i), A)
BY RemoveAtKeepsOnly DEF Absent

LEMMA AppendAbsent ==
    ASSUME NEW S, NEW cs \in Seq(S), NEW c \in S, NEW A,
           Absent(cs, A), c \notin A
    PROVE  Absent(Append(cs, c), A)
BY AppendAt DEF Absent

LEMMA RemoveOrdered ==
    ASSUME NEW S, NEW cs \in Seq(S), NEW i \in DOMAIN cs, NEW A, NEW B,
           Ordered(cs, A, B)
    PROVE  Ordered(RemoveAt(cs, i), A, B)
<1> SUFFICES ASSUME NEW p \in DOMAIN RemoveAt(cs, i),
                    NEW q \in DOMAIN RemoveAt(cs, i),
                    RemoveAt(cs, i)[p] \in A, RemoveAt(cs, i)[q] \in B
             PROVE  p < q
    BY DEF Ordered
<1>1. /\ p < i => p \in DOMAIN cs /\ RemoveAt(cs, i)[p] = cs[p]
      /\ p >= i => p + 1 \in DOMAIN cs /\ RemoveAt(cs, i)[p] = cs[p + 1]
      /\ p \in Nat /\ i \in Nat
    BY RemoveAtOrigin
<1>2. /\ q < i => q \in DOMAIN cs /\ RemoveAt(cs, i)[q] = cs[q]
      /\ q >= i => q + 1 \in DOMAIN cs /\ RemoveAt(cs, i)[q] = cs[q + 1]
      /\ q \in Nat
    BY RemoveAtOrigin
<1>3. CASE p < i
    BY <1>1, <1>2, <1>3 DEF Ordered
<1>4. CASE p >= i
    <2>1. CASE q < i
        <3>1. p + 1 < q
            BY <1>1, <1>2, <1>4, <2>1 DEF Ordered
        <3>2. QED
            BY <1>1, <1>2, <3>1
    <2>2. CASE q >= i
        <3>1. p + 1 < q + 1
            BY <1>1, <1>2, <1>4, <2>2 DEF Ordered
        <3>2. QED
            BY <1>1, <1>2, <3>1
    <2>3. QED
        BY <1>1, <1>2, <2>1, <2>2
<1>5. QED
    BY <1>1, <1>3, <1>4

LEMMA AppendOrdered ==
    ASSUME NEW S, NEW cs \in Seq(S), NEW c \in S, NEW A, NEW B,
           Ordered(cs, A, B), c \notin A
    PROVE  Ordered(Append(cs, c), A, B)
<1> SUFFICES ASSUME NEW p \in DOMAIN Append(cs, c),
                    NEW q \in DOMAIN Append(cs, c),
                    Append(cs, c)[p] \in A, Append(cs, c)[q] \in B
             PROVE  p < q
    BY DEF Ordered
<1>1. p \in DOMAIN cs /\ cs[p] \in A
    BY AppendAt
<1>2. CASE q \in DOMAIN cs
    BY <1>1, <1>2, AppendAt DEF Ordered
<1>3. CASE q = Len(cs) + 1
    BY <1>1, <1>3, AppendAt
<1>4. QED
    BY <1>2, <1>3, AppendAt
=============================================================================
