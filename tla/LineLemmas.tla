----------------------------- MODULE LineLemmas -----------------------------
(***************************************************************************)
(* What it does to a line of operations when one of them leaves it: used   *)
(* by the proofs about the write queue and about those who wait in it.     *)
(***************************************************************************)
EXTENDS SequencesExt, SequenceTheorems, TLAPS

\* RemoveAt(s, i) is s without its i-th element, in the same order: what
\* VecDeque::retain leaves when one entry does not match.
LEMMA RemoveAtElements ==
    ASSUME NEW S, NEW s \in Seq(S), NEW i \in 1..Len(s)
    PROVE  /\ RemoveAt(s, i) \in Seq(S)
           /\ Len(RemoveAt(s, i)) = Len(s) - 1
           /\ \A j \in 1..(Len(s) - 1) :
                 RemoveAt(s, i)[j] = IF j < i THEN s[j] ELSE s[j + 1]
<1> DEFINE front == SubSeq(s, 1, i - 1)
           back == SubSeq(s, i + 1, Len(s))
<1>0. Len(s) \in Nat
  BY LenProperties
<1>1. /\ front \in Seq(S) /\ Len(front) = i - 1
      /\ \A j \in 1..(i - 1) : front[j] = s[j]
  BY <1>0, SMT
<1>2. /\ back \in Seq(S) /\ Len(back) = Len(s) - i
      /\ \A j \in 1..(Len(s) - i) : back[j] = s[i + j]
  BY <1>0, SMT
<1>3. RemoveAt(s, i) = front \o back
  BY DEF RemoveAt
<1>4. /\ front \o back \in Seq(S)
      /\ Len(front \o back) = (i - 1) + (Len(s) - i)
      /\ \A j \in 1..((i - 1) + (Len(s) - i)) :
           (front \o back)[j] = IF j <= i - 1 THEN front[j] ELSE back[j - (i - 1)]
  <2> HIDE DEF front, back
  <2>1. /\ front \o back \in Seq(S)
        /\ Len(front \o back) = Len(front) + Len(back)
        /\ \A j \in 1..(Len(front) + Len(back)) :
             (front \o back)[j] = IF j <= Len(front) THEN front[j] ELSE back[j - Len(front)]
    BY <1>1, <1>2, ConcatProperties, Zenon
  <2> QED
    BY <1>1, <1>2, <2>1, Zenon
<1>5. ASSUME NEW j \in 1..(Len(s) - 1)
      PROVE  (front \o back)[j] = IF j < i THEN s[j] ELSE s[j + 1]
  <2> HIDE DEF front, back
  <2>1. CASE j < i
    BY <1>0, <1>1, <1>4, <2>1
  <2>2. CASE ~(j < i)
    <3>1. (front \o back)[j] = back[j - (i - 1)]
      BY <1>0, <1>4, <2>2
    <3>2. back[j - (i - 1)] = s[i + (j - (i - 1))]
      BY <1>0, <1>2, <2>2
    <3>3. i + (j - (i - 1)) = j + 1
      BY <1>0
    <3> QED
      BY <2>2, <3>1, <3>2, <3>3
  <2> QED
    BY <2>1, <2>2
<1>6. (i - 1) + (Len(s) - i) = Len(s) - 1
  BY <1>0
<1> HIDE DEF front, back
<1> QED
  BY <1>3, <1>4, <1>5, <1>6

\* Of a line in which nobody stands twice, just the one that leaves is gone.
LEMMA RemoveAtMembers ==
    ASSUME NEW S, NEW s \in Seq(S), NEW i \in DOMAIN s,
           \A j, k \in DOMAIN s : s[j] = s[k] => j = k
    PROVE  /\ RemoveAt(s, i) \in Seq(S)
           /\ \A j, k \in DOMAIN RemoveAt(s, i) :
                 RemoveAt(s, i)[j] = RemoveAt(s, i)[k] => j = k
           /\ \A x \in S : (\E j \in DOMAIN RemoveAt(s, i) : RemoveAt(s, i)[j] = x)
                             <=> (\E j \in DOMAIN s : s[j] = x) /\ x # s[i]
<1>1. Len(s) \in Nat /\ DOMAIN s = 1..Len(s) /\ i \in 1..Len(s)
  BY LenProperties
<1>2. s \in Seq(S) /\ i \in 1..Len(s)
  BY <1>1
<1>3. /\ RemoveAt(s, i) \in Seq(S) /\ Len(RemoveAt(s, i)) = Len(s) - 1
      /\ \A j \in 1..(Len(s) - 1) :
            RemoveAt(s, i)[j] = IF j < i THEN s[j] ELSE s[j + 1]
  BY <1>2, RemoveAtElements, Zenon
<1> DEFINE r == RemoveAt(s, i)
<1>4. /\ r \in Seq(S) /\ Len(r) = Len(s) - 1
      /\ \A j \in 1..(Len(s) - 1) : r[j] = IF j < i THEN s[j] ELSE s[j + 1]
  BY <1>3
<1>5. DOMAIN r = 1..(Len(s) - 1)
  BY <1>4, LenProperties
<1> HIDE DEF r
<1>6. ASSUME NEW j \in DOMAIN r, NEW k \in DOMAIN r, r[j] = r[k]
      PROVE  j = k
  <2> DEFINE jj == IF j < i THEN j ELSE j + 1
             kk == IF k < i THEN k ELSE k + 1
  <2>1. jj \in DOMAIN s /\ kk \in DOMAIN s /\ s[jj] = s[kk]
    BY <1>1, <1>4, <1>5, <1>6
  <2>2. jj = kk
    BY <2>1
  <2> QED
    BY <1>1, <1>5, <2>2
<1>7. ASSUME NEW j \in DOMAIN r
      PROVE  /\ \E k \in DOMAIN s : s[k] = r[j]
             /\ r[j] # s[i]
  <2> DEFINE jj == IF j < i THEN j ELSE j + 1
  <2>1. jj \in DOMAIN s /\ jj # i /\ s[jj] = r[j]
    BY <1>1, <1>4, <1>5
  <2> QED
    BY <2>1
<1>8. ASSUME NEW j \in DOMAIN s, s[j] # s[i]
      PROVE  \E k \in DOMAIN r : r[k] = s[j]
  <2> DEFINE jj == IF j < i THEN j ELSE j - 1
  <2>1. jj \in DOMAIN r /\ r[jj] = s[j]
    BY <1>1, <1>4, <1>5, <1>8
  <2> QED
    BY <2>1
<1> QED
  BY <1>4, <1>6, <1>7, <1>8 DEF r

\* Who arrives at the end of a line is in it, once, with those that were.
LEMMA AppendMembers ==
    ASSUME NEW S, NEW s \in Seq(S), NEW e \in S,
           \A j, k \in DOMAIN s : s[j] = s[k] => j = k,
           \A j \in DOMAIN s : s[j] # e
    PROVE  /\ Append(s, e) \in Seq(S)
           /\ \A j, k \in DOMAIN Append(s, e) :
                 Append(s, e)[j] = Append(s, e)[k] => j = k
           /\ \A x \in S : (\E j \in DOMAIN Append(s, e) : Append(s, e)[j] = x)
                             <=> (\E j \in DOMAIN s : s[j] = x) \/ x = e
<1> DEFINE r == Append(s, e)
<1>1. Len(s) \in Nat /\ DOMAIN s = 1..Len(s)
  BY LenProperties
<1>2. /\ r \in Seq(S) /\ DOMAIN r = 1..(Len(s) + 1)
      /\ r[Len(s) + 1] = e
      /\ \A j \in 1..Len(s) : r[j] = s[j]
  BY <1>1, AppendProperties
<1> HIDE DEF r
<1>3. \A j \in DOMAIN r : j \in DOMAIN s \/ j = Len(s) + 1
  BY <1>1, <1>2
<1>4. DOMAIN s \subseteq DOMAIN r /\ Len(s) + 1 \in DOMAIN r
  BY <1>1, <1>2
<1> QED
  BY <1>1, <1>2, <1>3, <1>4, Zenon DEF r
=============================================================================
