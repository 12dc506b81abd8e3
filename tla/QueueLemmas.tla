---------------------------- MODULE QueueLemmas -----------------------------
(***************************************************************************)
(* Facts about sequences used as queues, and about least elements, for the *)
(* proofs about the other modules.                                         *)
(***************************************************************************)
EXTENDS Functions, FiniteSetsExt, SequenceTheorems, WellFoundedInduction, TLAPS

-----------------------------------------------------------------------------
(* What appending to, taking from and cutting a queue does to the set of   *)
(* its elements and to their being distinct.                               *)

LEMMA RangeAppend ==
    ASSUME NEW S, NEW s \in Seq(S), NEW e \in S
    PROVE  /\ Append(s, e) \in Seq(S)
           /\ Range(Append(s, e)) = Range(s) \cup {e}
           /\ IsInjective(s) /\ e \notin Range(s) => IsInjective(Append(s, e))
<1> DEFINE t == Append(s, e)
<1>1. t \in Seq(S) /\ DOMAIN t = 1..Len(s) + 1 /\ DOMAIN s = 1..Len(s)
  OBVIOUS
<1>2. t[Len(s) + 1] = e /\ \A i \in 1..Len(s) : t[i] = s[i]
  OBVIOUS
<1>3. Len(s) \in Nat
  OBVIOUS
<1> HIDE DEF t
<1>4. Range(t) = Range(s) \cup {e}
  BY <1>1, <1>2, <1>3 DEF Range
<1>5. IsInjective(s) /\ e \notin Range(s) => IsInjective(t)
  BY <1>1, <1>2, <1>3 DEF Range, IsInjective
<1> QED
  BY <1>1, <1>4, <1>5 DEF t

LEMMA RangeTail ==
    ASSUME NEW S, NEW s \in Seq(S), s # <<>>
    PROVE  /\ Head(s) \in S
           /\ Tail(s) \in Seq(S)
           /\ Len(Tail(s)) = Len(s) - 1
           /\ Range(s) = {Head(s)} \cup Range(Tail(s))
           /\ IsInjective(s) => IsInjective(Tail(s)) /\ Head(s) \notin Range(Tail(s))
<1> DEFINE t == Tail(s)
<1>1. Head(s) \in S /\ Head(s) = s[1] /\ t \in Seq(S)
  OBVIOUS
<1>2. /\ Len(s) \in Nat \ {0} /\ Len(t) = Len(s) - 1
      /\ DOMAIN t = 1..Len(s) - 1 /\ DOMAIN s = 1..Len(s)
  OBVIOUS
<1>3. \A i \in 1..Len(s) - 1 : t[i] = s[i + 1]
  OBVIOUS
<1> HIDE DEF t
<1>4. Range(s) = {Head(s)} \cup Range(t)
  <2>1. Range(t) \subseteq Range(s) /\ Head(s) \in Range(s)
    BY <1>1, <1>2, <1>3 DEF Range
  <2>2. ASSUME NEW i \in 1..Len(s)
        PROVE  s[i] \in {Head(s)} \cup Range(t)
    <3>1. CASE i = 1
      BY <3>1, <1>1
    <3>2. CASE i # 1
      <4>1. i - 1 \in DOMAIN t /\ t[i - 1] = s[i]
        BY <3>2, <1>2, <1>3
      <4> QED
        BY <4>1 DEF Range
    <3> QED
      BY <3>1, <3>2
  <2> QED
    BY <2>1, <2>2, <1>2 DEF Range
<1>5. IsInjective(s) => IsInjective(t) /\ Head(s) \notin Range(t)
  <2> SUFFICES ASSUME IsInjective(s)
               PROVE  IsInjective(t) /\ Head(s) \notin Range(t)
    OBVIOUS
  <2>1. ASSUME NEW i \in DOMAIN t, NEW k \in DOMAIN t, t[i] = t[k]
        PROVE  i = k
    <3>1. /\ i + 1 \in DOMAIN s /\ k + 1 \in DOMAIN s
          /\ s[i + 1] = s[k + 1] /\ i \in Nat /\ k \in Nat
      BY <2>1, <1>2, <1>3
    <3>2. i + 1 = k + 1
      BY <3>1 DEF IsInjective
    <3> QED
      BY <3>1, <3>2
  <2>2. ASSUME NEW i \in DOMAIN t
        PROVE  t[i] # Head(s)
    <3>1. /\ i + 1 \in DOMAIN s /\ 1 \in DOMAIN s
          /\ i + 1 # 1 /\ t[i] = s[i + 1]
      BY <1>2, <1>3
    <3> QED
      BY <3>1, <1>1 DEF IsInjective
  <2> QED
    BY <2>1, <2>2 DEF Range, IsInjective
<1> QED
  BY <1>1, <1>2, <1>4, <1>5 DEF t

LEMMA RangePrefix ==
    ASSUME NEW S, NEW s \in Seq(S), NEW m \in 0..Len(s)
    PROVE  /\ SubSeq(s, 1, m) \in Seq(S)
           /\ Len(SubSeq(s, 1, m)) = m
           /\ Range(SubSeq(s, 1, m)) \subseteq Range(s)
           /\ IsInjective(s) => IsInjective(SubSeq(s, 1, m))
  BY DEF Range, IsInjective

(* The same for the wire, the concatenation of what is under way to the    *)
(* client and to the node and of the frame the writer is about to write.   *)
LEMMA WireServe ==
    ASSUME NEW S, NEW a \in Seq(S), NEW b \in Seq(S), NEW c \in Seq(S), b # <<>>
    PROVE  a \o b \o c = Append(a, Head(b)) \o Tail(b) \o c
  OBVIOUS

LEMMA WireRead ==
    ASSUME NEW S, NEW a \in Seq(S), NEW b \in Seq(S), NEW c \in Seq(S), a # <<>>
    PROVE  Tail(a \o b \o c) = Tail(a) \o b \o c
  OBVIOUS

LEMMA WirePush ==
    ASSUME NEW S, NEW a \in Seq(S), NEW b \in Seq(S), NEW e \in S
    PROVE  Append(a \o b \o <<>>, e) = a \o b \o <<e>>
  OBVIOUS

LEMMA WireWrite ==
    ASSUME NEW S, NEW a \in Seq(S), NEW b \in Seq(S), NEW e \in S
    PROVE  a \o b \o <<e>> = a \o Append(b, e) \o <<>>
  OBVIOUS

LEMMA WirePrefix ==
    ASSUME NEW S, NEW a \in Seq(S), NEW b \in Seq(S), NEW c \in Seq(S)
    PROVE  /\ a \o b \o c \in Seq(S)
           /\ Len(a \o b \o c) = Len(a) + Len(b) + Len(c)
           /\ a = SubSeq(a \o b \o c, 1, Len(a))
  OBVIOUS

LEMMA PrefixTail ==
    ASSUME NEW S, NEW s \in Seq(S), NEW m \in 1..Len(s)
    PROVE  /\ Head(SubSeq(s, 1, m)) = Head(s)
           /\ Tail(SubSeq(s, 1, m)) = SubSeq(Tail(s), 1, m - 1)
  OBVIOUS

LEMMA PrefixAppend ==
    ASSUME NEW S, NEW s \in Seq(S), NEW e \in S, NEW m \in 0..Len(s)
    PROVE  SubSeq(Append(s, e), 1, m) = SubSeq(s, 1, m)
  OBVIOUS

LEMMA PrefixPrefix ==
    ASSUME NEW S, NEW s \in Seq(S), NEW m \in 0..Len(s), NEW k \in 0..m
    PROVE  SubSeq(SubSeq(s, 1, m), 1, k) = SubSeq(s, 1, k)
  OBVIOUS
-----------------------------------------------------------------------------
(* A set of natural numbers has a least element: Min is one of them.       *)
LEMMA MinIsLeast ==
    ASSUME NEW S \in SUBSET Nat, S # {}
    PROVE  Min(S) \in S /\ \A y \in S : Min(S) <= y
<1> DEFINE R == OpToRel(<, Nat)
<1>1. PICK x \in S : \A y \in S : <<y, x>> \notin R
  BY NatLessThanWellFounded, WFMin
<1>2. ASSUME NEW y \in S
      PROVE  x <= y
  <2>1. x \in Nat /\ y \in Nat /\ (y < x => <<y, x>> \in Nat \X Nat)
    OBVIOUS
  <2>2. y < x => <<y, x>> \in R
    BY <2>1 DEF OpToRel
  <2> HIDE DEF R
  <2> QED
    BY <1>1, <2>1, <2>2
<1> QED
  BY <1>2 DEF Min
=============================================================================
