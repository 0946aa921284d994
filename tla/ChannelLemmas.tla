---------------------------- MODULE ChannelLemmas ---------------------------
(***************************************************************************)
(* Facts about sequences used as channels, shared by the proofs.           *)
(***************************************************************************)
EXTENDS Wiring, SequenceTheorems, WellFoundedInduction, TLAPS

\* Every set of numbers has a least element.  Induction over data is done with
\* it: a statement about all numbers has no least counterexample.
LEMMA LeastNumber ==
    ASSUME NEW T \in SUBSET Nat, T # {}
    PROVE  \E x \in T : \A y \in T : x <= y
<1>1. IsWellFoundedOn(OpToRel(<, Nat), Nat)
  BY NatLessThanWellFounded
<1>2. PICK x \in T : \A y \in T : ~(<<y, x>> \in OpToRel(<, Nat))
  BY <1>1, WFMin
<1>3. \A y \in T : ~(y < x)
  BY <1>2 DEF OpToRel
<1> QED
  BY <1>3

\* Induction up to k, with the numbers it has been shown for as a set.
LEMMA CountUp ==
    ASSUME NEW k \in Nat, NEW Good, 0 \in Good, \A i \in 1..k : i - 1 \in Good => i \in Good
    PROVE  \A i \in 0..k : i \in Good
<1> DEFINE T == {j \in 0..k : j \notin Good}
<1> SUFFICES ASSUME T # {}
             PROVE  FALSE
  OBVIOUS
<1>0. T \in SUBSET Nat
  OBVIOUS
<1>1. PICK x \in T : \A y \in T : x <= y
  BY <1>0, LeastNumber
<1>2. x \in 1..k /\ x - 1 \in 0..k /\ ~(x <= x - 1)
  BY <1>1
<1> QED
  BY <1>1, <1>2

\* A bounded set of numbers has a greatest element.
LEMMA GreatestNumber ==
    ASSUME NEW k \in Nat, NEW T \in SUBSET (0..k), T # {}
    PROVE  \E x \in T : \A y \in T : y <= x
<1> DEFINE U == {k - y : y \in T}
<1>1. U \in SUBSET Nat /\ U # {}
  <2>1. \A y \in 0..k : k - y \in Nat
    OBVIOUS
  <2> QED
    BY <2>1
<1>2. PICK u \in U : \A v \in U : u <= v
  BY <1>1, LeastNumber
<1>3. PICK x \in T : u = k - x
  BY <1>2
<1>4. \A y \in T : k - x <= k - y
  BY <1>2, <1>3
<1> QED
  BY <1>3, <1>4

\* Receiving from a channel that is not empty.
LEMMA Receive ==
    ASSUME NEW S, NEW s \in Seq(S), s # <<>>
    PROVE  /\ Head(s) \in S
           /\ Tail(s) \in Seq(S)
           /\ Len(s) \in Nat
           /\ Len(Tail(s)) \in Nat
           /\ Len(Tail(s)) = Len(s) - 1
           /\ Len(Tail(s)) <= Len(s)
BY HeadTailProperties, LenProperties

\* Sending into a channel.
LEMMA Put ==
    ASSUME NEW S, NEW s \in Seq(S), NEW e \in S
    PROVE  /\ Append(s, e) \in Seq(S)
           /\ Len(s) \in Nat
           /\ Len(Append(s, e)) = Len(s) + 1
BY AppendProperties, LenProperties

\* Sending into a channel that is below its capacity.
LEMMA PutBelow ==
    ASSUME NEW S, NEW s \in Seq(S), NEW e \in S, NEW k \in Nat, Len(s) < k
    PROVE  /\ Append(s, e) \in Seq(S)
           /\ Len(Append(s, e)) <= k
BY Put

\* A bounded send keeps the type of the channel and its capacity.
LEMMA PutInRoom ==
    ASSUME NEW S, NEW s \in Seq(S), NEW e \in S, HasRoom(s)
    PROVE  /\ Append(s, e) \in Seq(S)
           /\ Len(Append(s, e)) <= INTERMOD_CHANNEL_CAPACITY
BY PutBelow, WiringAssumption DEF HasRoom

\* So does try_send, which drops what does not fit.
LEMMA TrySendKeeps ==
    ASSUME NEW S, NEW s \in Seq(S), NEW e \in S, Len(s) <= INTERMOD_CHANNEL_CAPACITY
    PROVE  /\ TrySend(s, e) \in Seq(S)
           /\ Len(TrySend(s, e)) <= INTERMOD_CHANNEL_CAPACITY
BY PutInRoom DEF TrySend

\* What a channel holds after a send.
LEMMA HasAfterPut ==
    ASSUME NEW S, NEW s \in Seq(S), NEW e \in S, NEW x
    PROVE  Has(Append(s, e), x) <=> Has(s, x) \/ x = e
<1>1. /\ Len(s) \in Nat /\ DOMAIN s = 1..Len(s)
      /\ Append(s, e) \in Seq(S) /\ Len(Append(s, e)) = Len(s) + 1
      /\ DOMAIN Append(s, e) = 1..(Len(s) + 1)
      /\ \A i \in 1..Len(s) : Append(s, e)[i] = s[i]
      /\ Append(s, e)[Len(s) + 1] = e
  BY AppendProperties, LenProperties
<1>2. \A i \in 1..(Len(s) + 1) : i \in 1..Len(s) \/ i = Len(s) + 1
  BY <1>1
<1>3. 1..Len(s) \subseteq 1..(Len(s) + 1) /\ Len(s) + 1 \in 1..(Len(s) + 1)
  BY <1>1
<1> QED
  BY <1>1, <1>2, <1>3 DEF Has

\* What it holds before and after a receive.
LEMMA HasAfterReceive ==
    ASSUME NEW S, NEW s \in Seq(S), s # <<>>, NEW x
    PROVE  /\ Has(Tail(s), x) => Has(s, x)
           /\ Has(s, x) => Has(Tail(s), x) \/ x = Head(s)
           /\ Has(s, Head(s))
<1>1. /\ Len(s) \in Nat \ {0} /\ DOMAIN s = 1..Len(s)
      /\ DOMAIN Tail(s) = 1..(Len(s) - 1)
      /\ \A i \in 1..(Len(s) - 1) : Tail(s)[i] = s[i + 1]
      /\ Head(s) = s[1]
  BY HeadTailProperties, LenProperties, EmptySeq
<1>2. \A i \in 1..(Len(s) - 1) : i + 1 \in 1..Len(s)
  BY <1>1
<1>3. \A i \in 1..Len(s) : i = 1 \/ (i - 1 \in 1..(Len(s) - 1) /\ s[i] = Tail(s)[i - 1])
  BY <1>1
<1>4. 1 \in 1..Len(s)
  BY <1>1
<1> QED
  BY <1>1, <1>2, <1>3, <1>4 DEF Has
=============================================================================
