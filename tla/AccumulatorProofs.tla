-------------------------- MODULE AccumulatorProofs ---------------------------
(***************************************************************************)
(* For the widths of the code only the sample count can overflow, and an   *)
(* error of push never leaves a sample half counted: the ones are at most  *)
(* the bits (AInv), which fit whenever the count does.  A snapshot is that *)
(* of exactly the accepted samples: the totals are their number and their  *)
(* sum, by induction on the sequence of them.                              *)
(***************************************************************************)
EXTENDS Accumulator, SequenceTheorems, WellFoundedInduction, TLAPS

-----------------------------------------------------------------------------
(* Induction, and the sum of a sequence *)

(* The library's order of the naturals, as a relation *)
Below == {p \in Nat \X Nat : p[1] < p[2]}

(* Induction over the naturals, of a set: the library's theorems state it of *)
(* an operator; here it is the least number that is not in the set.          *)
LEMMA NatInductionSet ==
  ASSUME NEW S, 0 \in S, \A n \in Nat : n \in S => n + 1 \in S
  PROVE  Nat \subseteq S
<1>1. IsWellFoundedOn(Below, Nat)
  <2>1. Below = OpToRel(<, Nat)
    BY Zenon DEF Below, OpToRel
  <2> QED
    BY <2>1, NatLessThanWellFounded, Zenon
<1> SUFFICES ASSUME Nat \ S # {}
             PROVE  FALSE
  OBVIOUS
<1>2. PICK n \in Nat \ S : \A m \in Nat \ S : ~ (<<m, n>> \in Below)
  BY <1>1, WFMin, Zenon
<1>3. n \in Nat /\ n # 0 /\ n - 1 \in Nat /\ (n - 1) + 1 = n
  BY <1>2
<1>4. <<n - 1, n>> \in Below
  BY <1>3 DEF Below
<1>5. n - 1 \in S
  BY <1>2, <1>3, <1>4, Zenon
<1> QED
  BY <1>2, <1>3, <1>5

(* What SnapshotIsExact says of the ones *)
Sum(seq) == FoldLeft(LAMBDA sum, ones : sum + ones, 0, seq)

(* g is the recursive function within the fold, over the subsets of D *)
Adds(g, seq, D) ==
  g = [s \in SUBSET D |->
         IF s = {} THEN 0 ELSE g[s \ {Max(s)}] + seq[Max(s)]]

(* The sum is the value of the fold's function at all positions.             *)
LEMMA SumDef ==
  ASSUME NEW seq
  PROVE  Sum(seq) = (CHOOSE g : Adds(g, seq, DOMAIN seq))[DOMAIN seq]
  BY Zenon DEF Sum, FoldLeft, MapThenFoldSet, Adds

(* The step of the fold goes to the last of the positions it is given.       *)
LEMMA MaxIs ==
  ASSUME NEW n \in Nat, NEW s \in SUBSET (1 .. n), n \in s
  PROVE  Max(s) = n
<1>1. \A x \in s : n >= x
  OBVIOUS
<1>2. \A x \in s : (\A y \in s : x >= y) => x = n
  OBVIOUS
<1> QED
  BY <1>1, <1>2 DEF Max

(* The function within the fold exists: by induction on the length.          *)
LEMMA AddsExists ==
  ASSUME NEW seq
  PROVE  \A n \in Nat : \E g : Adds(g, seq, 1 .. n)
<1> DEFINE S == {n \in Nat : \E g : Adds(g, seq, 1 .. n)}
<1>1. 0 \in S
  <2> DEFINE g == [s \in SUBSET (1 .. 0) |-> 0]
  <2>1. \A s \in SUBSET (1 .. 0) : s = {}
    OBVIOUS
  <2>2. Adds(g, seq, 1 .. 0)
    BY <2>1, Zenon DEF Adds
  <2> QED
    BY <2>2, 0 \in Nat, Zenon
<1>2. ASSUME NEW n \in Nat, n \in S
      PROVE  n + 1 \in S
  <2>1. PICK g : Adds(g, seq, 1 .. n)
    BY <1>2, Zenon
  <2> DEFINE h == [s \in SUBSET (1 .. (n + 1)) |->
                     IF n + 1 \in s THEN g[s \ {n + 1}] + seq[n + 1] ELSE g[s]]
             Step(s) == IF s = {} THEN 0 ELSE h[s \ {Max(s)}] + seq[Max(s)]
  <2>2. ASSUME NEW s \in SUBSET (1 .. (n + 1))
        PROVE  h[s] = Step(s)
    <3>1. CASE n + 1 \in s
      <4>1. Max(s) = n + 1
        BY <3>1, MaxIs, n + 1 \in Nat
      <4>2. s \ {n + 1} \in SUBSET (1 .. (n + 1)) /\ ~(n + 1 \in s \ {n + 1})
        OBVIOUS
      <4>3. h[s \ {n + 1}] = g[s \ {n + 1}]
        BY <4>2, Zenon
      <4>4. h[s] = g[s \ {n + 1}] + seq[n + 1]
        BY <3>1, Zenon
      <4> HIDE DEF h
      <4> QED
        BY <3>1, <4>1, <4>3, <4>4
    <3>2. CASE ~(n + 1 \in s)
      <4>1. s \in SUBSET (1 .. n)
        BY <3>2
      <4>2. h[s] = g[s]
        BY <3>2, Zenon
      <4>3. g[s] = IF s = {} THEN 0 ELSE g[s \ {Max(s)}] + seq[Max(s)]
        BY <2>1, <4>1, Zenon DEF Adds
      <4>4. h[s \ {Max(s)}] = g[s \ {Max(s)}]
        <5>1. s \ {Max(s)} \in SUBSET (1 .. (n + 1)) /\ ~(n + 1 \in s \ {Max(s)})
          BY <3>2, <4>1, Zenon
        <5> QED
          BY <5>1, Zenon
      <4> HIDE DEF h
      <4> QED
        BY <4>2, <4>3, <4>4
    <3> QED
      BY <3>1, <3>2
  <2>3. h = [s \in SUBSET (1 .. (n + 1)) |-> Step(s)]
    BY <2>2, Zenon
  <2>4. Adds(h, seq, 1 .. (n + 1))
    BY <2>3, Zenon DEF Adds
  <2> QED
    BY <2>4, n + 1 \in Nat, Zenon
<1> HIDE DEF S
<1>3. Nat \subseteq S
  BY <1>1, <1>2, NatInductionSet, Zenon
<1> QED
  BY <1>3 DEF S

(* Its value at a prefix is that at the prefix before, and one element.      *)
LEMMA AddsPrefix ==
  ASSUME NEW seq, NEW n \in Nat, NEW g, Adds(g, seq, 1 .. n), NEW k \in 0 .. n
  PROVE  g[1 .. k] = IF k = 0 THEN 0 ELSE g[1 .. (k - 1)] + seq[k]
<1>1. 1 .. k \in SUBSET (1 .. n)
  OBVIOUS
<1>2. g[1 .. k] = IF 1 .. k = {} THEN 0
                  ELSE g[(1 .. k) \ {Max(1 .. k)}] + seq[Max(1 .. k)]
  BY <1>1, Zenon DEF Adds
<1>3. CASE k = 0
  <2>1. 1 .. k = {}
    BY <1>3
  <2> QED
    BY <1>2, <1>3, <2>1
<1>4. CASE k # 0
  <2>1. k \in 1 .. k /\ k \in Nat
    BY <1>4
  <2>2. Max(1 .. k) = k
    BY <2>1, MaxIs
  <2>3. (1 .. k) \ {k} = 1 .. (k - 1)
    <3>1. k \in Nat
      OBVIOUS
    <3>2. \A x \in 1 .. k : x # k => x \in 1 .. (k - 1)
      BY <3>1
    <3>3. \A x \in 1 .. (k - 1) : x \in 1 .. k /\ x # k
      BY <3>1
    <3> QED
      BY <3>2, <3>3, Zenon
  <2>4. 1 .. k # {}
    BY <2>1, Zenon
  <2> QED
    BY <1>2, <1>4, <2>2, <2>3, <2>4
<1> QED
  BY <1>3, <1>4

(* The sum of a sequence is the value of such a function.                    *)
LEMMA SumOf ==
  ASSUME NEW S, NEW seq \in Seq(S)
  PROVE  \E g : Adds(g, seq, 1 .. Len(seq)) /\ Sum(seq) = g[1 .. Len(seq)]
<1>1. Len(seq) \in Nat /\ DOMAIN seq = 1 .. Len(seq)
  OBVIOUS
<1>2. \E g : Adds(g, seq, DOMAIN seq)
  BY <1>1, AddsExists, Zenon
<1>3. Adds(CHOOSE g : Adds(g, seq, DOMAIN seq), seq, DOMAIN seq)
  BY <1>2, Zenon
<1> QED
  BY <1>1, <1>3, SumDef, Zenon

(* No samples, no ones.                                                      *)
LEMMA SumEmpty == Sum(<<>>) = 0
<1>1. <<>> \in Seq({}) /\ Len(<<>>) = 0 /\ 0 \in 0 .. 0
  OBVIOUS
<1>2. PICK g : Adds(g, <<>>, 1 .. 0) /\ Sum(<<>>) = g[1 .. 0]
  BY <1>1, SumOf
<1> QED
  BY <1>1, <1>2, AddsPrefix

(* One more sample adds its ones: the functions of the two folds agree on    *)
(* the prefixes they share.                                                  *)
LEMMA SumAppend ==
  ASSUME NEW S, NEW seq \in Seq(S), NEW e \in S
  PROVE  Sum(Append(seq, e)) = Sum(seq) + e
<1> DEFINE n == Len(seq)
           more == Append(seq, e)
<1>1. n \in Nat /\ n + 1 \in Nat
  OBVIOUS
<1>2. more \in Seq(S) /\ Len(more) = n + 1 /\ more[n + 1] = e
      /\ \A k \in 1 .. n : more[k] = seq[k]
  BY AppendProperties
<1> HIDE DEF more
<1>3. PICK g : Adds(g, seq, 1 .. n) /\ Sum(seq) = g[1 .. n]
  BY SumOf
<1>4. PICK h : Adds(h, more, 1 .. (n + 1)) /\ Sum(more) = h[1 .. (n + 1)]
  BY <1>2, SumOf
<1> HIDE DEF n
<1> DEFINE A == {k \in Nat : k <= n => g[1 .. k] = h[1 .. k]}
<1>5. 0 \in A
  <2>1. g[1 .. 0] = 0
    BY <1>1, <1>3, AddsPrefix, 0 \in 0 .. n
  <2>2. h[1 .. 0] = 0
    BY <1>1, <1>4, AddsPrefix, 0 \in 0 .. (n + 1)
  <2> QED
    BY <2>1, <2>2
<1>6. ASSUME NEW k \in Nat, k \in A
      PROVE  k + 1 \in A
  <2> SUFFICES ASSUME k + 1 <= n
               PROVE  g[1 .. (k + 1)] = h[1 .. (k + 1)]
    OBVIOUS
  <2>1. k + 1 \in 0 .. n /\ k + 1 \in 0 .. (n + 1) /\ k + 1 # 0 /\ (k + 1) - 1 = k
        /\ k + 1 \in 1 .. n /\ k <= n
    BY <1>1
  <2>2. g[1 .. (k + 1)] = g[1 .. k] + seq[k + 1]
    BY <1>1, <1>3, <2>1, AddsPrefix
  <2>3. h[1 .. (k + 1)] = h[1 .. k] + more[k + 1]
    BY <1>1, <1>4, <2>1, AddsPrefix
  <2>4. g[1 .. k] = h[1 .. k]
    BY <1>6, <2>1
  <2> QED
    BY <1>2, <2>1, <2>2, <2>3, <2>4
<1> HIDE DEF A
<1>7. n \in A
  BY <1>1, <1>5, <1>6, NatInductionSet
<1>8. g[1 .. n] = h[1 .. n]
  BY <1>1, <1>7 DEF A
<1>9. h[1 .. (n + 1)] = h[1 .. n] + more[n + 1]
  <2>1. n + 1 \in 0 .. (n + 1) /\ n + 1 # 0 /\ (n + 1) - 1 = n
    BY <1>1
  <2> QED
    BY <1>1, <1>4, <2>1, AddsPrefix
<1> QED
  BY <1>2, <1>3, <1>4, <1>8, <1>9 DEF more
-----------------------------------------------------------------------------
(* The accumulator *)

OnesAreBits == total <= count * SampleBits

(* the totals are those of the samples push returned Ok for *)
TotalsAreExact == count = Len(counted) /\ total = Sum(counted)

(* SnapshotIsExact, by that name for the sum *)
AnswerIsExact ==
  ret.kind = "ok" =>
    ret = [kind |-> "ok", samples |-> Len(counted), bits |-> Len(counted) * SampleBits,
           ones |-> Sum(counted)]

AInv == TypeOK /\ OnesAreBits /\ TotalsAreExact /\ AnswerIsExact

LEMMA BitsFit ==
  ASSUME NEW n \in 0 .. CountMax
  PROVE  n * SampleBits \in 0 .. TotalMax
<1>1. n * SampleBits <= CountMax * SampleBits /\ n * SampleBits \in Nat
  BY WidthsAssumption
<1>2. CountMax * SampleBits \in Nat
  BY WidthsAssumption
<1> QED
  BY <1>1, <1>2, WidthsAssumption

LEMMA OneMore ==
  ASSUME NEW n \in Nat
  PROVE  (n + 1) * SampleBits = n * SampleBits + SampleBits
  BY WidthsAssumption

(* A snapshot stays in the widths of its totals.                             *)
LEMMA SnapshotType ==
  ASSUME NEW n \in 0 .. CountMax, NEW c \in 0 .. TotalMax
  PROVE  SnapshotOf(n, c) \in [kind : {"ok", "error"}, samples : 0 .. CountMax,
                               bits : 0 .. TotalMax, ones : 0 .. TotalMax]
<1>1. n * SampleBits \in 0 .. TotalMax /\ 0 \in 0 .. CountMax /\ 0 \in 0 .. TotalMax
  BY BitsFit, WidthsAssumption
<1> QED
  BY <1>1 DEF SnapshotOf, Error

(* The snapshot of some samples whose bits fit is no error.                  *)
LEMMA SnapshotGiven ==
  ASSUME NEW n \in 1 .. CountMax, NEW c \in 0 .. TotalMax
  PROVE  SnapshotOf(n, c).kind = "ok"
<1>1. n * SampleBits <= TotalMax /\ n # 0
  BY BitsFit
<1> QED
  BY <1>1 DEF SnapshotOf

(* What a push does, if nothing but the count can overflow.                  *)
LEMMA PushFacts ==
  ASSUME AInv, NEW ones \in 0 .. SampleBits + 1, Push(ones)
  PROVE  \/ ret' = Error /\ UNCHANGED <<count, total, counted>>
         \/ /\ ones <= SampleBits /\ count + 1 \in 1 .. CountMax
            /\ count' = count + 1 /\ total' = total + ones
            /\ total + ones \in 0 .. TotalMax
            /\ total + ones <= (count + 1) * SampleBits
            /\ ret' = SnapshotOf(count + 1, total + ones)
            /\ counted' = Append(counted, ones)
<1>1. CASE ones > SampleBits \/ count = CountMax
  BY <1>1 DEF Push, Error
<1>2. CASE ~(ones > SampleBits \/ count = CountMax)
  <2>1. ones \in 0 .. SampleBits /\ count + 1 \in 1 .. CountMax
        /\ count \in Nat /\ total \in Nat
    BY <1>2, WidthsAssumption DEF AInv, TypeOK
  <2>2. total + ones <= (count + 1) * SampleBits
    <3>1. (count + 1) * SampleBits = count * SampleBits + SampleBits
      BY <2>1, OneMore
    <3>2. count * SampleBits \in Nat
      BY <2>1, WidthsAssumption
    <3> QED
      BY <2>1, <3>1, <3>2, WidthsAssumption DEF AInv, OnesAreBits
  <2>3. (count + 1) * SampleBits \in 0 .. TotalMax
    <3>1. count + 1 \in 0 .. CountMax
      BY <2>1
    <3> QED
      BY <3>1, BitsFit
  <2>4. total + ones \in 0 .. TotalMax
    BY <2>1, <2>2, <2>3, WidthsAssumption
  <2>5. count' = count + 1 /\ total' = total + ones
        /\ ret' = SnapshotOf(count + 1, total + ones)
    BY <1>2, <2>4 DEF Push
  <2>6. ret'.kind = "ok"
    BY <2>1, <2>4, <2>5, SnapshotGiven
  <2>7. counted' = Append(counted, ones)
    BY <2>6 DEF Push
  <2> QED
    BY <2>1, <2>2, <2>4, <2>5, <2>7
<1> QED
  BY <1>1, <1>2

(* A snapshot that is no error says the totals it is made of.                *)
LEMMA SnapshotSays ==
  ASSUME NEW n, NEW c, SnapshotOf(n, c).kind = "ok"
  PROVE  SnapshotOf(n, c) = [kind |-> "ok", samples |-> n, bits |-> n * SampleBits, ones |-> c]
  BY DEF SnapshotOf, Error

(* What a snapshot of exact totals says is exact.                            *)
LEMMA SnapshotOfExact ==
  ASSUME TotalsAreExact', ret' = SnapshotOf(count', total') \/ ret' = Error
  PROVE  AnswerIsExact'
<1>1. ret'.kind = "ok" =>
        ret' = [kind |-> "ok", samples |-> count', bits |-> count' * SampleBits,
                ones |-> total']
  <2>1. CASE ret' = Error
    BY <2>1 DEF Error
  <2>2. CASE ret' = SnapshotOf(count', total')
    BY <2>2, SnapshotSays
  <2> QED
    BY <2>1, <2>2
<1>2. count' = Len(counted') /\ total' = Sum(counted')
  BY DEF TotalsAreExact
<1> QED
  BY <1>1, <1>2 DEF AnswerIsExact

LEMMA AccInit == Init => AInv
<1> SUFFICES ASSUME Init
             PROVE  AInv
  OBVIOUS
<1>1. <<>> \in Seq(0 .. SampleBits)
  BY EmptySeq
<1>2. 0 \in 0 .. CountMax /\ 0 \in 0 .. TotalMax /\ 0 <= 0 * SampleBits
  BY WidthsAssumption
<1>3. TotalsAreExact
  BY SumEmpty DEF Init, TotalsAreExact
<1>4. AnswerIsExact
  BY DEF Init, Error, AnswerIsExact
<1> QED
  BY <1>1, <1>2, <1>3, <1>4 DEF Init, AInv, TypeOK, OnesAreBits, Error

LEMMA AccStep == AInv /\ [Next]_vars => AInv'
<1> SUFFICES ASSUME AInv, [Next]_vars
             PROVE  AInv'
  OBVIOUS
<1> USE DEF AInv
<1>1. ASSUME NEW ones \in 0 .. SampleBits + 1, Push(ones)
      PROVE  AInv'
  <2>1. CASE ret' = Error /\ UNCHANGED <<count, total, counted>>
    <3>1. Error \in [kind : {"ok", "error"}, samples : 0 .. CountMax,
                     bits : 0 .. TotalMax, ones : 0 .. TotalMax]
      BY WidthsAssumption DEF Error
    <3>2. TotalsAreExact'
      BY <2>1 DEF TotalsAreExact
    <3>3. AnswerIsExact'
      BY <2>1, <3>2, SnapshotOfExact
    <3> QED
      BY <2>1, <3>1, <3>2, <3>3 DEF TypeOK, OnesAreBits
  <2>2. CASE /\ ones <= SampleBits /\ count + 1 \in 1 .. CountMax
             /\ count' = count + 1 /\ total' = total + ones
             /\ total + ones \in 0 .. TotalMax
             /\ total + ones <= (count + 1) * SampleBits
             /\ ret' = SnapshotOf(count + 1, total + ones)
             /\ counted' = Append(counted, ones)
    <3>1. count' \in 0 .. CountMax /\ total' \in 0 .. TotalMax /\ ones \in 0 .. SampleBits
      BY <2>2, WidthsAssumption
    <3>2. ret' \in [kind : {"ok", "error"}, samples : 0 .. CountMax,
                    bits : 0 .. TotalMax, ones : 0 .. TotalMax]
      BY <2>2, <3>1, SnapshotType
    <3>3. counted' \in Seq(0 .. SampleBits)
      BY <2>2, <3>1, AppendProperties DEF TypeOK
    <3>4. TypeOK'
      BY <3>1, <3>2, <3>3 DEF TypeOK
    <3>5. TotalsAreExact'
      <4>1. Sum(Append(counted, ones)) = Sum(counted) + ones
        BY <3>1, SumAppend DEF TypeOK
      <4>2. Len(Append(counted, ones)) = Len(counted) + 1
        BY <3>1, AppendProperties DEF TypeOK
      <4> QED
        BY <2>2, <4>1, <4>2 DEF TotalsAreExact
    <3>6. AnswerIsExact'
      BY <2>2, <3>5, SnapshotOfExact
    <3> QED
      BY <2>2, <3>4, <3>5, <3>6 DEF OnesAreBits
  <2> QED
    BY <1>1, <2>1, <2>2, PushFacts
<1>2. CASE Snapshot
  <2>1. SnapshotOf(count, total) \in [kind : {"ok", "error"}, samples : 0 .. CountMax,
                                      bits : 0 .. TotalMax, ones : 0 .. TotalMax]
    BY SnapshotType DEF TypeOK
  <2>2. TotalsAreExact'
    BY <1>2 DEF Snapshot, TotalsAreExact
  <2>3. AnswerIsExact'
    BY <1>2, <2>2, SnapshotOfExact DEF Snapshot
  <2> QED
    BY <1>2, <2>1, <2>2, <2>3 DEF Snapshot, TypeOK, OnesAreBits
<1>3. CASE UNCHANGED vars
  BY <1>3 DEF vars, TypeOK, OnesAreBits, TotalsAreExact, AnswerIsExact
<1> QED
  BY <1>1, <1>2, <1>3 DEF Next

LEMMA AccInvariant == Spec => []AInv
  BY AccInit, AccStep, PTL DEF Spec

(* The totals never leave their widths.                                      *)
THEOREM AccumulatorTypes == Spec => []TypeOK
<1>1. AInv => TypeOK
  BY DEF AInv
<1> QED
  BY <1>1, AccInvariant, PTL

(* A snapshot is that of a batch of exactly the accepted samples.            *)
THEOREM SnapshotsAreExact == Spec => []SnapshotIsExact
<1>1. AInv => SnapshotIsExact
  <2>1. AnswerIsExact => SnapshotIsExact
    BY Zenon DEF AnswerIsExact, SnapshotIsExact, Sum, FoldLeft, MapThenFoldSet
  <2> QED
    BY <2>1 DEF AInv
<1> QED
  BY <1>1, AccInvariant, PTL

(* No error of push or snapshot changes what is counted.                     *)
THEOREM ErrorsCountNothing == Spec => ErrorCountsNothing
<1>1. AInv /\ [Next]_vars => [ret'.kind = "error" => UNCHANGED <<count, total>>]_vars
  <2> SUFFICES ASSUME AInv, Next, ret'.kind = "error"
               PROVE  UNCHANGED <<count, total>>
    OBVIOUS
  <2>1. ASSUME NEW ones \in 0 .. SampleBits + 1, Push(ones)
        PROVE  UNCHANGED <<count, total>>
    <3>1. SUFFICES ASSUME /\ count + 1 \in 1 .. CountMax
                          /\ total + ones \in 0 .. TotalMax
                          /\ ret' = SnapshotOf(count + 1, total + ones)
                   PROVE  FALSE
      BY <2>1, PushFacts
    <3>2. ret'.kind = "ok"
      BY <3>1, SnapshotGiven
    <3> QED
      BY <3>2
  <2>2. CASE Snapshot
    BY <2>2 DEF Snapshot
  <2> QED
    BY <2>1, <2>2 DEF Next
<1> QED
  BY <1>1, AccInvariant, PTL DEF Spec, ErrorCountsNothing

=============================================================================
