----------------------------- MODULE SourcesProofs -----------------------------
(* Proofs about Naming and Sources. *)
EXTENDS Sources, TLAPS, FiniteSetTheorems, SequenceTheorems

-----------------------------------------------------------------------------
(* Names *)

LEMMA Numerals ==
  ASSUME NEW text \in Texts, NEW n \in Nat
  PROVE  Number(text, n) \in Token
BY DEF Number, Token

LEMMA Letters ==
  /\ "T" \in Texts /\ "s" \in Texts /\ "i" \in Texts /\ "f" \in Texts
  /\ Concat \in Token
BY NamingAssumption DEF Concat, Word, Token

LEMMA StemTokens ==
  ASSUME NEW stem \in Stem
  PROVE  /\ Number("T", stem.start) \in Token /\ stem.source \in Token
         /\ Number("s", stem.bits) \in Token /\ Number("i", stem.interval) \in Token
         /\ stem.fold # NoFold => Number("f", stem.fold) \in Token
         /\ Concat \in Token
<1>1. /\ stem.start \in Nat /\ stem.source \in Token /\ stem.bits \in Nat
      /\ stem.interval \in Nat /\ (stem.fold # NoFold => stem.fold \in Nat)
  BY DEF Stem
<1>2. Number("T", stem.start) \in Token
  BY <1>1, Numerals, Letters
<1>3. Number("s", stem.bits) \in Token
  BY <1>1, Numerals, Letters
<1>4. Number("i", stem.interval) \in Token
  BY <1>1, Numerals, Letters
<1>5. stem.fold # NoFold => Number("f", stem.fold) \in Token
  BY <1>1, Numerals, Letters
<1>6. QED BY <1>1, <1>2, <1>3, <1>4, <1>5, Letters

(* A rendered name, token by token. *)
LEMMA SessionTokens ==
  ASSUME NEW stem \in Stem, NEW name, name = RenderSession(stem)
  PROVE  /\ name \in Seq(Token)
         /\ Len(name) = IF stem.fold = NoFold THEN 4 ELSE 5
         /\ name[1] = Number("T", stem.start) /\ name[2] = stem.source
         /\ name[3] = Number("s", stem.bits) /\ name[4] = Number("i", stem.interval)
         /\ stem.fold # NoFold => name[5] = Number("f", stem.fold)
<1>1. /\ Number("T", stem.start) \in Token /\ stem.source \in Token
      /\ Number("s", stem.bits) \in Token /\ Number("i", stem.interval) \in Token
      /\ stem.fold # NoFold => Number("f", stem.fold) \in Token
  BY StemTokens
<1>2. CASE stem.fold = NoFold
  BY <1>1, <1>2 DEF RenderSession, FoldSuffix
<1>3. CASE stem.fold # NoFold
  BY <1>1, <1>3 DEF RenderSession, FoldSuffix
<1>4. QED BY <1>2, <1>3

LEMMA ConcatTokens ==
  ASSUME NEW stem \in Stem, NEW name, name = RenderConcat(stem)
  PROVE  /\ name \in Seq(Token)
         /\ Len(name) = IF stem.fold = NoFold THEN 5 ELSE 6
         /\ name[1] = Number("T", stem.start) /\ name[2] = Concat
         /\ name[3] = stem.source /\ name[4] = Number("s", stem.bits)
         /\ name[5] = Number("i", stem.interval)
         /\ stem.fold # NoFold => name[6] = Number("f", stem.fold)
<1>1. /\ Number("T", stem.start) \in Token /\ stem.source \in Token
      /\ Number("s", stem.bits) \in Token /\ Number("i", stem.interval) \in Token
      /\ stem.fold # NoFold => Number("f", stem.fold) \in Token
      /\ Concat \in Token
  BY StemTokens
<1>2. CASE stem.fold = NoFold
  BY <1>1, <1>2 DEF RenderConcat, FoldSuffix
<1>3. CASE stem.fold # NoFold
  BY <1>1, <1>3 DEF RenderConcat, FoldSuffix
<1>4. QED BY <1>2, <1>3

(* The name of a session is read back. *)
LEMMA SessionRoundTrip ==
  ASSUME NEW stem \in Stem, IsStem(stem)
  PROVE  /\ IsSession(RenderSession(stem))
         /\ StemOf(RenderSession(stem)) = stem
<1> DEFINE name == RenderSession(stem)
<1>1. /\ Len(name) = IF stem.fold = NoFold THEN 4 ELSE 5
      /\ name[1] = Number("T", stem.start) /\ name[2] = stem.source
      /\ name[3] = Number("s", stem.bits) /\ name[4] = Number("i", stem.interval)
      /\ stem.fold # NoFold => name[5] = Number("f", stem.fold)
  BY SessionTokens
<1> HIDE DEF name
<1>2. /\ stem.start \in Nat /\ stem.bits \in 1 .. MaxNumber
      /\ stem.interval \in 1 .. MaxNumber /\ stem.fold \in Nat \cup {NoFold}
      /\ stem.fold # NoFold => stem.fold \in 0 .. 4
      /\ MaxNumber \in Nat /\ MaxNumber >= 8
  BY NamingAssumption DEF Stem, IsStem, IsBits, IsInterval, IsFold
<1>3. StemOf(name) = [start |-> stem.start, source |-> stem.source,
                      bits |-> stem.bits, interval |-> stem.interval,
                      fold |-> stem.fold]
  <2>1. /\ name[1].number = stem.start /\ name[3].number = stem.bits
        /\ name[4].number = stem.interval
        /\ stem.fold # NoFold => name[5].number = stem.fold
    BY <1>1, <1>2 DEF Number
  <2>2. QED BY <1>1, <2>1 DEF StemOf
<1>4. StemOf(name) = stem
  BY <1>3 DEF Stem
<1>5. /\ IsTime(name[1]) /\ IsSource(name[2])
      /\ IsNumber(name[3], "s") /\ IsNumber(name[4], "i")
  <2>1. IsSource(stem.source)
    BY DEF IsStem
  <2>2. /\ name[1] \in Token /\ name[1].text = "T" /\ name[1].number = stem.start
        /\ name[3] \in Token /\ name[3].text = "s" /\ name[3].number = stem.bits
        /\ name[4] \in Token /\ name[4].text = "i" /\ name[4].number = stem.interval
    BY <1>1, <1>2, Letters DEF Number, Token
  <2>3. QED BY <1>1, <1>2, <2>1, <2>2 DEF IsTime, IsNumber, NoNumber
<1>6. Len(name) = 5 => IsNumber(name[5], "f")
  <2>1. stem.fold # NoFold =>
          /\ name[5] \in Token /\ name[5].text = "f" /\ name[5].number = stem.fold
    <3> SUFFICES ASSUME stem.fold # NoFold
                 PROVE  /\ name[5] \in Token /\ name[5].text = "f"
                        /\ name[5].number = stem.fold
      OBVIOUS
    <3> QED BY <1>1, StemTokens DEF Number
  <2>2. QED BY <1>1, <1>2, <2>1 DEF IsNumber
<1>7. QED BY <1>1, <1>4, <1>5, <1>6 DEF IsSession, name

LEMMA WithoutIs ==
  ASSUME NEW name \in Seq(Token), NEW k \in 2 .. Len(name) - 1
  PROVE  /\ Without(name, k) \in Seq(Token)
         /\ Len(Without(name, k)) = Len(name) - 1
         /\ \A i \in 1 .. Len(name) - 1 :
              Without(name, k)[i] = IF i < k THEN name[i] ELSE name[i + 1]
<1> DEFINE front == SubSeq(name, 1, k - 1)
           back  == SubSeq(name, k + 1, Len(name))
<1>1. Len(name) \in Nat /\ \A i \in 1 .. Len(name) : name[i] \in Token
  BY LenProperties, ElementOfSeq
<1>2. /\ front \in Seq(Token) /\ Len(front) = k - 1
      /\ \A i \in 1 .. k - 1 : front[i] = name[i]
  <2>1. 1 \in Int /\ k - 1 \in Int /\ \A i \in 1 .. k - 1 : name[i] \in Token
    BY <1>1
  <2>2. /\ front \in Seq(Token)
        /\ Len(front) = IF 1 <= k - 1 THEN (k - 1) - 1 + 1 ELSE 0
        /\ \A i \in 1 .. (k - 1) - 1 + 1 : front[i] = name[1 + i - 1]
    BY <2>1, SubSeqProperties
  <2> HIDE DEF front
  <2>3. QED BY <2>2
<1>3. /\ back \in Seq(Token) /\ Len(back) = Len(name) - k
      /\ \A i \in 1 .. Len(name) - k : back[i] = name[k + i]
  <2>1. k + 1 \in Int /\ Len(name) \in Int
        /\ \A i \in k + 1 .. Len(name) : name[i] \in Token
    BY <1>1
  <2>2. /\ back \in Seq(Token)
        /\ Len(back) = IF k + 1 <= Len(name) THEN Len(name) - (k + 1) + 1 ELSE 0
        /\ \A i \in 1 .. Len(name) - (k + 1) + 1 : back[i] = name[(k + 1) + i - 1]
    BY <2>1, SubSeqProperties
  <2> HIDE DEF back
  <2>3. QED BY <1>1, <2>2
<1> HIDE DEF front, back
<1>4. /\ front \o back \in Seq(Token)
      /\ Len(front \o back) = Len(front) + Len(back)
      /\ \A i \in 1 .. Len(front) + Len(back) :
           (front \o back)[i] = IF i <= Len(front) THEN front[i]
                                ELSE back[i - Len(front)]
  BY <1>2, <1>3, ConcatProperties
<1>5. Without(name, k) = front \o back
  BY DEF Without, front, back
<1>6. ASSUME NEW i \in 1 .. Len(name) - 1
      PROVE  (front \o back)[i] = IF i < k THEN name[i] ELSE name[i + 1]
  <2>1. CASE i < k
    BY <1>1, <1>2, <1>3, <1>4, <2>1
  <2>2. CASE i >= k
    <3>1. (front \o back)[i] = back[i - (k - 1)]
      BY <1>1, <1>2, <1>3, <1>4, <2>2
    <3>2. i - (k - 1) \in 1 .. Len(name) - k
      BY <1>1, <2>2
    <3>3. back[i - (k - 1)] = name[k + (i - (k - 1))]
      BY <1>3, <3>2
    <3>4. k + (i - (k - 1)) = i + 1
      BY <1>1
    <3>5. QED BY <2>2, <3>1, <3>3, <3>4
  <2>3. i < k \/ i >= k
    BY <1>1
  <2>4. QED BY <2>1, <2>2, <2>3
<1>7. Len(front \o back) = Len(name) - 1
  <2>1. k \in Int /\ Len(name) \in Int
    BY <1>1
  <2>2. Len(front \o back) = (k - 1) + (Len(name) - k)
    BY <1>2, <1>3, <1>4
  <2>3. (k - 1) + (Len(name) - k) = Len(name) - 1
    BY <2>1
  <2>4. QED BY <2>2, <2>3
<1> DEFINE whole == front \o back
<1>8. /\ whole \in Seq(Token) /\ Len(whole) = Len(name) - 1
      /\ \A i \in 1 .. Len(name) - 1 :
           whole[i] = IF i < k THEN name[i] ELSE name[i + 1]
  BY <1>4, <1>6, <1>7
<1>9. Without(name, k) = whole
  BY <1>5
<1> HIDE DEF whole
<1>10. QED BY ONLY <1>8, <1>9

LEMMA WithoutConcat ==
  ASSUME NEW stem \in Stem
  PROVE  /\ 2 \in 2 .. Len(RenderConcat(stem)) - 1
         /\ Without(RenderConcat(stem), 2) = RenderSession(stem)
<1> DEFINE c == RenderConcat(stem)
           s == RenderSession(stem)
           w == Without(c, 2)
<1>1. /\ c \in Seq(Token) /\ Len(c) = IF stem.fold = NoFold THEN 5 ELSE 6
      /\ c[1] = Number("T", stem.start) /\ c[3] = stem.source
      /\ c[4] = Number("s", stem.bits) /\ c[5] = Number("i", stem.interval)
      /\ stem.fold # NoFold => c[6] = Number("f", stem.fold)
  BY ConcatTokens
<1>2. /\ s \in Seq(Token) /\ Len(s) = IF stem.fold = NoFold THEN 4 ELSE 5
      /\ s[1] = Number("T", stem.start) /\ s[2] = stem.source
      /\ s[3] = Number("s", stem.bits) /\ s[4] = Number("i", stem.interval)
      /\ stem.fold # NoFold => s[5] = Number("f", stem.fold)
  BY SessionTokens
<1> HIDE DEF c, s
<1>3. 2 \in 2 .. Len(c) - 1
  BY <1>1
<1>4. /\ w \in Seq(Token) /\ Len(w) = Len(c) - 1
      /\ \A i \in 1 .. Len(c) - 1 : w[i] = IF i < 2 THEN c[i] ELSE c[i + 1]
  BY <1>1, <1>3, WithoutIs
<1> HIDE DEF w
<1>5. Len(w) = Len(s)
  BY <1>1, <1>2, <1>4
<1>6. ASSUME NEW i \in 1 .. Len(w) PROVE w[i] = s[i]
  <2>1. w[i] = IF i < 2 THEN c[i] ELSE c[i + 1]
    BY <1>1, <1>4
  <2>2. i = 1 \/ i = 2 \/ i = 3 \/ i = 4 \/ (i = 5 /\ stem.fold # NoFold)
    BY <1>1, <1>4
  <2>3. QED BY <1>1, <1>2, <2>1, <2>2
<1>7. w = s
  BY <1>2, <1>4, <1>5, <1>6, SeqEqual
<1>8. QED BY <1>3, <1>7 DEF c, s, w

LEMMA StemOfTyped ==
  ASSUME NEW name \in Seq(Token), IsSession(name)
  PROVE  StemOf(name) \in Stem /\ IsStem(StemOf(name))
<1>1. /\ name[1].number \in Nat /\ name[2] \in Token
      /\ name[3].number \in Nat /\ name[4].number \in Nat
      /\ Len(name) = 5 => name[5].number \in Nat
  BY NamingAssumption DEF IsSession, IsTime, IsSource, IsNumber, Token
<1>2. QED BY <1>1 DEF IsSession, StemOf, Stem

LEMMA NumberInjective ==
  ASSUME NEW text, NEW m, NEW n, Number(text, m) = Number(text, n)
  PROVE  m = n
BY DEF Number

LEMMA ConcatInjective ==
  ASSUME NEW a \in Stem, NEW b \in Stem, RenderConcat(a) = RenderConcat(b)
  PROVE  a = b
<1> DEFINE c == RenderConcat(a)
<1>1. /\ Len(c) = IF a.fold = NoFold THEN 5 ELSE 6
      /\ c[1] = Number("T", a.start) /\ c[3] = a.source
      /\ c[4] = Number("s", a.bits) /\ c[5] = Number("i", a.interval)
      /\ a.fold # NoFold => c[6] = Number("f", a.fold)
  BY ConcatTokens
<1>2. /\ Len(c) = IF b.fold = NoFold THEN 5 ELSE 6
      /\ c[1] = Number("T", b.start) /\ c[3] = b.source
      /\ c[4] = Number("s", b.bits) /\ c[5] = Number("i", b.interval)
      /\ b.fold # NoFold => c[6] = Number("f", b.fold)
  BY ConcatTokens
<1> HIDE DEF c
<1>3. a.start = b.start /\ a.bits = b.bits /\ a.interval = b.interval
  BY <1>1, <1>2, NumberInjective
<1>4. a.source = b.source
  BY <1>1, <1>2
<1>5. a.fold = b.fold
  <2>1. a.fold = NoFold <=> b.fold = NoFold
    BY <1>1, <1>2
  <2>2. a.fold # NoFold => a.fold = b.fold
    BY <1>1, <1>2, <2>1, NumberInjective
  <2>3. QED BY <2>1, <2>2
<1>6. QED BY <1>3, <1>4, <1>5 DEF Stem

(* Any way of reading a name as that of a bundle gives the stem it renders. *)
LEMMA ConcatReading ==
  ASSUME NEW name \in Seq(Token), NEW k \in Marks(name), ReadsAsConcat(name, k)
  PROVE  /\ StemOf(Without(name, k)) \in Stem
         /\ RenderConcat(StemOf(Without(name, k))) = name
<1>1. k \in 2 .. Len(name) - 1
  BY DEF Marks
<1>2. Without(name, k) \in Seq(Token)
  BY <1>1, WithoutIs
<1>3. QED BY <1>2, StemOfTyped DEF ReadsAsConcat

LEMMA ConcatReadingIsChosen ==
  ASSUME NEW name \in Seq(Token), IsConcat(name)
  PROVE  /\ ConcatStemOf(name) \in Stem
         /\ name = RenderConcat(ConcatStemOf(name))
<1> DEFINE k == CHOOSE k \in Marks(name) : ReadsAsConcat(name, k)
<1>1. k \in Marks(name) /\ ReadsAsConcat(name, k)
  BY DEF IsConcat
<1>2. ConcatStemOf(name) = StemOf(Without(name, k))
  BY DEF ConcatStemOf
<1> HIDE DEF k
<1>3. QED BY <1>1, <1>2, ConcatReading

(* No name has two readings: the fourth token of the one is a sample size,   *)
(* of the other an interval.                                                 *)
LEMMA OneReading ==
  ASSUME NEW name \in Seq(Token)
  PROVE  ~(IsSession(name) /\ IsConcat(name))
<1> SUFFICES ASSUME IsSession(name), IsConcat(name) PROVE FALSE
  OBVIOUS
<1> DEFINE stem == ConcatStemOf(name)
<1>1. stem \in Stem /\ name = RenderConcat(stem)
  BY ConcatReadingIsChosen
<1> HIDE DEF stem
<1>2. name[4] = Number("s", stem.bits)
  BY <1>1, ConcatTokens
<1>3. name[4].text = "i"
  BY DEF IsSession, IsNumber
<1>4. QED BY <1>2, <1>3 DEF Number

(* The name of a bundle is read back. *)
LEMMA ConcatRoundTrip ==
  ASSUME NEW stem \in Stem, IsStem(stem)
  PROVE  /\ IsConcat(RenderConcat(stem))
         /\ ConcatStemOf(RenderConcat(stem)) = stem
<1> DEFINE name == RenderConcat(stem)
<1>1. /\ name \in Seq(Token) /\ Len(name) = IF stem.fold = NoFold THEN 5 ELSE 6
      /\ name[2] = Concat /\ name[4] = Number("s", stem.bits)
      /\ name[5] = Number("i", stem.interval)
  BY ConcatTokens
<1>2. 2 \in 2 .. Len(name) - 1 /\ Without(name, 2) = RenderSession(stem)
  BY WithoutConcat
<1>3. IsSession(RenderSession(stem)) /\ StemOf(RenderSession(stem)) = stem
  BY SessionRoundTrip
<1>4. RenderConcat(StemOf(Without(name, 2))) = name
  BY <1>2, <1>3
<1> HIDE DEF name
<1>5. 2 \in Marks(name)
  BY <1>1, <1>2 DEF Marks
<1>6. IsMark(name, 2)
  <2> SUFFICES ASSUME NEW j \in Marks(name) PROVE j = 2 \/ j = 2 + 1
    BY <1>5 DEF IsMark
  <2>1. j \in 2 .. Len(name) - 1 /\ name[j] = Concat
    BY DEF Marks
  <2>2. j = 2 \/ j = 3 \/ j = 4 \/ j = 5
    BY <1>1, <2>1
  <2>3. name[4] # Concat /\ name[5] # Concat
    BY <1>1 DEF Number, Concat, Word
  <2>4. QED BY <2>1, <2>2, <2>3
<1>7. ReadsAsConcat(name, 2)
  BY <1>2, <1>3, <1>4, <1>6 DEF ReadsAsConcat
<1>8. IsConcat(name)
  BY <1>5, <1>7 DEF IsConcat
<1>9. ConcatStemOf(name) \in Stem /\ RenderConcat(ConcatStemOf(name)) = name
  BY <1>1, <1>8, ConcatReadingIsChosen
<1>10. ConcatStemOf(name) = stem
  BY <1>9, ConcatInjective DEF name
<1>11. QED BY <1>8, <1>10 DEF name

-----------------------------------------------------------------------------
(* The clock *)

LEMMA Nearest ==
  ASSUME NEW offset \in Int, offset % QuarterHour = 0,
         NEW delay \in 0 .. 449
  PROVE  NearestQuarter(offset - delay) = offset
<1>1. PICK q \in Int : offset = 900 * q
  BY DEF QuarterHour
<1>2. CASE offset - delay >= 0
  <2>1. (offset - delay + 450) \div 900 = q
    BY <1>1, <1>2
  <2>2. QED BY <1>1, <1>2, <2>1 DEF NearestQuarter, QuarterHour
<1>3. CASE ~(offset - delay >= 0)
  <2>1. (450 - (offset - delay)) \div 900 = -q
    BY <1>1, <1>3
  <2>2. QED BY <1>1, <1>3, <2>1 DEF NearestQuarter, QuarterHour
<1>4. QED BY <1>2, <1>3

LEMMA InferredIsRight ==
  ASSUME NEW offset \in Int, IsZone(offset), NEW delay \in 0 .. 449,
         NEW acquisition \in Nat \cup {NoAcquisition}
  PROVE  /\ Inferred(offset - delay, acquisition) \in {offset, Unknown}
         /\ delay <= 60 \/ delay <= acquisition + 2 =>
              Inferred(offset - delay, acquisition) = offset
<1>1. /\ offset % QuarterHour = 0
      /\ -43200 <= offset /\ offset <= 50400
  BY DEF IsZone, QuarterHour
<1>2. NearestQuarter(offset - delay) = offset
  BY <1>1, Nearest
<1>3. Distance(offset - delay, offset) = delay
  BY DEF Distance
<1>4. delay <= 60 \/ delay <= acquisition + 2 => delay <= Tolerance(acquisition)
  BY DEF Tolerance, NoAcquisition
<1>5. Inferred(offset - delay, acquisition) =
        IF delay <= Tolerance(acquisition) THEN offset ELSE Unknown
  BY <1>1, <1>2, <1>3 DEF Inferred
<1>6. QED BY <1>4, <1>5

LEMMA RecordedIsRight ==
  ASSUME NEW offset \in Int
  PROVE  /\ Distance(Parsed(Written(offset)), offset) < 60
         /\ Distance(Parsed(Written(offset)), 0) <= Distance(offset, 0)
<1> DEFINE size  == Distance(offset, 0)
           whole == (size \div 3600) * 3600 + ((size % 3600) \div 60) * 60
<1>1. size \in Nat /\ offset = IF offset < 0 THEN -size ELSE size
  BY DEF Distance
<1> DEFINE hours == size \div 3600
           minutes == (size % 3600) \div 60
<1>2. Parsed(Written(offset)) = IF offset < 0 THEN -whole ELSE whole
  <2> DEFINE sign == IF offset < 0 THEN -1 ELSE 1
  <2>1. Written(offset) = [sign |-> sign, hours |-> hours, minutes |-> minutes]
    BY DEF Written
  <2>2. hours * 3600 + minutes * 60 = whole
    BY DEF hours, minutes
  <2> HIDE DEF hours, minutes, whole
  <2>3. Parsed(Written(offset)) = sign * (hours * 3600 + minutes * 60)
    <3> HIDE DEF sign
    <3> QED BY <2>1 DEF Parsed
  <2>4. Parsed(Written(offset)) = sign * whole
    BY <2>2, <2>3
  <2>5. whole \in Int
    BY <1>1 DEF whole
  <2>6. QED BY <2>4, <2>5
<1> HIDE DEF size
<1>3. whole \in Int /\ 0 <= whole /\ whole <= size /\ size < whole + 60
  BY <1>1
<1> HIDE DEF whole
<1>4. QED BY <1>1, <1>2, <1>3 DEF Distance, size

-----------------------------------------------------------------------------
(* Types *)

LEMMA Worlds == /\ Devices = Bitbs \cup Trngs /\ Bitbs \cap Trngs = {}
                /\ "rdseed" \notin Devices /\ "pseudo" \notin Devices
                /\ Unselected \notin Devices
BY SourcesAssumption DEF Devices, Soft

LEMMA IssueKinds ==
  ASSUME NEW family \in {"bitb", "trng"}, NEW error \in ListErrors[family] \cup {"NoDevice"}
  PROVE  /\ KindOf(family, error) \in Kinds
         /\ KindOf(family, error) = "NotAvailable" <=> error = "NoDevice"
<1>1. CASE family = "bitb"
  BY <1>1 DEF ListErrors, KindOf, Kinds, MapBitb
<1>2. CASE family = "trng"
  BY <1>2 DEF ListErrors, KindOf, Kinds, MapTrng
<1>3. QED BY <1>1, <1>2

LEMMA OrderIsSeq ==
  ASSUME NEW family \in {"bitb", "trng"}, plugged \subseteq Devices,
         NEW order \in Orders(Present(family))
  PROVE  /\ order \in Seq(DevicesOf(family) \cap plugged)
         /\ IsInjective(order)
         /\ \A d \in Present(family) : \E i \in DOMAIN order : order[i] = d
<1> DEFINE n == Cardinality(Present(family))
<1>1. n \in Nat
  BY SourcesAssumption, FS_Subset, FS_CardinalityType DEF Present
<1>2. /\ order \in [1 .. n -> Present(family)]
      /\ IsInjective(order)
      /\ \A d \in Present(family) : \E i \in 1 .. n : order[i] = d
  BY DEF Orders, Bijection, Injection, Surjection
<1> HIDE DEF n
<1>3. QED BY <1>1, <1>2 DEF Present

LEMMA SourcesTyped == SourcesTypeOK /\ [Next]_vars => SourcesTypeOK'
<1> SUFFICES ASSUME SourcesTypeOK, [Next]_vars PROVE SourcesTypeOK'
  OBVIOUS
<1>1. ASSUME NEW d \in Devices, Plug(d) PROVE SourcesTypeOK'
  BY <1>1 DEF SourcesTypeOK, Plug, report
<1>2. ASSUME NEW d \in Devices, Unplug(d) PROVE SourcesTypeOK'
  BY <1>2 DEF SourcesTypeOK, Unplug
<1>3. CASE Discover
  BY <1>3 DEF SourcesTypeOK, Discover, world
<1>4. ASSUME NEW family \in {"bitb", "trng"}, NEW next \in {"trng", "soft"},
             List(family, next)
      PROVE  SourcesTypeOK'
  <2>1. found' \in Seq(Devices \cup Soft) /\ issues' \in Seq([family : {"bitb", "trng"}, kind : Kinds])
    <3>1. CASE Listed(family)
      <4>1. PICK order \in Orders(Present(family)) : found' = found \o order
        BY <3>1 DEF Listed
      <4>2. order \in Seq(Devices \cup Soft)
        <5>1. order \in Seq(DevicesOf(family) \cap plugged)
          BY OrderIsSeq DEF SourcesTypeOK
        <5>2. DevicesOf(family) \cap plugged \subseteq Devices \cup Soft
          BY DEF SourcesTypeOK
        <5>3. QED BY <5>1, <5>2
      <4>3. found' \in Seq(Devices \cup Soft)
        BY <4>1, <4>2, ConcatProperties DEF SourcesTypeOK
      <4>4. QED BY <3>1, <4>3 DEF Listed, SourcesTypeOK
    <3>2. CASE ListFailed(family)
      <4>1. PICK error \in ListErrors[family] \cup {"NoDevice"} :
              issues' = IF KindOf(family, error) = "NotAvailable" THEN issues
                        ELSE Append(issues, [family |-> family, kind |-> KindOf(family, error)])
        BY <3>2 DEF ListFailed
      <4>2. KindOf(family, error) \in Kinds
        BY IssueKinds
      <4>3. [family |-> family, kind |-> KindOf(family, error)] \in [family : {"bitb", "trng"}, kind : Kinds]
        BY <4>2
      <4>4. issues' \in Seq([family : {"bitb", "trng"}, kind : Kinds])
        BY <4>1, <4>3, AppendProperties DEF SourcesTypeOK
      <4>5. QED BY <3>2, <4>4 DEF ListFailed, SourcesTypeOK
    <3>3. QED BY <1>4, <3>1, <3>2 DEF List
  <2>2. QED BY <1>4, <2>1 DEF SourcesTypeOK, List, world
<1>5. CASE ListSoft
  <2>1. <<"rdseed", "pseudo">> \in Seq(Devices \cup Soft) /\ <<"pseudo">> \in Seq(Devices \cup Soft)
    BY DEF Soft
  <2>2. found' \in Seq(Devices \cup Soft)
    <3>1. CASE rdseed
      BY <1>5, <2>1, <3>1, ConcatProperties DEF SourcesTypeOK, ListSoft
    <3>2. CASE ~rdseed
      BY <1>5, <2>1, <3>2, ConcatProperties DEF SourcesTypeOK, ListSoft
    <3>3. QED BY <3>1, <3>2
  <2>3. QED BY <1>5, <2>2 DEF SourcesTypeOK, ListSoft, world
<1>6. CASE Forget
  BY <1>6 DEF SourcesTypeOK, Forget, world
<1>7. CASE Open
  <2>1. \/ handle' = handle
        \/ handle' \in [source : Bitbs, fold : 0 .. 4]
        \/ handle' \in [source : Trngs \cup Soft, fold : {NoFold}]
    <3>1. CASE OpenDevice("bitb", 0 .. 4)
      BY <3>1 DEF OpenDevice, Opened, Refused, Present, DevicesOf
    <3>2. CASE OpenDevice("trng", {NoFold})
      BY <3>2 DEF OpenDevice, Opened, Refused, Present, DevicesOf
    <3>3. ASSUME NEW family \in Soft, OpenSoft(family) 
          PROVE  handle' = handle \/ handle' \in [source : Trngs \cup Soft, fold : {NoFold}]
      BY <3>3 DEF OpenSoft, Opened, Refused
    <3>4. QED BY <1>7, <3>1, <3>2, <3>3 DEF Open, OpenBitb, OpenTrng, OpenRdseed, OpenPseudo, Soft
  <2>2. QED BY <1>7, <2>1 DEF SourcesTypeOK, Open, world, report
<1>7A. CASE ReadBits
  BY <1>7A DEF SourcesTypeOK, ReadBits, world, report
<1>8. CASE Close
  BY <1>8 DEF SourcesTypeOK, Close, world, report
<1>9. ASSUME NameSession \/ NameConcat \/ ReadName \/ InferOffset \/ RecordOffset
      PROVE  UNCHANGED <<world, report, handle>>
  BY <1>9 DEF NameSession, NameConcat, ReadName, InferOffset, RecordOffset, Answered
<1>10. ASSUME UNCHANGED <<world, report, handle>> PROVE SourcesTypeOK'
  BY <1>10 DEF SourcesTypeOK, world, report
<1>11. CASE UNCHANGED vars
  BY <1>10, <1>11 DEF vars
<1>12. QED BY <1>1, <1>2, <1>3, <1>4, <1>5, <1>6, <1>7, <1>7A, <1>8, <1>9, <1>10, <1>11
           DEF Next, ListBitb, ListTrng

(* Whatever is plugged in or out while discover lists and open opens, the    *)
(* report, the handle and its fold are of their types.                       *)
THEOREM SourcesTypesAreRight == Spec => []SourcesTypeOK
<1>1. Init => SourcesTypeOK
  <2>1. <<>> \in Seq(Devices \cup Soft) /\ <<>> \in Seq([family : {"bitb", "trng"}, kind : Kinds])
    BY EmptySeq
  <2>2. QED BY <2>1 DEF Init, SourcesTypeOK
<1>2. QED BY <1>1, SourcesTyped, PTL DEF Spec

-----------------------------------------------------------------------------
(* Opening and reading *)

LEMMA OpenKinds ==
  ASSUME NEW family \in Families, NEW error \in OpenErrors[family]
  PROVE  KindOf(family, error) \notin {"ok", "NotAvailable", "DeviceNotFound"}
<1>1. CASE family = "bitb"
  BY <1>1 DEF OpenErrors, KindOf, MapBitb
<1>2. CASE family = "trng"
  BY <1>2 DEF OpenErrors, KindOf, MapTrng
<1>3. CASE family = "rdseed"
  BY <1>3 DEF OpenErrors, KindOf, MapRdseed
<1>4. CASE family = "pseudo"
  BY <1>4 DEF OpenErrors, KindOf, MapPseudo
<1>5. QED BY <1>1, <1>2, <1>3, <1>4 DEF Families

LEMMA UnresolvedKinds ==
  ASSUME NEW family \in {"bitb", "trng"}
  PROVE  /\ KindOf(family, "NoDevice") = "NotAvailable"
         /\ KindOf(family, "DeviceNotFound") = "DeviceNotFound"
         /\ KindOf(family, "MultipleDevices") = "MultipleDevices"
<1>1. CASE family = "bitb"
  BY <1>1 DEF KindOf, MapBitb
<1>2. CASE family = "trng"
  BY <1>2 DEF KindOf, MapTrng
<1>3. QED BY <1>1, <1>2

LEMMA FamiliesOfDevices ==
  ASSUME NEW family \in {"bitb", "trng"}, NEW source \in DevicesOf(family)
  PROVE  FamilyOf(source) = family /\ source \in Devices
BY Worlds DEF DevicesOf, FamilyOf

LEMMA DeviceIsOpenedHonestly ==
  ASSUME NEW family \in {"bitb", "trng"}, NEW folds, OpenDevice(family, folds),
         plugged' = plugged
  PROVE  OpenIsHonest'
<1>1. PICK selector \in DevicesOf(family) \cup {Unselected}, fold \in folds :
        \/ \E source \in Present(family) :
             /\ Resolve(family, selector, source)
             /\ \/ Opened(family, selector, source, fold)
                \/ \E error \in OpenErrors[family] : Refused(family, selector, error)
        \/ /\ \A source \in Present(family) : ~Resolve(family, selector, source)
           /\ Refused(family, selector, Unresolved(family, selector))
  BY DEF OpenDevice
<1>2. ASSUME NEW source \in Present(family), Resolve(family, selector, source),
             Opened(family, selector, source, fold)
      PROVE  OpenIsHonest'
  <2>1. FamilyOf(source) = family
    BY FamiliesOfDevices DEF Present
  <2>2. selector = source \/ (selector = Unselected /\ Present(family) = {source})
    BY <1>2 DEF Resolve
  <2>3. Present(family)' = Present(family)
    BY DEF Present, DevicesOf
  <2>4. /\ handle'.source = source
        /\ answer' = [call |-> "open", result |-> "ok", family |-> family,
                      selector |-> selector]
    BY <1>2 DEF Opened
  <2>5. source # Unselected
    BY Worlds, FamiliesOfDevices DEF Present
  <2>6. QED BY <2>1, <2>2, <2>3, <2>4, <2>5 DEF OpenIsHonest
<1>3. ASSUME NEW error \in OpenErrors[family], Refused(family, selector, error)
      PROVE  OpenIsHonest'
  <2>1. KindOf(family, error) \notin {"ok", "NotAvailable", "DeviceNotFound"}
    BY OpenKinds DEF Families
  <2>2. QED BY <1>3, <2>1 DEF Refused, OpenIsHonest
<1>4. ASSUME \A source \in Present(family) : ~Resolve(family, selector, source),
             Refused(family, selector, Unresolved(family, selector))
      PROVE  OpenIsHonest'
  <2>1. answer' = [call |-> "open", result |-> KindOf(family, Unresolved(family, selector)),
                   family |-> family, selector |-> selector]
    BY <1>4 DEF Refused
  <2>2. CASE selector # Unselected
    <3>1. selector \in DevicesOf(family) /\ selector \notin Present(family)
      BY <1>4, <2>2 DEF Resolve
    <3>2. KindOf(family, Unresolved(family, selector)) = "DeviceNotFound"
      BY <2>2, UnresolvedKinds DEF Unresolved
    <3>3. QED BY <2>1, <3>1, <3>2 DEF OpenIsHonest, Present
  <2>3. CASE selector = Unselected /\ Present(family) = {}
    <3>1. KindOf(family, Unresolved(family, selector)) = "NotAvailable"
      BY <2>3, UnresolvedKinds DEF Unresolved
    <3>2. QED BY <2>1, <2>3, <3>1 DEF OpenIsHonest, Present, DevicesOf
  <2>4. CASE selector = Unselected /\ Present(family) # {}
    <3>1. KindOf(family, Unresolved(family, selector)) = "MultipleDevices"
      BY <2>4, UnresolvedKinds DEF Unresolved
    <3>2. QED BY <2>1, <3>1 DEF OpenIsHonest
  <2>5. QED BY <2>2, <2>3, <2>4
<1>5. QED BY <1>1, <1>2, <1>3, <1>4

LEMMA SoftIsOpenedHonestly ==
  ASSUME NEW family \in Soft, OpenSoft(family)
  PROVE  OpenIsHonest'
<1>1. CASE Opened(family, Unselected, family, NoFold)
  <2>1. FamilyOf(family) = family /\ family \notin {"bitb", "trng"}
    BY Worlds DEF FamilyOf, Soft
  <2>2. QED BY <1>1, <2>1 DEF Opened, OpenIsHonest
<1>2. CASE family = "rdseed" /\ Refused(family, Unselected, "UnsupportedInstruction")
  <2>1. KindOf(family, "UnsupportedInstruction") = "Unsupported"
    BY <1>2 DEF KindOf, MapRdseed
  <2>2. QED BY <1>2, <2>1 DEF Refused, OpenIsHonest
<1>3. ASSUME NEW error \in OpenErrors[family], Refused(family, Unselected, error)
      PROVE  OpenIsHonest'
  <2>1. KindOf(family, error) \notin {"ok", "NotAvailable", "DeviceNotFound"}
    BY OpenKinds DEF Families, Soft
  <2>2. QED BY <1>3, <2>1 DEF Refused, OpenIsHonest
<1>4. QED BY <1>1, <1>2, <1>3 DEF OpenSoft

LEMMA ReadKinds ==
  ASSUME NEW family \in Families
  PROVE  /\ \A error \in ReadErrors[family] : KindOf(family, error) # "ok"
         /\ family \in {"bitb", "trng"} => KindOf(family, GoneErrors[family]) # "ok"
<1>1. CASE family = "bitb"
  BY <1>1 DEF ReadErrors, GoneErrors, KindOf, MapBitb
<1>2. CASE family = "trng"
  BY <1>2 DEF ReadErrors, GoneErrors, KindOf, MapTrng
<1>3. CASE family = "rdseed"
  BY <1>3 DEF ReadErrors, KindOf, MapRdseed
<1>4. CASE family = "pseudo"
  BY <1>4 DEF ReadErrors, KindOf, MapPseudo
<1>5. QED BY <1>1, <1>2, <1>3, <1>4 DEF Families

LEMMA SampleIsReadWhole ==
  ASSUME SourcesTypeOK, ReadBits
  PROVE  SampleIsWhole'
<1> DEFINE family == FamilyOf(handle.source)
           there  == handle.source \in plugged \cup Soft
<1>1. PICK size \in Sizes :
        \/ there /\ \E bytes \in {size \div 8, (size \div 8) - 1} :
                      answer' = EnforceLen(size, bytes)
        \/ there /\ \E error \in ReadErrors[family] :
                      answer' = ReadAnswer(size, KindOf(family, error), 0)
        \/ ~there /\ answer' = ReadAnswer(size, KindOf(family, GoneErrors[family]), 0)
  BY DEF ReadBits
<1>2. handle.source \in Devices \cup Soft
  BY Worlds DEF SourcesTypeOK, ReadBits
<1>3. family \in Families /\ (~there => family \in {"bitb", "trng"})
  BY <1>2, Worlds DEF FamilyOf, Families, Soft
<1>4. UNCHANGED <<handle, plugged>>
  BY DEF ReadBits, world
<1>5. ASSUME there, NEW bytes, answer' = EnforceLen(size, bytes)
      PROVE  SampleIsWhole'
  <2>1. size \in Nat /\ size % 8 = 0
    BY SourcesAssumption, NamingAssumption DEF IsBits
  <2>2. (size \div 8) * 8 = size
    BY <2>1
  <2>3. CASE bytes = size \div 8
    <3>1. answer' = ReadAnswer(size, "ok", bytes)
      BY <1>5, <2>3 DEF EnforceLen
    <3>2. answer'.bytes * 8 = answer'.size
      BY <2>2, <2>3, <3>1 DEF ReadAnswer
    <3>3. QED BY <1>4, <1>5, <3>2 DEF SampleIsWhole
  <2>4. CASE bytes # size \div 8
    BY <1>5, <2>4 DEF EnforceLen, ReadAnswer, SampleIsWhole
  <2>5. QED BY <2>3, <2>4
<1>6. ASSUME NEW kind, kind # "ok", answer' = ReadAnswer(size, kind, 0)
      PROVE  SampleIsWhole'
  BY <1>6 DEF ReadAnswer, SampleIsWhole
<1> HIDE DEF family, there
<1>7. QED BY <1>1, <1>3, <1>5, <1>6, ReadKinds

-----------------------------------------------------------------------------
(* The report *)

Passed(family) ==
  step \in IF family = "bitb" THEN {"trng", "soft", "reported"} ELSE {"soft", "reported"}

(* A family that was listed has told of its steady devices, or why not *)
Told(family) ==
  /\ \A d \in steady \cap DevicesOf(family) :
       (\E i \in DOMAIN found : found[i] = d) \/ Failed(family) # {}
  /\ Failed(family) # {} => Candidates(family) = {}

Untold(family) == Candidates(family) = {} /\ Failed(family) = {}

ReportInv ==
  /\ \A family \in {"bitb", "trng"} :
       (Passed(family) => Told(family)) /\ (~Passed(family) => Untold(family))
  /\ IsInjective(found)
  /\ step # "reported" => found \in Seq(Devices)
  /\ step = "reported" =>
       /\ found # <<>> /\ found[Len(found)] = "pseudo"
       /\ rdseed => \E i \in DOMAIN found : found[i] = "rdseed"
       /\ ~rdseed => \A i \in DOMAIN found : found[i] # "rdseed"

LEMMA Joined ==
  ASSUME NEW S, NEW a \in Seq(S), NEW b \in Seq(S), NEW c, c = a \o b
  PROVE  /\ c \in Seq(S) /\ Len(c) = Len(a) + Len(b)
         /\ Len(a) \in Nat /\ Len(b) \in Nat
         /\ DOMAIN a = 1 .. Len(a) /\ DOMAIN b = 1 .. Len(b) /\ DOMAIN c = 1 .. Len(c)
         /\ \A i \in DOMAIN a : i \in DOMAIN c /\ c[i] = a[i]
         /\ \A i \in DOMAIN b : Len(a) + i \in DOMAIN c /\ c[Len(a) + i] = b[i]
         /\ \A i \in DOMAIN c : i \in DOMAIN a \/ i - Len(a) \in DOMAIN b
         /\ \A i \in DOMAIN c : i \notin DOMAIN a => c[i] = b[i - Len(a)]
<1>1. Len(a) \in Nat /\ Len(b) \in Nat /\ DOMAIN a = 1 .. Len(a) /\ DOMAIN b = 1 .. Len(b)
  BY LenProperties
<1>2. /\ c \in Seq(S) /\ Len(c) = Len(a) + Len(b)
      /\ \A i \in 1 .. Len(a) + Len(b) : c[i] = IF i <= Len(a) THEN a[i] ELSE b[i - Len(a)]
  BY ConcatProperties
<1>3. DOMAIN c = 1 .. Len(c)
  BY <1>2, LenProperties
<1>4. QED BY <1>1, <1>2, <1>3

(* What is appended to the candidates disturbs no other family. *)
LEMMA CandidatesGrow ==
  ASSUME SourcesTypeOK, NEW more \in Seq(Devices \cup Soft), found' = found \o more,
         IsInjective(found), IsInjective(more),
         \A i \in DOMAIN found, j \in DOMAIN more : found[i] # more[j]
  PROVE  /\ IsInjective(found')
         /\ \A d : (\E i \in DOMAIN found : found[i] = d) =>
                   \E i \in DOMAIN found' : found'[i] = d
         /\ \A d : (\E i \in DOMAIN more : more[i] = d) =>
                   \E i \in DOMAIN found' : found'[i] = d
         /\ \A i \in DOMAIN found' :
              \/ i \in DOMAIN found /\ found'[i] = found[i]
              \/ \E j \in DOMAIN more : found'[i] = more[j]
<1> DEFINE c == found'
<1>1. /\ Len(found) \in Nat
      /\ \A i \in DOMAIN found : i \in DOMAIN c /\ c[i] = found[i]
      /\ \A i \in DOMAIN more : Len(found) + i \in DOMAIN c /\ c[Len(found) + i] = more[i]
      /\ \A i \in DOMAIN c : i \in DOMAIN found \/ i - Len(found) \in DOMAIN more
      /\ \A i \in DOMAIN c : i \notin DOMAIN found => c[i] = more[i - Len(found)]
      /\ DOMAIN c = 1 .. Len(c) /\ Len(c) \in Nat
  BY Joined DEF SourcesTypeOK
<1> HIDE DEF c
<1>2. ASSUME NEW i \in DOMAIN c, NEW j \in DOMAIN c, c[i] = c[j]
      PROVE  i = j
  <2>1. CASE i \in DOMAIN found /\ j \in DOMAIN found
    BY <1>1, <1>2, <2>1 DEF IsInjective
  <2>2. CASE i \notin DOMAIN found /\ j \notin DOMAIN found
    <3>1. i - Len(found) = j - Len(found)
      BY <1>1, <1>2, <2>2 DEF IsInjective
    <3>2. QED BY <1>1, <3>1
  <2>3. CASE i \in DOMAIN found /\ j \notin DOMAIN found
    BY <1>1, <1>2, <2>3
  <2>4. CASE i \notin DOMAIN found /\ j \in DOMAIN found
    BY <1>1, <1>2, <2>4
  <2>5. QED BY <2>1, <2>2, <2>3, <2>4
<1>3. IsInjective(c)
  BY <1>2 DEF IsInjective
<1>4. \A i \in DOMAIN c : \/ i \in DOMAIN found /\ c[i] = found[i]
                         \/ \E j \in DOMAIN more : c[i] = more[j]
  BY <1>1
<1>5. /\ \A d : (\E i \in DOMAIN found : found[i] = d) => \E i \in DOMAIN c : c[i] = d
      /\ \A d : (\E i \in DOMAIN more : more[i] = d) => \E i \in DOMAIN c : c[i] = d
  BY <1>1
<1> USE DEF c
<1>6. QED BY <1>3, <1>4, <1>5

LEMMA ListedIsTold ==
  ASSUME SourcesTypeOK, ReportInv,
         NEW family \in {"bitb", "trng"}, ~Passed(family), step # "reported", steady' = steady,
         Listed(family)
  PROVE  /\ Told(family)'
         /\ IsInjective(found') /\ found' \in Seq(Devices)
         /\ \A other \in {"bitb", "trng"} \ {family} :
              (Told(other) => Told(other)') /\ (Untold(other) => Untold(other)')
<1>1. PICK order \in Orders(Present(family)) : found' = found \o order
  BY DEF Listed
<1>2. /\ order \in Seq(DevicesOf(family) \cap plugged)
      /\ IsInjective(order)
      /\ \A d \in Present(family) : \E i \in DOMAIN order : order[i] = d
  BY OrderIsSeq DEF SourcesTypeOK
<1>3. \A i \in DOMAIN order : order[i] \in DevicesOf(family) /\ FamilyOf(order[i]) = family
  <2>1. \A i \in DOMAIN order : order[i] \in DevicesOf(family)
    BY <1>2, ElementOfSeq, LenProperties
  <2>2. QED BY <2>1, FamiliesOfDevices
<1>4. Untold(family) /\ Failed(family)' = Failed(family)
  BY DEF ReportInv, Listed, Failed
<1>5. \A i \in DOMAIN found, j \in DOMAIN order : found[i] # order[j]
  BY <1>3, <1>4 DEF Untold, Candidates
<1>6. order \in Seq(Devices) /\ order \in Seq(Devices \cup Soft)
  <2>1. DevicesOf(family) \cap plugged \subseteq Devices
    BY DEF SourcesTypeOK
  <2>2. QED BY <1>2, <2>1
<1>7. /\ IsInjective(found')
      /\ \A d : (\E i \in DOMAIN found : found[i] = d) => \E i \in DOMAIN found' : found'[i] = d
      /\ \A d : (\E i \in DOMAIN order : order[i] = d) => \E i \in DOMAIN found' : found'[i] = d
      /\ \A i \in DOMAIN found' : \/ i \in DOMAIN found /\ found'[i] = found[i]
                                  \/ \E j \in DOMAIN order : found'[i] = order[j]
  BY <1>1, <1>2, <1>5, <1>6, CandidatesGrow DEF ReportInv
<1>8. found' \in Seq(Devices)
  BY <1>1, <1>6, ConcatProperties DEF ReportInv
<1>9. Told(family)'
  <2>1. DevicesOf(family)' = DevicesOf(family)
    BY DEF DevicesOf
  <2>2. \A d \in steady \cap DevicesOf(family) : \E i \in DOMAIN found' : found'[i] = d
    BY <1>2, <1>7 DEF SourcesTypeOK, Present
  <2>3. QED BY <1>4, <2>1, <2>2 DEF Told, Untold
<1>10. ASSUME NEW other \in {"bitb", "trng"} \ {family}
       PROVE  (Told(other) => Told(other)') /\ (Untold(other) => Untold(other)')
  <2>1. DevicesOf(other)' = DevicesOf(other)
    BY DEF DevicesOf
  <2>2. Failed(other)' = Failed(other)
    BY DEF Listed, Failed
  <2>3. Candidates(other) = {} => Candidates(other)' = {}
    BY <1>3, <1>7 DEF Candidates
  <2>4. QED BY <1>7, <2>1, <2>2, <2>3 DEF Told, Untold
<1>11. QED BY <1>7, <1>8, <1>9, <1>10

LEMMA FailureIsTold ==
  ASSUME SourcesTypeOK, ReportInv,
         NEW family \in {"bitb", "trng"}, ~Passed(family), step # "reported", steady' = steady,
         ListFailed(family)
  PROVE  /\ Told(family)'
         /\ \A other \in {"bitb", "trng"} \ {family} :
              (Told(other) => Told(other)') /\ (Untold(other) => Untold(other)')
<1>1. PICK error \in ListErrors[family] \cup {"NoDevice"} :
        /\ error = "NoDevice" => Present(family) = {}
        /\ issues' = IF KindOf(family, error) = "NotAvailable" THEN issues
                     ELSE Append(issues, [family |-> family, kind |-> KindOf(family, error)])
  BY DEF ListFailed
<1>2. Untold(family) /\ found' = found /\ Candidates(family)' = Candidates(family)
  BY DEF ReportInv, ListFailed, Candidates
<1>3. /\ DevicesOf("bitb")' = DevicesOf("bitb") /\ DevicesOf("trng")' = DevicesOf("trng")
      /\ DevicesOf(family)' = DevicesOf(family)
  BY DEF DevicesOf
<1>4. CASE error = "NoDevice"
  <2>1. issues' = issues
    BY <1>1, <1>4, IssueKinds
  <2>2. steady \cap DevicesOf(family) = {}
    BY <1>1, <1>4 DEF SourcesTypeOK, Present
  <2>3. Told(family)'
    BY <1>2, <1>3, <2>1, <2>2 DEF Told, Untold, Failed
  <2>4. ASSUME NEW other \in {"bitb", "trng"}
        PROVE  (Told(other) => Told(other)') /\ (Untold(other) => Untold(other)')
    <3>1. Failed(other)' = Failed(other) /\ Candidates(other)' = Candidates(other)
      BY <1>2, <2>1 DEF Failed, Candidates
    <3>2. DevicesOf(other)' = DevicesOf(other)
      BY DEF DevicesOf
    <3>3. QED BY <1>2, <3>1, <3>2 DEF Told, Untold
  <2>5. QED BY <2>3, <2>4
<1>5. CASE error # "NoDevice"
  <2> DEFINE issue == [family |-> family, kind |-> KindOf(family, error)]
             n     == Len(issues)
  <2>1. issues' = Append(issues, issue) /\ issue.family = family
    BY <1>1, <1>5, IssueKinds
  <2>2. issue \in [family : {"bitb", "trng"}, kind : Kinds]
    BY IssueKinds
  <2> HIDE DEF issue
  <2>3. /\ n \in Nat /\ DOMAIN issues = 1 .. n /\ DOMAIN issues' = 1 .. n + 1
        /\ \A i \in 1 .. n : issues'[i] = issues[i]
        /\ issues'[n + 1] = issue
    BY <2>1, <2>2, AppendProperties, LenProperties DEF SourcesTypeOK
  <2> HIDE DEF n
  <2>4. Failed(family)' # {}
    BY <2>1, <2>3 DEF Failed
  <2>5. Told(family)'
    BY <1>2, <1>3, <2>4 DEF Told, Untold
  <2>6. ASSUME NEW other \in {"bitb", "trng"} \ {family}
        PROVE  (Told(other) => Told(other)') /\ (Untold(other) => Untold(other)')
    <3>1. Failed(other)' = Failed(other)
      <4>1. \A i : i \in Failed(other)' <=> i \in 1 .. n + 1 /\ issues'[i].family = other
        BY <2>3 DEF Failed
      <4>2. \A i : i \in Failed(other) <=> i \in 1 .. n /\ issues[i].family = other
        BY <2>3 DEF Failed
      <4>3. issues'[n + 1].family # other
        BY <2>1, <2>3
      <4>4. ASSUME NEW i
            PROVE  (i \in 1 .. n + 1 /\ issues'[i].family = other)
                     <=> (i \in 1 .. n /\ issues[i].family = other)
        <5>1. i \in 1 .. n + 1 <=> i \in 1 .. n \/ i = n + 1
          BY <2>3
        <5>2. QED BY <2>3, <4>3, <5>1, Zenon
      <4>5. QED BY <4>1, <4>2, <4>4, Zenon
    <3>2. Candidates(other)' = Candidates(other) /\ DevicesOf(other)' = DevicesOf(other)
      BY <1>2 DEF Candidates, DevicesOf
    <3>3. QED BY <1>2, <3>1, <3>2 DEF Told, Untold
  <2>7. QED BY <2>5, <2>6
<1>6. QED BY <1>4, <1>5

LEMMA Softness ==
  ASSUME SourcesTypeOK, ReportInv, ListSoft
  PROVE  ReportInv'
<1> DEFINE more == IF rdseed THEN <<"rdseed", "pseudo">> ELSE <<"pseudo">>
<1>1. /\ more \in Seq(Devices \cup Soft) /\ IsInjective(more)
      /\ \A j \in DOMAIN more : more[j] \in Soft
      /\ Len(more) \in Nat \ {0} /\ DOMAIN more = 1 .. Len(more)
      /\ more[Len(more)] = "pseudo"
      /\ rdseed => more[1] = "rdseed"
      /\ ~rdseed => \A j \in DOMAIN more : more[j] = "pseudo"
  <2>1. CASE rdseed
    BY <2>1 DEF Soft, IsInjective
  <2>2. CASE ~rdseed
    BY <2>2 DEF Soft, IsInjective
  <2>3. QED BY <2>1, <2>2
<1>2. found' = found \o more
  BY DEF ListSoft
<1> HIDE DEF more
<1>3. found \in Seq(Devices) /\ \A i \in DOMAIN found : found[i] \in Devices
  BY ElementOfSeq, LenProperties DEF ReportInv, ListSoft
<1>4. \A i \in DOMAIN found, j \in DOMAIN more : found[i] # more[j]
  BY <1>1, <1>3, Worlds DEF Soft
<1>5. /\ IsInjective(found')
      /\ \A d : (\E i \in DOMAIN found : found[i] = d) => \E i \in DOMAIN found' : found'[i] = d
      /\ \A d : (\E i \in DOMAIN more : more[i] = d) => \E i \in DOMAIN found' : found'[i] = d
      /\ \A i \in DOMAIN found' : \/ i \in DOMAIN found /\ found'[i] = found[i]
                                  \/ \E j \in DOMAIN more : found'[i] = more[j]
  BY <1>1, <1>2, <1>4, CandidatesGrow DEF ReportInv
<1>6. /\ found' # <<>> /\ found'[Len(found')] = "pseudo"
  <2>1. /\ Len(found') = Len(found) + Len(more) /\ Len(found) \in Nat
        /\ found'[Len(found) + Len(more)] = more[Len(more)]
    BY <1>1, <1>2, Joined DEF SourcesTypeOK
  <2>2. QED BY <1>1, <2>1
<1>7. /\ rdseed => \E i \in DOMAIN found' : found'[i] = "rdseed"
      /\ ~rdseed => \A i \in DOMAIN found' : found'[i] # "rdseed"
  <2>1. CASE rdseed
    <3>1. 1 \in DOMAIN more /\ more[1] = "rdseed"
      BY <1>1, <2>1
    <3>2. QED BY <1>5, <2>1, <3>1
  <2>2. CASE ~rdseed
    <3>1. \A j \in DOMAIN more : more[j] = "pseudo"
      BY <1>1, <2>2
    <3>2. \A i \in DOMAIN found' : found'[i] # "rdseed"
      BY <1>3, <1>5, <3>1, Worlds
    <3>3. QED BY <2>2, <3>2
  <2>3. QED BY <2>1, <2>2
<1>8. ASSUME NEW family \in {"bitb", "trng"}
      PROVE  Told(family)'
  <2>1. Told(family)
    BY DEF ReportInv, Passed, ListSoft
  <2>2. \A j \in DOMAIN more : FamilyOf(more[j]) # family
    BY <1>1, Worlds DEF FamilyOf, Soft
  <2>3. Failed(family)' = Failed(family) /\ DevicesOf(family)' = DevicesOf(family)
    BY DEF ListSoft, Failed, DevicesOf
  <2>4. Candidates(family) = {} => Candidates(family)' = {}
    BY <1>5, <2>2 DEF Candidates
  <2>5. steady' = steady
    BY DEF ListSoft
  <2>6. QED BY <1>5, <2>1, <2>3, <2>4, <2>5 DEF Told
<1>9. /\ step' = "reported" /\ rdseed' = rdseed
  BY DEF ListSoft, world
<1>10. \A family \in {"bitb", "trng"} : Passed(family)'
  BY <1>9 DEF Passed
<1>11. QED BY <1>5, <1>6, <1>7, <1>8, <1>9, <1>10 DEF ReportInv

LEMMA ReportSteps == SourcesTypeOK /\ ReportInv /\ [Next]_vars => ReportInv'
<1> SUFFICES ASSUME SourcesTypeOK, ReportInv, [Next]_vars PROVE ReportInv'
  OBVIOUS
<1>0. DevicesOf("bitb")' = DevicesOf("bitb") /\ DevicesOf("trng")' = DevicesOf("trng")
  BY DEF DevicesOf
<1>1. ASSUME UNCHANGED <<step, found, issues, rdseed>>, steady' \subseteq steady
      PROVE  ReportInv'
  <2>1. ASSUME NEW family \in {"bitb", "trng"}
        PROVE  /\ Passed(family)' = Passed(family)
               /\ Told(family) => Told(family)'
               /\ Untold(family) => Untold(family)'
    BY <1>1, <1>0 DEF Passed, Told, Untold, Candidates, Failed
  <2>2. QED BY <1>1, <2>1 DEF ReportInv
<1>2. ASSUME NEW family \in {"bitb", "trng"}, NEW next, List(family, next),
             next = IF family = "bitb" THEN "trng" ELSE "soft"
      PROVE  ReportInv'
  <2>1. /\ step = family /\ step' = next /\ steady' = steady /\ rdseed' = rdseed
    BY <1>2 DEF List, world
  <2>2. ~Passed(family) /\ Passed(family)' /\ step # "reported" /\ step' # "reported"
    BY <1>2, <2>1 DEF Passed
  <2>3. \A other \in {"bitb", "trng"} \ {family} : Passed(other)' = Passed(other)
    BY <1>2, <2>1 DEF Passed
  <2>4. /\ Told(family)' /\ IsInjective(found') /\ found' \in Seq(Devices)
        /\ \A other \in {"bitb", "trng"} \ {family} :
              (Told(other) => Told(other)') /\ (Untold(other) => Untold(other)')
    <3>1. CASE Listed(family)
      BY <2>1, <2>2, <3>1, ListedIsTold
    <3>2. CASE ListFailed(family)
      BY <2>1, <2>2, <3>2, FailureIsTold DEF ListFailed, ReportInv
    <3>3. QED BY <1>2, <3>1, <3>2 DEF List
  <2>5. \A other \in {"bitb", "trng"} :
          (Passed(other)' => Told(other)') /\ (~Passed(other)' => Untold(other)')
    BY <2>2, <2>3, <2>4 DEF ReportInv
  <2>6. QED BY <2>2, <2>4, <2>5 DEF ReportInv
<1>3. ASSUME step' \in {"idle", "bitb"}, found' = <<>>, issues' = <<>>
      PROVE  ReportInv'
  <2>1. \A family \in {"bitb", "trng"} : ~Passed(family)' /\ Untold(family)'
    BY <1>3 DEF Passed, Untold, Candidates, Failed
  <2>2. IsInjective(found') /\ found' \in Seq(Devices)
    BY <1>3, EmptySeq DEF IsInjective
  <2>3. QED BY <1>3, <2>1, <2>2 DEF ReportInv
<1>4. ASSUME NEW d \in Devices, Plug(d) \/ Unplug(d) PROVE ReportInv'
  BY <1>1, <1>4 DEF Plug, Unplug, report
<1>5. ASSUME Discover \/ Forget PROVE ReportInv'
  BY <1>3, <1>5 DEF Discover, Forget
<1>6. ASSUME ListBitb \/ ListTrng PROVE ReportInv'
  BY <1>2, <1>6 DEF ListBitb, ListTrng
<1>7. CASE ListSoft
  BY <1>7, Softness
<1>8. ASSUME Open \/ ReadBits \/ Close PROVE ReportInv'
  BY <1>1, <1>8 DEF Open, ReadBits, Close, world, report
<1>9. ASSUME NameSession \/ NameConcat \/ ReadName \/ InferOffset \/ RecordOffset
      PROVE  ReportInv'
  <2>1. UNCHANGED <<world, report, handle>>
    BY <1>9 DEF NameSession, NameConcat, ReadName, InferOffset, RecordOffset, Answered
  <2>2. QED BY <1>1, <2>1 DEF world, report
<1>10. CASE UNCHANGED vars
  BY <1>1, <1>10 DEF vars, world, report
<1>11. QED BY <1>4, <1>5, <1>6, <1>7, <1>8, <1>9, <1>10 DEF Next

LEMMA ReportInvIsHonest ==
  ASSUME SourcesTypeOK, ReportInv
  PROVE  ReportIsHonest
<1> SUFFICES ASSUME step = "reported" PROVE ReportIsHonest
  BY DEF ReportIsHonest
<1>1. Told("bitb") /\ Told("trng")
  BY DEF ReportInv, Passed
<1>2. ASSUME NEW d \in steady
      PROVE  (\E i \in DOMAIN found : found[i] = d) \/ Failed(FamilyOf(d)) # {}
  <2>1. CASE d \in Bitbs
    BY <1>1, <2>1 DEF Told, DevicesOf, FamilyOf
  <2>2. CASE d \in Trngs
    BY <1>1, <2>2, Worlds DEF Told, DevicesOf, FamilyOf
  <2>3. QED BY <2>1, <2>2, Worlds DEF SourcesTypeOK
<1>3. ASSUME NEW family \in Families, Failed(family) # {}
      PROVE  Candidates(family) = {}
  <2>1. PICK i \in DOMAIN issues : issues[i].family = family
    BY <1>3 DEF Failed
  <2>2. family \in {"bitb", "trng"}
    <3>1. issues[i] \in [family : {"bitb", "trng"}, kind : Kinds]
      <4>1. issues \in Seq([family : {"bitb", "trng"}, kind : Kinds])
        BY DEF SourcesTypeOK
      <4>2. i \in 1 .. Len(issues)
        BY <4>1, LenProperties
      <4>3. QED BY <4>1, <4>2, ElementOfSeq, Zenon
    <3>2. QED BY <2>1, <3>1
  <2>3. QED BY <1>1, <1>3, <2>2 DEF Told
<1>4. rdseed <=> \E i \in DOMAIN found : found[i] = "rdseed"
  BY Zenon DEF ReportInv
<1>5. QED BY <1>2, <1>3, <1>4 DEF ReportIsHonest, ReportInv

-----------------------------------------------------------------------------
(* Results *)

LEMMA NamingCalls ==
  /\ NameSession => answer'.call = "session"
  /\ NameConcat => answer'.call = "concat"
  /\ ReadName => answer'.call = "parse"
  /\ InferOffset => answer'.call = "infer"
  /\ RecordOffset => answer'.call = "record"
<1>1. NameSession => answer'.call = "session"
  <2>1. NameSession => \E result, stem :
          answer' = [call |-> "session", result |-> result, stem |-> stem]
    BY Zenon DEF NameSession, Answered
  <2>2. QED BY <2>1
<1>2. NameConcat => answer'.call = "concat"
  <2>1. NameConcat => \E result, stem :
          answer' = [call |-> "concat", result |-> result, stem |-> stem]
    BY Zenon DEF NameConcat, Answered
  <2>2. QED BY <2>1
<1>3. ReadName => answer'.call = "parse"
  <2>1. ReadName => \E result, name :
          answer' = [call |-> "parse", result |-> result, name |-> name]
    BY Zenon DEF ReadName, Answered
  <2>2. QED BY <2>1
<1>4. InferOffset => answer'.call = "infer"
  BY DEF InferOffset, Answered
<1>5. RecordOffset => answer'.call = "record"
  BY DEF RecordOffset, Answered
<1>6. QED BY <1>1, <1>2, <1>3, <1>4, <1>5

(* A report is silent about nothing, open tells of absence only what is      *)
(* absent and chooses no device, and a sample is whole: whenever devices     *)
(* come and go, whichever calls of the libraries fail.                       *)
THEOREM SourcesStayHonest == Spec => []SourcesAreHonest
<1> DEFINE Inv == SourcesTypeOK /\ ReportInv /\ OpenIsHonest /\ SampleIsWhole
<1>1. Init => Inv
  <2>1. Init => SourcesTypeOK
    <3>1. <<>> \in Seq(Devices \cup Soft) /\ <<>> \in Seq([family : {"bitb", "trng"}, kind : Kinds])
      BY EmptySeq
    <3>2. QED BY <3>1 DEF Init, SourcesTypeOK
  <2>2. Init => ReportInv
    BY EmptySeq DEF Init, ReportInv, Passed, Untold, Candidates, Failed, IsInjective
  <2>3. QED BY <2>1, <2>2 DEF Init, OpenIsHonest, SampleIsWhole, NoAnswer
<1>2. SourcesTypeOK /\ OpenIsHonest /\ [Next]_vars => OpenIsHonest'
  <2> SUFFICES ASSUME SourcesTypeOK, OpenIsHonest, [Next]_vars PROVE OpenIsHonest'
    OBVIOUS
  <2>1. CASE Open
    <3>1. plugged' = plugged
      BY <2>1 DEF Open, world
    <3>2. CASE OpenDevice("bitb", 0 .. 4)
      BY <3>1, <3>2, DeviceIsOpenedHonestly
    <3>3. CASE OpenDevice("trng", {NoFold})
      BY <3>1, <3>3, DeviceIsOpenedHonestly
    <3>4. CASE OpenSoft("rdseed") \/ OpenSoft("pseudo")
      BY <3>4, SoftIsOpenedHonestly DEF Soft
    <3>5. QED BY <2>1, <3>2, <3>3, <3>4 DEF Open, OpenBitb, OpenTrng, OpenRdseed, OpenPseudo
  <2>2. CASE UNCHANGED vars
    BY <2>2 DEF vars, world, OpenIsHonest, Present, DevicesOf, FamilyOf
  <2>3. CASE answer'.call # "open"
    BY <2>3 DEF OpenIsHonest
  <2>4. ASSUME ~Open, Next PROVE answer'.call # "open"
    <3>1. ASSUME NEW size, NEW bytes
          PROVE  /\ EnforceLen(size, bytes).call = "read"
                 /\ \A result : ReadAnswer(size, result, bytes).call = "read"
      BY DEF EnforceLen, ReadAnswer
    <3>2. CASE ReadBits
      BY <3>1, <3>2 DEF ReadBits
    <3>3. CASE NameSession \/ NameConcat \/ ReadName \/ InferOffset \/ RecordOffset
      BY <3>3, NamingCalls
    <3>5. QED BY <2>4, <3>2, <3>3
              DEF Next, Plug, Unplug, Discover, ListBitb, ListTrng, List, ListSoft,
                  Forget, Close, NoAnswer
  <2>5. QED BY <2>1, <2>2, <2>3, <2>4
<1>3. SourcesTypeOK /\ SampleIsWhole /\ [Next]_vars => SampleIsWhole'
  <2> SUFFICES ASSUME SourcesTypeOK, SampleIsWhole, [Next]_vars PROVE SampleIsWhole'
    OBVIOUS
  <2>1. CASE ReadBits
    BY <2>1, SampleIsReadWhole
  <2>2. CASE UNCHANGED vars
    BY <2>2 DEF vars, world, SampleIsWhole
  <2>3. ASSUME ~ReadBits, Next PROVE answer'.call # "read"
    <3>1. CASE Open
      <4>1. CASE OpenDevice("bitb", 0 .. 4) \/ OpenDevice("trng", {NoFold})
        BY <4>1 DEF OpenDevice, Opened, Refused
      <4>2. CASE OpenSoft("rdseed") \/ OpenSoft("pseudo")
        BY <4>2 DEF OpenSoft, Opened, Refused
      <4>3. QED BY <3>1, <4>1, <4>2 DEF Open, OpenBitb, OpenTrng, OpenRdseed, OpenPseudo
    <3>3. CASE NameSession \/ NameConcat \/ ReadName \/ InferOffset \/ RecordOffset
      BY <3>3, NamingCalls
    <3>5. QED BY <2>3, <3>1, <3>3
              DEF Next, Plug, Unplug, Discover, ListBitb, ListTrng, List, ListSoft,
                  Forget, Close, NoAnswer
  <2>4. QED BY <2>1, <2>2, <2>3 DEF SampleIsWhole
<1>4. Inv /\ [Next]_vars => Inv'
  BY <1>2, <1>3, SourcesTyped, ReportSteps
<1>5. Inv => SourcesAreHonest
  BY ReportInvIsHonest DEF SourcesAreHonest
<1>6. QED BY <1>1, <1>4, <1>5, PTL DEF Spec

LEMMA NamesAreMadeTrue ==
  ASSUME SourcesTypeOK, NameSession \/ NameConcat \/ ReadName
  PROVE  NamesAreTrue'
<1>1. CASE NameSession
  <2>1. PICK start \in Starts, bits \in Sizes, interval \in Intervals :
          LET stem == [start |-> start, source |-> Word(FamilyOf(handle.source)),
                       bits |-> bits, interval |-> interval, fold |-> handle.fold]
          IN  answer' = [call |-> "session", result |-> RenderSession(stem), stem |-> stem]
    BY <1>1 DEF NameSession, Answered
  <2> DEFINE stem == [start |-> start, source |-> Word(FamilyOf(handle.source)),
                      bits |-> bits, interval |-> interval, fold |-> handle.fold]
  <2>2. /\ FamilyOf(handle.source) \in Families
        /\ handle.fold # NoFold <=> FamilyOf(handle.source) = "bitb"
        /\ handle.fold # NoFold => handle.fold \in 0 .. 4
    <3>1. CASE handle \in [source : Bitbs, fold : 0 .. 4]
      BY <3>1 DEF FamilyOf, Families, NoFold
    <3>2. CASE handle \in [source : Trngs \cup Soft, fold : {NoFold}]
      BY <3>2, Worlds DEF FamilyOf, Families, NoFold, Soft
    <3>3. QED BY <1>1, <3>1, <3>2 DEF SourcesTypeOK, NameSession
  <2>3. /\ start \in Nat /\ bits \in Nat /\ IsBits(bits)
        /\ interval \in Nat /\ IsInterval(interval)
    BY SourcesAssumption, NamingAssumption DEF IsInterval, IsBits
  <2>4. /\ stem \in Stem /\ IsStem(stem)
    <3>1. /\ Word(FamilyOf(handle.source)) \in Token
          /\ Word(FamilyOf(handle.source)).text \in Identifiers
      BY <2>2, NamingAssumption DEF Word, Token, Families
    <3>2. Word(FamilyOf(handle.source)) = Word("bitb") <=> FamilyOf(handle.source) = "bitb"
      BY DEF Word
    <3>3. handle.fold \in Nat \cup {NoFold}
      BY <2>2
    <3>4. stem \in Stem
      BY <2>3, <3>1, <3>3 DEF Stem
    <3>5. /\ stem.source = Word(FamilyOf(handle.source)) /\ stem.bits = bits
          /\ stem.interval = interval /\ stem.fold = handle.fold
      OBVIOUS
    <3> HIDE DEF stem
    <3>6. IsStem(stem)
      BY <2>2, <2>3, <3>1, <3>2, <3>5 DEF IsStem, IsSource, IsFold, FoldRules
    <3>7. QED BY <3>4, <3>6
  <2>5. answer' = [call |-> "session", result |-> RenderSession(stem), stem |-> stem]
    BY <2>1
  <2> HIDE DEF stem
  <2>6. RenderSession(stem) \in Seq(Token)
    BY <2>4, SessionTokens
  <2>7. /\ IsSession(RenderSession(stem)) /\ StemOf(RenderSession(stem)) = stem
        /\ ~IsConcat(RenderSession(stem))
    BY <2>4, <2>6, SessionRoundTrip, OneReading
  <2>8. Dispatch(RenderSession(stem)) = "session"
    BY <2>7 DEF Dispatch
  <2>9. QED BY <2>5, <2>7, <2>8 DEF NamesAreTrue, NamesReadBack, ClockIsTrueOrAbsent
<1>2. CASE NameConcat
  <2>1. PICK start \in Starts, family \in Families \cup {"mixed"}, bits \in Sizes,
             interval \in Intervals, fold \in 0 .. 4 :
          LET stem == [start |-> start, source |-> Word(family), bits |-> bits,
                       interval |-> interval,
                       fold |-> IF family = "bitb" THEN fold ELSE NoFold]
          IN  answer' = [call |-> "concat", result |-> RenderConcat(stem), stem |-> stem]
    BY <1>2 DEF NameConcat, Answered
  <2> DEFINE kept == IF family = "bitb" THEN fold ELSE NoFold
             stem == [start |-> start, source |-> Word(family), bits |-> bits,
                      interval |-> interval, fold |-> kept]
  <2>2. /\ start \in Nat /\ bits \in Nat /\ IsBits(bits)
        /\ interval \in Nat /\ IsInterval(interval)
    BY SourcesAssumption, NamingAssumption DEF IsInterval, IsBits
  <2>3. /\ stem \in Stem /\ IsStem(stem)
    <3>1. Word(family) \in Token /\ Word(family).text \in Identifiers
      BY NamingAssumption DEF Word, Token, Families
    <3>2. Word(family) = Word("bitb") <=> family = "bitb"
      BY DEF Word
    <3>3. /\ kept \in Nat \cup {NoFold}
          /\ kept # NoFold <=> family = "bitb"
          /\ kept # NoFold => kept \in 0 .. 4
      BY DEF NoFold
    <3> HIDE DEF kept
    <3>4. stem \in Stem
      BY <2>2, <3>1, <3>3 DEF Stem
    <3>5. /\ stem.source = Word(family) /\ stem.bits = bits
          /\ stem.interval = interval /\ stem.fold = kept
      OBVIOUS
    <3> HIDE DEF stem
    <3>6. IsStem(stem)
      BY <2>2, <3>1, <3>2, <3>3, <3>5 DEF IsStem, IsSource, IsFold, FoldRules
    <3>7. QED BY <3>4, <3>6
  <2>4. answer' = [call |-> "concat", result |-> RenderConcat(stem), stem |-> stem]
    BY <2>1
  <2> HIDE DEF stem
  <2>5. RenderConcat(stem) \in Seq(Token)
    BY <2>3, ConcatTokens
  <2>6. /\ IsConcat(RenderConcat(stem)) /\ ConcatStemOf(RenderConcat(stem)) = stem
        /\ ~IsSession(RenderConcat(stem))
    BY <2>3, <2>5, ConcatRoundTrip, OneReading
  <2>7. Dispatch(RenderConcat(stem)) = "concat"
    BY <2>6 DEF Dispatch
  <2>8. QED BY <2>4, <2>6, <2>7 DEF NamesAreTrue, NamesReadBack, ClockIsTrueOrAbsent
<1>3. CASE ReadName
  <2>0. PICK n \in 0 .. MaxTokens : \E head \in Heads, rest \in [1 .. n -> Tokens] :
          answer' = [call |-> "parse", result |-> Dispatch(<<head>> \o rest),
                     name |-> <<head>> \o rest]
    BY <1>3 DEF ReadName, Answered
  <2>1. PICK head \in Heads, rest \in [1 .. n -> Tokens] :
          answer' = [call |-> "parse", result |-> Dispatch(<<head>> \o rest),
                     name |-> <<head>> \o rest]
    BY <2>0
  <2> DEFINE name == <<head>> \o rest
  <2>2. name \in Seq(Token)
    <3>1. n \in Nat
      BY SourcesAssumption
    <3>2. <<head>> \in Seq(Token) /\ rest \in Seq(Token)
      BY <3>1, SourcesAssumption
    <3>3. QED BY <3>2, ConcatProperties
  <2>3. answer' = [call |-> "parse", result |-> Dispatch(name), name |-> name]
    BY <2>1
  <2> HIDE DEF name
  <2>4. ~(IsSession(name) /\ IsConcat(name))
    BY <2>2, OneReading
  <2>5. Dispatch(name) = "concat" => name = RenderConcat(ConcatStemOf(name))
    BY <2>2, ConcatReadingIsChosen DEF Dispatch
  <2>6. QED BY <2>3, <2>4, <2>5 DEF NamesAreTrue, NamesReadBack, ClockIsTrueOrAbsent
<1>4. QED BY <1>1, <1>2, <1>3

LEMMA ClockIsToldTrue ==
  ASSUME InferOffset \/ RecordOffset
  PROVE  NamesAreTrue'
<1>1. CASE InferOffset
  <2>1. PICK offset \in Offsets, delay \in Delays, acquisition \in Acquisitions :
          answer' = [call |-> "infer", result |-> Inferred(offset - delay, acquisition),
                     offset |-> offset, delay |-> delay, acquisition |-> acquisition]
    BY <1>1 DEF InferOffset, Answered
  <2>2. ASSUME IsZone(offset), delay < 450
        PROVE  /\ Inferred(offset - delay, acquisition) \in {offset, Unknown}
               /\ delay <= 60 \/ delay <= acquisition + 2 =>
                    Inferred(offset - delay, acquisition) = offset
    <3>1. /\ offset \in Int /\ delay \in 0 .. 449
          /\ acquisition \in Nat \cup {NoAcquisition}
      BY <2>2, SourcesAssumption
    <3>2. QED BY <2>2, <3>1, InferredIsRight
  <2> DEFINE result == Inferred(offset - delay, acquisition)
  <2> HIDE DEF result
  <2>3. /\ answer'.call = "infer" /\ answer'.result = result /\ answer'.offset = offset
        /\ answer'.delay = delay /\ answer'.acquisition = acquisition
    BY <2>1 DEF result
  <2>4. ClockIsTrueOrAbsent'
    BY <2>2, <2>3 DEF ClockIsTrueOrAbsent, result
  <2>5. NamesReadBack'
    BY <2>3 DEF NamesReadBack
  <2>6. QED BY <2>4, <2>5 DEF NamesAreTrue
<1>2. CASE RecordOffset
  <2>1. PICK offset \in Offsets :
          answer' = [call |-> "record", result |-> Parsed(Written(offset)), offset |-> offset]
    BY <1>2 DEF RecordOffset, Answered
  <2> DEFINE result == Parsed(Written(offset))
  <2>2. Distance(result, offset) < 60 /\ Distance(result, 0) <= Distance(offset, 0)
    BY SourcesAssumption, RecordedIsRight
  <2> HIDE DEF result
  <2>3. answer'.call = "record" /\ answer'.result = result /\ answer'.offset = offset
    BY <2>1 DEF result
  <2>4. ClockIsTrueOrAbsent'
    BY <2>2, <2>3 DEF ClockIsTrueOrAbsent
  <2>5. NamesReadBack'
    BY <2>3 DEF NamesReadBack
  <2>6. QED BY <2>4, <2>5 DEF NamesAreTrue
<1>3. QED BY <1>1, <1>2

(* Whatever session or bundle is named reads back as itself and as nothing   *)
(* else, no name given to a reader has two readings, and an inferred offset  *)
(* is that of the clock.                                                     *)
THEOREM NamesStayTrue == Spec => []NamesAreTrue
<1>1. Init => NamesAreTrue
  BY DEF Init, NoAnswer, NamesAreTrue, NamesReadBack, ClockIsTrueOrAbsent
<1>2. SourcesTypeOK /\ NamesAreTrue /\ [Next]_vars => NamesAreTrue'
  <2> SUFFICES ASSUME SourcesTypeOK, NamesAreTrue, [Next]_vars PROVE NamesAreTrue'
    OBVIOUS
  <2>1. CASE NameSession \/ NameConcat \/ ReadName
    BY <2>1, NamesAreMadeTrue
  <2>2. CASE InferOffset \/ RecordOffset
    BY <2>2, ClockIsToldTrue
  <2>3. CASE UNCHANGED vars
    BY <2>3 DEF vars, NamesAreTrue, NamesReadBack, ClockIsTrueOrAbsent
  <2>4. ASSUME answer'.call \in {"none", "open", "read"} PROVE NamesAreTrue'
    BY <2>4 DEF NamesAreTrue, NamesReadBack, ClockIsTrueOrAbsent
  <2>5. CASE Open
    <3>1. CASE OpenDevice("bitb", 0 .. 4) \/ OpenDevice("trng", {NoFold})
      BY <2>4, <3>1 DEF OpenDevice, Opened, Refused
    <3>2. CASE OpenSoft("rdseed") \/ OpenSoft("pseudo")
      BY <2>4, <3>2 DEF OpenSoft, Opened, Refused
    <3>3. QED BY <2>5, <3>1, <3>2 DEF Open, OpenBitb, OpenTrng, OpenRdseed, OpenPseudo
  <2>6. CASE ReadBits
    <3>1. ASSUME NEW size, NEW bytes
          PROVE  /\ EnforceLen(size, bytes).call = "read"
                 /\ \A result : ReadAnswer(size, result, bytes).call = "read"
      BY DEF EnforceLen, ReadAnswer
    <3>2. QED BY <2>4, <2>6, <3>1 DEF ReadBits
  <2>7. QED BY <2>1, <2>2, <2>3, <2>4, <2>5, <2>6
            DEF Next, Plug, Unplug, Discover, ListBitb, ListTrng, List, ListSoft,
                Forget, Close, NoAnswer
<1>3. QED BY <1>1, <1>2, SourcesTypesAreRight, PTL DEF Spec

=============================================================================
