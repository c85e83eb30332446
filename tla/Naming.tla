-------------------------------- MODULE Naming --------------------------------
(***************************************************************************)
(* The names of sessions and of concatenation bundles, and what a report   *)
(* makes of one: SessionStem and ConcatenationStem of rngkit_recording,    *)
(* SourceId, Fold, SampleBits and IntervalSeconds of rngkit_core, and the  *)
(* clock offset rngkit_xlsx infers from a name.                            *)
(*                                                                         *)
(* A name is the sequence of the tokens between its underscores, a token a *)
(* text, the digits behind it as a number (NoNumber if there are none) and *)
(* whether they begin with a superfluous zero.  A token can be more than   *)
(* one thing: "s8" is a sample size and a source identifier as well.  The  *)
(* time of a name is a token too, with the text "T"; times are seconds.    *)
(***************************************************************************)
EXTENDS Integers, Sequences

CONSTANTS
  Texts,        (* of tokens                                              *)
  Identifiers,  (* those that may be, or begin, a source identifier       *)
  MaxNumber     (* the largest number that can be read, 2^32 - 1           *)

ASSUME NamingAssumption ==
  /\ Identifiers \cup {"T", "s", "i", "f"} \subseteq Texts
  /\ {"bitb", "trng", "rdseed", "pseudo", "mixed", "concat"} \subseteq Identifiers
  /\ "T" \notin Identifiers
  /\ MaxNumber \in Nat /\ MaxNumber >= 8

NoNumber == -1
NoFold   == -1

Token == [text : Texts, number : Nat \cup {NoNumber}, padded : BOOLEAN]

Word(text)       == [text |-> text, number |-> NoNumber, padded |-> FALSE]
Number(text, n)  == [text |-> text, number |-> n, padded |-> FALSE]
Concat           == Word("concat")

-----------------------------------------------------------------------------
(* Values *)

(* SourceId::new *)
IsSource(token) == token \in Token /\ token.text \in Identifiers

(* SampleBits::new, IntervalSeconds::new, Fold::new *)
IsBits(n)     == n \in 1 .. MaxNumber /\ n % 8 = 0
IsInterval(n) == n \in 1 .. MaxNumber
IsFold(n)     == n \in 0 .. 4

(* validate_fold_rules: a BitBabbler, and nothing else, has a fold *)
FoldRules(source, fold) == fold # NoFold <=> source = Word("bitb")

(* What a name stands for, and which of them SessionStem::new lets be one *)
Stem == [start : Nat, source : Token, bits : Nat, interval : Nat,
         fold : Nat \cup {NoFold}]

IsStem(stem) ==
  /\ IsSource(stem.source)
  /\ IsBits(stem.bits) /\ IsInterval(stem.interval)
  /\ stem.fold # NoFold => IsFold(stem.fold)
  /\ FoldRules(stem.source, stem.fold)

-----------------------------------------------------------------------------
(* Names of sessions *)

FoldSuffix(fold) == IF fold = NoFold THEN <<>> ELSE <<Number("f", fold)>>

RenderSession(stem) ==
  <<Number("T", stem.start), stem.source, Number("s", stem.bits),
    Number("i", stem.interval)>> \o FoldSuffix(stem.fold)

(* parse_prefixed_u32 *)
IsNumber(token, text) ==
  token \in Token /\ token.text = text /\ token.number \in 0 .. MaxNumber

IsTime(token) == token \in Token /\ token.text = "T" /\ token.number # NoNumber

StemOf(name) ==
  [start |-> name[1].number, source |-> name[2], bits |-> name[3].number,
   interval |-> name[4].number,
   fold |-> IF Len(name) = 5 THEN name[5].number ELSE NoFold]

(* SessionStem::parse accepts the name; superfluous zeros are no obstacle.   *)
(* A hyphen (version 2), a separator of paths or ".." is in no valid token.  *)
IsSession(name) ==
  /\ Len(name) \in {4, 5}
  /\ IsTime(name[1]) /\ IsSource(name[2])
  /\ IsNumber(name[3], "s") /\ IsNumber(name[4], "i")
  /\ Len(name) = 5 => IsNumber(name[5], "f")
  /\ IsStem(StemOf(name))

-----------------------------------------------------------------------------
(* Names of concatenations *)

RenderConcat(stem) ==
  <<Number("T", stem.start), Concat, stem.source, Number("s", stem.bits),
    Number("i", stem.interval)>> \o FoldSuffix(stem.fold)

Without(name, k) == SubSeq(name, 1, k - 1) \o SubSeq(name, k + 1, Len(name))

(* where "_concat_" occurs, with both of its underscores *)
Marks(name) == {k \in 2 .. Len(name) - 1 : name[k] = Concat}

(* the occurrence split_once takes, if no other follows in the rest *)
IsMark(name, k) ==
  k \in Marks(name) /\ \A j \in Marks(name) : j = k \/ j = k + 1

(* mutated: the name need not be the one that would be rendered *)
ReadsAsConcatLoosely(name, k) == IsMark(name, k) /\ IsSession(Without(name, k))

ReadsAsConcat(name, k) ==
  /\ IsMark(name, k)
  /\ IsSession(Without(name, k))
  /\ RenderConcat(StemOf(Without(name, k))) = name

(* ConcatenationStem::parse *)
IsConcat(name) == \E k \in Marks(name) : ReadsAsConcat(name, k)

ConcatStemOf(name) ==
  StemOf(Without(name, CHOOSE k \in Marks(name) : ReadsAsConcat(name, k)))

(* which reader open_standalone gives a CSV of that name to *)
Dispatch(name) ==
  IF IsConcat(name) THEN "concat" ELSE IF IsSession(name) THEN "session" ELSE "refused"

-----------------------------------------------------------------------------
(* The offset of the clock that named a session *)

QuarterHour == 900

(* mutated: half a quarter is added whatever the sign, then divided towards *)
(* zero                                                                     *)
NearestQuarterUnsigned(seconds) ==
  LET size == seconds + 450
  IN  IF size >= 0 THEN (size \div QuarterHour) * QuarterHour
                   ELSE -(((-size) \div QuarterHour) * QuarterHour)

(* Rust divides towards zero *)
NearestQuarter(seconds) ==
  IF seconds >= 0 THEN ((seconds + 450) \div QuarterHour) * QuarterHour
                  ELSE -(((450 - seconds) \div QuarterHour) * QuarterHour)

Distance(a, b) == IF a >= b THEN a - b ELSE b - a

NoAcquisition == -1  (* a row of version 3 does not say *)
Unknown       == 86400  (* no offset of a clock *)

(* what the first row may lie behind the start, by how long it took to read *)
Tolerance(acquisition) ==
  IF acquisition = NoAcquisition \/ acquisition + 2 < 60 THEN 60
  ELSE IF acquisition + 2 > 450 THEN 450 ELSE acquisition + 2

(* recorded_clock_offset without a manifest: the local start in the name     *)
(* less the UTC of the first row                                             *)
Inferred(difference, acquisition) ==
  LET rounded == NearestQuarter(difference)
  IN  IF /\ -43200 <= rounded /\ rounded <= 50400
         /\ Distance(difference, rounded) <= Tolerance(acquisition)
        THEN rounded ELSE Unknown

(* format_offset in the manifest and parse_utc_offset in the report: signed  *)
(* hours and minutes                                                         *)
Written(offset) ==
  LET size == Distance(offset, 0)
  IN  [sign |-> IF offset < 0 THEN -1 ELSE 1,
       hours |-> size \div 3600, minutes |-> (size % 3600) \div 60]

Parsed(text) == text.sign * (text.hours * 3600 + text.minutes * 60)

=============================================================================
