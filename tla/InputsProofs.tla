----------------------------- MODULE InputsProofs -----------------------------
(***************************************************************************)
(* What holds of opening files without a manifest for any files, names,    *)
(* sizes and recorders.  Files only ever grow at their end (Grown); what a *)
(* call has read stays true of them (Backed), and what was there when it   *)
(* began is among it (Shown).  While nothing grows, each step settles one  *)
(* part of the verdict (Settled), of rows and samples of any number.       *)
(***************************************************************************)
EXTENDS Inputs, SequenceTheorems, WellFoundedInduction, TLAPS

Extends(s, t) ==
  /\ Len(s) <= Len(t)
  /\ \A k \in 1 .. Len(s) : t[k] = s[k]

Backed(records) ==
  /\ Len(records) <= Len(Body(csv.lines))
  /\ \A k \in 1 .. Len(records) :
       /\ records[k].ones = Body(csv.lines)[k].ones
       /\ records[k].time = Body(csv.lines)[k].time

Shown(records) == Len(records) >= Len(Body(base.lines))

AbsentIsEmpty == ~csv.there => csv.lines = <<>>

BaseIsOld ==
  /\ base.there => csv.there
  /\ ~base.there => base.lines = <<>>
  /\ Extends(base.lines, csv.lines)

Waiting == pc # "done" => answer = NoAnswer

(* samples are read on their own only if the CSV came later, if ever *)
Alone == pc = "bin" \/ (pc = "statBin" /\ ~seen.csv) => ~base.there

Found == pc = "current" => Format(csv.lines) = "current"

RowsOK == pc = "pair" => Backed(rows) /\ Shown(rows)

IInv ==
  /\ TypeOK
  /\ AbsentIsEmpty /\ BaseIsOld
  /\ Waiting /\ Alone /\ Found /\ RowsOK
  /\ RecordsAreBacked /\ NoRowMissed /\ EstimatedWithoutCsv

(* what a recorder does to the files *)
Grown ==
  /\ CsvOK' /\ BinOK' /\ recorder' \in {"none", "recording", "stopped"}
  /\ AbsentIsEmpty'
  /\ csv.there => csv'.there
  /\ Extends(csv.lines, csv'.lines)
  /\ Extends(bin.ones, bin'.ones)
  /\ grew' \in BOOLEAN
  /\ UNCHANGED reader

-----------------------------------------------------------------------------
(* Sequences that grow *)

LEMMA ExtendsItself ==
  ASSUME NEW S, NEW s \in Seq(S)
  PROVE  Extends(s, s)
<1>1. Len(s) \in Nat
  BY LenProperties
<1> QED
  BY <1>1 DEF Extends

LEMMA AppendExtends ==
  ASSUME NEW S, NEW s \in Seq(S), NEW x \in S
  PROVE  Append(s, x) \in Seq(S) /\ Extends(s, Append(s, x))
<1>1. /\ Append(s, x) \in Seq(S)
      /\ Len(Append(s, x)) = Len(s) + 1
      /\ \A k \in 1 .. Len(s) : Append(s, x)[k] = s[k]
  BY AppendProperties
<1>2. Len(s) \in Nat
  BY LenProperties
<1> QED
  BY <1>1, <1>2 DEF Extends

LEMMA EmptyExtends ==
  ASSUME NEW S, NEW t \in Seq(S)
  PROVE  Extends(<<>>, t)
<1>1. Len(t) \in Nat /\ Len(<<>>) = 0
  BY LenProperties, EmptySeq
<1> QED
  BY <1>1 DEF Extends

LEMMA ExtendsTransitive ==
  ASSUME NEW S, NEW s \in Seq(S), NEW t \in Seq(S), NEW u \in Seq(S),
         Extends(s, t), Extends(t, u)
  PROVE  Extends(s, u)
<1>1. Len(s) \in Nat /\ Len(t) \in Nat /\ Len(u) \in Nat
  BY LenProperties
<1>2. ASSUME NEW k \in 1 .. Len(s)
      PROVE  u[k] = s[k]
  <2>1. k \in 1 .. Len(t)
    BY <1>1 DEF Extends
  <2> QED
    BY <2>1 DEF Extends
<1> QED
  BY <1>1, <1>2 DEF Extends

(* The rows of a CSV: all its lines, or all but the header.                  *)
LEMMA BodyFacts ==
  ASSUME NEW lines \in Seq(Line)
  PROVE  /\ Len(Body(lines)) \in Nat
         /\ Format(lines) = "current" =>
              /\ lines # <<>>
              /\ Len(Body(lines)) = Len(lines) - 1
              /\ \A k \in 1 .. Len(Body(lines)) : Body(lines)[k] = lines[k + 1]
         /\ Format(lines) # "current" => Body(lines) = lines
<1>1. Len(lines) \in Nat
  BY LenProperties
<1>2. Format(lines) # "current" => Body(lines) = lines
  BY DEF Body
<1>3. Format(lines) = "current" => lines # <<>>
  BY DEF Format
<1>4. ASSUME lines # <<>>
      PROVE  /\ Tail(lines) \in Seq(Line)
             /\ Len(Tail(lines)) = Len(lines) - 1
             /\ \A k \in 1 .. Len(Tail(lines)) : Tail(lines)[k] = lines[k + 1]
  BY <1>4, HeadTailProperties
<1>5. Format(lines) = "current" => Body(lines) = Tail(lines)
  BY DEF Body
<1>6. Format(lines) = "current" => Len(Tail(lines)) \in Nat
  BY <1>3, <1>4, LenProperties
<1> QED
  BY <1>1, <1>2, <1>3, <1>4, <1>5, <1>6

(* More lines are more rows, and the old ones stay.                          *)
LEMMA BodyGrows ==
  ASSUME NEW s \in Seq(Line), NEW t \in Seq(Line), Extends(s, t)
  PROVE  Extends(Body(s), Body(t))
<1>1. Len(s) \in Nat /\ Len(t) \in Nat
  BY LenProperties
<1>2. CASE s = <<>>
  <2>1. Format(s) # "current"
    BY <1>2 DEF Format
  <2>2. Body(s) = <<>>
    BY <1>2, <2>1, BodyFacts
  <2>3. Len(Body(t)) \in Nat /\ Len(<<>>) = 0
    BY BodyFacts, EmptySeq
  <2> QED
    BY <2>2, <2>3 DEF Extends
<1>3. CASE s # <<>>
  <2>1. Len(s) > 0
    BY <1>1, <1>3, EmptySeq
  <2>2. t[1] = s[1] /\ t # <<>>
    BY <1>1, <2>1, EmptySeq DEF Extends
  <2>3. Format(t) = Format(s)
    BY <1>3, <2>2 DEF Format
  <2>4. CASE Format(s) = "current"
    <3>1. /\ Len(Body(s)) = Len(s) - 1 /\ Len(Body(t)) = Len(t) - 1
          /\ \A k \in 1 .. Len(Body(s)) : Body(s)[k] = s[k + 1]
          /\ \A k \in 1 .. Len(Body(t)) : Body(t)[k] = t[k + 1]
      BY <2>3, <2>4, BodyFacts
    <3>2. Len(Body(s)) <= Len(Body(t))
      BY <1>1, <3>1 DEF Extends
    <3>3. ASSUME NEW k \in 1 .. Len(Body(s))
          PROVE  Body(t)[k] = Body(s)[k]
      <4>1. k + 1 \in 1 .. Len(s) /\ k \in 1 .. Len(Body(t))
        BY <1>1, <3>1, <3>2
      <4> QED
        BY <3>1, <4>1 DEF Extends
    <3> QED
      BY <3>2, <3>3 DEF Extends
  <2>5. CASE Format(s) # "current"
    BY <2>3, <2>5, BodyFacts
  <2> QED
    BY <2>4, <2>5
<1> QED
  BY <1>2, <1>3

(* Records made of rows stay true of a file that grows.                      *)
LEMMA BackedGrows ==
  ASSUME IInv, Grown, NEW records \in Seq(Record), Backed(records)
  PROVE  Backed(records)'
<1>1. csv.lines \in Seq(Line) /\ csv'.lines \in Seq(Line)
  BY DEF IInv, TypeOK, Grown, CsvOK, CsvFile
<1>2. Extends(Body(csv.lines), Body(csv'.lines))
  BY <1>1, BodyGrows DEF Grown
<1>3. /\ Len(Body(csv.lines)) \in Nat /\ Len(Body(csv'.lines)) \in Nat
      /\ Len(records) \in Nat
  BY <1>1, BodyFacts, LenProperties
<1>4. Body(csv.lines)' = Body(csv'.lines)
  BY DEF Body, Format
<1>5. Len(records) <= Len(Body(csv'.lines))
  BY <1>2, <1>3 DEF Extends, Backed
<1>6. ASSUME NEW k \in 1 .. Len(records)
      PROVE  Body(csv'.lines)[k] = Body(csv.lines)[k]
  <2>1. k \in 1 .. Len(Body(csv.lines))
    BY <1>3 DEF Backed
  <2> QED
    BY <1>2, <2>1 DEF Extends
<1> QED
  BY <1>4, <1>5, <1>6 DEF Backed

-----------------------------------------------------------------------------
(* The recorder *)

(* Growing files disturb nothing a call relies on.                           *)
LEMMA GrowthKeeps == IInv /\ Grown => IInv'
<1> SUFFICES ASSUME IInv, Grown
             PROVE  IInv'
  OBVIOUS
<1>1. /\ csv.lines \in Seq(Line) /\ csv'.lines \in Seq(Line)
      /\ base.lines \in Seq(Line) /\ bin.ones \in Seq(Nat) /\ bin'.ones \in Seq(Nat)
  BY DEF IInv, TypeOK, Grown, CsvOK, CsvFile, BinOK, BinFile
<1>2. UNCHANGED <<pc, call, seen, rows, answer, base>>
  BY DEF Grown, reader
<1>3. TypeOK'
  BY <1>2 DEF IInv, TypeOK, Grown
<1>4. BaseIsOld'
  <2>1. Extends(base.lines, csv'.lines)
    BY <1>1, ExtendsTransitive DEF IInv, BaseIsOld, Grown
  <2>2. Extends(base.lines, csv.lines)' = Extends(base.lines, csv'.lines)
    BY <1>2 DEF Extends
  <2> QED
    BY <1>2, <2>1, <2>2 DEF IInv, BaseIsOld, Grown
<1>5. Waiting' /\ Alone' /\ EstimatedWithoutCsv'
  BY <1>2 DEF IInv, Waiting, Alone, EstimatedWithoutCsv
<1>6. Found'
  <2> SUFFICES ASSUME pc = "current"
               PROVE  Format(csv.lines)' = "current"
    BY <1>2 DEF Found
  <2>1. Format(csv.lines) = "current" /\ csv.lines # <<>>
    BY <1>1, BodyFacts DEF IInv, Found
  <2>2. Len(csv.lines) \in Nat /\ Len(csv'.lines) \in Nat /\ Len(csv.lines) # 0
    BY <1>1, <2>1, LenProperties, EmptySeq
  <2>3. csv'.lines[1] = csv.lines[1] /\ csv'.lines # <<>>
    BY <2>2, EmptySeq DEF Grown, Extends
  <2> QED
    BY <2>1, <2>3 DEF Format
<1>7. RowsOK'
  <2> SUFFICES ASSUME pc = "pair"
               PROVE  Backed(rows)' /\ Shown(rows)'
    BY <1>2 DEF RowsOK
  <2>1. rows \in Seq(Record) /\ Backed(rows) /\ Shown(rows)
    BY DEF IInv, TypeOK, RowsOK
  <2>2. Backed(rows)'
    <3>1. \A r \in Seq(Record) : Backed(r) => Backed(r)'
      BY BackedGrows
    <3> QED
      BY <1>2, <2>1, <3>1 DEF Backed
  <2>3. Shown(rows)'
    BY <1>2, <2>1 DEF Shown, Body, Format
  <2> QED
    BY <2>2, <2>3
<1>8. RecordsAreBacked'
  <2> SUFFICES ASSUME answer.provenance = "recorded"
               PROVE  /\ Backed(answer.records)'
                      /\ answer.paired =>
                           \A k \in 1 .. Len(answer.records) :
                             /\ k <= Len(bin'.ones)
                             /\ bin'.ones[k] = answer.records[k].ones
    BY <1>2 DEF RecordsAreBacked, Backed
  <2>1. answer.records \in Seq(Record) /\ Backed(answer.records)
    BY DEF IInv, TypeOK, RecordsAreBacked, Backed
  <2>2. Backed(answer.records)'
    <3>1. \A r \in Seq(Record) : Backed(r) => Backed(r)'
      BY BackedGrows
    <3> QED
      BY <1>2, <2>1, <3>1 DEF Backed
  <2>3. ASSUME answer.paired, NEW k \in 1 .. Len(answer.records)
        PROVE  k <= Len(bin'.ones) /\ bin'.ones[k] = answer.records[k].ones
    <3>1. k <= Len(bin.ones) /\ bin.ones[k] = answer.records[k].ones
      BY <2>3 DEF IInv, RecordsAreBacked
    <3>2. Len(bin.ones) \in Nat /\ Len(bin'.ones) \in Nat /\ Len(answer.records) \in Nat
      BY <1>1, <2>1, LenProperties
    <3>3. k \in 1 .. Len(bin.ones)
      BY <3>1, <3>2
    <3> QED
      BY <3>1, <3>2, <3>3 DEF Grown, Extends
  <2> QED
    BY <2>2, <2>3
<1>9. NoRowMissed'
  BY <1>2 DEF IInv, NoRowMissed, Body, Format
<1> QED
  BY <1>3, <1>4, <1>5, <1>6, <1>7, <1>8, <1>9 DEF IInv, Grown

(* A CSV that gets one more line.                                            *)
LEMMA MoreCsv ==
  ASSUME IInv, Recording, NEW line \in Line, csv.there,
         csv' = [csv EXCEPT !.lines = Append(csv.lines, line)],
         bin' = bin, recorder' \in {"recording", "stopped"}
  PROVE  Grown
<1>1. csv \in CsvFile /\ bin \in BinFile
  BY DEF IInv, TypeOK, CsvOK, BinOK
<1>2. csv.lines \in Seq(Line) /\ bin.ones \in Seq(Nat)
  BY <1>1 DEF CsvFile, BinFile
<1>3. Append(csv.lines, line) \in Seq(Line) /\ Extends(csv.lines, Append(csv.lines, line))
  BY <1>2, AppendExtends
<1>4. csv'.there /\ csv'.lines = Append(csv.lines, line) /\ csv' \in CsvFile
  BY <1>1, <1>3 DEF CsvFile
<1>5. Extends(bin.ones, bin'.ones)
  BY <1>2, ExtendsItself
<1> QED
  BY <1>1, <1>3, <1>4, <1>5 DEF Grown, Recording, CsvOK, BinOK, AbsentIsEmpty

(* A BIN that gets more samples, another tail, or a name.                    *)
LEMMA MoreBin ==
  ASSUME IInv, Recording, bin' \in BinFile, Extends(bin.ones, bin'.ones),
         csv' = csv, recorder' \in {"recording", "stopped"}
  PROVE  Grown
<1>1. csv \in CsvFile /\ csv.lines \in Seq(Line)
  BY DEF IInv, TypeOK, CsvOK, CsvFile
<1>2. Extends(csv.lines, csv'.lines)
  BY <1>1, ExtendsItself
<1> QED
  BY <1>1, <1>2 DEF IInv, Grown, Recording, CsvOK, BinOK, AbsentIsEmpty

(* Whatever a recorder does, and wherever it stops, the files only grow.     *)
LEMMA RecorderGrows == IInv /\ RecorderStep => Grown
<1> SUFFICES ASSUME IInv, RecorderStep
             PROVE  Grown
  OBVIOUS
<1>1. /\ csv \in CsvFile /\ csv.lines \in Seq(Line) /\ Len(csv.lines) \in Nat
      /\ bin \in BinFile /\ bin.ones \in Seq(Nat) /\ Len(bin.ones) \in Nat
  <2>1. csv \in CsvFile /\ csv.lines \in Seq(Line) /\ bin \in BinFile /\ bin.ones \in Seq(Nat)
    BY DEF IInv, TypeOK, CsvOK, CsvFile, BinOK, BinFile
  <2> QED
    BY <2>1, LenProperties
<1>2. Extends(csv.lines, csv.lines) /\ Extends(bin.ones, bin.ones)
  BY <1>1, ExtendsItself
<1>3. Header \in Line /\ Torn \in Line /\ [Header EXCEPT !.kind = "badHeader"] \in Line
  BY DEF Header, Torn, Line, Kinds
<1>4. csv.lines # <<>> => csv.there
  BY DEF IInv, AbsentIsEmpty
<1>5. \A line : csv.lines = <<>> => <<line>> = Append(csv.lines, line)
  OBVIOUS
<1>6. CASE CreateBin
  <2>1. bin' \in BinFile /\ bin'.ones = bin.ones
    BY <1>1, <1>6 DEF CreateBin, BinFile
  <2> QED
    BY <1>2, <1>6, <2>1, MoreBin DEF CreateBin, Recording
<1>7. CASE CreateCsv
  <2>1. csv' \in CsvFile /\ csv'.there /\ csv'.lines = csv.lines
    BY <1>1, <1>7 DEF CreateCsv, CsvFile
  <2> QED
    BY <1>1, <1>2, <1>7, <2>1
    DEF CreateCsv, Recording, Grown, CsvOK, BinOK, AbsentIsEmpty
<1>8. CASE WriteHeader
  <2>1. csv' = [csv EXCEPT !.lines = Append(csv.lines, Header)]
    BY <1>5, <1>8 DEF WriteHeader
  <2> QED
    BY <1>3, <1>8, <2>1, MoreCsv DEF WriteHeader, Recording
<1>9. CASE WriteSample
  <2>1. PICK n \in 0 .. MaxOnes : bin' = [bin EXCEPT !.ones = Append(bin.ones, n)]
    BY <1>9 DEF WriteSample
  <2>2. n \in Nat
    BY InputsAssumption
  <2>3. Append(bin.ones, n) \in Seq(Nat) /\ Extends(bin.ones, Append(bin.ones, n))
    BY <1>1, <2>2, AppendExtends
  <2>4. bin' \in BinFile /\ bin'.ones = Append(bin.ones, n)
    BY <1>1, <2>1, <2>3 DEF BinFile
  <2> QED
    BY <1>9, <2>3, <2>4, MoreBin DEF WriteSample, Recording
<1>10. CASE WriteRow
  <2> DEFINE k == Len(bin.ones)
             line == [kind |-> "current", index |-> k, offset |-> k - 1,
                      ones |-> bin.ones[k], time |-> k]
  <2>1. /\ csv.lines # <<>> /\ k = Len(csv.lines) - 1 + 1
        /\ csv' = [csv EXCEPT !.lines = Append(csv.lines, line)]
    BY <1>10 DEF WriteRow, RowsWritten
  <2>2. k \in Nat \ {0}
    BY <1>1, <2>1, EmptySeq
  <2>3. bin.ones[k] \in Nat
    BY <1>1, <2>2, ElementOfSeq
  <2>4. line \in Line
    BY <2>2, <2>3 DEF Line, Kinds
  <2> HIDE DEF line
  <2> QED
    BY <1>4, <1>10, <2>1, <2>4, MoreCsv DEF WriteRow, Recording
<1>11. CASE StopRecording
  <2>1. Recording /\ recorder' = "stopped"
    BY <1>11 DEF StopRecording
  <2>2. CASE UNCHANGED <<csv, bin>>
    BY <1>1, <1>2, <2>1, <2>2, MoreBin
  <2>3. CASE /\ csv.there /\ csv.lines = <<>>
             /\ \E kind \in {"badHeader", "other"} :
                  csv' = [csv EXCEPT !.lines = <<[Header EXCEPT !.kind = kind]>>]
             /\ UNCHANGED bin
    <3>1. PICK kind \in {"badHeader", "other"} :
            csv' = [csv EXCEPT !.lines = <<[Header EXCEPT !.kind = kind]>>]
      BY <2>3
    <3>2. [Header EXCEPT !.kind = kind] \in Line
      BY DEF Header, Line, Kinds
    <3>3. csv' = [csv EXCEPT !.lines = Append(csv.lines, [Header EXCEPT !.kind = kind])]
      BY <1>5, <2>3, <3>1
    <3> QED
      BY <2>1, <2>3, <3>2, <3>3, MoreCsv
  <2>4. CASE bin' = [bin EXCEPT !.tail = "torn"] /\ UNCHANGED csv
    <3>1. bin' \in BinFile /\ bin'.ones = bin.ones
      BY <1>1, <2>4 DEF BinFile
    <3> QED
      BY <1>2, <2>1, <2>4, <3>1, MoreBin
  <2>5. CASE /\ csv.lines # <<>>
             /\ csv' = [csv EXCEPT !.lines = Append(csv.lines, Torn)]
             /\ UNCHANGED bin
    BY <1>3, <1>4, <2>1, <2>5, MoreCsv
  <2> QED
    BY <1>11, <2>2, <2>3, <2>4, <2>5 DEF StopRecording
<1> QED
  BY <1>6, <1>7, <1>8, <1>9, <1>10, <1>11 DEF RecorderStep


-----------------------------------------------------------------------------
(* The call *)

Steps == {"csvSibling", "detect", "current", "statCsv", "statBin", "legacy", "pair",
          "bin", "flat"}
Errors == {"name", "source", "io", "header", "malformed", "corrupt", "empty",
           "decreasing", "panic"}

(* what a step of a call leaves alone                                        *)
Looking == UNCHANGED <<files, base, grew>>

(* what it may change besides                                                *)
CallOK == /\ call' \in [op : Ops, name : Name]
          /\ seen' \in [csv : BOOLEAN, bin : BOOLEAN]
          /\ rows' \in Seq(Record)

LEMMA LookingKeeps ==
  ASSUME IInv, Looking
  PROVE  /\ AbsentIsEmpty' /\ BaseIsOld'
         /\ CsvOK' /\ BinOK' /\ recorder' \in {"none", "recording", "stopped"}
         /\ base' \in CsvFile /\ grew' \in BOOLEAN
<1>1. UNCHANGED <<csv, bin, recorder, base, grew>>
  BY DEF Looking, files
<1> QED
  BY <1>1 DEF IInv, TypeOK, CsvOK, BinOK, AbsentIsEmpty, BaseIsOld, Extends

(* A call that goes on.                                                      *)
LEMMA GoingOn ==
  ASSUME IInv, Looking, CallOK, pc # "done", NEW step \in Steps, GoOn(step),
         Alone', Found', RowsOK'
  PROVE  IInv'
<1>1. answer = NoAnswer /\ answer' = NoAnswer /\ pc' = step
  BY DEF IInv, Waiting, GoOn
<1>2. Waiting' /\ NoRowMissed' /\ EstimatedWithoutCsv' /\ RecordsAreBacked'
  BY <1>1 DEF Waiting, NoRowMissed, EstimatedWithoutCsv, RecordsAreBacked, NoAnswer
<1>3. answer' = answer
  BY <1>1
<1>4. TypeOK'
  BY <1>1, <1>3, LookingKeeps DEF IInv, TypeOK, CallOK, Steps
<1> QED
  BY <1>2, <1>4, LookingKeeps DEF IInv

(* A call that fails.                                                        *)
LEMMA Failing ==
  ASSUME IInv, Looking, CallOK, NEW error \in Errors, Fail(error)
  PROVE  IInv'
<1>1. answer' = [NoAnswer EXCEPT !.result = error] /\ pc' = "done"
  BY DEF Fail, Answered
<1>2. answer' = [result |-> error, records |-> <<>>, provenance |-> "none",
                 paired |-> FALSE]
  BY <1>1 DEF NoAnswer
<1>3. <<>> \in Seq(Record)
  BY EmptySeq
<1>4. TypeOK'
  <2>1. answer' \in [result : {"none", "ok", "name", "source", "io", "header",
                               "malformed", "corrupt", "empty", "decreasing", "panic"},
                     records : Seq(Record),
                     provenance : {"none", "recorded", "estimated"},
                     paired : BOOLEAN]
    BY <1>2, <1>3 DEF Errors
  <2> QED
    BY <1>1, <2>1, LookingKeeps DEF TypeOK, CallOK
<1>5. NoRowMissed' /\ EstimatedWithoutCsv' /\ RecordsAreBacked'
  BY <1>2 DEF NoRowMissed, EstimatedWithoutCsv, RecordsAreBacked, Errors
<1>6. Waiting' /\ Alone' /\ Found' /\ RowsOK'
  BY <1>1 DEF Waiting, Alone, Found, RowsOK
<1> QED
  BY <1>4, <1>5, <1>6, LookingKeeps DEF IInv

(* A call that opens what it was given.                                      *)
LEMMA Opening ==
  ASSUME IInv, Looking, CallOK, NEW records \in Seq(Record),
         NEW provenance \in {"recorded", "estimated"}, NEW paired \in BOOLEAN,
         Opened(records, provenance, paired), Shown(records),
         provenance = "estimated" => ~base.there,
         provenance = "recorded" => Backed(records),
         paired => \A k \in 1 .. Len(records) :
                     k <= Len(bin.ones) /\ bin.ones[k] = records[k].ones
  PROVE  IInv'
<1>1. /\ answer' = [result |-> "ok", records |-> records, provenance |-> provenance,
                    paired |-> paired]
      /\ pc' = "done"
  BY DEF Opened, Answered
<1>2. UNCHANGED <<csv, bin, base>>
  BY DEF Looking, files
<1>3. TypeOK'
  BY <1>1, LookingKeeps DEF TypeOK, CallOK
<1>4. Waiting' /\ Alone' /\ Found' /\ RowsOK'
  BY <1>1 DEF Waiting, Alone, Found, RowsOK
<1>5. NoRowMissed'
  BY <1>1, <1>2 DEF NoRowMissed, Shown, Body, Format
<1>6. EstimatedWithoutCsv'
  BY <1>1, <1>2 DEF EstimatedWithoutCsv
<1>7. RecordsAreBacked'
  BY <1>1, <1>2 DEF RecordsAreBacked, Backed, Body, Format
<1> QED
  BY <1>3, <1>4, <1>5, <1>6, <1>7, LookingKeeps DEF IInv

(* The beginning of a call that starts with the step it goes on to.          *)
LEMMA Beginning ==
  ASSUME IInv, NEW op \in Ops, Begin(op),
         \/ \E step \in {"flat", "detect", "csvSibling", "statCsv"} : GoOn(step)
         \/ \E error \in {"name", "source"} : Fail(error)
  PROVE  IInv'
<1>1. /\ pc = "idle" /\ answer = NoAnswer
      /\ base' = csv /\ grew' = FALSE
      /\ UNCHANGED <<csv, bin, recorder, seen, rows>>
  BY DEF Begin, IInv, Waiting, files
<1>2. call' \in [op : Ops, name : Name]
  BY DEF Begin
<1>3. csv \in CsvFile /\ csv.lines \in Seq(Line)
  BY DEF IInv, TypeOK, CsvOK, CsvFile
<1>4. AbsentIsEmpty'
  BY <1>1 DEF IInv, AbsentIsEmpty
<1>5. BaseIsOld'
  <2>1. Extends(csv.lines, csv.lines)
    BY <1>3, ExtendsItself
  <2>2. Extends(base.lines, csv.lines)' = Extends(csv.lines, csv.lines)
    BY <1>1 DEF Extends
  <2> QED
    BY <1>1, <2>1, <2>2 DEF IInv, AbsentIsEmpty, BaseIsOld
<1>6. CASE \E step \in {"flat", "detect", "csvSibling", "statCsv"} : GoOn(step)
  <2>1. answer' = NoAnswer /\ answer' = answer /\ pc' \in {"flat", "detect", "csvSibling", "statCsv"}
    BY <1>1, <1>6 DEF GoOn
  <2>2. TypeOK'
    BY <1>1, <1>2, <1>3, <2>1 DEF IInv, TypeOK, CsvOK, BinOK
  <2>3. NoRowMissed' /\ EstimatedWithoutCsv' /\ RecordsAreBacked'
    BY <2>1 DEF NoRowMissed, EstimatedWithoutCsv, RecordsAreBacked, NoAnswer
  <2>4. Waiting' /\ Alone' /\ Found' /\ RowsOK'
    BY <2>1 DEF Waiting, Alone, Found, RowsOK
  <2> QED
    BY <1>4, <1>5, <2>2, <2>3, <2>4 DEF IInv
<1>7. CASE \E error \in {"name", "source"} : Fail(error)
  <2>1. PICK error \in {"name", "source"} : Fail(error)
    BY <1>7
  <2>2. /\ answer' = [result |-> error, records |-> <<>>, provenance |-> "none",
                      paired |-> FALSE]
        /\ pc' = "done"
    BY <2>1 DEF Fail, Answered, NoAnswer
  <2>3. <<>> \in Seq(Record)
    BY EmptySeq
  <2>4. TypeOK'
    BY <1>1, <1>2, <1>3, <2>2, <2>3 DEF IInv, TypeOK, CsvOK, BinOK
  <2>5. NoRowMissed' /\ EstimatedWithoutCsv' /\ RecordsAreBacked'
    BY <2>2 DEF NoRowMissed, EstimatedWithoutCsv, RecordsAreBacked
  <2>6. Waiting' /\ Alone' /\ Found' /\ RowsOK'
    BY <2>2 DEF Waiting, Alone, Found, RowsOK
  <2> QED
    BY <1>4, <1>5, <2>4, <2>5, <2>6 DEF IInv
<1> QED
  BY <1>6, <1>7

LEMMA CallsKeep == IInv /\ (CallStandalone \/ CallLegacy \/ CallFlat) => IInv'
<1> SUFFICES ASSUME IInv, CallStandalone \/ CallLegacy \/ CallFlat
             PROVE  IInv'
  OBVIOUS
<1> DEFINE Started == \/ \E step \in {"flat", "detect", "csvSibling", "statCsv"} : GoOn(step)
                      \/ \E error \in {"name", "source"} : Fail(error)
<1>1. CASE CallStandalone
  <2>1. Begin("standalone")
    BY <1>1 DEF CallStandalone
  <2>2. Started
    BY <1>1 DEF CallStandalone, BeginFlat, GoOnIf
  <2> QED
    BY <2>1, <2>2, Beginning DEF Ops
<1>2. CASE CallLegacy
  <2>1. Begin("legacy")
    BY <1>2 DEF CallLegacy
  <2>2. Started
    BY <1>2 DEF CallLegacy, GoOnIf
  <2> QED
    BY <2>1, <2>2, Beginning DEF Ops
<1>3. CASE CallFlat
  <2>1. Begin("flat")
    BY <1>3 DEF CallFlat
  <2>2. Started
    BY <1>3 DEF CallFlat, BeginFlat, GoOnIf
  <2> QED
    BY <2>1, <2>2, Beginning DEF Ops
<1> QED
  BY <1>1, <1>2, <1>3

(* The looks at files before any row or sample is read.                      *)
LEMMA LooksKeep == IInv /\ (CsvSibling \/ Detect \/ StatCsv \/ StatBin) => IInv'
<1> SUFFICES ASSUME IInv, CsvSibling \/ Detect \/ StatCsv \/ StatBin
             PROVE  IInv'
  OBVIOUS
<1>1. /\ Looking /\ pc # "done" /\ UNCHANGED <<csv, bin, base, call, rows>>
      /\ seen' \in [csv : BOOLEAN, bin : BOOLEAN]
  <2>1. csv.there \in BOOLEAN /\ bin.there \in BOOLEAN /\ seen \in [csv : BOOLEAN, bin : BOOLEAN]
    BY DEF IInv, TypeOK, CsvOK, BinOK, CsvFile, BinFile
  <2>2. Looking /\ pc # "done" /\ UNCHANGED <<csv, bin, base, call, rows>>
    BY DEF CsvSibling, Detect, StatCsv, StatBin, Looking, files
  <2>3. \/ seen' = seen
        \/ seen' = [csv |-> csv.there, bin |-> FALSE]
        \/ seen' = [seen EXCEPT !.bin = bin.there]
    BY DEF CsvSibling, Detect, StatCsv, StatBin
  <2>4. seen' \in [csv : BOOLEAN, bin : BOOLEAN]
    <3>1. CASE seen' = seen
      BY <2>1, <3>1
    <3>2. CASE seen' = [csv |-> csv.there, bin |-> FALSE]
      BY <2>1, <3>2
    <3>3. CASE seen' = [seen EXCEPT !.bin = bin.there]
      BY <2>1, <3>3
    <3> QED
      BY <2>3, <3>1, <3>2, <3>3
  <2> QED
    BY <2>2, <2>4
<1>2. CallOK
  BY <1>1 DEF IInv, TypeOK, CallOK
<1>3. ~csv.there => ~base.there
  BY DEF IInv, BaseIsOld
<1>4. ASSUME NEW error \in Errors, Fail(error)
      PROVE  IInv'
  BY <1>1, <1>2, <1>4, Failing
<1>5. ASSUME NEW step \in Steps \ {"pair"}, GoOn(step),
             step = "bin" \/ (step = "statBin" /\ ~seen'.csv) => ~base.there,
             step = "current" => Format(csv.lines) = "current"
      PROVE  IInv'
  <2>1. pc' = step /\ step \in Steps /\ step # "pair"
    BY <1>5 DEF GoOn
  <2>2. Alone' /\ RowsOK'
    BY <1>1, <1>5, <2>1 DEF Alone, RowsOK
  <2>3. Found'
    BY <1>1, <1>5, <2>1 DEF Found, Format
  <2> QED
    BY <1>1, <1>2, <1>5, <2>1, <2>2, <2>3, GoingOn
<1>6. CASE CsvSibling
  <2>1. \/ GoOn("detect")
        \/ ~base.there /\ GoOn("bin")
        \/ Fail("source")
    BY <1>3, <1>6 DEF CsvSibling, GoOnIf
  <2> QED
    BY <1>4, <1>5, <2>1 DEF Steps, Errors
<1>7. CASE Detect
  <2>1. \/ Format(csv.lines) = "current" /\ GoOn("current")
        \/ GoOn("statCsv")
        \/ \E error \in Errors : Fail(error)
    BY <1>7 DEF Detect, GoOnIf, Errors
  <2> QED
    BY <1>4, <1>5, <2>1 DEF Steps
<1>8. CASE StatCsv
  <2>1. GoOn("statBin") /\ (~seen'.csv => ~base.there)
    BY <1>3, <1>8 DEF StatCsv
  <2> QED
    BY <1>5, <2>1 DEF Steps
<1>9. CASE StatBin
  <2>1. ~seen.csv => ~base.there
    BY <1>9 DEF StatBin, IInv, Alone
  <2>2. \/ GoOn("legacy")
        \/ ~base.there /\ GoOn("bin")
        \/ Fail("name")
    BY <1>9, <2>1 DEF StatBin, GoOnIf
  <2> QED
    BY <1>4, <1>5, <2>2 DEF Steps, Errors
<1> QED
  BY <1>6, <1>7, <1>8, <1>9

(* The rows a CSV had when the call began are among those it has.            *)
LEMMA BodyShown ==
  ASSUME IInv
  PROVE  /\ Len(Body(base.lines)) \in Nat /\ Len(Body(csv.lines)) \in Nat
         /\ Len(Body(base.lines)) <= Len(Body(csv.lines))
<1>1. base.lines \in Seq(Line) /\ csv.lines \in Seq(Line)
  BY DEF IInv, TypeOK, CsvOK, CsvFile
<1>2. Extends(Body(base.lines), Body(csv.lines))
  BY <1>1, BodyGrows DEF IInv, BaseIsOld
<1> QED
  BY <1>1, <1>2, BodyFacts DEF Extends

(* The records of all rows of the CSV.                                       *)
LEMMA WholeBody ==
  ASSUME IInv, NEW n \in Nat, n = Len(Body(csv.lines)),
         NEW records, records = [k \in 1 .. n |-> RecordOf(Body(csv.lines)[k])]
  PROVE  records \in Seq(Record) /\ Len(records) = n /\ Backed(records) /\ Shown(records)
<1>1. csv.lines \in Seq(Line) /\ Len(csv.lines) \in Nat
  <2>1. csv.lines \in Seq(Line)
    BY DEF IInv, TypeOK, CsvOK, CsvFile
  <2> QED
    BY <2>1, LenProperties
<1>2. ASSUME NEW k \in 1 .. n
      PROVE  Body(csv.lines)[k] \in Line
  <2>1. CASE Format(csv.lines) = "current"
    <3>1. Body(csv.lines)[k] = csv.lines[k + 1] /\ k + 1 \in 1 .. Len(csv.lines)
      BY <1>1, <2>1, BodyFacts
    <3> QED
      BY <1>1, <3>1, ElementOfSeq
  <2>2. CASE Format(csv.lines) # "current"
    <3>1. Body(csv.lines) = csv.lines
      BY <1>1, <2>2, BodyFacts
    <3> QED
      BY <1>1, <3>1, ElementOfSeq
  <2> QED
    BY <2>1, <2>2
<1>3. ASSUME NEW k \in 1 .. n
      PROVE  records[k] \in Record
  BY <1>2 DEF RecordOf, Record, Line
<1>4. records \in [1 .. n -> Record]
  BY <1>3
<1>5. records \in Seq(Record) /\ Len(records) = n
  BY <1>4
<1>6. Backed(records)
  BY <1>5 DEF Backed, RecordOf
<1>7. Shown(records)
  BY <1>5, BodyShown DEF Shown
<1> QED
  BY <1>5, <1>6, <1>7

LEMMA ReadsKeep == IInv /\ (ReadCurrent \/ ReadLegacy \/ ReadFlat) => IInv'
<1> SUFFICES ASSUME IInv, ReadCurrent \/ ReadLegacy \/ ReadFlat
             PROVE  IInv'
  OBVIOUS
<1> DEFINE body == Body(csv.lines)
           all == [k \in 1 .. Len(body) |-> RecordOf(body[k])]
<1>1. /\ Looking /\ pc # "done" /\ UNCHANGED <<csv, bin, base, call, seen>>
  BY DEF ReadCurrent, ReadLegacy, ReadFlat, Looking, files
<1>2. csv.lines \in Seq(Line) /\ Len(csv.lines) \in Nat
  <2>1. csv.lines \in Seq(Line)
    BY DEF IInv, TypeOK, CsvOK, CsvFile
  <2> QED
    BY <2>1, LenProperties
<1>3. Len(body) \in Nat
  BY <1>2, BodyFacts
<1>4. all \in Seq(Record) /\ Backed(all) /\ Shown(all)
  BY <1>3, WholeBody
<1>5. call \in [op : Ops, name : Name] /\ seen \in [csv : BOOLEAN, bin : BOOLEAN]
      /\ rows \in Seq(Record)
  BY DEF IInv, TypeOK
<1> HIDE DEF all
<1>6. ASSUME rows' = all \/ rows' = rows
      PROVE  CallOK
  BY <1>1, <1>4, <1>5, <1>6 DEF CallOK
<1>7. ASSUME NEW error \in Errors, Fail(error), rows' = rows
      PROVE  IInv'
  BY <1>1, <1>6, <1>7, Failing
<1>8. ASSUME GoOn("pair"), rows' = all
      PROVE  IInv'
  <2>1. pc' = "pair"
    BY <1>8 DEF GoOn
  <2>2. Alone' /\ Found'
    BY <2>1 DEF Alone, Found
  <2>3. RowsOK'
    BY <1>1, <1>4, <1>8 DEF RowsOK, Backed, Shown, Body, Format
  <2> QED
    BY <1>1, <1>6, <1>8, <2>2, <2>3, GoingOn DEF Steps
<1>9. ASSUME Opened(all, "recorded", FALSE), rows' = all \/ rows' = rows
      PROVE  IInv'
  BY <1>1, <1>4, <1>6, <1>9, Opening
<1>10. CASE ReadCurrent
  <2>1. Format(csv.lines) = "current"
    BY <1>10 DEF ReadCurrent, IInv, Found
  <2>2. Len(body) = Len(csv.lines) - 1 /\ \A k \in 1 .. Len(body) : body[k] = csv.lines[k + 1]
    BY <1>2, <2>1, BodyFacts
  <2>3. all = [k \in 1 .. Len(csv.lines) - 1 |-> RecordOf(csv.lines[k + 1])]
    BY <2>2 DEF all
  <2>4. \/ rows' = all /\ GoOn("pair")
        \/ Fail("malformed") /\ rows' = rows
    BY <1>10, <2>3 DEF ReadCurrent
  <2> QED
    BY <1>7, <1>8, <2>4 DEF Errors
<1>11. ASSUME \A k \in 1 .. Len(csv.lines) : LegacyRow(csv.lines[k])
       PROVE  all = [k \in 1 .. Len(csv.lines) |-> RecordOf(csv.lines[k])]
  <2>1. csv.lines # <<>> => 1 \in 1 .. Len(csv.lines)
    BY <1>2, EmptySeq
  <2>2. csv.lines # <<>> => csv.lines[1].kind = "legacy"
    BY <1>11, <2>1 DEF LegacyRow
  <2>3. Format(csv.lines) = "legacy"
    BY <2>2 DEF Format
  <2>4. body = csv.lines
    BY <1>2, <2>3, BodyFacts
  <2> QED
    BY <2>4 DEF all
<1>12. CASE ReadLegacy
  <2>1. \/ /\ \A k \in 1 .. Len(csv.lines) : LegacyRow(csv.lines[k])
           /\ rows' = [k \in 1 .. Len(csv.lines) |-> RecordOf(csv.lines[k])]
           /\ \/ GoOn("pair")
              \/ Opened([k \in 1 .. Len(csv.lines) |-> RecordOf(csv.lines[k])],
                        "recorded", FALSE)
        \/ Fail("malformed") /\ rows' = rows
    BY <1>12 DEF ReadLegacy
  <2>2. \/ rows' = all /\ GoOn("pair")
        \/ rows' = all /\ Opened(all, "recorded", FALSE)
        \/ Fail("malformed") /\ rows' = rows
    BY <1>11, <2>1
  <2> QED
    BY <1>7, <1>8, <1>9, <2>2 DEF Errors
<1>13. CASE ReadFlat
  <2>1. rows' = rows
    BY <1>13 DEF ReadFlat
  <2>2. \/ /\ \A k \in 1 .. Len(csv.lines) : LegacyRow(csv.lines[k])
           /\ Opened([k \in 1 .. Len(csv.lines) |-> RecordOf(csv.lines[k])],
                     "recorded", FALSE)
        \/ \E error \in Errors : Fail(error)
    BY <1>13 DEF ReadFlat, Errors
  <2>3. \/ Opened(all, "recorded", FALSE)
        \/ \E error \in Errors : Fail(error)
    BY <1>11, <2>2
  <2> QED
    BY <1>7, <1>9, <2>1, <2>3
<1> QED
  BY <1>10, <1>12, <1>13

LEMMA CheckPairKeeps == IInv /\ CheckPair => IInv'
<1> SUFFICES ASSUME IInv, CheckPair
             PROVE  IInv'
  OBVIOUS
<1>1. Looking /\ pc = "pair" /\ UNCHANGED <<call, seen, rows>>
  BY DEF CheckPair, Looking, files
<1>2. CallOK /\ rows \in Seq(Record) /\ Len(rows) \in Nat
  <2>1. CallOK /\ rows \in Seq(Record)
    BY <1>1 DEF IInv, TypeOK, CallOK
  <2> QED
    BY <2>1, LenProperties
<1>3. Backed(rows) /\ Shown(rows)
  BY <1>1 DEF IInv, RowsOK
<1>4. CASE Opened(rows, "recorded", FALSE)
  BY <1>1, <1>2, <1>3, <1>4, Opening
<1>5. CASE SameSamples /\ Opened(rows, "recorded", TRUE)
  <2>1. \A k \in 1 .. Len(rows) : k <= Len(bin.ones) /\ bin.ones[k] = rows[k].ones
    BY <1>2, <1>5 DEF SameSamples
  <2> QED
    BY <1>1, <1>2, <1>3, <1>5, <2>1, Opening
<1>6. CASE Fail("corrupt")
  BY <1>1, <1>2, <1>6, Failing DEF Errors
<1> QED
  BY <1>4, <1>5, <1>6 DEF CheckPair

LEMMA ReadBinKeeps == IInv /\ ReadBin => IInv'
<1> SUFFICES ASSUME IInv, ReadBin
             PROVE  IInv'
  OBVIOUS
<1> DEFINE n == Len(bin.ones)
           records == [k \in 1 .. n |-> [ones |-> bin.ones[k], time |-> Estimated(k)]]
<1>1. Looking /\ pc = "bin" /\ UNCHANGED <<call, seen, rows>>
  BY DEF ReadBin, Looking, files
<1>2. CallOK
  BY <1>1 DEF IInv, TypeOK, CallOK
<1>3. bin.ones \in Seq(Nat) /\ n \in Nat
  <2>1. bin.ones \in Seq(Nat)
    BY DEF IInv, TypeOK, BinOK, BinFile
  <2> QED
    BY <2>1, LenProperties
<1>4. ASSUME NEW k \in 1 .. n
      PROVE  records[k] \in Record
  <2>1. bin.ones[k] \in Nat
    BY <1>3, ElementOfSeq
  <2>2. Estimated(k) \in Int
    BY <1>3, InputsAssumption DEF Estimated
  <2> QED
    BY <2>1, <2>2 DEF Record
<1>5. records \in Seq(Record) /\ Len(records) = n
  <2>1. records \in [1 .. n -> Record]
    BY <1>4
  <2> QED
    BY <1>3, <2>1
<1>6. ~base.there /\ Len(Body(base.lines)) = 0
  <2>1. ~base.there /\ base.lines = <<>> /\ base.lines \in Seq(Line)
    BY <1>1 DEF IInv, Alone, BaseIsOld, TypeOK, CsvFile
  <2>2. Format(base.lines) # "current"
    BY <2>1 DEF Format
  <2> QED
    BY <2>1, <2>2, BodyFacts, EmptySeq
<1>7. Shown(records)
  BY <1>3, <1>5, <1>6 DEF Shown
<1>8. \/ Opened(records, "estimated", FALSE)
      \/ \E error \in Errors : Fail(error)
  BY DEF ReadBin, Errors
<1> HIDE DEF records
<1>9. CASE Opened(records, "estimated", FALSE)
  BY <1>1, <1>2, <1>5, <1>6, <1>7, <1>9, Opening
<1>10. CASE \E error \in Errors : Fail(error)
  BY <1>1, <1>2, <1>10, Failing
<1> QED
  BY <1>8, <1>9, <1>10

LEMMA AgainKeeps == IInv /\ Again => IInv'
<1> SUFFICES ASSUME IInv, Again
             PROVE  IInv'
  OBVIOUS
<1>1. /\ Looking /\ pc' = "idle" /\ answer' = NoAnswer
      /\ call' = NoCall /\ seen' = [csv |-> FALSE, bin |-> FALSE] /\ rows' = <<>>
  BY DEF Again, Looking, files
<1>2. <<>> \in Seq(Record)
  BY EmptySeq
<1>3. CallOK
  BY <1>1, <1>2 DEF CallOK, NoCall, Ops, Name, Stems, Sources, Exts
<1>4. NoAnswer \in [result : {"none"}, records : Seq(Record), provenance : {"none"},
                    paired : BOOLEAN]
  BY <1>2 DEF NoAnswer
<1>5. TypeOK'
  BY <1>1, <1>3, <1>4, LookingKeeps DEF TypeOK, CallOK
<1>6. NoRowMissed' /\ EstimatedWithoutCsv' /\ RecordsAreBacked'
  BY <1>1 DEF NoRowMissed, EstimatedWithoutCsv, RecordsAreBacked, NoAnswer
<1>7. Waiting' /\ Alone' /\ Found' /\ RowsOK'
  BY <1>1 DEF Waiting, Alone, Found, RowsOK
<1> QED
  BY <1>1, <1>5, <1>6, <1>7, LookingKeeps DEF IInv

-----------------------------------------------------------------------------
(* The library's order of the naturals, as a relation *)
Below == {p \in Nat \X Nat : p[1] < p[2]}

(* Induction over the naturals, of a set: the library's theorems state it of *)
(* an operator; here it is the least number that is not in the set.          *)
LEMMA NatInductionSet ==
  ASSUME NEW S, 0 \in S, \A n \in Nat : n \in S => n + 1 \in S
  PROVE  Nat \subseteq S
<1>1. IsWellFoundedOn(Below, Nat)
  <2>1. Below = OpToRel(<, Nat)
    BY Zenon DEF Below, OpToRel
  <2> QED
    BY <2>1, NatLessThanWellFounded, Zenon
<1> SUFFICES ASSUME Nat \ S # {}
             PROVE  FALSE
  OBVIOUS
<1>2. PICK n \in Nat \ S : \A m \in Nat \ S : ~ (<<m, n>> \in Below)
  BY <1>1, WFMin, Zenon
<1>3. n \in Nat /\ n # 0 /\ n - 1 \in Nat /\ (n - 1) + 1 = n
  BY <1>2
<1>4. <<n - 1, n>> \in Below
  BY <1>3 DEF Below
<1>5. n - 1 \in S
  BY <1>2, <1>3, <1>4, Zenon
<1> QED
  BY <1>2, <1>3, <1>5

(***************************************************************************)
(* The verdict of a call during which the files do not change: what each   *)
(* step has settled (Settled) makes its answer the right one.              *)
(***************************************************************************)

(* The rows of a CSV are again lines.                                        *)
LEMMA BodySeq ==
  ASSUME NEW lines \in Seq(Line)
  PROVE  Body(lines) \in Seq(Line) /\ DOMAIN Body(lines) = 1 .. Len(Body(lines))
<1>1. Body(lines) \in Seq(Line)
  <2>1. lines # <<>> => Tail(lines) \in Seq(Line)
    BY HeadTailProperties
  <2> QED
    BY <2>1 DEF Body, Format
<1> QED
  BY <1>1

(* A file whose every line read_legacy_csv takes is one of sound legacy rows *)
(* without a header, and no other is.                                        *)
LEMMA LegacyRows ==
  ASSUME NEW lines \in Seq(Line)
  PROVE  (\A k \in 1 .. Len(lines) : LegacyRow(lines[k]))
           <=> Format(lines) = "legacy" /\ SoundBody(lines)
<1>1. Len(lines) \in Nat /\ DOMAIN lines = 1 .. Len(lines)
  BY LenProperties
<1>2. ASSUME \A k \in 1 .. Len(lines) : LegacyRow(lines[k])
      PROVE  Format(lines) = "legacy"
  <2>1. lines # <<>> => 1 \in 1 .. Len(lines)
    BY <1>1, EmptySeq
  <2>2. lines # <<>> => lines[1].kind = "legacy"
    BY <1>2, <2>1 DEF LegacyRow
  <2> QED
    BY <2>2 DEF Format
<1>3. Format(lines) = "legacy" => Body(lines) = lines
  BY DEF Body
<1>4. ASSUME Format(lines) = "legacy"
      PROVE  SoundBody(lines) <=> \A k \in 1 .. Len(lines) : LegacyRow(lines[k])
  BY <1>1, <1>3, <1>4 DEF SoundBody, LegacyRow
<1> QED
  BY <1>2, <1>4

(* read_current_csv takes every row of a file with a header exactly if they  *)
(* are sound.                                                                *)
LEMMA CurrentRows ==
  ASSUME NEW lines \in Seq(Line), Format(lines) = "current"
  PROVE  (\A k \in 1 .. Len(lines) - 1 : CurrentRow(lines[k + 1], k)) <=> SoundBody(lines)
<1> DEFINE body == Body(lines)
           n == Len(lines) - 1
<1>1. DOMAIN body = 1 .. n /\ \A k \in 1 .. n : body[k] = lines[k + 1]
  BY BodySeq, BodyFacts
<1>2. SoundBody(lines) <=>
        \A k \in DOMAIN body : /\ body[k].kind = "current" /\ body[k].index = k
                               /\ body[k].offset = k - 1 /\ body[k].ones <= MaxOnes
  BY Zenon DEF SoundBody
<1> HIDE DEF body, n
<1>3. \A k \in 1 .. n : CurrentRow(lines[k + 1], k) <=>
                        /\ body[k].kind = "current" /\ body[k].index = k
                        /\ body[k].offset = k - 1 /\ body[k].ones <= MaxOnes
  BY <1>1, Zenon DEF CurrentRow
<1>4. (\A k \in 1 .. n : CurrentRow(lines[k + 1], k)) <=> SoundBody(lines)
  BY <1>1, <1>2, <1>3, Zenon
<1> QED
  BY <1>4 DEF n

(* The records of all lines the readers make records of.                     *)
LEMMA RowsAreRight ==
  ASSUME csv \in CsvFile, csv.there
  PROVE  /\ Format(csv.lines) = "current" =>
              RightRecords = [k \in 1 .. Len(csv.lines) - 1 |-> RecordOf(csv.lines[k + 1])]
         /\ Format(csv.lines) = "legacy" =>
              RightRecords = [k \in 1 .. Len(csv.lines) |-> RecordOf(csv.lines[k])]
<1>1. csv.lines \in Seq(Line)
  BY DEF CsvFile
<1>2. RightRecords = [k \in 1 .. Len(Body(csv.lines)) |-> RecordOf(Body(csv.lines)[k])]
  BY <1>1, BodySeq DEF RightRecords, RecordOf
<1>3. ASSUME Format(csv.lines) = "current"
      PROVE  RightRecords = [k \in 1 .. Len(csv.lines) - 1 |-> RecordOf(csv.lines[k + 1])]
  <2>1. /\ Len(Body(csv.lines)) = Len(csv.lines) - 1
        /\ \A k \in 1 .. Len(csv.lines) - 1 : Body(csv.lines)[k] = csv.lines[k + 1]
    BY <1>1, <1>3, BodyFacts
  <2> QED
    BY <1>2, <2>1
<1>4. Format(csv.lines) = "legacy" => Body(csv.lines) = csv.lines
  BY DEF Body
<1> QED
  BY <1>2, <1>3, <1>4

(* Comparing each time with the next compares it with all that follow.       *)
LEMMA OrderOfTimes ==
  ASSUME NEW lines \in Seq(Line)
  PROVE  NotDecreasing(lines) <=>
           \A i, j \in DOMAIN lines : i < j => lines[i].time <= lines[j].time
<1>1. Len(lines) \in Nat /\ DOMAIN lines = 1 .. Len(lines)
      /\ \A k \in 1 .. Len(lines) : lines[k].time \in Int
  <2>1. \A k \in 1 .. Len(lines) : lines[k] \in Line
    BY ElementOfSeq
  <2> QED
    BY <2>1, LenProperties DEF Line
<1>2. ASSUME NotDecreasing(lines), NEW i \in 1 .. Len(lines)
      PROVE  \A j \in 1 .. Len(lines) : i < j => lines[i].time <= lines[j].time
  <2> DEFINE S == {d \in Nat : i + d <= Len(lines) => lines[i].time <= lines[i + d].time}
  <2>1. 0 \in S
    BY <1>1
  <2>2. ASSUME NEW d \in Nat, d \in S
        PROVE  d + 1 \in S
    <3> SUFFICES ASSUME i + (d + 1) <= Len(lines)
                 PROVE  lines[i].time <= lines[i + (d + 1)].time
      OBVIOUS
    <3>1. i + d \in 1 .. Len(lines) - 1 /\ i + d \in 1 .. Len(lines)
          /\ i + (d + 1) = (i + d) + 1 /\ (i + d) + 1 \in 1 .. Len(lines)
      BY <1>1
    <3>2. lines[i].time <= lines[i + d].time
      BY <2>2, <3>1
    <3>3. lines[i + d].time <= lines[(i + d) + 1].time
      BY <1>2, <3>1 DEF NotDecreasing
    <3> QED
      BY <1>1, <3>1, <3>2, <3>3
  <2> HIDE DEF S
  <2>3. Nat \subseteq S
    BY <2>1, <2>2, NatInductionSet, Zenon
  <2>4. ASSUME NEW j \in 1 .. Len(lines), i < j
        PROVE  lines[i].time <= lines[j].time
    <3>1. j - i \in Nat /\ i + (j - i) = j
      BY <1>1, <2>4
    <3>2. j - i \in S
      BY <2>3, <3>1
    <3> QED
      BY <1>1, <3>1, <3>2 DEF S
  <2> QED
    BY <2>4
<1>3. ASSUME \A i, j \in DOMAIN lines : i < j => lines[i].time <= lines[j].time,
             NEW k \in 1 .. Len(lines) - 1
      PROVE  lines[k].time <= lines[k + 1].time
  BY <1>1, <1>3
<1> QED
  BY <1>1, <1>2, <1>3 DEF NotDecreasing

(* No estimated time is beyond the last instant if that of the last sample   *)
(* is not.                                                                   *)
LEMMA LastEstimate ==
  ASSUME NEW n \in Nat
  PROVE  (\A k \in 1 .. n : Estimated(k) <= LastTime)
           <=> Start + (n - 1) * Interval <= LastTime
<1>1. Start \in Int /\ Interval \in Nat /\ LastTime \in Int /\ Start <= LastTime
  BY InputsAssumption
<1>2. CASE n = 0
  <2>1. (n - 1) * Interval = 0 - Interval
    BY <1>1, <1>2
  <2> QED
    BY <1>1, <1>2, <2>1
<1>3. CASE n # 0
  <2>1. n \in 1 .. n /\ n - 1 \in Nat
    BY <1>3
  <2>2. Estimated(n) = Start + (n - 1) * Interval
    BY <1>1, <2>1 DEF Estimated
  <2>3. ASSUME NEW k \in 1 .. n
        PROVE  Estimated(k) <= Estimated(n)
    <3>1. n - k \in Nat /\ k - 1 \in Nat /\ n - 1 = (k - 1) + (n - k)
      BY <2>1
    <3>2. Interval * (n - k) \in Nat /\ Interval * (k - 1) \in Nat
      BY <1>1, <3>1
    <3>3. Interval * (n - 1) = Interval * (k - 1) + Interval * (n - k)
      BY <1>1, <3>1
    <3> QED
      BY <1>1, <3>2, <3>3 DEF Estimated
  <2>4. \A k \in 1 .. n : Estimated(k) \in Int
    BY <1>1 DEF Estimated
  <2> QED
    BY <1>1, <2>1, <2>2, <2>3, <2>4
<1> QED
  BY <1>2, <1>3

(* Comparing sample after sample with the rows compares the two files.       *)
LEMMA SamplesMatch ==
  ASSUME csv \in CsvFile, csv.there, bin \in BinFile, rows = RightRecords
  PROVE  SameSamples <=>
           /\ bin.tail = "clean"
           /\ bin.ones = [k \in DOMAIN Body(csv.lines) |-> Body(csv.lines)[k].ones]
<1> DEFINE body == Body(csv.lines)
           counts == [k \in DOMAIN body |-> body[k].ones]
<1>1. csv.lines \in Seq(Line) /\ bin.ones \in Seq(Nat)
  BY DEF CsvFile, BinFile
<1>2. /\ Len(body) \in Nat /\ DOMAIN body = 1 .. Len(body)
      /\ Len(bin.ones) \in Nat /\ DOMAIN bin.ones = 1 .. Len(bin.ones)
      /\ bin.ones = [k \in 1 .. Len(bin.ones) |-> bin.ones[k]]
  BY <1>1, BodySeq, LenProperties
<1>3. rows = [k \in 1 .. Len(body) |-> [ones |-> body[k].ones, time |-> body[k].time]]
  BY <1>2 DEF RightRecords
<1>4. Len(rows) = Len(body) /\ \A k \in 1 .. Len(rows) : rows[k].ones = body[k].ones
  BY <1>2, <1>3
<1> HIDE DEF body
<1>5. ASSUME Len(bin.ones) = Len(rows),
             \A k \in 1 .. Len(rows) : bin.ones[k] = rows[k].ones
      PROVE  bin.ones = counts
  BY <1>2, <1>4, <1>5
<1>6. ASSUME bin.ones = counts
      PROVE  /\ Len(bin.ones) = Len(rows)
             /\ \A k \in 1 .. Len(rows) : bin.ones[k] = rows[k].ones
  <2>1. DOMAIN bin.ones = DOMAIN body
    BY <1>6
  <2>2. Len(bin.ones) = Len(body)
    BY <1>2, <2>1
  <2> QED
    BY <1>2, <1>4, <1>6, <2>2
<1> QED
  BY <1>5, <1>6 DEF SameSamples, body

(* What is settled before each step of a call: by the name alone, *)
OpensFlat == IsFlat(call.name) /\ call.op # "legacy" /\ call.name.source = "historic"

NamesSession ==
  /\ call.op # "flat" /\ call.name.stem = "session"
  /\ call.name.ext \in {"csv", "bin"} \/ (call.op = "legacy" /\ call.name.ext = "none")

(* and, if the files have not changed since the call began, by them: the CSV *)
(* of a session that open_standalone reads as legacy is one                  *)
LegacyIsMeant ==
  /\ NamesSession /\ call.name.source = "historic"
  /\ call.op = "standalone" => csv.there /\ Format(csv.lines) = "legacy"

Settled ==
  /\ pc = "flat" => OpensFlat
  /\ pc = "csvSibling" =>
       NamesSession /\ call.op = "standalone" /\ call.name.ext = "bin"
  /\ pc = "detect" => /\ NamesSession /\ call.op = "standalone"
                      /\ call.name.ext = "bin" => csv.there
  /\ pc = "current" =>
       /\ NamesSession /\ call.op = "standalone" /\ CurrentSource(call.name)
       /\ csv.there /\ Format(csv.lines) = "current"
  /\ pc \in {"statCsv", "statBin", "legacy"} => LegacyIsMeant
  /\ pc = "statBin" => seen.csv = csv.there
  /\ pc = "legacy" => csv.there /\ seen.bin = bin.there
  /\ pc = "pair" =>
       /\ NamesSession /\ csv.there /\ SoundBody(csv.lines)
       /\ \/ LegacyIsMeant /\ Format(csv.lines) = "legacy"
          \/ /\ call.op = "standalone" /\ CurrentSource(call.name)
             /\ Format(csv.lines) = "current"
       /\ rows = RightRecords
  /\ pc = "bin" =>
       /\ NamesSession /\ ~csv.there
       /\ \/ call.op = "legacy" /\ call.name.source = "historic"
          \/ call.op = "standalone" /\ CurrentSource(call.name) /\ call.name.ext = "bin"

MayOpen == ShouldOpenFlat \/ ShouldOpenSession

(* A call that fails is right to if it should not open.                      *)
LEMMA RightFailure ==
  ASSUME NEW error \in Errors, Fail(error), ~MayOpen'
  PROVE  Settled' /\ VerdictIsRight'
<1>1. pc' = "done" /\ answer'.result = error
  BY DEF Fail, Answered, NoAnswer
<1>2. Settled'
  BY <1>1 DEF Settled
<1>3. VerdictIsRight'
  BY <1>1 DEF VerdictIsRight, MayOpen, Errors
<1> QED
  BY <1>2, <1>3

(* A call that opens is right to if it should, and shows the right records.  *)
LEMMA RightOpening ==
  ASSUME NEW records, NEW provenance, NEW paired, Opened(records, provenance, paired),
         MayOpen', records = RightRecords',
         provenance = (IF csv'.there THEN "recorded" ELSE "estimated")
  PROVE  Settled' /\ VerdictIsRight'
<1>1. /\ pc' = "done" /\ answer'.result = "ok" /\ answer'.records = records
      /\ answer'.provenance = provenance
  BY DEF Opened, Answered
<1>2. Settled'
  BY <1>1 DEF Settled
<1>3. VerdictIsRight'
  BY <1>1 DEF VerdictIsRight, MayOpen
<1> QED
  BY <1>2, <1>3

(* There is no verdict before the end.                                       *)
LEMMA NoVerdict ==
  ASSUME pc' # "done"
  PROVE  VerdictIsRight'
  BY DEF VerdictIsRight

(* While the files and the call stay, so does what should become of it.      *)
LEMMA SameQuestion ==
  ASSUME UNCHANGED <<csv, bin, call>>
  PROVE  (MayOpen' <=> MayOpen) /\ RightRecords' = RightRecords
<1>1. ShouldOpenFlat' <=> ShouldOpenFlat
  BY DEF ShouldOpenFlat, IsFlat, SoundBody, Body, Format
<1>2. ShouldOpenSession' <=> ShouldOpenSession
  BY DEF ShouldOpenSession, SoundBody, Body, Format
<1>3. RightRecords' = RightRecords
  BY DEF RightRecords, Body, Format
<1> QED
  BY <1>1, <1>2, <1>3 DEF MayOpen

(* A call settles by the name what it goes on to, or fails for it.           *)
LEMMA CallsSettle ==
  ASSUME CallStandalone \/ CallLegacy \/ CallFlat
  PROVE  Settled' /\ VerdictIsRight'
<1>1. CASE CallStandalone
  <2>1. call'.op = "standalone" /\ call'.name \in Name
    BY <1>1 DEF CallStandalone, Begin
  <2>2. CASE IsFlat(call'.name) /\ GoOn("flat") /\ LegacySource(call'.name)
    <3>1. pc' = "flat" /\ OpensFlat'
      BY <2>1, <2>2 DEF GoOn, OpensFlat, IsFlat, LegacySource
    <3> QED
      BY <3>1, NoVerdict DEF Settled
  <2>3. CASE IsFlat(call'.name) /\ Fail("source") /\ ~LegacySource(call'.name)
    <3>1. ~MayOpen'
      BY <2>1, <2>3
      DEF MayOpen, ShouldOpenFlat, ShouldOpenSession, IsFlat, LegacySource
    <3> QED
      BY <2>3, <3>1, RightFailure DEF Errors
  <2>4. CASE /\ ~IsFlat(call'.name)
             /\ call'.name.stem # "session" \/ call'.name.ext \notin {"csv", "bin"}
             /\ Fail("name")
    <3>1. ~MayOpen'
      BY <2>1, <2>4 DEF MayOpen, ShouldOpenFlat, ShouldOpenSession, IsFlat
    <3> QED
      BY <2>4, <3>1, RightFailure DEF Errors
  <2>5. CASE call'.name.stem = "session" /\ call'.name.ext = "csv" /\ GoOn("detect")
    <3>1. pc' = "detect" /\ NamesSession'
      BY <2>1, <2>5 DEF GoOn, NamesSession
    <3> QED
      BY <2>1, <2>5, <3>1, NoVerdict DEF Settled
  <2>6. CASE call'.name.stem = "session" /\ call'.name.ext = "bin" /\ GoOn("csvSibling")
    <3>1. pc' = "csvSibling" /\ NamesSession'
      BY <2>1, <2>6 DEF GoOn, NamesSession
    <3> QED
      BY <2>1, <2>6, <3>1, NoVerdict DEF Settled
  <2> QED
    BY <1>1, <2>2, <2>3, <2>4, <2>5, <2>6 DEF CallStandalone, BeginFlat, GoOnIf
<1>2. CASE CallLegacy
  <2>1. call'.op = "legacy" /\ call'.name \in Name
    BY <1>2 DEF CallLegacy, Begin
  <2>2. CASE (call'.name.stem # "session" \/ call'.name.ext = "other") /\ Fail("name")
    <3>1. ~MayOpen'
      BY <2>1, <2>2 DEF MayOpen, ShouldOpenFlat, ShouldOpenSession
    <3> QED
      BY <2>2, <3>1, RightFailure DEF Errors
  <2>3. CASE /\ call'.name.stem = "session" /\ call'.name.ext # "other"
             /\ LegacySource(call'.name) /\ GoOn("statCsv")
    <3>1. pc' = "statCsv" /\ LegacyIsMeant'
      BY <2>1, <2>3 DEF GoOn, LegacyIsMeant, NamesSession, LegacySource, Name, Exts
    <3> QED
      BY <3>1, NoVerdict DEF Settled
  <2>4. CASE ~LegacySource(call'.name) /\ Fail("source")
    <3>1. ~MayOpen'
      BY <2>1, <2>4 DEF MayOpen, ShouldOpenFlat, ShouldOpenSession, LegacySource
    <3> QED
      BY <2>4, <3>1, RightFailure DEF Errors
  <2> QED
    BY <1>2, <2>2, <2>3, <2>4 DEF CallLegacy, GoOnIf
<1>3. CASE CallFlat
  <2>1. call'.op = "flat" /\ call'.name \in Name
    BY <1>3 DEF CallFlat, Begin
  <2>2. CASE IsFlat(call'.name) /\ GoOn("flat") /\ LegacySource(call'.name)
    <3>1. pc' = "flat" /\ OpensFlat'
      BY <2>1, <2>2 DEF GoOn, OpensFlat, IsFlat, LegacySource
    <3> QED
      BY <3>1, NoVerdict DEF Settled
  <2>3. CASE /\ \/ ~IsFlat(call'.name) /\ Fail("name")
                \/ ~LegacySource(call'.name) /\ Fail("source")
    <3>1. ~MayOpen'
      BY <2>1, <2>3
      DEF MayOpen, ShouldOpenFlat, ShouldOpenSession, IsFlat, LegacySource
    <3> QED
      BY <2>3, <3>1, RightFailure DEF Errors
  <2> QED
    BY <1>3, <2>2, <2>3 DEF CallFlat, BeginFlat, GoOnIf
<1> QED
  BY <1>1, <1>2, <1>3

(* So does every look at the files, if they do not change.                   *)
LEMMA LooksSettle ==
  ASSUME IInv, Settled, CsvSibling \/ Detect \/ StatCsv \/ StatBin
  PROVE  Settled' /\ VerdictIsRight'
<1>1. UNCHANGED <<csv, bin, call, rows>>
  BY DEF CsvSibling, Detect, StatCsv, StatBin, files
<1>2. /\ call.op \in Ops /\ call.name.source \in Sources
      /\ csv.there \in BOOLEAN /\ bin.there \in BOOLEAN /\ seen \in [csv : BOOLEAN, bin : BOOLEAN]
  BY DEF IInv, TypeOK, CsvOK, BinOK, CsvFile, BinFile, Name
<1>3. ASSUME NEW error \in Errors, Fail(error), ~MayOpen
      PROVE  Settled' /\ VerdictIsRight'
  BY <1>1, <1>3, SameQuestion, RightFailure
<1>4. /\ NamesSession' <=> NamesSession
      /\ LegacyIsMeant' <=> LegacyIsMeant
      /\ Format(csv.lines)' = Format(csv.lines)
  BY <1>1 DEF NamesSession, LegacyIsMeant, Format
<1>5. CASE CsvSibling
  <2>1. NamesSession /\ call.op = "standalone" /\ call.name.ext = "bin"
    BY <1>5 DEF CsvSibling, Settled
  <2>2. CASE csv.there /\ GoOn("detect")
    <3>1. pc' = "detect"
      BY <2>2 DEF GoOn
    <3> QED
      BY <1>1, <1>4, <2>1, <2>2, <3>1, NoVerdict DEF Settled
  <2>3. CASE ~csv.there /\ CurrentSource(call.name) /\ GoOn("bin")
    <3>1. pc' = "bin"
      BY <2>3 DEF GoOn
    <3> QED
      BY <1>1, <1>4, <2>1, <2>3, <3>1, NoVerdict DEF Settled
  <2>4. CASE ~CurrentSource(call.name) /\ Fail("source")
    <3>1. ~MayOpen
      BY <2>4 DEF MayOpen, ShouldOpenFlat, ShouldOpenSession, CurrentSource
    <3> QED
      BY <1>3, <2>4, <3>1 DEF Errors
  <2> QED
    BY <1>5, <2>2, <2>3, <2>4 DEF CsvSibling, GoOnIf
<1>6. CASE Detect
  <2>1. NamesSession /\ call.op = "standalone" /\ (call.name.ext = "bin" => csv.there)
    BY <1>6 DEF Detect, Settled
  <2>2. call.name.stem = "session" /\ call.name.ext \in {"csv", "bin"}
    BY <2>1 DEF NamesSession
  <2>3. ~ShouldOpenFlat
    BY <2>2 DEF ShouldOpenFlat, IsFlat
  <2>4. CASE ~csv.there /\ Fail("io")
    <3>1. ~ShouldOpenSession
      BY <2>1, <2>2, <2>4 DEF ShouldOpenSession
    <3> QED
      BY <1>3, <2>3, <2>4, <3>1 DEF MayOpen, Errors
  <2>5. CASE csv.there /\ Format(csv.lines) = "invalid" /\ Fail("header")
    <3>1. ~ShouldOpenSession
      BY <2>5 DEF ShouldOpenSession
    <3> QED
      BY <1>3, <2>3, <2>5, <3>1 DEF MayOpen, Errors
  <2>6. CASE csv.there /\ Format(csv.lines) = "current" /\ CurrentSource(call.name)
               /\ GoOn("current")
    <3>1. pc' = "current"
      BY <2>6 DEF GoOn
    <3> QED
      BY <1>1, <1>4, <2>1, <2>6, <3>1, NoVerdict DEF Settled
  <2>7. CASE ~CurrentSource(call.name) /\ Fail("source")
    <3>1. ~MayOpen
      BY <2>7 DEF MayOpen, ShouldOpenFlat, ShouldOpenSession, CurrentSource
    <3> QED
      BY <1>3, <2>7, <3>1 DEF Errors
  <2>8. CASE csv.there /\ Format(csv.lines) = "legacy" /\ LegacySource(call.name)
               /\ GoOn("statCsv")
    <3>1. pc' = "statCsv" /\ LegacyIsMeant
      BY <2>1, <2>8 DEF GoOn, LegacyIsMeant, LegacySource
    <3> QED
      BY <1>4, <3>1, NoVerdict DEF Settled
  <2>9. CASE csv.there /\ Format(csv.lines) = "legacy" /\ ~LegacySource(call.name)
               /\ Fail("source")
    <3>1. ~ShouldOpenSession
      BY <2>9 DEF ShouldOpenSession, LegacySource
    <3> QED
      BY <1>3, <2>3, <2>9, <3>1 DEF MayOpen, Errors
  <2> QED
    BY <1>6, <2>4, <2>5, <2>6, <2>7, <2>8, <2>9 DEF Detect, GoOnIf
<1>7. CASE StatCsv
  <2>1. LegacyIsMeant /\ pc' = "statBin" /\ seen'.csv = csv.there
    BY <1>7 DEF StatCsv, GoOn, Settled
  <2> QED
    BY <1>1, <1>4, <2>1, NoVerdict DEF Settled
<1>8. CASE StatBin
  <2>1. LegacyIsMeant /\ seen.csv = csv.there
    BY <1>8 DEF StatBin, Settled
  <2>2. CASE csv.there /\ GoOn("legacy")
    <3>1. pc' = "legacy" /\ seen'.bin = bin.there
      BY <1>2, <1>8, <2>2 DEF StatBin, GoOn
    <3> QED
      BY <1>1, <1>4, <2>1, <2>2, <3>1, NoVerdict DEF Settled
  <2>3. CASE ~csv.there /\ bin.there /\ GoOn("bin")
    <3>1. pc' = "bin" /\ NamesSession /\ call.op = "legacy"
          /\ call.name.source = "historic"
      BY <1>2, <2>1, <2>3 DEF GoOn, LegacyIsMeant, NamesSession, Ops
    <3> QED
      BY <1>1, <1>4, <2>3, <3>1, NoVerdict DEF Settled
  <2>4. CASE ~csv.there /\ ~bin.there /\ Fail("name")
    <3>1. ~MayOpen
      BY <2>4 DEF MayOpen, ShouldOpenFlat, ShouldOpenSession
    <3> QED
      BY <1>3, <2>4, <3>1 DEF Errors
  <2> QED
    BY <1>2, <1>8, <2>1, <2>2, <2>3, <2>4 DEF StatBin, GoOnIf
<1> QED
  BY <1>5, <1>6, <1>7, <1>8

(* A session whose CSV and BIN both say so should open; a call that has seen *)
(* so and the CSV alone, too.                                                *)
LEMMA SessionMayOpen ==
  ASSUME IInv, NamesSession, csv.there,
         \/ LegacyIsMeant /\ Format(csv.lines) = "legacy"
         \/ /\ call.op = "standalone" /\ CurrentSource(call.name)
            /\ Format(csv.lines) = "current"
  PROVE  MayOpen <=>
           /\ SoundBody(csv.lines)
           /\ bin.there => /\ bin.tail = "clean"
                           /\ bin.ones = [k \in DOMAIN Body(csv.lines) |->
                                            Body(csv.lines)[k].ones]
<1>1. call.name.stem = "session" /\ ~ShouldOpenFlat
  BY DEF NamesSession, ShouldOpenFlat, IsFlat
<1>2. call.op \in Ops
  BY DEF IInv, TypeOK
<1>3. CASE LegacyIsMeant /\ Format(csv.lines) = "legacy"
  <2>1. call.name.source = "historic"
    BY <1>3 DEF LegacyIsMeant
  <2> QED
    BY <1>1, <1>3, <2>1 DEF MayOpen, ShouldOpenSession, NamesSession
<1>4. CASE /\ call.op = "standalone" /\ CurrentSource(call.name)
           /\ Format(csv.lines) = "current"
  BY <1>1, <1>4 DEF MayOpen, ShouldOpenSession, NamesSession, CurrentSource
<1> QED
  BY <1>3, <1>4

(* A read fails for a row that is not sound, and makes records of rows that  *)
(* all are.                                                                  *)
LEMMA ReadsSettle ==
  ASSUME IInv, Settled, ReadCurrent \/ ReadLegacy
  PROVE  Settled' /\ VerdictIsRight'
<1>1. UNCHANGED <<csv, bin, call, seen>>
  BY DEF ReadCurrent, ReadLegacy, files
<1>2. csv \in CsvFile /\ csv.lines \in Seq(Line)
  BY DEF IInv, TypeOK, CsvOK, CsvFile
<1>3. /\ MayOpen' <=> MayOpen
      /\ RightRecords' = RightRecords
  BY <1>1, SameQuestion
<1>4. /\ NamesSession' <=> NamesSession
      /\ LegacyIsMeant' <=> LegacyIsMeant
      /\ SoundBody(csv.lines)' = SoundBody(csv.lines)
      /\ Format(csv.lines)' = Format(csv.lines)
  BY <1>1 DEF NamesSession, LegacyIsMeant, SoundBody, Body, Format
<1>5. ASSUME GoOn("pair"), rows' = RightRecords, SoundBody(csv.lines),
             NamesSession, csv.there,
             \/ LegacyIsMeant /\ Format(csv.lines) = "legacy"
             \/ /\ call.op = "standalone" /\ CurrentSource(call.name)
                /\ Format(csv.lines) = "current"
      PROVE  Settled' /\ VerdictIsRight'
  <2>1. pc' = "pair"
    BY <1>5 DEF GoOn
  <2> QED
    BY <1>1, <1>3, <1>4, <1>5, <2>1, NoVerdict DEF Settled
<1>6. CASE ReadCurrent
  <2>1. /\ NamesSession /\ call.op = "standalone" /\ CurrentSource(call.name)
        /\ csv.there /\ Format(csv.lines) = "current"
    BY <1>6 DEF ReadCurrent, Settled
  <2>2. CASE SoundBody(csv.lines)
    <3>1. \A k \in 1 .. Len(csv.lines) - 1 : CurrentRow(csv.lines[k + 1], k)
      BY <1>2, <2>1, <2>2, CurrentRows
    <3>2. GoOn("pair") /\ rows' = RightRecords
      BY <1>2, <1>6, <2>1, <3>1, RowsAreRight DEF ReadCurrent
    <3> QED
      BY <1>5, <2>1, <2>2, <3>2
  <2>3. CASE ~SoundBody(csv.lines)
    <3>1. ~(\A k \in 1 .. Len(csv.lines) - 1 : CurrentRow(csv.lines[k + 1], k))
      BY <1>2, <2>1, <2>3, CurrentRows
    <3>2. Fail("malformed")
      BY <1>6, <3>1 DEF ReadCurrent
    <3>3. ~MayOpen
      BY <2>1, <2>3, SessionMayOpen
    <3> QED
      BY <1>3, <3>2, <3>3, RightFailure DEF Errors
  <2> QED
    BY <2>2, <2>3
<1>7. CASE ReadLegacy
  <2>1. LegacyIsMeant /\ NamesSession /\ csv.there /\ seen.bin = bin.there
    BY <1>7 DEF ReadLegacy, Settled, LegacyIsMeant
  <2>2. CASE \A k \in 1 .. Len(csv.lines) : LegacyRow(csv.lines[k])
    <3>1. Format(csv.lines) = "legacy" /\ SoundBody(csv.lines)
      BY <1>2, <2>2, LegacyRows
    <3>2. RightRecords = [k \in 1 .. Len(csv.lines) |-> RecordOf(csv.lines[k])]
      BY <1>2, <2>1, <3>1, RowsAreRight
    <3>3. /\ rows' = RightRecords
          /\ \/ seen.bin /\ GoOn("pair")
             \/ ~seen.bin /\ Opened(RightRecords, "recorded", FALSE)
      BY <1>7, <2>2, <3>2 DEF ReadLegacy
    <3>4. CASE GoOn("pair")
      BY <1>5, <2>1, <3>1, <3>3, <3>4
    <3>5. CASE ~seen.bin /\ Opened(RightRecords, "recorded", FALSE)
      <4>1. MayOpen
        BY <2>1, <3>1, <3>5, SessionMayOpen
      <4> QED
        BY <1>1, <1>3, <2>1, <3>5, <4>1, RightOpening
    <3> QED
      BY <3>3, <3>4, <3>5
  <2>3. CASE ~(\A k \in 1 .. Len(csv.lines) : LegacyRow(csv.lines[k]))
    <3>1. ~(Format(csv.lines) = "legacy" /\ SoundBody(csv.lines))
      BY <1>2, <2>3, LegacyRows
    <3>2. Fail("malformed")
      BY <1>7, <2>3 DEF ReadLegacy
    <3>3. ~MayOpen
      BY <2>1, <3>1
      DEF MayOpen, ShouldOpenFlat, ShouldOpenSession, NamesSession, IsFlat, LegacyIsMeant,
          IInv, TypeOK, Ops
    <3> QED
      BY <1>3, <3>2, <3>3, RightFailure DEF Errors
  <2> QED
    BY <2>2, <2>3
<1> QED
  BY <1>6, <1>7

(* The comparison of the two files decides a session that has both.          *)
LEMMA PairSettles ==
  ASSUME IInv, Settled, CheckPair
  PROVE  Settled' /\ VerdictIsRight'
<1>1. UNCHANGED <<csv, bin, call>>
  BY DEF CheckPair, files
<1>2. csv \in CsvFile /\ bin \in BinFile
  BY DEF IInv, TypeOK, CsvOK, BinOK
<1>3. (MayOpen' <=> MayOpen) /\ RightRecords' = RightRecords
  BY <1>1, SameQuestion
<1>4. /\ NamesSession /\ csv.there /\ SoundBody(csv.lines) /\ rows = RightRecords
      /\ \/ LegacyIsMeant /\ Format(csv.lines) = "legacy"
         \/ /\ call.op = "standalone" /\ CurrentSource(call.name)
            /\ Format(csv.lines) = "current"
  BY DEF CheckPair, Settled
<1>5. MayOpen <=> (bin.there => SameSamples)
  BY <1>2, <1>4, SessionMayOpen, SamplesMatch
<1>6. ASSUME bin.there => SameSamples,
             Opened(rows, "recorded", FALSE) \/ Opened(rows, "recorded", TRUE)
      PROVE  Settled' /\ VerdictIsRight'
  BY <1>1, <1>3, <1>4, <1>5, <1>6, RightOpening
<1>7. ASSUME bin.there, ~SameSamples, Fail("corrupt")
      PROVE  Settled' /\ VerdictIsRight'
  BY <1>3, <1>5, <1>7, RightFailure DEF Errors
<1> QED
  BY <1>6, <1>7 DEF CheckPair

(* A BIN that is alone opens exactly if it is of whole samples, all of which *)
(* can be given a time.                                                      *)
LEMMA BinSettles ==
  ASSUME IInv, Settled, ReadBin
  PROVE  Settled' /\ VerdictIsRight'
<1> DEFINE n == Len(bin.ones)
           records == [k \in 1 .. n |-> [ones |-> bin.ones[k], time |-> Estimated(k)]]
<1>1. UNCHANGED <<csv, bin, call>>
  BY DEF ReadBin, files
<1>2. /\ bin.ones \in Seq(Nat) /\ n \in Nat /\ DOMAIN bin.ones = 1 .. n
      /\ bin.tail \in {"clean", "torn"}
  <2>1. bin.ones \in Seq(Nat) /\ bin.tail \in {"clean", "torn"}
    BY DEF IInv, TypeOK, BinOK, BinFile
  <2> QED
    BY <2>1, LenProperties
<1>3. (MayOpen' <=> MayOpen) /\ RightRecords' = RightRecords
  BY <1>1, SameQuestion
<1>4. /\ NamesSession /\ ~csv.there
      /\ \/ call.op = "legacy" /\ call.name.source = "historic"
         \/ call.op = "standalone" /\ CurrentSource(call.name) /\ call.name.ext = "bin"
  BY DEF ReadBin, Settled
<1>5. MayOpen <=> /\ bin.there /\ bin.tail = "clean"
                  /\ Start + (n - 1) * Interval <= LastTime
  <2>1. ~ShouldOpenFlat
    BY <1>4 DEF ShouldOpenFlat
  <2>2. CASE call.op = "legacy" /\ call.name.source = "historic"
    BY <1>4, <2>1, <2>2 DEF MayOpen, ShouldOpenSession, NamesSession
  <2>3. CASE call.op = "standalone" /\ CurrentSource(call.name) /\ call.name.ext = "bin"
    BY <1>4, <2>1, <2>3 DEF MayOpen, ShouldOpenSession, NamesSession, CurrentSource
  <2> QED
    BY <1>4, <2>2, <2>3
<1>6. (\A k \in 1 .. n : Estimated(k) <= LastTime) <=> Start + (n - 1) * Interval <= LastTime
  BY <1>2, LastEstimate
<1>7. RightRecords = records
  <2>1. \A k \in 1 .. n : Estimated(k) = Start + (k - 1) * Interval
    BY InputsAssumption DEF Estimated
  <2>2. RightRecords = [k \in DOMAIN bin.ones |-> [ones |-> bin.ones[k],
                                                   time |-> Start + (k - 1) * Interval]]
    BY <1>4 DEF RightRecords
  <2> QED
    BY <1>2, <2>1, <2>2
<1>8. ASSUME NEW error \in {"io", "corrupt", "panic"}, Fail(error), ~MayOpen
      PROVE  Settled' /\ VerdictIsRight'
  BY <1>3, <1>8, RightFailure DEF Errors
<1> HIDE DEF records
<1>9. CASE ~bin.there /\ Fail("io")
  BY <1>5, <1>8, <1>9
<1>10. CASE bin.there /\ bin.tail = "torn" /\ Fail("corrupt")
  BY <1>5, <1>8, <1>10
<1>11. CASE (\E k \in 1 .. n : Estimated(k) > LastTime) /\ Fail("panic")
  <2>1. ~(\A k \in 1 .. n : Estimated(k) <= LastTime)
    BY <1>11, InputsAssumption DEF Estimated
  <2> QED
    BY <1>5, <1>6, <1>8, <1>11, <2>1
<1>12. CASE /\ bin.there /\ bin.tail = "clean"
            /\ \A k \in 1 .. n : Estimated(k) <= LastTime
            /\ Opened(records, "estimated", FALSE)
  BY <1>1, <1>3, <1>4, <1>5, <1>6, <1>7, <1>12, RightOpening
<1> QED
  BY <1>9, <1>10, <1>11, <1>12 DEF ReadBin, records

(* A flat concatenation opens exactly if its rows are sound and in order.    *)
LEMMA FlatSettles ==
  ASSUME IInv, Settled, ReadFlat
  PROVE  Settled' /\ VerdictIsRight'
<1> DEFINE lines == csv.lines
           readable == \A k \in 1 .. Len(lines) : LegacyRow(lines[k])
<1>1. UNCHANGED <<csv, bin, call>>
  BY DEF ReadFlat, files
<1>2. csv \in CsvFile /\ lines \in Seq(Line)
  BY DEF IInv, TypeOK, CsvOK, CsvFile
<1>3. (MayOpen' <=> MayOpen) /\ RightRecords' = RightRecords
  BY <1>1, SameQuestion
<1>4. OpensFlat
  BY DEF ReadFlat, Settled
<1>5. MayOpen <=> csv.there /\ readable /\ lines # <<>> /\ NotDecreasing(lines)
  <2>1. ~ShouldOpenSession
    BY <1>4 DEF OpensFlat, IsFlat, ShouldOpenSession
  <2>2. ShouldOpenFlat <=>
          /\ csv.there /\ Format(lines) = "legacy" /\ SoundBody(lines) /\ lines # <<>>
          /\ \A i, j \in DOMAIN lines : i < j => lines[i].time <= lines[j].time
    BY <1>4 DEF OpensFlat, ShouldOpenFlat
  <2>3. readable <=> Format(lines) = "legacy" /\ SoundBody(lines)
    BY <1>2, LegacyRows
  <2>4. NotDecreasing(lines) <=>
          \A i, j \in DOMAIN lines : i < j => lines[i].time <= lines[j].time
    BY <1>2, OrderOfTimes
  <2> HIDE DEF lines, readable
  <2> QED
    BY <2>1, <2>2, <2>3, <2>4, Zenon DEF MayOpen
<1>6. readable => Format(lines) = "legacy"
  BY <1>2, LegacyRows
<1>7. \/ Fail("io") /\ ~csv.there
      \/ Fail("header") /\ Format(lines) \in {"current", "invalid"}
      \/ Fail("malformed") /\ ~readable
      \/ Fail("empty") /\ lines = <<>>
      \/ Fail("decreasing") /\ ~NotDecreasing(lines)
      \/ /\ csv.there /\ readable /\ lines # <<>> /\ NotDecreasing(lines)
         /\ Opened([k \in 1 .. Len(lines) |-> RecordOf(lines[k])], "recorded", FALSE)
  BY DEF ReadFlat
<1>8. ASSUME NEW error \in Errors, Fail(error), ~MayOpen
      PROVE  Settled' /\ VerdictIsRight'
  BY <1>3, <1>8, RightFailure
<1>9. ASSUME csv.there, readable, lines # <<>>, NotDecreasing(lines),
             Opened([k \in 1 .. Len(lines) |-> RecordOf(lines[k])], "recorded", FALSE)
      PROVE  Settled' /\ VerdictIsRight'
  <2>1. RightRecords = [k \in 1 .. Len(lines) |-> RecordOf(lines[k])]
    BY <1>2, <1>6, <1>9, RowsAreRight
  <2>2. MayOpen
    BY <1>5, <1>9
  <2> HIDE DEF lines, readable
  <2> QED
    BY <1>1, <1>3, <1>9, <2>1, <2>2, RightOpening
<1> HIDE DEF lines, readable
<1> QED
  BY <1>5, <1>6, <1>7, <1>8, <1>9 DEF Errors

(* What a call has settled stays so until a recorder changes the files.      *)
LEMMA VerdictStep ==
  ASSUME IInv, ~grew => Settled /\ VerdictIsRight, [Next]_vars, ~grew'
  PROVE  Settled' /\ VerdictIsRight'
<1>1. CASE RecorderStep
  BY <1>1 DEF RecorderStep, CreateBin, CreateCsv, WriteHeader, WriteSample, WriteRow,
              StopRecording, Recording
<1>2. CASE CallStandalone \/ CallLegacy \/ CallFlat
  BY <1>2, CallsSettle
<1>3. CASE /\ ~(CallStandalone \/ CallLegacy \/ CallFlat)
           /\ ReaderStep
  <2>1. ~grew
    BY <1>3 DEF ReaderStep, CsvSibling, Detect, ReadCurrent, StatCsv, StatBin, ReadLegacy,
                CheckPair, ReadBin, ReadFlat, Again
  <2>2. CASE Again
    <3>1. pc' = "idle"
      BY <2>2 DEF Again
    <3> QED
      BY <3>1, NoVerdict DEF Settled
  <2> QED
    BY <1>3, <2>1, <2>2, LooksSettle, ReadsSettle, PairSettles, BinSettles, FlatSettles
    DEF ReaderStep
<1>4. CASE UNCHANGED vars
  <2>1. UNCHANGED <<csv, bin, recorder, pc, call, seen, rows, answer, base, grew>>
    BY <1>4 DEF vars, files, reader
  <2>2. (MayOpen' <=> MayOpen) /\ RightRecords' = RightRecords
    BY <2>1, SameQuestion
  <2>3. VerdictIsRight'
    BY <2>1, <2>2 DEF VerdictIsRight, MayOpen
  <2>4. /\ OpensFlat' <=> OpensFlat
        /\ NamesSession' <=> NamesSession
        /\ LegacyIsMeant' <=> LegacyIsMeant
        /\ SoundBody(csv.lines)' = SoundBody(csv.lines)
        /\ Format(csv.lines)' = Format(csv.lines)
    BY <2>1 DEF OpensFlat, IsFlat, NamesSession, LegacyIsMeant, SoundBody, Body, Format
  <2>5. Settled'
    BY <2>1, <2>2, <2>4 DEF Settled
  <2> QED
    BY <2>3, <2>5
<1> QED
  BY <1>1, <1>2, <1>3, <1>4 DEF Next

-----------------------------------------------------------------------------
(* The theorems *)

LEMMA InitInv == Init => IInv
<1> SUFFICES ASSUME Init
             PROVE  IInv
  OBVIOUS
<1>1. <<>> \in Seq(Line) /\ <<>> \in Seq(Nat) /\ <<>> \in Seq(Record)
  BY EmptySeq
<1>2. NoCsv \in CsvFile /\ NoBin \in BinFile
  BY <1>1 DEF NoCsv, NoBin, CsvFile, BinFile
<1>3. csv \in CsvFile /\ bin \in BinFile /\ base = csv
  BY <1>2, InputsAssumption DEF Init
<1>4. AbsentIsEmpty
  BY InputsAssumption DEF Init, AbsentIsEmpty, NoCsv
<1>5. BaseIsOld
  <2>1. csv.lines \in Seq(Line)
    BY <1>3 DEF CsvFile
  <2> QED
    BY <1>3, <1>4, <2>1, ExtendsItself DEF BaseIsOld, AbsentIsEmpty
<1>6. /\ pc = "idle" /\ call = NoCall /\ seen = [csv |-> FALSE, bin |-> FALSE]
      /\ rows = <<>> /\ answer = NoAnswer /\ grew = FALSE
      /\ recorder \in {"none", "recording"}
  BY DEF Init
<1>7. TypeOK
  <2>1. call \in [op : Ops, name : Name]
    BY <1>6 DEF NoCall, Ops, Name, Stems, Sources, Exts
  <2>2. NoAnswer \in [result : {"none"}, records : Seq(Record), provenance : {"none"},
                      paired : BOOLEAN]
    BY <1>1 DEF NoAnswer
  <2> QED
    BY <1>1, <1>3, <1>6, <2>1, <2>2 DEF TypeOK, CsvOK, BinOK
<1>8. NoRowMissed /\ EstimatedWithoutCsv /\ RecordsAreBacked
  BY <1>6 DEF NoRowMissed, EstimatedWithoutCsv, RecordsAreBacked, NoAnswer
<1>9. Waiting /\ Alone /\ Found /\ RowsOK
  BY <1>6 DEF Waiting, Alone, Found, RowsOK
<1> QED
  BY <1>4, <1>5, <1>7, <1>8, <1>9 DEF IInv

LEMMA StutterKeeps == IInv /\ UNCHANGED vars => IInv'
<1> SUFFICES ASSUME IInv, UNCHANGED vars
             PROVE  IInv'
  OBVIOUS
<1>1. UNCHANGED <<csv, bin, recorder, pc, call, seen, rows, answer, base, grew>>
  BY DEF vars, files, reader
<1>2. TypeOK' /\ AbsentIsEmpty' /\ BaseIsOld' /\ Waiting' /\ Alone'
  BY <1>1 DEF IInv, TypeOK, CsvOK, BinOK, AbsentIsEmpty, BaseIsOld, Extends, Waiting, Alone
<1>3. Found' /\ RowsOK'
  BY <1>1 DEF IInv, Found, RowsOK, Backed, Shown, Body, Format
<1>4. RecordsAreBacked' /\ NoRowMissed' /\ EstimatedWithoutCsv'
  BY <1>1 DEF IInv, RecordsAreBacked, NoRowMissed, EstimatedWithoutCsv, Body, Format
<1> QED
  BY <1>2, <1>3, <1>4 DEF IInv

(* The inductive invariant holds of every behaviour.                         *)
THEOREM InputsInvariant == Spec => []IInv
<1>1. IInv /\ [Next]_vars => IInv'
  <2> SUFFICES ASSUME IInv, [Next]_vars
               PROVE  IInv'
    OBVIOUS
  <2>1. CASE RecorderStep
    BY <2>1, RecorderGrows, GrowthKeeps
  <2>2. CASE ReaderStep
    BY <2>2, CallsKeep, LooksKeep, ReadsKeep, CheckPairKeeps, ReadBinKeeps, AgainKeeps
    DEF ReaderStep
  <2>3. CASE UNCHANGED vars
    BY <2>3, StutterKeeps
  <2> QED
    BY <2>1, <2>2, <2>3 DEF Next
<1> QED
  BY InitInv, <1>1, PTL DEF Spec

(* The files and the call keep their types.                                  *)
THEOREM InputsTypes == Spec => []TypeOK
<1>1. IInv => TypeOK
  BY DEF IInv
<1> QED
  BY <1>1, InputsInvariant, PTL

(* What a call returns as recorded are rows of the CSV and, where it         *)
(* compared them, samples of the BIN, whatever a recorder did meanwhile.     *)
THEOREM InputsAreBacked == Spec => []RecordsAreBacked
<1>1. IInv => RecordsAreBacked
  BY DEF IInv
<1> QED
  BY <1>1, InputsInvariant, PTL

(* A call that opens a file shows every row that was there when it began.    *)
THEOREM InputsAreComplete == Spec => []NoRowMissed
<1>1. IInv => NoRowMissed
  BY DEF IInv
<1> QED
  BY <1>1, InputsInvariant, PTL

(* A BIN is read without its CSV only if that appeared after the call began. *)
THEOREM EstimatesAreAlone == Spec => []EstimatedWithoutCsv
<1>1. IInv => EstimatedWithoutCsv
  BY DEF IInv
<1> QED
  BY <1>1, InputsInvariant, PTL

(* Files that do not change during a call open exactly if they should, with  *)
(* the records of the CSV, or of a BIN that is alone.                        *)
THEOREM VerdictsAreRight == Spec => []VerdictIsRight
<1> DEFINE VInv == ~grew => Settled /\ VerdictIsRight
<1>1. Init => VInv
  BY DEF Init, Settled, VerdictIsRight
<1>2. IInv /\ VInv /\ [Next]_vars => VInv'
  BY VerdictStep
<1>3. VInv => VerdictIsRight
  BY DEF VerdictIsRight
<1> HIDE DEF VInv
<1> QED
  BY <1>1, <1>2, <1>3, InputsInvariant, PTL DEF Spec

=============================================================================
