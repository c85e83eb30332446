----------------------------- MODULE Accumulator ------------------------------
(***************************************************************************)
(* rngkit_analysis::Accumulator: the two checked totals behind the         *)
(* cumulative statistics, under a caller that goes on after an error.      *)
(* Proportion, deviation and z are functions of a snapshot's totals.       *)
(***************************************************************************)
EXTENDS Naturals, Sequences, SequencesExt

CONSTANTS
  SampleBits,  (* bits of one sample                  *)
  CountMax,    (* width of sample_count (u64)         *)
  TotalMax     (* width of the totals (u128)          *)

(* a u64 times a u32 fits in a u128 *)
ASSUME WidthsAssumption ==
  /\ SampleBits \in Nat \ {0} /\ CountMax \in Nat /\ TotalMax \in Nat
  /\ CountMax * SampleBits <= TotalMax

VARIABLES
  count,    (* sample_count                                 *)
  total,    (* total_ones                                   *)
  ret,      (* what the last push or snapshot returned      *)
  counted   (* history: the samples push returned Ok for    *)

vars == <<count, total, ret, counted>>

Error == [kind |-> "error", samples |-> 0, bits |-> 0, ones |-> 0]

Init ==
  /\ count = 0
  /\ total = 0
  /\ ret = Error
  /\ counted = <<>>

(* snapshot; there is no sample index 0 *)
SnapshotOf(samples, ones) ==
  IF samples # 0 /\ samples * SampleBits <= TotalMax
  THEN [kind |-> "ok", samples |-> samples, bits |-> samples * SampleBits, ones |-> ones]
  ELSE Error

(* mutated: counts before it looks at the sample *)
PushCountFirst(ones) ==
  /\ count < CountMax
  /\ count' = count + 1
  /\ total' = IF ones > SampleBits THEN total ELSE total + ones
  /\ ret' = IF ones > SampleBits THEN Error ELSE SnapshotOf(count + 1, total + ones)
  /\ counted' = IF ret'.kind = "ok" THEN Append(counted, ones) ELSE counted

(* mutated: the counter is not checked *)
PushUnchecked(ones) ==
  /\ ones <= SampleBits
  /\ count' = (count + 1) % (CountMax + 1)
  /\ total' = total + ones
  /\ ret' = SnapshotOf(count', total')
  /\ counted' = IF ret'.kind = "ok" THEN Append(counted, ones) ELSE counted

(* mutated: the snapshot is taken of the count before the push *)
PushStaleCount(ones) ==
  /\ IF ones > SampleBits \/ count = CountMax
     THEN ret' = Error /\ UNCHANGED <<count, total>>
     ELSE /\ count' = count + 1
          /\ total' = total + ones
          /\ ret' = SnapshotOf(count, total + ones)
  /\ counted' = IF ret'.kind = "ok" THEN Append(counted, ones) ELSE counted

(* an overflow of the ones would leave the count advanced *)
Push(ones) ==
  LET fits == total + ones <= TotalMax
  IN  /\ IF ones > SampleBits \/ count = CountMax
         THEN ret' = Error /\ UNCHANGED <<count, total>>
         ELSE /\ count' = count + 1
              /\ total' = IF fits THEN total + ones ELSE total
              /\ ret' = IF fits THEN SnapshotOf(count + 1, total + ones) ELSE Error
      /\ counted' = IF ret'.kind = "ok" THEN Append(counted, ones) ELSE counted

Snapshot ==
  /\ ret' = SnapshotOf(count, total)
  /\ UNCHANGED <<count, total, counted>>

Next == Snapshot \/ \E ones \in 0 .. SampleBits + 1 : Push(ones)

Spec == Init /\ [][Next]_vars

-----------------------------------------------------------------------------
(* Properties *)

(* The totals stay in their widths.                                          *)
TypeOK ==
  /\ count \in 0 .. CountMax
  /\ total \in 0 .. TotalMax
  /\ ret \in [kind : {"ok", "error"}, samples : 0 .. CountMax, bits : 0 .. TotalMax,
              ones : 0 .. TotalMax]
  /\ counted \in Seq(0 .. SampleBits)

(* A snapshot is that of a batch of exactly the samples that were accepted,  *)
(* whatever was refused before, between and after them.                      *)
SnapshotIsExact ==
  ret.kind = "ok" =>
    ret = [kind    |-> "ok",
           samples |-> Len(counted),
           bits    |-> Len(counted) * SampleBits,
           ones    |-> FoldLeft(LAMBDA sum, ones : sum + ones, 0, counted)]

(* A push that returns an error counts nothing: neither half of a sample     *)
(* stays behind.                                                             *)
ErrorCountsNothing == [][ret'.kind = "error" => UNCHANGED <<count, total>>]_vars

=============================================================================
