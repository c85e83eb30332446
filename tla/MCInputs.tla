------------------------------- MODULE MCInputs ------------------------------
(* Pairs of files of every kind that matters, or one recorder at work. *)
EXTENDS Inputs

Other(kind) == [Header EXCEPT !.kind = kind]

LegacyLines == {[kind |-> "legacy", index |-> 0, offset |-> 0, ones |-> n, time |-> t] :
                  n \in 0 .. MaxOnes + 1, t \in 0 .. 1}

(* three rows, for the order of their times *)
TimedFiles == {<<[a EXCEPT !.time = t], [a EXCEPT !.time = u], [a EXCEPT !.time = v]>> :
                 a \in {l \in LegacyLines : l.ones = 0 /\ l.time = 0},
                 t \in 0 .. 1, u \in 0 .. 1, v \in 0 .. 1}

(* a row in the kth place, right or with one thing wrong *)
CurrentLines(k) == {[kind |-> "current", index |-> i, offset |-> o, ones |-> n, time |-> k] :
                      i \in {k, k + 1}, o \in {k - 1, k}, n \in 0 .. MaxOnes + 1}

LegacyFiles == {<<>>} \cup {<<l>> : l \in LegacyLines}
                 \cup {<<l, m>> : l, m \in LegacyLines} \cup TimedFiles

CurrentFiles ==
  {<<Header>>} \cup {<<Header, l>> : l \in CurrentLines(1)}
    \cup {<<Header, l, m>> : l \in {r \in CurrentLines(1) : r.index = 1 /\ r.offset = 0},
                             m \in CurrentLines(2)}

Legacy1 == CHOOSE l \in LegacyLines : l.ones = 1
Current1 == CHOOSE l \in CurrentLines(1) : l.index = 1 /\ l.offset = 0 /\ l.ones = 1

MixedFiles ==
  {<<Other("badHeader")>>, <<Torn>>, <<Legacy1, Torn>>, <<Header, Torn>>,
   <<Header, Current1, Torn>>, <<Header, Legacy1>>, <<Header, Header>>,
   <<Legacy1, Header>>, <<Legacy1, Current1>>, <<Other("badHeader"), Current1>>}

MCCsvFiles ==
  {NoCsv} \cup {[there |-> TRUE, lines |-> l] : l \in LegacyFiles \cup CurrentFiles \cup MixedFiles}

MCBinFiles ==
  {NoBin} \cup [there : {TRUE}, tail : {"clean", "torn"},
                ones : {<<>>} \cup {<<m>> : m \in 0 .. MaxOnes}
                         \cup {<<m, n>> : m, n \in 0 .. MaxOnes}]
=============================================================================
