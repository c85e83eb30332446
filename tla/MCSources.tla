------------------------------- MODULE MCSources -------------------------------
(* Two devices of one kind and one of the other; every name of up to six      *)
(* of a few tokens.                                                           *)
EXTENDS Sources, TLC

CONSTANTS b1, b2, t1

MCBitbs == {b1, b2}
MCTrngs == {t1}
MCSymmetry == Permutations(MCBitbs)

MCIdentifiers == {"bitb", "trng", "rdseed", "pseudo", "mixed", "concat", "s", "i", "f"}

MCHeads == {Number("T", 7), Word("T"), Word("bitb")}

MCTexts == MCIdentifiers \cup {"T", "-"}

(* three of the tokens have two meanings, one is a number out of range *)
MCTokens ==
  {Concat, Word("bitb"), Word("pseudo"), Number("s", 8),
   [Number("s", 8) EXCEPT !.padded = TRUE], Number("i", 8), Number("f", 4),
   Number("f", 5)}

MCOffsets      == {-43200, -12600, -1172, -900, 0, 900, 1172, 19800, 50400}
MCDelays       == {0, 1, 59, 60, 61, 449, 450, 902}
MCAcquisitions == {NoAcquisition, 0, 57, 58, 59, 447, 448, 900}
=============================================================================
