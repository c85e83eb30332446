---------------------------- MODULE MCConcatCreate ----------------------------
(* Two creators combine the same two files, given in either order.           *)
EXTENDS Concatenation, TLC

CONSTANTS c1, c2

CreatorsMC == {c1, c2}

PathsMC == {"a", "b"}

AboutMC ==
  [a |-> [file |-> "A", name |-> 1, source |-> "bitb", fold |-> "f0", bits |-> 8,
          interval |-> 1, format |-> "current"],
   b |-> [file |-> "B", name |-> 2, source |-> "trng", fold |-> "none", bits |-> 8,
          interval |-> 1, format |-> "legacy"]]

R(at, ones) == [at |-> at, ones |-> ones]

(* A may get another count, or a row at the time of B's first *)
VersionsMC ==
  [A |-> {<<R(1, 0), R(2, 0)>>, <<R(1, 0), R(2, 0), R(3, 0)>>, <<R(1, 1), R(2, 0)>>},
   B |-> {<<R(3, 0)>>}]

RequestsMC ==
  {[paths |-> <<"a", "b">>, current |-> TRUE], [paths |-> <<"b", "a">>, current |-> TRUE]}

ContestedMC == {Stem("mixed", "none", 8, 1)}

SymmetryMC == Permutations(CreatorsMC)

=============================================================================
