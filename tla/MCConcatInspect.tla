---------------------------- MODULE MCConcatInspect ----------------------------
(* One creator, given any list of up to three files of six.                  *)
EXTENDS Concatenation

CONSTANT c1

CreatorsMC == {c1}

PathsMC == {"a", "link", "b", "c", "d", "e"}

Info(f, name, source, fold, bits, format) ==
  [file |-> f, name |-> name, source |-> source, fold |-> fold, bits |-> bits,
   interval |-> 1, format |-> format]

AboutMC ==
  [a    |-> Info("A", 1, "bitb", "f0", 8, "legacy"),
   link |-> Info("A", 2, "bitb", "f0", 8, "legacy"),
   b    |-> Info("B", 2, "bitb", "f0", 8, "legacy"),
   c    |-> Info("C", 3, "bitb", "f1", 8, "current"),
   d    |-> Info("D", 3, "trng", "none", 8, "legacy"),
   e    |-> Info("E", 4, "bitb", "f0", 16, "legacy")]

R(at) == [at |-> at, ones |-> 0]

(* contents that follow one another, touch, overlap, decrease or are empty *)
VersionsMC ==
  [A |-> {<<R(3), R(3)>>, <<R(1), R(2)>>},
   B |-> {<<R(2)>>, <<R(1), R(4)>>, <<>>},
   C |-> {<<R(5), R(6)>>, <<R(6), R(5)>>},
   D |-> {<<R(4)>>},
   E |-> {<<R(7)>>}]

RequestsMC ==
  [paths : UNION {[1 .. n -> PathsMC] : n \in 0 .. 3}, current : BOOLEAN]

ContestedMC == {}

=============================================================================
