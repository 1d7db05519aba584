------------------------------- MODULE Bitset -------------------------------
(***************************************************************************)
(* porcupine's bitset (Lab3/src/porcupine/bitset.go): a sequence of words  *)
(* of W bits (64 in the code), with positions from 0.                      *)
(***************************************************************************)
EXTENDS Integers, Sequences, FiniteSets, Folds, Bitwise

CONSTANT W
ASSUME WordAssumption == W \in Nat \ {0}

newBitset(bits) ==
  LET extra == IF bits % W # 0 THEN 1 ELSE 0
  IN  [i \in 1 .. bits \div W + extra |-> 0]

Major(pos) == pos \div W + 1
Minor(pos) == 2 ^ (pos % W)

set(s, pos) == [s EXCEPT ![Major(pos)] = @ | Minor(pos)]
clear(s, pos) == [s EXCEPT ![Major(pos)] = @ & (2 ^ W - 1 - Minor(pos))]

OnesCount(v) == Cardinality({i \in 0 .. W - 1 : v & 2 ^ i # 0})
popcnt(s) == MapThenFoldSet(+, 0, LAMBDA i : OnesCount(s[i]), LAMBDA S : CHOOSE i \in S : TRUE, DOMAIN s)
hash(s) == MapThenFoldSet(^^, popcnt(s), LAMBDA i : s[i], LAMBDA S : CHOOSE i \in S : TRUE, DOMAIN s)

equals(s, t) == Len(s) = Len(t) /\ \A i \in DOMAIN s : s[i] = t[i]
=============================================================================
