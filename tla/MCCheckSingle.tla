---------------------------- MODULE MCCheckSingle ----------------------------
(* Histories of appends and gets on a clock of three ticks; words of two   *)
(* bits, so that three operations take a word and a half.                  *)
EXTENDS CheckSingle

In(op, value) == [op |-> op, value |-> value]
MCInputs == {In("append", <<1>>), In("get", <<1>>), In("get", <<1, 1>>)}
=============================================================================
