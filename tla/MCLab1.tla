------------------------------- MODULE MCLab1 -------------------------------
(* An instance of Lab1.  The paths: a new text file, a directory, a file   *)
(* of another type that is there, and a file in a directory that is not    *)
(* there.                                                                  *)
EXTENDS Lab1

CONSTANTS c1, c2

Ask(m, p) == [method |-> m, path |-> p]
MCRequests == {Ask("GET", "new.txt"), Ask("GET", "root"), Ask("GET", "x.exe"), Ask("POST", "new.txt"),
               Ask("POST", "x.exe"), Ask("POST", "no/a.txt"), Ask("OTHER", "root")}
MCMax == [c \in Clients |-> IF c = c1 THEN 2 ELSE 1]
=============================================================================
