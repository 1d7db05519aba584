------------------------------ MODULE MCChord ------------------------------
(* Three nodes on a ring of eight identifiers. *)
EXTENDS Chord

CONSTANTS n1, n2, n3, f1, f2

MCId == [n \in Nodes |-> IF n = n1 THEN 1 ELSE IF n = n2 THEN 4 ELSE 6]
MCFileId == [f \in Files |-> IF f = f1 THEN 5 ELSE 6]
MCUploader == [f \in Files |-> n1]

Quiet == [ring |-> {n1}, stored |-> {}, upload |-> {}, download |-> {},
          overlaps |-> FALSE, threads |-> 2, crashes |-> 0, joins |-> 0, joiners |-> Nodes]
TwoJoin == [Quiet EXCEPT !.joins = 2]
JoinOverlapped == [Quiet EXCEPT !.ring = {n1, n2}, !.overlaps = TRUE, !.joins = 1]
OneFails == [Quiet EXCEPT !.ring = Nodes, !.overlaps = TRUE, !.crashes = 1]
UploadAndJoin == [Quiet EXCEPT !.upload = {f2}, !.download = {f2}, !.joins = 1,
                               !.joiners = {n3}]
FilesMove == [Quiet EXCEPT !.ring = {n1, n2}, !.stored = {f2}, !.joins = 1]
OneRestarts == [Quiet EXCEPT !.ring = Nodes, !.stored = Files, !.threads = 1,
                             !.crashes = 1, !.joins = 1]

MCWorlds == {TwoJoin, JoinOverlapped, OneFails, UploadAndJoin, FilesMove, OneRestarts}

(* A node with a stored file crashes. *)
OwnerFails == {[OneRestarts EXCEPT !.stored = {f1}, !.joins = 0]}
=============================================================================
