------------------------------ MODULE MCDaemon ------------------------------
(* Instances of Daemon for TLC: a directory d with a file g, a file f and a  *)
(* backup b inside the working directory w; a backup b2 outside; a second    *)
(* working directory w2 with a file h that is called like f.                 *)
EXTENDS Daemon

CONSTANTS w, w2, b, b2, d, f, g, h, c1, c2

Tree == {d, f, g, b, h}
SmallTree == {d, g, b, h}
In == [n \in Nodes |-> IF n = g THEN d ELSE IF n = h THEN w2 ELSE w]
Below == [n \in Nodes |-> IF n = h THEN w2 ELSE w]
Names == [n \in Files |-> IF n = g THEN "d/g" ELSE "f"]
AsBuilt == {<<w, b>>}
FewBytes == {<<1>>, <<2, 2>>}
Do(k, p) == [kind |-> k, path |-> p]
OneCommand == {[c \in Runs |-> x] : x \in {Do("b", b2), Do("w", w2), Do("k", w)}}
BackupTwice == {[c \in Runs |-> IF c = c1 THEN Do("b", b2) ELSE Do("b", b)]}
=============================================================================
