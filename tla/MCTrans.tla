------------------------------- MODULE MCTrans -------------------------------
(* An instance of Trans for TLC: readable files of every length, and one each *)
(* of the others.                                                             *)
EXTENDS Trans

Readable == [blocks : 0..MaxBlocks, tail : {"none", "text"}, bad : {"no"}]
Some(tail, bad) == [blocks |-> 1, tail |-> tail, bad |-> bad]
Mixed == Readable \cup {Some("nul", "no"), Some("text", "absent"), Some("text", "special"),
                        Some("text", "eio")}
==============================================================================
