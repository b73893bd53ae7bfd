----------------------------- MODULE MCFileIndex -----------------------------
(* A scope inside another, and two indexers. *)
EXTENDS FileIndex, TLC

CONSTANTS home, docs, note, draft

MCWithin == home :> {note, draft} @@ docs :> {draft}
=============================================================================
