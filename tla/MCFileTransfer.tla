--------------------------- MODULE MCFileTransfer ---------------------------
(* A folder of a file of three units, sent in two chunks, and an empty file; *)
(* and a single file.                                                        *)
EXTENDS FileTransfer

MCFolder == <<3, 0>>
MCFile == <<1>>
=============================================================================
