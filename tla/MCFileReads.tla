---------------------------- MODULE MCFileReads ----------------------------
(* Every reader over a file of up to three blocks, one more than it        *)
(* accepts, which others change up to twice while it is read.        *)
EXTENDS FileReads
=============================================================================
