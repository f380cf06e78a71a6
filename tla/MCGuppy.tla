------------------------------- MODULE MCGuppy -------------------------------
(***************************************************************************)
(* Bodies for the runs of Guppy: with ChunkSize 2 an empty body takes two  *)
(* packets (first, end of file), a note of 3 bytes three, a page of 5 four.*)
(***************************************************************************)
EXTENDS Guppy

MCBodyLen == [empty |-> 0, note |-> 3, page |-> 5]
MCBodyLenOf == [d \in Docs |-> MCBodyLen[d]]
============================================================================
