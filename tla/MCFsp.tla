--------------------------------- MODULE MCFsp ---------------------------------
(***************************************************************************)
(* A file of two full blocks, one that ends in a short block, a path that  *)
(* is refused, one that never ends, and a directory of three blocks;       *)
(* sequence numbers wrap after three requests, a wait is two ticks long.   *)
(***************************************************************************)
EXTENDS Fsp

CONSTANTS whole, short, absent, endless

MCContent == [p \in Paths |-> CASE p = whole -> <<1, 2, 3, 4>>
                                [] p = short -> <<5, 6, 7>>
                                [] OTHER -> <<>>]

Entry(k, n) == [kind |-> k, name |-> n]

MCDirectory == << <<Entry("file", 1), Entry("skip", 0), Entry("file", 9)>>,
                  <<Entry("other", 2), Entry("dir", 3)>>,
                  <<Entry("end", 0)>> >>
================================================================================
