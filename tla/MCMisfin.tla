------------------------------ MODULE MCMisfin ------------------------------
(***************************************************************************)
(* The server holds bob's mailbox at "home". Two certificates claim to be  *)
(* alice, one claims no address, one is expired.                           *)
(***************************************************************************)
EXTENDS Misfin, TLC

CONSTANTS alice1, alice2, anon, old

bob == <<"bob", "home">>
eve == <<"eve", "home">>
alice == <<"alice", "away">>

MCAddresses == {bob, eve, alice}
MCServed == {bob}
MCClaim == [f \in Fingerprints |-> IF f = anon THEN NoAddress ELSE alice]
MCExpired == {old} \cap Fingerprints

\* Connections are interchangeable.
MCSymmetry == Permutations(Conns)
=============================================================================
