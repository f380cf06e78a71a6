--------------------------- MODULE MCMisfinIdentity ---------------------------
(***************************************************************************)
(* Two processes and two addresses whose file names are the same.          *)
(***************************************************************************)
EXTENDS MisfinIdentity

MCAddresses == {<<"a", "+", "b", "@", "h">>, <<"a", "_", "b", "@", "h">>}
=============================================================================
