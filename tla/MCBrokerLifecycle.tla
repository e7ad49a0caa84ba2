------------------------- MODULE MCBrokerLifecycle -------------------------
(***************************************************************************)
(* Values for checking BrokerLifecycle: three processes when commands      *)
(* follow each other, two when they overlap.                               *)
(***************************************************************************)
EXTENDS BrokerLifecycle

MCMaxStarts == [none |-> 3, drain |-> 2, any |-> 2]
=============================================================================
