------------------------------ MODULE MCBrokerMove ------------------------------
(* Small instances of BrokerMove. *)
EXTENDS BrokerMove

(* This battery's login, and another one. *)
MCMine == [user |-> "u1", pwd |-> "p1"]
MCLogins == {MCMine, [user |-> "u2", pwd |-> "p2"]}
=============================================================================
