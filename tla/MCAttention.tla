---------------------------- MODULE MCAttention -----------------------------
(* A small instance of Attention.                                          *)
EXTENDS Attention, TLC

Relay == [mode |-> "relay", detached |-> "stall"]
Deny  == [mode |-> "deny", detached |-> "stall"]

(* A profile that relays, and is set to deny while the session lives.      *)
SomePolicies == {Relay, Deny}

(* The default: everything that blocks.                                    *)
SomeArmings == {Reasons \ {"turn_complete"}}

(* To allow this once, or to refuse from now on.                           *)
SomeOffers == {{"allow_once", "reject_always"}}

(* The connections, the requests and the events are interchangeable.       *)
Symmetry == Permutations(Conns) \cup Permutations(Requests) \cup Permutations(Events)
=============================================================================
