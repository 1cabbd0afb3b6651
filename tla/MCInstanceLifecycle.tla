------------------------ MODULE MCInstanceLifecycle ------------------------
(* Small instances of InstanceLifecycle for TLC. *)
EXTENDS InstanceLifecycle

NoLimit == [k \in Bounded |-> 0]

TwoTickets == 1 .. 2

\* Connections come and go; the store works.
Transport == {[NoLimit EXCEPT !["close"] = 2, !["logout"] = 1, !["call"] = 2]}

\* Writes of a socket and setups fail.
Writes == {[NoLimit EXCEPT !["close"] = 1, !["fail"] = 2, !["setup"] = 1, !["call"] = 2]}

\* Three lifecycle calls whose shutdown may fail.
Calls == {[NoLimit EXCEPT !["logout"] = 1, !["fail"] = 1, !["drain"] = 2, !["call"] = 3]}
Everything == Transport \union Writes \union Calls
=============================================================================
