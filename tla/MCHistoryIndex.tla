-------------------------- MODULE MCHistoryIndex --------------------------
(* A small instance of HistoryIndex for TLC. *)
EXTENDS HistoryIndex

CONSTANTS e1, n1

OneRun == {e1}
OneConnection == {n1}
OfOne == [e \in OneRun |-> n1]

\* One run of history, a closure before it and a restart after it.
Afterwards == {[k \in HappensFew |-> 1]}
=============================================================================
