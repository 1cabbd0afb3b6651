---------------------------- MODULE MCApiRuntime ----------------------------
(* Small instances of ApiRuntime for TLC. *)
EXTENDS ApiRuntime

CONSTANTS k1, k2, c1, c2

OneKey == {k1}
TwoKeys == {k1, k2}
OneClient == {c1}
TwoClients == {c1, c2}
ThreeObjects == 1 .. 3

Allow(allowed) == [k \in Bounded |-> IF k \in DOMAIN allowed THEN allowed[k] ELSE 0]
\* Failures around the start and its retries, beside create and connect, or beside
\* connect and delete; the three calls without failures; a client that goes away.  The last
\* two are what is not to come together (Apart), and a little before it.
Stops == {Allow([fault |-> 2, create |-> 1, connect |-> 1, stop |-> 1]),
          Allow([fault |-> 2, connect |-> 1, delete |-> 1, stop |-> 1]),
          Allow([connect |-> 1, delete |-> 1, create |-> 1, stop |-> 1]),
          Allow([connect |-> 1, create |-> 1, stop |-> 1, gone |-> 1]),
          Allow([fault |-> 1, create |-> 1, delete |-> 1, stop |-> 1]),
          Allow([fault |-> 1, delete |-> 1, stop |-> 1, gone |-> 1])}
\* A restore that is tried again beside a deletion.
Deletes == {Allow([fault |-> 1, delete |-> 1])}
=============================================================================
