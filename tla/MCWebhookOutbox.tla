-------------------------- MODULE MCWebhookOutbox --------------------------
(* Small lanes for TLC. *)
EXTENDS WebhookOutbox, TLC

CONSTANTS A, B

One == 1..1
Two == 1..2

OneEach == [e \in Two |-> IF e = 2 THEN B ELSE A]
AllOfA == [e \in Event |-> A]
NoEvents == {}
FirstEvent == {1}
SecondEvent == {2}

\* What may happen besides enqueuing and delivering.
Allow(allowed) == [k \in Bounded |-> IF k \in DOMAIN allowed THEN allowed[k] ELSE 0]
\* A storage error, or a crash with a stop or with a closure before or after it.
Faults == {Allow([error |-> 1]), Allow([crash |-> 1, stop |-> 1]),
           Allow([crash |-> 1, discard |-> 1])}
OneError == {Allow([error |-> 1])}
\* Dead letters replayed around closures, or with an error.
Closures == {Allow([discard |-> 2, replay |-> 1]), Allow([discard |-> 1, replay |-> 2]),
             Allow([discard |-> 1, replay |-> 1, error |-> 1])}
OneReplay == {Allow([replay |-> 1])}

\* Replays, errors and second closures happen around one event, whose flights may overlap;
\* two events have one closure, and one flight at a time.
Smaller ==
  \/ producer[2].pc = "new"
  \/ /\ spent["replay"] = 0 /\ spent["error"] = 0 /\ spent["discard"] <= 1
     /\ Cardinality({f \in Flight : phase[f] # "none"}) <= 1
SmallSpec == Init /\ [][Next /\ Smaller']_vars

\* Closures happen around one event; nothing that fairness obliges is held back.
OneToClose == producer[2].pc = "new" \/ spent["discard"] = 0
DeliverySpec == Init /\ [][Next /\ OneToClose']_vars /\ Fairness

\* Workers and flights are interchangeable (safety runs only).
Symmetry == Permutations(Slot) \union Permutations(Flight)
=============================================================================
