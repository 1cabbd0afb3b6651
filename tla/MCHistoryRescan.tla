-------------------------- MODULE MCHistoryRescan --------------------------
(* Small instances of HistoryRescan for TLC. *)
EXTENDS HistoryRescan, TLC

CONSTANTS c1, c2

OneClient == {c1}
TwoClients == {c1, c2}
OneKey == {1}
TwoKeys == {1, 2}
OneJob == {1}
TwoJobs == {1, 2}
OneRow == {1}
ThreeRows == 1 .. 3
NoneHidden == {}
FirstHidden == {1}

Bounds(ask, close, crash, fault, row, pause) ==
  [k \in Bounded |-> CASE k = "ask" -> ask [] k = "close" -> close [] k = "crash" -> crash
                      [] k = "fault" -> fault [] k = "row" -> row [] OTHER -> pause]

\* Rows of the first kind and of the others; full and half-empty pages of both.
Table(first, rest) ==
  [k \in Kind |-> [r \in Row |-> IF r \in (IF k = 1 THEN first ELSE rest) THEN 1 ELSE 0]]
AnyTable == [Kind -> [Row -> 0 .. 1]]
FewTables == {Table({1, 2, 3}, {2, 3}), Table({2}, {})}

\* Failures and changing rows around one job.
Faults == {Bounds(1, 0, 0, 2, 1, 0)}
\* A crash, a closure, a failure and a pause around one job.
Crashes == {Bounds(1, 1, 1, 1, 0, 1)}
Troubles == Faults \union Crashes
\* Lost connections between two jobs; three requests at once.
Jobs == {Bounds(2, 2, 0, 1, 0, 0), Bounds(3, 1, 0, 0, 0, 0)}

\* Clients are interchangeable (safety runs only).
Symmetry == Permutations(Client)
=============================================================================
