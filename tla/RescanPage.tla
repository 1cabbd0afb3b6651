----------------------------- MODULE RescanPage -----------------------------
(***************************************************************************)
(* The plan of a page of a history rescan: which stored rows it reads,     *)
(* which webhook events it makes of them, and where the next page begins.  *)
(*                                                                         *)
(* A table maps a kind of row (contacts, chats, messages: the numbers      *)
(* 1 .. Kinds) and an identifier to the edition of the row, 0 when there   *)
(* is no such row.  Sizes in bytes are abstracted to a number of rows.     *)
(***************************************************************************)
EXTENDS Naturals, FiniteSets

CONSTANTS
  Kinds,      \* how many kinds of rows there are
  Row,        \* identifiers of rows
  Hidden,     \* rows that are no webhook item: internal messages, bare contacts
  PageSize,   \* rows read for a page
  ChunkSize   \* rows that fit in a webhook

ASSUME RescanPageAssumption ==
  /\ Kinds \in Nat \ {0} /\ PageSize \in Nat \ {0} /\ ChunkSize \in Nat \ {0}
  /\ Row \subseteq Nat \ {0} /\ IsFiniteSet(Row)

Kind == 1 .. Kinds

\* The largest element of S, 0 when there is none.
Largest(S) == IF S = {} THEN 0 ELSE CHOOSE r \in S : \A q \in S : q <= r

\* The position of r among the elements of S, from 1.
Rank(S, r) == Cardinality({q \in S : q <= r})

Stored(table, k) == {r \in Row : table[k][r] # 0}

\* begin(): every kind is read up to the largest row it has now.
FirstState(table) ==
  [phase |-> 1, cursor |-> 0, max |-> [k \in Kind |-> Largest(Stored(table, k))],
   sequence |-> 0, chunks |-> 0, count |-> 0]

Done(state) == state.phase > Kinds

\* page(): the first rows after the cursor.
PageRows(state, table) ==
  LET rest == {r \in Stored(table, state.phase) :
                 state.cursor < r /\ r <= state.max[state.phase]}
  IN  {r \in rest : Rank(rest, r) <= PageSize}

\* webhookChunks(): the rows are cut into groups of ChunkSize, in their order.
Chunks(rows) == (Cardinality(rows) + ChunkSize - 1) \div ChunkSize
Chunk(rows, i) ==
  {r \in rows : (i - 1) * ChunkSize < Rank(rows, r) /\ Rank(rows, r) <= i * ChunkSize}

\* Mutant: the cursor is the row after the page.
RowAfter(state, rows) ==
  IF rows = {} THEN state.max[state.phase] ELSE Largest(rows) + 1

\* The cursor after the page: its last row, or the end when there was none.
NextCursor(state, rows) ==
  IF rows = {} THEN state.max[state.phase] ELSE Largest(rows)

\* The kind is finished: a page that is not full, or the largest row.
LastPage(state, rows) ==
  Cardinality(rows) < PageSize \/ NextCursor(state, rows) >= state.max[state.phase]

\* state.after of the page made of these rows, `shown' of which are items.
After(state, rows, shown) ==
  [state EXCEPT
     !.phase    = IF LastPage(state, rows) THEN @ + 1 ELSE @,
     !.cursor   = IF LastPage(state, rows) THEN 0 ELSE NextCursor(state, rows),
     !.sequence = @ + 1,
     !.chunks   = @ + Chunks(shown),
     !.count    = @ + Cardinality(shown)]

\* An event; its identifier is made of run, sequence and part (and its name).
Progress(run, after, part, last) ==
  [run |-> run, sequence |-> after.sequence, part |-> part, kind |-> 0, last |-> last,
   chunks |-> after.chunks, count |-> after.count, items |-> {}]

Items(run, after, part, kind, table, rows) ==
  [run |-> run, sequence |-> after.sequence, part |-> part, kind |-> kind, last |-> FALSE,
   chunks |-> 0, count |-> 0, items |-> {<<r, table[kind][r]>> : r \in rows}]

\* plan(): a progress event announces the page, then come its chunks; after the
\* last kind, one event says that the producer has finished.
Plan(run, state, table) ==
  IF Done(state)
  THEN LET after == [state EXCEPT !.sequence = @ + 1]
       IN  [events |-> <<Progress(run, after, 0, TRUE)>>, after |-> after, complete |-> TRUE]
  ELSE LET rows  == PageRows(state, table)
           shown == rows \ Hidden
           after == After(state, rows, shown)
           size  == IF shown = {} THEN 0 ELSE 1 + Chunks(shown)
       IN  [events |-> [i \in 1 .. size |->
                          IF i = 1 THEN Progress(run, after, 0, FALSE)
                          ELSE Items(run, after, i - 1, state.phase, table,
                                     Chunk(shown, i - 1))],
            after |-> after, complete |-> FALSE]

=============================================================================
