---------------------------- MODULE GroupCatalog ----------------------------
(***************************************************************************)
(* The catalogue of groups and communities (getSections): collected from   *)
(* storage and from two queries to WhatsApp while groups change, shared    *)
(* by the calls that come before the next change, and saved.               *)
(*                                                                         *)
(* What is known of a group is a version, its later changes have higher    *)
(* ones: rows are merged field by field, one field stands for all.         *)
(* Channels, which no event changes, are left out.                         *)
(***************************************************************************)
EXTENDS Naturals, Sequences, SequencesExt

CONSTANTS
  Space,          \* groups and communities
  Part,           \* the queries to WhatsApp
  Listed,         \* what each query lists: together they list all there are
  CatalogCall,    \* calls of getSections
  NoCatalog,
  LogSize,        \* the changes that a socket's log keeps (2000)
  MaxChanges,     \* bound: changes that WhatsApp reports
  MaxMishaps      \* bound: failed queries and statements, expiries and closures

ASSUME CatalogAssumption ==
  /\ Listed \in [Part -> SUBSET Space] /\ IsFiniteSet(Space)
  /\ \A s \in Space : \E p \in Part : s \in Listed[p]
  /\ NoCatalog \notin CatalogCall
  /\ LogSize \in Nat \ {0} /\ MaxChanges \in Nat /\ MaxMishaps \in Nat

VARIABLES
  actual,      \* each space as WhatsApp has it
  wire,        \* what WhatsApp has sent on the socket: changes and answers to queries
  connected,   \* the socket is the instance's and open
  mishaps,     \* how many have happened
  noted,       \* history: the last version of each space that an event brought
  revision, changes,  \* the log of the socket
  backlog,     \* rows of events that wait for the event queue
  writes,      \* the chain of saveManyChats
  stored,      \* the rows in the database
  cached,      \* the call whose result is in the cache
  asked,       \* each call: the call that collects for it, and (history) what was noted then
  collecting,  \* how far a call that collects has come
  began,       \* revision at its start
  observed,    \* observation.revision
  records,     \* the rows it has read, then its catalogue
  open,        \* queries that WhatsApp has not answered
  awaited,     \* queries whose answer is awaited
  missing,     \* queries that failed or timed out
  gathered,    \* updates
  available, partial,
  overrun      \* history: the log had lost changes when the result was put together

catalogVars == <<mishaps, actual, wire, connected, noted, revision, changes, backlog, writes, stored,
                 cached, asked, began, collecting, observed, records, open, awaited, missing,
                 gathered, available, partial, overrun>>
logVars == <<noted, revision, changes>>
worldVars == <<actual, wire, connected, logVars, backlog>>
callVars == <<asked, began>>
workVars == <<collecting, observed, records>>
fetchVars == <<open, awaited, missing>>
resultVars == <<available, partial, overrun>>

\* The new rows prevail over the old ones.
Override(new, old) ==
  [s \in DOMAIN new \union DOMAIN old |-> IF s \in DOMAIN new THEN new[s] ELSE old[s]]

Mishap == mishaps < MaxMishaps /\ mishaps' = mishaps + 1

NoRows == <<>>
NotAsked == [owner |-> NoCatalog, known |-> [s \in Space |-> 0]]
OfCalls(x) == [c \in CatalogCall |-> x]

CatalogInit ==
  /\ actual = [s \in Space |-> 0] /\ stored = actual /\ noted = actual
  /\ wire = <<>> /\ connected = TRUE /\ mishaps = 0
  /\ revision = 0 /\ changes = <<>> /\ backlog = <<>> /\ writes = <<>>
  /\ cached = NoCatalog /\ asked = OfCalls(NotAsked)
  /\ collecting = OfCalls("none") /\ began = OfCalls(0) /\ observed = OfCalls(0)
  /\ records = OfCalls(NoRows) /\ gathered = records
  /\ open = OfCalls({}) /\ awaited = open /\ missing = open
  /\ available = OfCalls(FALSE) /\ partial = available /\ overrun = available

-----------------------------------------------------------------------------
(* The log of changes *)

\* The oldest entries make room.
Kept(q) == IF Len(q) > LogSize THEN SubSeq(q, Len(q) - LogSize + 1, Len(q)) ELSE q

\* noteGroupSpaceChanges
Note(rows) ==
  LET order == SetToSeq(DOMAIN rows)
      entries == [k \in DOMAIN order |->
                    [revision |-> revision + k, space |-> order[k], row |-> rows[order[k]]]]
  IN /\ changes' = Kept(changes \o entries)
     /\ revision' = revision + Len(order)
     /\ noted' = Override(rows, noted)

\* groupSpaceChangesSince
Complete(r) == changes = <<>> \/ Head(changes).revision <= r + 1
Changed(r) == {changes[k].space : k \in {j \in DOMAIN changes : changes[j].revision > r}}
LatestOf(s) == Max({k \in DOMAIN changes : changes[k].space = s})
ChangesSince(r) == [s \in Changed(r) |-> changes[LatestOf(s)].row]

-----------------------------------------------------------------------------
(* WhatsApp and the event queue *)

Emits(rows, call, part) == wire' = Append(wire, [rows |-> rows, call |-> call, part |-> part])

SpaceChanges(s) ==
  /\ connected
  /\ FoldLeft(LAMBDA n, t : n + actual[t], 0, SetToSeq(Space)) < MaxChanges
  /\ actual' = [actual EXCEPT ![s] = @ + 1]
  /\ Emits([t \in {s} |-> actual'[t]], NoCatalog, "event")
  /\ UNCHANGED <<mishaps, connected, logVars, backlog, writes, stored, cached, callVars,
                  workVars, fetchVars, gathered, resultVars>>

QueryAnswered(c, p) ==
  /\ connected /\ p \in open[c]
  /\ open' = [open EXCEPT ![c] = @ \ {p}]
  /\ Emits([s \in Listed[p] |-> actual[s]], c, p)
  /\ UNCHANGED <<mishaps, actual, connected, logVars, backlog, writes, stored, cached, callVars,
                  workVars, awaited, missing, gathered, resultVars>>

\* An event is noted when it comes and saved by the event queue, behind whatever imports
\* history; the provider emits the answer to a query as an event too.
Arrives ==
  /\ wire # <<>>
  /\ LET m == Head(wire)
         expected == m.call # NoCatalog /\ m.part \in awaited[m.call] IN
     /\ Note(m.rows)
     /\ backlog' = Append(backlog, m.rows)
     /\ IF expected
        THEN /\ gathered' = [gathered EXCEPT ![m.call] = Override(m.rows, @)]
             /\ awaited' = [awaited EXCEPT ![m.call] = @ \ {m.part}]
        ELSE UNCHANGED <<gathered, awaited>>
  /\ wire' = Tail(wire)
  /\ UNCHANGED <<mishaps, actual, connected, writes, stored, cached, callVars, workVars, open,
                  missing, resultVars>>

\* A handler of the event queue calls saveManyChats.
EventSaved ==
  /\ backlog # <<>> /\ \A k \in DOMAIN writes : writes[k].call # NoCatalog
  /\ writes' = Append(writes, [call |-> NoCatalog, rows |-> Head(backlog)])
  /\ backlog' = Tail(backlog)
  /\ UNCHANGED <<mishaps, actual, wire, connected, logVars, stored, cached, callVars, workVars,
                  fetchVars, gathered, resultVars>>

\* The connection closes for good; its handlers do nothing from now on.
SocketLost ==
  /\ Mishap
  /\ connected
  /\ connected' = FALSE
  /\ wire' = <<>> /\ backlog' = <<>> /\ open' = OfCalls({})
  /\ UNCHANGED <<actual, logVars, writes, stored, cached, callVars, workVars, awaited, missing,
                  gathered, resultVars>>

-----------------------------------------------------------------------------
(* getSections *)

CacheValid == cached # NoCatalog /\ observed[cached] = revision

AskCatalog(c) ==
  /\ asked[c].owner = NoCatalog
  /\ IF connected /\ CacheValid
     THEN /\ asked' = [asked EXCEPT ![c] = [owner |-> cached, known |-> noted]]
          /\ UNCHANGED <<began, observed, collecting, cached>>
     ELSE /\ asked' = [asked EXCEPT ![c] = [owner |-> c, known |-> noted]]
          /\ began' = [began EXCEPT ![c] = revision]
          /\ observed' = [observed EXCEPT ![c] = revision]
          /\ collecting' = [collecting EXCEPT ![c] = IF connected THEN "reading" ELSE "offline"]
          /\ cached' = IF connected THEN c ELSE cached
  /\ UNCHANGED <<mishaps, worldVars, writes, stored, records, fetchVars, gathered, resultVars>>

\* A minute is over.
CacheExpires ==
  /\ Mishap
  /\ cached # NoCatalog
  /\ cached' = NoCatalog
  /\ UNCHANGED <<worldVars, writes, stored, callVars, workVars, fetchVars, gathered,
                  resultVars>>

\* The promise rejects: its entry goes.
CatalogRejected(c) ==
  /\ collecting' = [collecting EXCEPT ![c] = "failed"]
  /\ cached' = IF cached = c THEN NoCatalog ELSE cached

ReadSpaces(c) ==
  /\ collecting[c] \in {"reading", "offline"}
  /\ \/ /\ records' = [records EXCEPT ![c] = stored]
        /\ collecting' = [collecting EXCEPT ![c] = IF @ = "reading" THEN "fetching" ELSE "done"]
        /\ awaited' = [awaited EXCEPT ![c] = IF collecting[c] = "reading" THEN Part ELSE {}]
        /\ open' = [open EXCEPT ![c] = IF connected THEN awaited'[c] ELSE {}]
        /\ UNCHANGED <<mishaps, cached>>
     \/ Mishap /\ CatalogRejected(c) /\ UNCHANGED <<records, open, awaited>>
  /\ UNCHANGED <<worldVars, writes, stored, callVars, observed, missing, gathered, resultVars>>

\* A query rejects, or takes longer than it may; its answer may still come.
QueryFails(c, p) ==
  /\ Mishap
  /\ p \in awaited[c]
  /\ awaited' = [awaited EXCEPT ![c] = @ \ {p}]
  /\ missing' = [missing EXCEPT ![c] = @ \union {p}]
  /\ UNCHANGED <<worldVars, writes, stored, cached, callVars, workVars, open, gathered,
                  resultVars>>

\* Mutant: what changed while the result was being saved is left out.
NoLaterChanges(c) == NoRows

\* The second look at the log.
LaterChanges(c) == ChangesSince(began[c])

\* The result, of the updates and what has changed since.
Conclude(c, updates, hasSocket) ==
  /\ records' = [records EXCEPT ![c] =
       IF hasSocket THEN Override(LaterChanges(c), Override(updates, @)) ELSE Override(updates, @)]
  /\ observed' = [observed EXCEPT ![c] = revision]
  /\ overrun' = [overrun EXCEPT ![c] = ~Complete(began[c])]
  /\ collecting' = [collecting EXCEPT ![c] = "done"]

\* The answers, which the changes since the start override; of answers to which changes are
\* missing nothing is kept.
Updates(c) ==
  Override(ChangesSince(began[c]), IF Complete(began[c]) THEN gathered[c] ELSE NoRows)

\* All queries have settled.
Gather(c) ==
  /\ collecting[c] = "fetching" /\ awaited[c] = {}
  /\ LET updates == IF connected THEN Updates(c) ELSE NoRows
         hasSocket == connected /\ missing[c] # Part IN
     /\ available' = [available EXCEPT ![c] = hasSocket]
     /\ partial' = [partial EXCEPT ![c] = missing[c] # {} \/ ~Complete(began[c])]
     /\ gathered' = [gathered EXCEPT ![c] = updates]
     /\ IF updates # NoRows
        THEN /\ writes' = Append(writes, [call |-> c, rows |-> updates])
             /\ collecting' = [collecting EXCEPT ![c] = "saving"]
             /\ UNCHANGED <<records, observed, overrun>>
        ELSE Conclude(c, NoRows, hasSocket) /\ UNCHANGED writes
  /\ UNCHANGED <<mishaps, worldVars, stored, cached, callVars, fetchVars>>

WriteSpaces ==
  /\ writes # <<>>
  /\ writes' = Tail(writes)
  /\ LET w == Head(writes) IN
     \/ /\ stored' = Override(w.rows, stored)
        /\ IF w.call = NoCatalog
           THEN UNCHANGED <<collecting, records, observed, overrun>>
           ELSE Conclude(w.call, gathered[w.call], available[w.call])
        /\ UNCHANGED <<mishaps, cached>>
     \/ \* Some rows are written.
        /\ w.call # NoCatalog /\ Mishap
        /\ \E some \in SUBSET DOMAIN w.rows : stored' = Override([s \in some |-> w.rows[s]], stored)
        /\ CatalogRejected(w.call)
        /\ UNCHANGED <<records, observed, overrun>>
  /\ UNCHANGED <<worldVars, callVars, fetchVars, gathered, available, partial>>

CatalogNext ==
  \/ \E s \in Space : SpaceChanges(s)
  \/ \E c \in CatalogCall :
       \/ AskCatalog(c) \/ ReadSpaces(c) \/ Gather(c)
       \/ \E p \in Part : QueryAnswered(c, p) \/ QueryFails(c, p)
  \/ Arrives \/ EventSaved \/ SocketLost \/ CacheExpires \/ WriteSpaces

CatalogSpec == CatalogInit /\ [][CatalogNext]_catalogVars

-----------------------------------------------------------------------------
(* Properties *)

\* The log is bounded and ends at the revision; the cache holds no failed result.
CatalogTypeOK ==
  /\ Len(changes) <= LogSize
  /\ \A k \in DOMAIN changes : changes[k].revision = revision - Len(changes) + k
  /\ cached # NoCatalog => asked[cached].owner = cached /\ collecting[cached] # "failed"
  /\ \A c \in CatalogCall : collecting[c] = "done" => DOMAIN records[c] = Space

\* Who gets a full catalogue, shared or its own, finds in it every change that an event had
\* brought before the call, whatever was asked, answered and saved meanwhile
\* (docs/whatsapp-sections.md:23: events invalidate the cache at once and prevail over the
\* snapshot of a query under way).  Left aside: more changes during one save than the log
\* holds.
CatalogFresh ==
  \A c \in CatalogCall : \A o \in CatalogCall :
    /\ asked[c].owner = o /\ collecting[o] = "done"
    /\ available[o] /\ ~partial[o] /\ ~overrun[o]
    => \A s \in Space : records[o][s] >= asked[c].known[s]

\* No catalogue saves an old answer over a change that the event queue has stored.
NewsStored ==
  connected /\ wire = <<>> /\ backlog = <<>> /\ writes = <<>>
    => \A s \in Space : stored[s] >= noted[s]

\* A change of a group that an event has brought is never lost behind an older answer.
CatalogSafety == CatalogTypeOK /\ CatalogFresh /\ NewsStored
=============================================================================
