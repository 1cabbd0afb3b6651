----------------------------- MODULE MCServices -----------------------------
(***************************************************************************)
(* Small instances of the services of an instance that share no state with *)
(* one another.  A behaviour follows one of them, named by `focus', and    *)
(* leaves the others at rest: what one does never depends on the others.   *)
(***************************************************************************)
EXTENDS PersistentAuth, PromiseChain, ContactPlan, ContactSafety, PresenceSubscriptions,
        LinkPreviews, ThumbnailPool, MediaDownloads, HistoryIndex, GroupCatalog

CONSTANTS k1, c1, c2, c3, n1, n2, p1, p2, l1, l2, w1, w2, x1, x2, x3, e1, e2

VARIABLE focus  \* the service that is followed

Focus == {"auth", "chain", "plan", "contact", "presence", "preview", "pool", "media",
          "history", "catalog"}

OneKey == {k1}
Three == {c1, c2, c3}
FourJobs == {c1, c2, c3, p1}
TwoNames == {n1, n2}
TwoPhones == {p1, p2}
TwoLids == {l1, l2}
TwoWrites == {w1, w2}
TwoContacts == {p1, l1}
ThreeLinks == {x1, x2, x3}
OneConnection == {n1}
TwoRuns == {e1, e2}
OfOne == [e \in TwoRuns |-> n1]
TwoSpaces == {1, 2}
OneQuery == {n1}
ListsAll == [q \in OneQuery |-> TwoSpaces]

\* Two links of one connection and one of another.
Of(l) == IF l = x3 THEN n2 ELSE n1
Links(a, b, c) == [p \in Three |-> CASE p = c1 -> a [] p = c2 -> b [] p = c3 -> c]
\* All that three previews may ask for, up to the names of previews, links and connections.
SomeLinks == {Links(x1, x1, x1), Links(x1, x1, x2), Links(x1, x1, x3), Links(x1, x2, x3)}

\* Calls, storage failures before and after the effect, crashes and removals.
Counts(call, fail, lost, crash, remove) ==
  [k \in Bounded |-> CASE k = "call" -> call [] k = "fail" -> fail [] k = "lost" -> lost
                       [] k = "crash" -> crash [] k = "remove" -> remove]
\* Storage that fails, answers late, or goes down with the process; removals.
Storage == {Counts(3, 1, 0, 1, 0), Counts(2, 1, 1, 1, 0), Counts(3, 1, 0, 0, 1),
            Counts(2, 2, 1, 0, 1)}

\* Runs of history enqueued, requests, closures and restarts.
Happen(event, sending, closure, again) ==
  [k \in HappensFew |-> CASE k = "event" -> event [] k = "request" -> sending
                          [] k = "closure" -> closure [] OTHER -> again]
\* One run that is delivered, or buried and replayed, around a closure, or found by
\* another process; two runs around one scan.
FewHappenings == {Happen(1, 1, 1, 0), Happen(1, 0, 1, 1), Happen(2, 0, 0, 0)}

serviceVars == <<vars, chainVars, planVars, contactVars, presenceVars, previewVars, poolVars,
                 mediaVars, historyVars, catalogVars>>

\* A service that is not followed starts in one state.
Elsewhere(service, start) == focus = service \/ start

ServicesInit ==
  /\ focus \in Focus
  /\ Init /\ Elsewhere("auth", ~folder)
  /\ ChainInit /\ Elsewhere("chain", \A c \in Caller : about[c] = n1)
  /\ PlanInit /\ Elsewhere("plan", wanted = p1 /\ ~requireLid)
  /\ ContactInit /\ Elsewhere("contact", mode = "off" /\ ~installed /\ ~patched)
  /\ PreviewInit /\ link \in SomeLinks /\ Elsewhere("preview", \A p \in Preview : link[p] = x1)
  /\ PresenceInit /\ PoolInit /\ MediaInit /\ HistoryInit /\ CatalogInit

\* Calls that are alike are made in one order: which comes first is only a name.
InOrder(calls, begun) == \A i \in 2 .. Len(calls) : calls[i] \in begun => calls[i - 1] \in begun

AuthStep ==
  /\ focus = "auth" /\ Next
  /\ UNCHANGED <<chainVars, planVars, contactVars, presenceVars, previewVars, poolVars, mediaVars,
                 historyVars, catalogVars>>
ChainStep ==
  /\ focus = "chain" /\ ChainNext
  /\ UNCHANGED <<vars, planVars, contactVars, presenceVars, previewVars, poolVars, mediaVars,
                 historyVars, catalogVars>>
PlanStep ==
  /\ focus = "plan" /\ PlanNext
  /\ UNCHANGED <<vars, chainVars, contactVars, presenceVars, previewVars, poolVars, mediaVars,
                 historyVars, catalogVars>>
ContactStep ==
  /\ focus = "contact" /\ ContactNext
  /\ UNCHANGED <<vars, chainVars, planVars, presenceVars, previewVars, poolVars, mediaVars,
                 historyVars, catalogVars>>
PresenceStep ==
  /\ focus = "presence" /\ PresenceNext
  /\ InOrder(<<c1, c2, c3>>, {p \in Three : poll[p].pc # "none"})'
  /\ UNCHANGED <<vars, chainVars, planVars, contactVars, previewVars, poolVars, mediaVars,
                 historyVars, catalogVars>>
PreviewStep ==
  /\ focus = "preview" /\ PreviewNext
  /\ UNCHANGED <<vars, chainVars, planVars, contactVars, presenceVars, poolVars, mediaVars,
                 historyVars, catalogVars>>
PoolStep ==
  /\ focus = "pool" /\ PoolNext
  /\ InOrder(<<c1, c2, c3, p1>>, {j \in FourJobs : settled[j] # "new"})'
  /\ UNCHANGED <<vars, chainVars, planVars, contactVars, presenceVars, previewVars, mediaVars,
                 historyVars, catalogVars>>
MediaStepping ==
  /\ focus = "media" /\ MediaNext
  /\ InOrder(<<c1, c2, c3>>, {d \in Three : stage[d] # "none"})'
  /\ UNCHANGED <<vars, chainVars, planVars, contactVars, presenceVars, previewVars, poolVars,
                 historyVars, catalogVars>>
HistoryStep ==
  /\ focus = "history" /\ HistoryNext
  /\ InOrder(<<e1, e2>>, {e \in TwoRuns : writer[e] # "new"})'
  /\ UNCHANGED <<vars, chainVars, planVars, contactVars, presenceVars, previewVars, poolVars,
                 mediaVars, catalogVars>>
CatalogStep ==
  /\ focus = "catalog" /\ CatalogNext
  /\ InOrder(<<w1, w2>>, {c \in TwoWrites : asked[c] # NotAsked})'
  /\ UNCHANGED <<vars, chainVars, planVars, contactVars, presenceVars, previewVars, poolVars,
                 mediaVars, historyVars>>

ServicesNext ==
  /\ \/ AuthStep \/ ChainStep \/ PlanStep \/ ContactStep
     \/ PresenceStep \/ PreviewStep \/ PoolStep \/ MediaStepping \/ HistoryStep
     \/ CatalogStep
  /\ UNCHANGED focus

\* Nothing that fairness asks for is enabled in a service that is not followed.
ServicesSpec ==
  /\ ServicesInit /\ [][ServicesNext]_<<focus, serviceVars>>
  /\ Fairness /\ ChainFairness /\ ContactFairness /\ PresenceFairness
  /\ PreviewFairness /\ PoolFairness /\ MediaFairness

\* In every service what was asked for ends, and what failed is made up for.
ServicesLive ==
  /\ Recovers /\ EveryCallRuns /\ GateFreed /\ PollsAnswered /\ PreviewsEnd /\ ThumbnailsEnd
  /\ MediaEnds
=============================================================================
