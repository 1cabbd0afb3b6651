---------------------------- MODULE ServiceProofs ----------------------------
(***************************************************************************)
(* Theorems about services of an instance that share no state: for any     *)
(* calls, contacts, answers and limits.                                    *)
(***************************************************************************)
EXTENDS PromiseChain, ContactPlan, ContactSafety, PresenceSubscriptions, GroupCatalog,
        FiniteSetTheorems, SequenceTheorems, WellFoundedInduction, TLAPS

-----------------------------------------------------------------------------
(* The chain of promises is a first-come first-served lock, for any calls.   *)

Before(c, d) == about[c] = about[d] /\ 0 < ticket[c] /\ ticket[c] < ticket[d]
AllBeforeSettled(c) == \A d \in Caller : Before(d, c) => Settled(d)

\* Numbers tell the calls that were made, and tell them apart.
Numbered ==
  /\ \A c \in Caller : ticket[c] > 0 <=> promise[c] # "none"
  /\ \A c, d \in Caller : ticket[c] = ticket[d] /\ ticket[c] > 0 => c = d

\* The map holds the last call; without an entry every call has settled.
LastIsLast == \A n \in Name :
  /\ last[n] # NoCall =>
       /\ promise[last[n]] # "none"
       /\ \A d \in Caller : about[d] = n => ticket[d] <= ticket[last[n]]
  /\ last[n] = NoCall =>
       \A d \in Caller : about[d] = n => promise[d] = "none" \/ Settled(d)

\* A call is chained on the call just before it, or comes after settled ones.
OnPredecessor == \A c \in Caller : promise[c] # "none" =>
  /\ prior[c] # NoCall =>
       /\ Before(prior[c], c)
       /\ \A d \in Caller : Before(d, c) => ticket[d] <= ticket[prior[c]]
  /\ prior[c] = NoCall => AllBeforeSettled(c)

\* What has begun to run came after settled calls only.
InTurn == \A c \in Caller : promise[c] \notin {"none", "chained"} => AllBeforeSettled(c)

ChainInv == ChainTypeOK /\ Numbered /\ LastIsLast /\ OnPredecessor /\ InTurn

LEMMA InvInit == ChainInit => ChainInv
BY CallerAssumption DEF ChainInit, ChainInv, ChainTypeOK, Numbered, LastIsLast, OnPredecessor, InTurn

LEMMA ChainKeepsInv == ASSUME ChainInv, NEW c \in Caller, Chain(c) PROVE ChainInv'
<1> USE DEF ChainInv
<1> DEFINE n == about[c]
<1>0. n \in Name /\ made \in Nat /\ ticket \in [Caller -> 0 .. made]
  BY DEF ChainTypeOK
<1>1. ChainTypeOK'
  BY <1>0, CallerAssumption DEF Chain, Slot, ChainTypeOK
<1>2. /\ ticket'[c] = made + 1 /\ promise'[c] = "chained" /\ promise[c] = "none"
      /\ prior'[c] = last[n] /\ last'[n] = c /\ about' = about /\ ticket[c] = 0
      /\ \A d \in Caller : d # c =>
           ticket'[d] = ticket[d] /\ promise'[d] = promise[d] /\ prior'[d] = prior[d]
      /\ \A m \in Name : m # n => last'[m] = last[m]
  BY <1>0 DEF Chain, Slot, ChainTypeOK, Numbered
<1>3. \A d \in Caller : ticket[d] \in Nat /\ ticket[d] < made + 1
  BY <1>0
<1>4. Numbered'
  BY <1>0, <1>2, <1>3 DEF Numbered
<1>5. \A d \in Caller : d # c => (Settled(d))' = Settled(d)
  BY <1>2 DEF Settled
<1>6. \A d, e \in Caller : e # c => Before(d, e)' <=> Before(d, e)
  BY <1>0, <1>2, <1>3 DEF Before
<1>7. LastIsLast'
  <2> SUFFICES ASSUME NEW m \in Name PROVE
        /\ last'[m] # NoCall =>
             /\ promise'[last'[m]] # "none"
             /\ \A d \in Caller : about'[d] = m => ticket'[d] <= ticket'[last'[m]]
        /\ last'[m] = NoCall =>
             \A d \in Caller : about'[d] = m => promise'[d] = "none" \/ Settled(d)'
    BY DEF LastIsLast
  <2>1. CASE m = n
    BY <2>1, <1>2, <1>3, <1>0, CallerAssumption
  <2>2. CASE m # n
    <3>1. last'[m] = last[m] /\ (last[m] # NoCall => last[m] \in Caller /\ last[m] # c
                              /\ about[last[m]] = m)
      BY <2>2, <1>2 DEF ChainTypeOK, LastIsLast
    <3>2. \A d \in Caller : about[d] = m => d # c
      BY <2>2
    <3> QED
      BY <3>1, <3>2, <1>2, <1>5 DEF LastIsLast
  <2> QED
    BY <2>1, <2>2
<1>8. OnPredecessor'
  <2> SUFFICES ASSUME NEW e \in Caller, promise'[e] # "none" PROVE
        /\ prior'[e] # NoCall =>
             /\ Before(prior[e], e)'
             /\ \A d \in Caller : Before(d, e)' => ticket'[d] <= (ticket[prior[e]])'
        /\ prior'[e] = NoCall => AllBeforeSettled(e)'
    BY DEF OnPredecessor
  <2>1. CASE e = c
    <3>1. prior'[c] # NoCall => last[n] \in Caller /\ last[n] # c /\ ticket[last[n]] > 0
      BY <1>0, <1>2 DEF ChainTypeOK, LastIsLast, Numbered
    <3>2. \A d \in Caller : Before(d, c)' => d # c /\ about[d] = n /\ promise[d] # "none"
      BY <1>0, <1>2, <1>3 DEF Before, Numbered
    <3>3. prior'[c] # NoCall => Before(prior[c], c)'
      BY <1>0, <1>2, <1>3, <3>1 DEF Before, LastIsLast, ChainTypeOK
    <3>4. prior'[c] # NoCall =>
            \A d \in Caller : Before(d, c)' => ticket'[d] <= (ticket[prior[c]])'
      BY <1>2, <3>1, <3>2, <1>0 DEF LastIsLast
    <3>5. prior'[c] = NoCall => AllBeforeSettled(c)'
      BY <1>2, <1>5, <3>2, <1>0 DEF LastIsLast, AllBeforeSettled
    <3> QED
      BY <2>1, <3>3, <3>4, <3>5
  <2>2. CASE e # c
    <3>1. promise[e] # "none" /\ prior'[e] = prior[e]
      BY <2>2, <1>2
    <3>2. prior[e] # NoCall => prior[e] \in Caller /\ prior[e] # c
      BY <3>1, <1>2 DEF OnPredecessor, ChainTypeOK, Before
    <3>3. \A d \in Caller : Before(d, e) => d # c
      BY <1>2 DEF Before
    <3> QED
      BY <2>2, <3>1, <3>2, <3>3, <1>2, <1>5, <1>6 DEF OnPredecessor, AllBeforeSettled
  <2> QED
    BY <2>1, <2>2
<1>9. InTurn'
  <2>1. \A d \in Caller : ~Before(c, d)
    BY <1>2 DEF Before
  <2> QED
    BY <2>1, <1>2, <1>5, <1>6 DEF InTurn, AllBeforeSettled
<1> QED
  BY <1>1, <1>4, <1>7, <1>8, <1>9

\* A step that gives no number leaves the order alone, and settles calls for good.
LEMMA OrderKept ==
  ASSUME ChainInv, NEW c \in Caller, Run(c) \/ Settle(c) \/ Return(c)
  PROVE  /\ \A d, e \in Caller : Before(d, e)' <=> Before(d, e)
         /\ \A d \in Caller : (promise'[d] = "none" <=> promise[d] = "none")
         /\ \A d \in Caller : Settled(d) => Settled(d)'
         /\ UNCHANGED <<about, prior, made, ticket>>
<1>1. UNCHANGED <<about, prior, made, ticket>>
  BY DEF Run, Settle, Return
<1>2. \A d \in Caller : (promise'[d] = "none" <=> promise[d] = "none") /\ (Settled(d) => Settled(d)')
  BY DEF Run, Settle, Return, ChainInv, ChainTypeOK, Settled
<1> QED
  BY <1>1, <1>2 DEF Before

LEMMA StepKeepsType ==
  ASSUME ChainTypeOK, NEW c \in Caller, Run(c) \/ Settle(c) \/ Return(c)
  PROVE  ChainTypeOK'
BY DEF ChainTypeOK, Run, Settle, Return, DropsOwn, Slot

LEMMA StepKeepsInv ==
  ASSUME ChainInv, NEW c \in Caller, Run(c) \/ Settle(c) \/ Return(c)
  PROVE  ChainInv'
<1> USE DEF ChainInv
<1>1. ChainTypeOK'
  BY StepKeepsType
<1>2. Numbered'
  BY OrderKept DEF Numbered
<1>3. OnPredecessor'
  BY OrderKept DEF OnPredecessor, AllBeforeSettled, ChainTypeOK
<1>4. InTurn'
  <2> SUFFICES ASSUME NEW e \in Caller, promise'[e] \notin {"none", "chained"}
               PROVE  AllBeforeSettled(e)
    BY OrderKept DEF InTurn, AllBeforeSettled
  <2>1. CASE promise[e] \notin {"none", "chained"}
    BY <2>1 DEF InTurn
  <2>2. CASE promise[e] \in {"none", "chained"}
    <3>1. e = c /\ promise[e] = "chained" /\ MayRun(e)
      BY <2>2 DEF Run, Settle, Return, ChainTypeOK
    <3>2. CASE prior[e] = NoCall
      BY <3>1, <3>2 DEF OnPredecessor
    <3>3. CASE prior[e] # NoCall
      <4>1. /\ prior[e] \in Caller /\ Settled(prior[e]) /\ Before(prior[e], e)
            /\ AllBeforeSettled(prior[e])
        BY <3>1, <3>3 DEF MayRun, OnPredecessor, ChainTypeOK, InTurn, Settled
      <4>2. \A d \in Caller : Before(d, e) => d = prior[e] \/ Before(d, prior[e])
        BY <3>1, <3>3, <4>1 DEF OnPredecessor, Before, Numbered, ChainTypeOK
      <4> QED
        BY <4>1, <4>2 DEF AllBeforeSettled
    <3> QED
      BY <3>2, <3>3
  <2> QED
    BY <2>1, <2>2
<1>5. LastIsLast'
  <2>1. CASE last' = last
    BY <2>1, OrderKept DEF LastIsLast, ChainTypeOK
  <2>2. CASE last' # last
    <3>1. Settled(c) /\ last[about[c]] = c /\ promise' = promise
          /\ last' = [last EXCEPT ![about[c]] = NoCall]
      BY <2>2 DEF Run, Settle, Return, DropsOwn, Slot
    <3>2. AllBeforeSettled(c)
      BY <3>1 DEF InTurn, Settled
    <3>3. \A d \in Caller : about[d] = about[c] => promise[d] = "none" \/ Settled(d)
      <4> SUFFICES ASSUME NEW d \in Caller, about[d] = about[c], promise[d] # "none"
                   PROVE  Settled(d)
        OBVIOUS
      <4>1. ticket[d] > 0 /\ ticket[d] <= ticket[c]
        BY <3>1, CallerAssumption DEF LastIsLast, Numbered, ChainTypeOK
      <4>2. d = c \/ Before(d, c)
        BY <4>1 DEF Before, Numbered, ChainTypeOK
      <4> QED
        BY <4>2, <3>1, <3>2 DEF AllBeforeSettled
    <3> QED
      BY <3>1, <3>3, OrderKept DEF LastIsLast, ChainTypeOK, Settled
  <2> QED
    BY <2>1, <2>2
<1> QED
  BY <1>1, <1>2, <1>3, <1>4, <1>5

LEMMA StutterKeepsInv == ASSUME ChainInv, UNCHANGED chainVars PROVE ChainInv'
BY DEF chainVars, ChainInv, ChainTypeOK, Numbered, LastIsLast, OnPredecessor, InTurn, AllBeforeSettled,
       Before, Settled

THEOREM ChainInvariant == ChainSpec => []ChainInv
<1>1. ChainInv /\ [ChainNext]_chainVars => ChainInv'
  BY ChainKeepsInv, StepKeepsInv, StutterKeepsInv DEF ChainNext
<1> QED
  BY InvInit, <1>1, PTL DEF ChainSpec

\* Every variable keeps its type, and a name's entry is a call of that name.
THEOREM ChainTyped == ChainSpec => []ChainTypeOK
<1>1. ChainInv => ChainTypeOK
  BY DEF ChainInv
<1> QED
  BY <1>1, ChainInvariant, PTL

\* A call that has returned had settled, and the map does not hold it.
Returned == NoEntryLeft /\ \A c \in gone : Settled(c)

\* The maps of `exclusive' and `serialized' do not grow: what a call put there, it or a
\* later call removes.
THEOREM EntriesRemoved == ChainSpec => []NoEntryLeft
<1>1. ChainInit => Returned
  BY DEF ChainInit, Returned, NoEntryLeft
<1>2. ASSUME ChainTypeOK, Returned, [ChainNext]_chainVars PROVE Returned'
  <2> USE <1>2
  <2>1. CASE UNCHANGED chainVars
    BY <2>1 DEF chainVars, Returned, NoEntryLeft, Settled
  <2>2. ASSUME NEW c \in Caller, Chain(c) PROVE Returned'
    <3>1. c \notin gone
      BY <2>2 DEF Chain, Returned, Settled
    <3> QED
      BY <2>2, <3>1 DEF Chain, Slot, Returned, NoEntryLeft, Settled, ChainTypeOK
  <2>3. ASSUME NEW c \in Caller, Run(c) \/ Settle(c) PROVE Returned'
    BY <2>3 DEF Run, Settle, Returned, NoEntryLeft, Settled, ChainTypeOK
  <2>4. ASSUME NEW c \in Caller, Return(c) PROVE Returned'
    <3>1. \A n \in Name : last[n] = c => n = Slot(c)
      BY <2>4, CallerAssumption DEF ChainTypeOK, Slot
    <3>2. \A n \in Name : last'[n] # NoCall => last'[n] = last[n] /\ last[n] # c
      BY <2>4, <3>1 DEF Return, DropsOwn, Slot, ChainTypeOK
    <3> QED
      BY <2>4, <3>2 DEF Return, Returned, NoEntryLeft, Settled
  <2> QED
    BY <1>2, <2>1, <2>2, <2>3, <2>4 DEF ChainNext
<1>3. Returned => NoEntryLeft
  BY DEF Returned
<1> QED
  BY <1>1, <1>2, <1>3, ChainTyped, PTL DEF ChainSpec

\* `exclusive' and `serialized' never let two calls of one name run together.
THEOREM MutualExclusion == ChainSpec => []OneRuns
<1>1. ChainInv => OneRuns
  <2> SUFFICES ASSUME ChainInv, NEW c \in Caller, NEW d \in Caller, c # d,
                      promise[c] = "running", promise[d] = "running", about[c] = about[d]
               PROVE  FALSE
    BY DEF OneRuns
  <2>1. Before(c, d) \/ Before(d, c)
    BY DEF ChainInv, Numbered, ChainTypeOK, Before
  <2>2. ~Settled(c) /\ ~Settled(d)
    BY DEF Settled
  <2> QED
    BY <2>1, <2>2 DEF ChainInv, InTurn, AllBeforeSettled
<1> QED
  BY <1>1, ChainInvariant, PTL

\* The chain implements the lock: every step is a step of the lock or none.
THEOREM ChainImplementsLock == ChainSpec => ServesInOrder
<1>1. ChainInit => Lock!LockInit
  BY DEF ChainInit, Lock!LockInit, Phase
<1>2. ASSUME ChainInv, [ChainNext]_chainVars PROVE [Lock!LockNext]_Lock!lockVars
  <2> USE <1>2
  <2>0. promise \in [Caller -> {"none", "chained", "running", "resolved", "rejected"}]
    BY DEF ChainInv, ChainTypeOK
  <2>1. CASE UNCHANGED chainVars
    BY <2>1 DEF chainVars, Lock!lockVars, Phase
  <2>2. ASSUME NEW c \in Caller, Chain(c) PROVE Lock!Ask(c)
    BY <2>0, <2>2 DEF Chain, Slot, Lock!Ask, Phase, ChainInv, ChainTypeOK
  <2>3. ASSUME NEW c \in Caller, Run(c) PROVE Lock!Enter(c)
    <3>1. ChainInv'
      BY <2>3, StepKeepsInv
    <3>2. AllBeforeSettled(c)
      <4>1. AllBeforeSettled(c)'
        BY <2>0, <2>3, <3>1 DEF ChainInv, InTurn, Run
      <4>2. \A d \in Caller : Before(d, c)' <=> Before(d, c)
        BY <2>3, OrderKept
      <4>3. \A d \in Caller : Settled(d)' => Settled(d)
        BY <2>0, <2>3 DEF Run, Settled
      <4> QED
        BY <4>1, <4>2, <4>3 DEF AllBeforeSettled
    <3>3. \A d \in Caller : Lock!Earlier(d, c) => Phase[d] = "done"
      BY <3>2 DEF Lock!Earlier, AllBeforeSettled, Before, Phase, Settled
    <3> QED
      BY <2>0, <2>3, <3>3 DEF Run, Lock!Enter, Phase
  <2>4. ASSUME NEW c \in Caller, Settle(c) PROVE Lock!Exit(c)
    <3>1. Phase' = [Phase EXCEPT ![c] = "done"]
      BY <2>0, <2>4 DEF Settle, Phase
    <3> QED
      BY <2>4, <3>1 DEF Settle, Lock!Exit, Phase
  <2>5. ASSUME NEW c \in Caller, Return(c) PROVE UNCHANGED Lock!lockVars
    BY <2>5 DEF Return, Lock!lockVars, Phase
  <2> QED
    BY <1>2, <2>1, <2>2, <2>3, <2>4, <2>5 DEF ChainNext, Lock!LockNext
<1> QED
  BY <1>1, <1>2, ChainInvariant, PTL DEF ChainSpec, ServesInOrder, Lock!LockSpec

-----------------------------------------------------------------------------
(* What is written about a contact names one person, whatever was said.      *)

\* What has been said so far, question by question, names one person.
PlanInv ==
  /\ wanted \in candidates /\ candidates \subseteq heard /\ heard \subseteq Phone \union Lid
  /\ IsFiniteSet(candidates)
  /\ question \in {"contact", "phoneOfLid"} => heard = candidates
  /\ question = "lidOfPhone" =>
       heard \intersect Phone = {phone} /\ heard \intersect Lid = Lids
  /\ question \in {"reverse", "planned"} =>
       /\ heard \intersect Phone = {phone}
       /\ heard \intersect Lid = Named(lid)
       /\ requireLid => lid # NoJid
  /\ question \in {"contact", "phoneOfLid", "lidOfPhone", "reverse", "planned", "refused"}

LEMMA OnePhone ==
  ASSUME NEW S, NEW x \in S, IsFiniteSet(S), ~(Cardinality(S) > 1)
  PROVE  S = {x}
<1>1. {x} \in SUBSET S /\ Cardinality({x}) = 1 /\ Cardinality(S) \in Nat
  BY FS_Singleton, FS_CardinalityType
<1> QED  BY <1>1, FS_Subset

LEMMA LookedUpKeeps == ASSUME PlanInv, LookedUp PROVE PlanInv'
<1>1. PICK known \in SUBSET (Phone \union Lid) :
        /\ IsFiniteSet(known)
        /\ candidates' = candidates \union known /\ heard' = heard \union known
  BY DEF LookedUp
<1>2. /\ question = "contact" /\ heard = candidates /\ wanted' = wanted
      /\ wanted \in Phone \union Lid
  BY DEF LookedUp, PlanInv
<1>3. IsFiniteSet(candidates') /\ IsFiniteSet(Phones')
  <2>1. IsFiniteSet(candidates')
    BY <1>1, FS_Union DEF PlanInv
  <2> QED  BY <2>1, FS_Subset DEF Phones
<1>4. question' = "lidOfPhone" => /\ wanted \in Phone /\ phone' = wanted
                                  /\ ~(Cardinality(Phones') > 1)
  BY <1>2 DEF LookedUp
<1>5. question' = "lidOfPhone" => Phones' = {wanted}
  <2>1. wanted \in candidates'
    BY <1>1 DEF PlanInv
  <2>2. wanted \in Phone => wanted \in Phones'
    BY <2>1 DEF Phones
  <2> QED  BY <1>3, <1>4, <2>2, OnePhone
<1>6. question' \in {"refused", "phoneOfLid", "lidOfPhone"}
  BY DEF LookedUp
<1> QED  BY <1>1, <1>2, <1>3, <1>4, <1>5, <1>6 DEF PlanInv, Phones, Lids

LEMMA PhoneOfLidKeeps == ASSUME PlanInv, PhoneOfLid PROVE PlanInv'
<1>1. PICK a \in Phone \union {NoJid} :
        /\ phone' = IF a = NoJid /\ Phones # {} THEN CHOOSE p \in Phones : TRUE ELSE a
        /\ heard' = heard \union Named(a)
        /\ question' = IF AgreesWithStored(phone') THEN "lidOfPhone" ELSE "refused"
  BY DEF PhoneOfLid
<1>2. /\ question = "phoneOfLid" /\ heard = candidates
      /\ UNCHANGED <<wanted, requireLid, candidates, lid>>
  BY DEF PhoneOfLid, PlanInv
<1>3. question' = "lidOfPhone" => phone' # NoJid /\ Phones \subseteq {phone'}
  BY <1>1 DEF AgreesWithStored
<1>4. question' = "lidOfPhone" => heard' \intersect Phone = {phone'}
  <2>1. CASE a = NoJid
    <3>1. question' = "lidOfPhone" => phone' \in Phones
      BY <1>1, <1>3, <2>1
    <3> QED  BY <1>1, <1>2, <1>3, <2>1, <3>1 DEF Named, Phones
  <2>2. CASE a # NoJid
    BY <1>1, <1>2, <1>3, <2>2 DEF Named, Phones
  <2> QED  BY <2>1, <2>2
<1>5. heard' \intersect Lid = Lids' /\ candidates' \subseteq heard'
  BY <1>1, <1>2, JidAssumption DEF Named, Lids
<1> QED  BY <1>1, <1>2, <1>4, <1>5 DEF PlanInv, Named

LEMMA LidOfPhoneKeeps == ASSUME PlanInv, LidOfPhone PROVE PlanInv'
<1>1. PICK a \in Lid \union {NoJid} :
        /\ lid' = a /\ heard' = heard \union Named(a)
        /\ question' = IF ~LidConfirmed(a) THEN "refused"
                       ELSE IF a = NoJid THEN "planned" ELSE "reverse"
  BY DEF LidOfPhone
<1>2. /\ heard \intersect Phone = {phone} /\ heard \intersect Lid = Lids
      /\ UNCHANGED <<wanted, requireLid, candidates, phone>>
  BY DEF LidOfPhone, PlanInv
<1>3. heard' \intersect Phone = {phone'}
  BY <1>1, <1>2, JidAssumption DEF Named
<1>4. question' \in {"reverse", "planned"} =>
        heard' \intersect Lid = Named(lid') /\ (requireLid => lid' # NoJid)
  BY <1>1, <1>2, JidAssumption DEF Named, LidConfirmed
<1> QED  BY <1>1, <1>2, <1>3, <1>4 DEF PlanInv, Named

LEMMA ReverseKeeps == ASSUME PlanInv, ReverseLookup PROVE PlanInv'
<1>1. PICK a \in Phone \union {NoJid} :
        /\ heard' = heard \union Named(a)
        /\ question' = IF a \in {phone, NoJid} THEN "planned" ELSE "refused"
  BY DEF ReverseLookup
<1>2. /\ question = "reverse" /\ UNCHANGED <<wanted, requireLid, candidates, phone, lid>>
  BY DEF ReverseLookup
<1>3. question' = "planned" => heard' = heard
  BY <1>1, <1>2, JidAssumption DEF PlanInv, Named
<1> QED  BY <1>1, <1>2, <1>3 DEF PlanInv, Named

(* A contact is written only if everything that the request, the stored        *)
(* contact and the provider said names one phone and at most one LID, and      *)
(* those are the ones written - for any JIDs, answers and number of them.      *)
THEOREM PlansOnePerson == PlanSpec => []OnePersonPlanned
<1>1. PlanInit => PlanInv
  <2>1. \A x : IsFiniteSet({x})
    BY FS_Singleton
  <2> QED  BY <2>1 DEF PlanInit, PlanInv
<1>2. PlanInv /\ [PlanNext]_planVars => PlanInv'
  <2> SUFFICES ASSUME PlanInv, [PlanNext]_planVars PROVE PlanInv'
    OBVIOUS
  <2>1. CASE QuestionFails
    BY <2>1 DEF QuestionFails, PlanInv
  <2>2. CASE UNCHANGED planVars
    BY <2>2 DEF planVars, PlanInv, Lids, Named
  <2> QED
    BY <2>1, <2>2, LookedUpKeeps, PhoneOfLidKeeps, LidOfPhoneKeeps, ReverseKeeps DEF PlanNext
<1>3. PlanInv => OnePersonPlanned
  BY DEF PlanInv, OnePersonPlanned
<1> QED  BY <1>1, <1>2, <1>3, PTL DEF PlanSpec

-----------------------------------------------------------------------------
(* What a call is told about its request is true, and no request follows one *)
(* whose outcome is unknown.                                                 *)

\* A request was sent by a call that waits for its answer, has it, or is over; an
\* answer that has come is an acknowledgement; the calls that are over were answered.
SentInOrder == \A c \in ContactCall :
  /\ c \in sent => step[c] \in {"query", "commit", "over"}
  /\ step[c] = "query" => c \in sent
  /\ step[c] = "commit" => c \in confirmed
  /\ answer[c] # "none" <=> step[c] = "over"

\* A call under way began in a gate without doubt, and a gate without doubt knows that
\* every request of a call that is over was acknowledged.
DoubtKept ==
  /\ busy => ~uncertain
  /\ ~uncertain => \A d \in ContactCall : d \in sent /\ step[d] = "over" => answer[d] = "ok"

GateInv == ContactTypeOK /\ TruthfulAnswers /\ SentInOrder /\ DoubtKept

\* Only `commit' looks at what the server confirmed, only the last stages at what was sent.
Unsent == Preflight \union {"resync", "encode", "send"} \union Guards \union Reading

LEMMA Stages ==
  /\ Under = Unsent \union {"query", "commit"}
  /\ "over" \notin Under /\ "none" \notin Under
  /\ Preflight \intersect Providing = {}
BY DEF Under, Unsent, Preflight, Providing, Guards, Reading

\* The call leaves the gate with an answer.
LEMMA Leaves ==
  ASSUME GateInv, NEW c \in ContactCall, step[c] \in Under,
         NEW reply \in {"ok", "refused", "failed", "uncertain"},
         step' = [step EXCEPT ![c] = "over"], answer' = [answer EXCEPT ![c] = reply],
         prepared' = NoContact, busy' = FALSE, uncertain' \in BOOLEAN,
         uncertain => uncertain',
         ~uncertain' /\ c \in sent => reply = "ok",
         reply \in {"refused", "failed"} => c \notin sent,
         reply = "ok" => c \in confirmed,
         UNCHANGED <<setting, socket, visited, writeKey, sent, confirmed>>
  PROVE  GateInv'
<1> USE DEF GateInv, setting, socket
<1>1. ContactTypeOK'
  <2>1. \A d \in ContactCall : step'[d] \notin Under
    BY Stages DEF ContactTypeOK
  <2>2. \A d \in ContactCall : step'[d] \notin Providing
    BY <2>1 DEF Under
  <2>3. NoContact \notin ContactCall
    BY ContactAssumption
  <2> QED  BY <2>1, <2>2, <2>3 DEF ContactTypeOK
<1>2. TruthfulAnswers'
  BY DEF TruthfulAnswers, ContactTypeOK
<1>3. SentInOrder'
  BY DEF SentInOrder, ContactTypeOK
<1>4. DoubtKept'
  BY DEF DoubtKept, ContactTypeOK
<1> QED  BY <1>1, <1>2, <1>3, <1>4

\* The call goes on, before or inside the provider, without a request or an answer.
LEMMA GoesOn ==
  ASSUME GateInv, NEW c \in ContactCall, NEW to \in Under,
         step[c] \in Unsent, to \in Unsent, to \in Preflight <=> step[c] \in Preflight,
         step' = [step EXCEPT ![c] = to], visited' \subseteq {"encode", "send"},
         UNCHANGED <<setting, socket, uncertain, busy, prepared, writeKey, answer, sent, confirmed>>
  PROVE  GateInv'
<1> USE DEF GateInv, setting, socket
<1>0. step[c] \in Under /\ to \notin {"over", "query", "commit"} /\ step[c] # "over"
  BY DEF Unsent, Under, Preflight, Providing, Guards, Reading
<1>1. ContactTypeOK'
  <2>1. \A d \in ContactCall : step'[d] \in Under <=> step[d] \in Under
    BY <1>0 DEF ContactTypeOK
  <2>2. \A d \in ContactCall : step'[d] \in Providing <=> step[d] \in Providing
    BY <1>0, Stages DEF ContactTypeOK, Under
  <2> QED  BY <2>1, <2>2 DEF ContactTypeOK
<1>2. TruthfulAnswers'
  BY DEF TruthfulAnswers
<1>3. SentInOrder'
  <2>1. c \notin sent
    BY DEF SentInOrder, Unsent, Preflight, Guards, Reading
  <2> QED  BY <1>0, <2>1 DEF SentInOrder, ContactTypeOK
<1>4. DoubtKept'
  BY <1>0 DEF DoubtKept, ContactTypeOK
<1> QED  BY <1>1, <1>2, <1>3, <1>4

\* catch and finally: an error that is told as a refusal or a failure is one of a call
\* that has sent nothing.
LEMMA Throws ==
  ASSUME GateInv, NEW c \in ContactCall, step[c] \in Under,
         NEW own \in BOOLEAN, NEW ack \in BOOLEAN, Throw(c, own, ack),
         c \in sent => ~DeniedBeforeSend(own, ack),
         UNCHANGED <<setting, socket, visited, writeKey, sent, confirmed>>
  PROVE  GateInv'
<1> DEFINE reply == IF uncertain' THEN "uncertain" ELSE IF own THEN "refused" ELSE "failed"
<1>1. c \in sent => uncertain'
  <2> SUFFICES ASSUME c \in sent  PROVE uncertain'
    OBVIOUS
  <2>1. step[c] \in Providing
    BY Stages DEF GateInv, SentInOrder, Providing
  <2>2. prepared = c
    BY <2>1 DEF GateInv, ContactTypeOK
  <2> QED  BY <2>2 DEF Throw
<1>2. uncertain' \in BOOLEAN /\ (uncertain => uncertain')
  BY DEF Throw, GateInv, ContactTypeOK, DeniedBeforeSend
<1>3. /\ step' = [step EXCEPT ![c] = "over"] /\ answer' = [answer EXCEPT ![c] = reply]
      /\ prepared' = NoContact /\ busy' = FALSE
  BY DEF Throw, Over, Freed
<1>4. reply \in {"ok", "refused", "failed", "uncertain"} /\ reply # "ok"
  OBVIOUS
<1>5. reply \in {"refused", "failed"} => c \notin sent
  BY <1>1
<1> HIDE DEF reply
<1> QED  BY <1>1, <1>2, <1>3, <1>4, <1>5, Leaves

LEMMA ExecuteStep ==
  ASSUME GateInv, NEW c \in ContactCall, Refused(c) \/ Begin(c) \/ Executing(c)
  PROVE  GateInv'
<1>1. CASE Refused(c)
  <2> USE DEF Refused, GateInv, setting, socket, gate
  <2>1. c \notin sent
    BY <1>1 DEF SentInOrder
  <2>2. ContactTypeOK'
    <3>1. /\ \A d \in ContactCall : step'[d] \in Under <=> step[d] \in Under
          /\ \A d \in ContactCall : step'[d] \in Providing <=> step[d] \in Providing
      BY <1>1, Stages DEF ContactTypeOK, Under
    <3> QED  BY <1>1, <3>1 DEF ContactTypeOK
  <2>3. TruthfulAnswers'
    BY <1>1, <2>1 DEF TruthfulAnswers, ContactTypeOK
  <2>4. SentInOrder'
    BY <1>1, <2>1 DEF SentInOrder, ContactTypeOK
  <2>5. DoubtKept'
    BY <1>1, <2>1 DEF DoubtKept, ContactTypeOK
  <2> QED  BY <2>2, <2>3, <2>4, <2>5
<1>2. CASE Begin(c)
  <2> USE DEF Begin, Taken, Healthy, GateInv, setting, socket
  <2>1. c \notin sent /\ answer[c] = "none"
    BY <1>2 DEF SentInOrder
  <2>2. \A d \in ContactCall : step[d] \notin Under
    BY <1>2 DEF ContactTypeOK
  <2>3. "resolve" \in Under /\ "resolve" \notin Providing
    BY DEF Under, Preflight, Providing, Guards, Reading
  <2>4. ContactTypeOK'
    <3>1. \A d \in ContactCall : step'[d] \in Under <=> d = c
      BY <1>2, <2>2, <2>3 DEF ContactTypeOK
    <3>2. \A d \in ContactCall : step'[d] \in Providing <=> step[d] \in Providing
      BY <1>2, <2>2, <2>3 DEF ContactTypeOK, Under
    <3> QED  BY <1>2, <2>3, <3>1, <3>2 DEF ContactTypeOK
  <2>5. TruthfulAnswers'
    BY <1>2 DEF TruthfulAnswers
  <2>6. SentInOrder'
    BY <1>2, <2>1 DEF SentInOrder, ContactTypeOK
  <2>7. DoubtKept'
    BY <1>2, <2>1 DEF DoubtKept, ContactTypeOK
  <2> QED  BY <2>4, <2>5, <2>6, <2>7
<1>3. CASE Prefly(c)
  <2>1. PICK from \in Preflight, to \in Preflight : PreflightStep(c, from, to)
    BY <1>3 DEF Prefly, Preflight
  <2>2. to \in Under /\ to \in Unsent /\ step[c] \in Unsent /\ step[c] \in Preflight
    BY <2>1 DEF PreflightStep, Under, Unsent
  <2>3. /\ step' = [step EXCEPT ![c] = to] /\ visited' \subseteq {"encode", "send"}
        /\ UNCHANGED <<setting, socket, uncertain, busy, prepared, writeKey, answer, sent, confirmed>>
    BY <2>1 DEF PreflightStep, gate, GateInv, ContactTypeOK
  <2> QED  BY <2>1, <2>2, <2>3, GoesOn
<1>4. CASE Diagnose(c)
  <2>1. step[c] \in Under /\ c \notin sent
    BY <1>4 DEF Diagnose, Under, Preflight, GateInv, SentInOrder
  <2>2. /\ step' = [step EXCEPT ![c] = "over"] /\ answer' = [answer EXCEPT ![c] = "refused"]
        /\ prepared' = NoContact /\ busy' = FALSE /\ uncertain' = uncertain
        /\ UNCHANGED <<setting, socket, visited, writeKey, sent, confirmed>>
    BY <1>4 DEF Diagnose, Over, Freed
  <2>3. uncertain' \in BOOLEAN
    BY <2>2 DEF GateInv, ContactTypeOK
  <2> QED  BY <2>1, <2>2, <2>3, Leaves
<1>5. CASE StartWrite(c)
  <2> USE DEF StartWrite, GateInv, setting, socket
  <2>1. /\ step[c] \in Under /\ "resync" \in Providing /\ "resync" \in Under
        /\ step[c] # "over"
    BY <1>5 DEF Under, Preflight, Providing
  <2>2. c \notin sent
    BY <1>5 DEF SentInOrder
  <2>3. ContactTypeOK'
    <3>1. \A d \in ContactCall : step'[d] \in Under <=> step[d] \in Under
      BY <1>5, <2>1 DEF ContactTypeOK
    <3>2. \A d \in ContactCall : step'[d] \in Providing <=> d = c
      BY <1>5, <2>1 DEF ContactTypeOK, Under
    <3> QED  BY <1>5, <2>1, <3>1, <3>2 DEF ContactTypeOK
  <2>4. TruthfulAnswers'
    BY <1>5 DEF TruthfulAnswers
  <2>5. SentInOrder'
    BY <1>5, <2>1, <2>2 DEF SentInOrder, ContactTypeOK
  <2>6. DoubtKept'
    BY <1>5, <2>1 DEF DoubtKept, ContactTypeOK
  <2> QED  BY <2>3, <2>4, <2>5, <2>6
<1>6. CASE PreflightFails(c)
  <2>1. PICK own \in BOOLEAN : Throw(c, own, FALSE)
    BY <1>6 DEF PreflightFails
  <2>2. step[c] \in Under /\ c \notin sent
    BY <1>6 DEF PreflightFails, Under, Preflight, GateInv, SentInOrder
  <2> QED  BY <1>6, <2>1, <2>2, Throws DEF PreflightFails
<1>7. CASE Acknowledged(c)
  <2>1. step[c] \in Under /\ c \in confirmed
    BY <1>7 DEF Acknowledged, Under, Providing, GateInv, SentInOrder
  <2>2. CASE Over(c, "ok") /\ UNCHANGED uncertain
    <3>1. /\ step' = [step EXCEPT ![c] = "over"] /\ answer' = [answer EXCEPT ![c] = "ok"]
          /\ prepared' = NoContact /\ busy' = FALSE /\ uncertain' = uncertain
          /\ UNCHANGED <<setting, socket, visited, writeKey, sent, confirmed>>
      BY <1>7, <2>2 DEF Acknowledged, Over, Freed
    <3>2. uncertain' \in BOOLEAN
      BY <3>1 DEF GateInv, ContactTypeOK
    <3> QED  BY <2>1, <3>1, <3>2, Leaves
  <2>3. CASE Throw(c, ours, TRUE)
    <3>1. ours \in BOOLEAN /\ ~DeniedBeforeSend(ours, TRUE)
      BY DEF GateInv, ContactTypeOK, DeniedBeforeSend
    <3> QED  BY <1>7, <2>1, <2>3, <3>1, Throws DEF Acknowledged
  <2> QED  BY <1>7, <2>2, <2>3 DEF Acknowledged
<1> QED  BY <1>1, <1>2, <1>3, <1>4, <1>5, <1>6, <1>7 DEF Executing

LEMMA GuardStep ==
  ASSUME GateInv, NEW c \in ContactCall, Guarding(c)
  PROVE  GateInv'
<1>1. CASE GuardAsks(c)
  <2> DEFINE to == IF step[c] = "guardEncode" THEN "readEncode" ELSE "readSend"
  <2>1. /\ to \in Under /\ to \in Unsent /\ step[c] \in Unsent
        /\ to \notin Preflight /\ step[c] \notin Preflight
    BY <1>1 DEF GuardAsks, Under, Unsent, Preflight, Providing, Guards, Reading
  <2>2. /\ step' = [step EXCEPT ![c] = to] /\ visited' \subseteq {"encode", "send"}
        /\ UNCHANGED <<setting, socket, uncertain, busy, prepared, writeKey, answer, sent, confirmed>>
    BY <1>1 DEF GuardAsks, gate, GateInv, ContactTypeOK
  <2> HIDE DEF to
  <2> QED  BY <2>1, <2>2, GoesOn
<1>2. CASE GuardPasses(c)
  <2> DEFINE to == IF step[c] = "readEncode" THEN "encode" ELSE "send"
  <2>1. /\ to \in Under /\ to \in Unsent /\ step[c] \in Unsent
        /\ to \notin Preflight /\ step[c] \notin Preflight
    BY <1>2 DEF GuardPasses, Under, Unsent, Preflight, Providing, Guards, Reading
  <2>2. /\ step' = [step EXCEPT ![c] = to] /\ visited' \subseteq {"encode", "send"}
        /\ UNCHANGED <<setting, socket, uncertain, busy, prepared, writeKey, answer, sent, confirmed>>
    BY <1>2 DEF GuardPasses, GateInv, ContactTypeOK
  <2> HIDE DEF to
  <2> QED  BY <2>1, <2>2, GoesOn
<1>3. CASE GuardDenies(c)
  <2>1. step[c] \in Under /\ c \notin sent
    BY <1>3 DEF GuardDenies, Under, Providing, Guards, Reading, GateInv, SentInOrder
  <2> QED  BY <1>3, <2>1, Throws DEF GuardDenies
<1> QED  BY <1>1, <1>2, <1>3 DEF Guarding

LEMMA ProviderStep ==
  ASSUME GateInv, NEW c \in ContactCall, Patching(c)
  PROVE  GateInv'
<1>1. CASE Resynced(c) \/ Encoded(c)
  <2>1. PICK to \in {"guardEncode", "encode", "guardSend", "send"} :
          step' = [step EXCEPT ![c] = to]
    BY <1>1 DEF Resynced, Encoded
  <2>2. /\ to \in Under /\ to \in Unsent /\ step[c] \in Unsent
        /\ to \notin Preflight /\ step[c] \notin Preflight
    BY <1>1 DEF Resynced, Encoded, Under, Unsent, Preflight, Providing, Guards, Reading
  <2>3. /\ visited' \subseteq {"encode", "send"}
        /\ UNCHANGED <<setting, socket, uncertain, busy, prepared, writeKey, answer, sent, confirmed>>
    BY <1>1 DEF Resynced, Encoded, gate, GateInv, ContactTypeOK
  <2> QED  BY <2>1, <2>2, <2>3, GoesOn
<1>2. CASE Sends(c) \/ ServerAnswers(c)
  <2> USE DEF Sends, ServerAnswers, GateInv, setting, socket, gate
  <2>1. PICK to \in {"query", "commit"} : step' = [step EXCEPT ![c] = to]
    BY <1>2
  <2>2. step[c] \in Under /\ step[c] \in Providing /\ to \in Under /\ to \in Providing
    BY <1>2 DEF Under, Providing
  <2>3. step[c] = "query" => c \in sent
    BY DEF SentInOrder
  <2>4. ContactTypeOK'
    <3>1. /\ \A d \in ContactCall : step'[d] \in Under <=> step[d] \in Under
          /\ \A d \in ContactCall : step'[d] \in Providing <=> step[d] \in Providing
      BY <2>1, <2>2 DEF ContactTypeOK
    <3>2. sent' \subseteq ContactCall /\ confirmed' \subseteq sent'
      BY <1>2, <2>3 DEF ContactTypeOK
    <3> QED  BY <1>2, <2>1, <2>2, <3>1, <3>2 DEF ContactTypeOK
  <2>5. answer[c] = "none"
    BY <1>2 DEF SentInOrder
  <2>6. TruthfulAnswers'
    BY <1>2, <2>5 DEF TruthfulAnswers
  <2>7. SentInOrder'
    BY <1>2, <2>5 DEF SentInOrder, ContactTypeOK
  <2>8. DoubtKept'
    BY <1>2 DEF DoubtKept, ContactTypeOK
  <2> QED  BY <2>4, <2>6, <2>7, <2>8
<1>3. CASE ProviderFails(c)
  <2>1. step[c] \in Under /\ ~DeniedBeforeSend(FALSE, FALSE)
    BY <1>3 DEF ProviderFails, Under, DeniedBeforeSend
  <2> QED  BY <1>3, <2>1, Throws DEF ProviderFails
<1> QED  BY <1>1, <1>2, <1>3 DEF Patching

LEMMA SocketStep ==
  ASSUME GateInv, SetConnected \/ Replaced \/ Observe \/ KeyRotates \/ UNCHANGED contactVars
  PROVE  GateInv'
<1> USE DEF SetConnected, Replaced, Observe, KeyRotates, contactVars, setting, socket, gate, GateInv
<1>1. UNCHANGED <<uncertain, busy, prepared, visited, step, answer, sent, confirmed>>
  OBVIOUS
<1>2. ContactTypeOK'
  BY <1>1 DEF ContactTypeOK
<1>3. TruthfulAnswers' /\ SentInOrder' /\ DoubtKept'
  BY <1>1 DEF TruthfulAnswers, SentInOrder, DoubtKept
<1> QED  BY <1>2, <1>3

\* The gate keeps its order: the invariant the theorems below follow from.
THEOREM GateInvariant == ContactSpec => []GateInv
<1>1. ContactInit => GateInv
  <2> SUFFICES ASSUME ContactInit PROVE GateInv
    OBVIOUS
  <2>1. \A c \in ContactCall : step[c] = "none" /\ answer[c] = "none"
    BY DEF ContactInit
  <2>2. \A c \in ContactCall : step[c] \notin Under /\ step[c] \notin Providing
    BY <2>1, Stages DEF Under
  <2>3. ContactTypeOK
    <3>1. /\ mode \in {"off", "check", "write"}
          /\ {installed, patched, ours, opened, issue, uncertain, busy} \subseteq BOOLEAN
          /\ prepared = NoContact /\ visited = {} /\ {keyId, writeKey} \subseteq {1, 2}
          /\ step \in [ContactCall -> {"none"}] /\ answer \in [ContactCall -> {"none"}]
          /\ sent = {} /\ confirmed = {} /\ busy = FALSE
      BY DEF ContactInit
    <3>2. step \in [ContactCall -> Under \union {"none", "over"}]
      BY <3>1
    <3>3. answer \in [ContactCall ->
             {"none", "blocked", "ok", "refused", "failed", "uncertain"}]
      BY <3>1
    <3>4. \A c \in ContactCall : step[c] \in Providing <=> prepared = c
      BY <2>2, <3>1, ContactAssumption
    <3> QED  BY <2>2, <3>1, <3>2, <3>3, <3>4 DEF ContactTypeOK
  <2>4. TruthfulAnswers
    BY <2>1 DEF ContactInit, TruthfulAnswers
  <2>5. SentInOrder
    BY <2>1, <2>2 DEF ContactInit, SentInOrder, Under, Providing, Preflight, Guards, Reading
  <2>6. DoubtKept
    BY DEF ContactInit, DoubtKept
  <2> QED  BY <2>3, <2>4, <2>5, <2>6 DEF GateInv
<1>2. GateInv /\ [ContactNext]_contactVars => GateInv'
  <2> SUFFICES ASSUME GateInv, [ContactNext]_contactVars  PROVE GateInv'
    OBVIOUS
  <2> QED
    BY ExecuteStep, GuardStep, ProviderStep, SocketStep DEF ContactNext, Progress
<1> QED  BY <1>1, <1>2, PTL DEF ContactSpec

\* The gate is taken exactly while one call is under way (ContactTypeOK), whatever
\* rejects (contact-safety.ts, busy and preparedWrite).
THEOREM GateTyped == ContactSpec => []ContactTypeOK
BY GateInvariant, PTL DEF GateInv

\* What a call is told about its request is true (contact-safety.ts:256-275).
THEOREM AnswersTrue == ContactSpec => []TruthfulAnswers
BY GateInvariant, PTL DEF GateInv

\* No request follows one whose outcome is unknown (contact-safety.ts, outcomeUncertain).
THEOREM SilentAfterDoubt == ContactSpec => NoWriteAfterDoubt
<1>1. GateInv /\ [ContactNext]_contactVars
        => [\A c \in sent' \ sent : \A d \in sent : answer[d] = "ok"]_contactVars
  <2> SUFFICES ASSUME GateInv, ContactNext, NEW c \in sent' \ sent, NEW d \in sent
               PROVE  answer[d] = "ok"
    OBVIOUS
  <2>1. PICK k \in ContactCall : Sends(k)
    BY DEF ContactNext, Progress, Executing, Guarding, Patching, Refused, Begin, Prefly,
           PreflightStep, Diagnose, StartWrite, PreflightFails, Acknowledged, GuardAsks,
           GuardPasses, GuardDenies, Resynced, Encoded, ServerAnswers, ProviderFails,
           SetConnected, Replaced, Observe, KeyRotates
  <2>2. step[k] \in Under /\ busy
    BY <2>1 DEF Sends, Under, Providing, GateInv, ContactTypeOK
  <2>3. k \notin sent
    BY <2>1 DEF Sends, GateInv, SentInOrder
  <2>4. d \in ContactCall /\ d # k
    BY <2>3 DEF GateInv, ContactTypeOK
  <2>5. step[d] = "over"
    BY <2>2, <2>4 DEF GateInv, ContactTypeOK, SentInOrder, Under, Providing
  <2> QED  BY <2>2, <2>4, <2>5 DEF GateInv, DoubtKept
<1> QED  BY <1>1, GateInvariant, PTL DEF ContactSpec, NoWriteAfterDoubt

\* Both, as the invariant GateSafety.
THEOREM GateIsSafe == ContactSpec => []GateSafety
BY GateTyped, AnswersTrue, PTL DEF GateSafety

-----------------------------------------------------------------------------
(* One presence subscription per contact is under way, no more than the table *)
(* holds, and none of them tells of another connection.                      *)

Doing(p) == Unsettled(p) /\ poll[p].epoch = epoch
Underway == {p \in Poll : Doing(p)}

\* A call that has not been made has left nothing; none is of a connection to come.
Untouched == \A p \in Poll :
  /\ poll[p].epoch <= epoch
  /\ poll[p].pc = "none" =>
       /\ work[p] = "none" /\ p \notin pending
       /\ \A x \in Contact : request[x] # p

TableBounded == IsFiniteSet(Requested) /\ Cardinality(Requested) <= MaxRequests

PresenceInv ==
  PresenceTypeOK /\ Untouched /\ OneSubscription /\ TableBounded /\ OnlyThisConnection

PollType == [pc : {"none", "joined", "waiting", "ok", "failed"}, id : Contact,
             epoch : 0 .. MaxEpoch, of : Poll \union {NoPoll}]

LEMMA PresenceInvInit == PresenceInit => PresenceInv
<1> SUFFICES ASSUME PresenceInit PROVE PresenceInv
  OBVIOUS
<1> USE DEF PresenceInit
<1>1. PollStart \in PollType
  BY PresenceAssumption DEF PollStart, PollType
<1>2. Requested = {}
  BY DEF Requested
<1>3. PresenceTypeOK
  <2>1. poll \in [Poll -> PollType]
    BY <1>1
  <2>2. target \in [Contact -> 0 .. MaxEpoch]
    BY PresenceAssumption DEF Absent
  <2> QED  BY <1>2, <2>1, <2>2, PresenceAssumption DEF PresenceTypeOK, PollType
<1>4. Untouched
  BY PresenceAssumption DEF Untouched, PollStart
<1>5. OneSubscription
  BY DEF OneSubscription, Unsettled
<1>6. TableBounded
  BY <1>2, FS_EmptySet, PresenceAssumption DEF TableBounded
<1>7. OnlyThisConnection
  BY DEF OnlyThisConnection, Absent
<1> QED  BY <1>3, <1>4, <1>5, <1>6, <1>7 DEF PresenceInv

\* What telling a call leaves.
LEMMA Told ==
  ASSUME PresenceTypeOK, NEW p \in Poll, NEW ok, Tell(p, ok)
  PROVE  /\ poll' \in [Poll -> PollType]
         /\ \A q \in Poll : poll'[q].id = poll[q].id /\ poll'[q].epoch = poll[q].epoch
         /\ \A q \in Poll : q # p => poll'[q] = poll[q]
         /\ poll'[p].pc # "none"
<1>1. poll \in [Poll -> PollType]
  BY DEF PresenceTypeOK, PollType
<1>2. PICK pc \in {"ok", "failed"} : poll' = [poll EXCEPT ![p].pc = pc]
  BY DEF Tell
<1> QED  BY <1>1, <1>2 DEF PollType

\* What linking a contact leaves.
LEMMA LinkKeeps ==
  ASSUME PresenceInv, NEW x \in Contact, target' \in Linked(target, x, epoch), epoch' = epoch
  PROVE  OnlyThisConnection' /\ target' \in [Contact -> 0 .. MaxEpoch]
<1> DEFINE room == [target EXCEPT ![x] = epoch]
<1>1. /\ target \in [Contact -> 0 .. MaxEpoch] /\ epoch \in 0 .. MaxEpoch
      /\ \A y \in Contact : target[y] \in {0, epoch}
  BY PresenceAssumption DEF PresenceInv, PresenceTypeOK, OnlyThisConnection
<1>2. room \in [Contact -> 0 .. MaxEpoch] /\ \A y \in Contact : room[y] \in {0, epoch}
  BY <1>1
<1>3. target' = room \/ \E y \in Contact : target' = [room EXCEPT ![y] = 0]
  BY DEF Linked
<1>4. 0 \in 0 .. MaxEpoch
  BY PresenceAssumption
<1>5. target' \in [Contact -> 0 .. MaxEpoch] /\ \A y \in Contact : target'[y] \in {0, epoch}
  BY <1>2, <1>3, <1>4
<1> QED  BY <1>5 DEF OnlyThisConnection

\* A call without a request of its own is answered or joins another's.
LEMMA AskedKeeps ==
  ASSUME PresenceInv, NEW p \in Poll, NEW x \in Contact, poll[p].pc = "none",
         NEW pc \in {"joined", "ok", "failed"}, NEW of \in Poll \union {NoPoll},
         Asked(p, x, pc, of), UNCHANGED <<epoch, online, requests, target>>
  PROVE  PresenceInv'
<1> USE DEF PresenceInv, requests, Asked
<1>1. /\ poll'[p].epoch = epoch /\ poll'[p].pc = pc /\ poll'[p] \in PollType
      /\ poll' \in [Poll -> PollType]
      /\ \A q \in Poll : q # p => poll'[q] = poll[q]
      /\ work[p] = "none" /\ \A y \in Contact : request[y] # p
  BY DEF PresenceTypeOK, PollType, Untouched
<1>2. PresenceTypeOK'
  BY <1>1 DEF PresenceTypeOK, PollType, Requested
<1>3. Untouched'
  BY <1>1 DEF Untouched, PresenceTypeOK
<1>4. OneSubscription'
  BY <1>1 DEF OneSubscription, Unsettled
<1>5. TableBounded' /\ OnlyThisConnection'
  BY DEF TableBounded, OnlyThisConnection, Requested
<1> QED  BY <1>2, <1>3, <1>4, <1>5

\* A call opens a request for a contact that has none under way; those that make room
\* have none either.
LEMMA OpenKeeps ==
  ASSUME PresenceInv, NEW p \in Poll, NEW x \in Contact, poll[p].pc = "none", Open(p, x),
         request[x] \notin pending, NEW evicted \in SUBSET Evictable,
         request' = [y \in Contact |-> IF y = x THEN p
                                       ELSE IF y \in evicted THEN NoPoll ELSE request[y]],
         target' \in [Contact -> 0 .. MaxEpoch], OnlyThisConnection', TableBounded'
  PROVE  PresenceInv'
<1> USE DEF PresenceInv, Open, Asked
<1>1. /\ poll'[p].epoch = epoch /\ poll'[p].id = x /\ poll'[p].pc = "waiting"
      /\ poll' \in [Poll -> PollType]
      /\ \A q \in Poll : q # p => poll'[q] = poll[q] /\ work'[q] = work[q]
      /\ work'[p] = "queued" /\ p \in pending'
      /\ \A y \in Contact : request[y] # p
      /\ \A y \in Contact : y # x => request'[y] \in {NoPoll, request[y]}
      /\ request'[x] = p
  BY DEF PresenceTypeOK, PollType, Untouched
<1>2. PresenceTypeOK'
  <2>1. request' \in [Contact -> Poll \union {NoPoll}]
    BY DEF PresenceTypeOK
  <2>2. \A y \in Requested' : poll'[request'[y]].id = y /\ poll'[request'[y]].epoch = epoch
    <3> SUFFICES ASSUME NEW y \in Contact, request'[y] # NoPoll
                 PROVE  poll'[request'[y]].id = y /\ poll'[request'[y]].epoch = epoch
      BY DEF Requested
    <3>1. CASE y = x
      BY <1>1, <3>1
    <3>2. CASE y # x
      <4>1. request'[y] = request[y] /\ request[y] \in Poll /\ request[y] # p /\ y \in Requested
        BY <1>1, <2>1, <3>2 DEF Requested
      <4> QED  BY <1>1, <4>1 DEF PresenceTypeOK
    <3> QED  BY <3>1, <3>2
  <2>3. {pending', completed', expired'} \subseteq SUBSET Poll
    BY DEF PresenceTypeOK
  <2>4. work' \in [Poll -> {"none", "queued", "mapping", "calling", "over"}]
    BY DEF PresenceTypeOK
  <2> QED  BY <1>1, <2>1, <2>2, <2>3, <2>4 DEF PresenceTypeOK, PollType
<1>3. Untouched'
  <2> SUFFICES ASSUME NEW q \in Poll
               PROVE  /\ poll'[q].epoch <= epoch'
                      /\ poll'[q].pc = "none" =>
                           /\ work'[q] = "none" /\ q \notin pending'
                           /\ \A y \in Contact : request'[y] # q
    BY DEF Untouched
  <2>1. CASE q = p
    BY <1>1, <2>1 DEF PresenceTypeOK
  <2>2. CASE q # p
    BY <1>1, <2>2, PresenceAssumption DEF Untouched
  <2> QED  BY <2>1, <2>2
<1>4. OneSubscription'
  <2> SUFFICES ASSUME NEW q \in Poll, Unsettled(q)', poll'[q].epoch = epoch'
               PROVE  request'[poll'[q].id] = q /\ q \in pending'
    BY DEF OneSubscription
  <2>1. CASE q = p
    BY <1>1, <2>1
  <2>2. CASE q # p
    <3>1. request[poll[q].id] = q /\ q \in pending /\ poll[q].id \in Contact
      BY <1>1, <2>2 DEF OneSubscription, Unsettled, PresenceTypeOK
    <3>2. poll[q].id # x /\ poll[q].id \notin evicted
      BY <3>1 DEF Evictable
    <3> QED  BY <1>1, <2>2, <3>1, <3>2
  <2> QED  BY <2>1, <2>2
<1> QED  BY <1>2, <1>3, <1>4

LEMMA RenewKeeps ==
  ASSUME PresenceInv, NEW p \in Poll, NEW x \in Contact, Renew(p, x) PROVE PresenceInv'
<1> USE DEF Renew
<1>1. request' = [y \in Contact |-> IF y = x THEN p
                                     ELSE IF y \in {} THEN NoPoll ELSE request[y]]
  BY DEF PresenceInv, PresenceTypeOK
<1>2. Requested' = Requested
  BY PresenceAssumption DEF Requested, PresenceInv, PresenceTypeOK
<1>3. TableBounded' /\ OnlyThisConnection' /\ target' \in [Contact -> 0 .. MaxEpoch]
  BY <1>2 DEF TableBounded, OnlyThisConnection, PresenceInv, PresenceTypeOK, Open
<1>4. PICK evicted \in SUBSET Evictable : evicted = {}
  OBVIOUS
<1>5. request' = [y \in Contact |-> IF y = x THEN p
                                     ELSE IF y \in evicted THEN NoPoll ELSE request[y]]
  BY <1>1, <1>4
<1> QED  BY <1>3, <1>5, OpenKeeps

LEMMA NewKeeps ==
  ASSUME PresenceInv, NEW p \in Poll, NEW x \in Contact, New(p, x) PROVE PresenceInv'
<1>1. PICK evicted \in Room :
        request' = [y \in Contact |-> IF y = x THEN p
                                      ELSE IF y \in evicted THEN NoPoll ELSE request[y]]
  BY DEF New
<1>2. request[x] = NoPoll /\ NoPoll \notin pending /\ x \notin Requested
  BY PresenceAssumption DEF New, PresenceInv, PresenceTypeOK, Requested
<1>3. evicted \in SUBSET Evictable
  BY <1>1 DEF Room, Evictable
<1>4. OnlyThisConnection' /\ target' \in [Contact -> 0 .. MaxEpoch]
  BY LinkKeeps DEF New, Open
<1>5. Requested' = (Requested \ evicted) \union {x}
  BY <1>1, <1>2, <1>3, PresenceAssumption DEF Requested, Evictable
<1>6. TableBounded'
  <2>1. IsFiniteSet(Requested) /\ Cardinality(Requested) \in Nat
        /\ Cardinality(Requested) <= MaxRequests
    BY FS_CardinalityType DEF PresenceInv, TableBounded
  <2>2. CASE Cardinality(Requested) < MaxRequests
    <3>1. Requested' = Requested \union {x}
      BY <1>1, <1>5, <2>2 DEF Room
    <3>2. /\ IsFiniteSet(Requested \union {x})
          /\ Cardinality(Requested \union {x}) = Cardinality(Requested) + 1
      BY <1>2, <2>1, FS_AddElement
    <3>3. MaxRequests \in Nat
      BY PresenceAssumption
    <3> QED  BY <2>1, <2>2, <3>1, <3>2, <3>3 DEF TableBounded
  <2>3. CASE ~(Cardinality(Requested) < MaxRequests)
    <3>1. PICK y \in Evictable : evicted = {y}
      BY <1>1, <2>3 DEF Room
    <3>2. y \in Requested
      BY DEF Evictable
    <3>3. IsFiniteSet(Requested \ {y})
          /\ Cardinality(Requested \ {y}) = Cardinality(Requested) - 1
      BY <2>1, <3>2, FS_RemoveElement
    <3>4. /\ IsFiniteSet((Requested \ {y}) \union {x})
          /\ Cardinality((Requested \ {y}) \union {x}) = Cardinality(Requested \ {y}) + 1
      BY <1>2, <3>3, FS_AddElement
    <3>5. Requested' = (Requested \ {y}) \union {x}
      BY <1>5, <3>1
    <3> QED  BY <2>1, <3>3, <3>4, <3>5 DEF TableBounded
  <2> QED  BY <2>2, <2>3
<1> QED  BY <1>1, <1>2, <1>3, <1>4, <1>6, OpenKeeps DEF New

\* The action of a request ends: its contact has no other that is under way.
LEMMA EndKeeps ==
  ASSUME PresenceInv, NEW p \in Poll, Unsettled(p), NEW ok \in BOOLEAN, WorkEnds(p, ok),
         UNCHANGED <<epoch, online, target>>
  PROVE  PresenceInv'
<1> USE DEF PresenceInv, WorkEnds
<1> DEFINE x == poll[p].id
<1>0. poll[p].pc # "none" /\ poll \in [Poll -> PollType]
  BY DEF Untouched, Unsettled, PresenceTypeOK, PollType
<1>1. /\ poll' \in [Poll -> PollType]
      /\ \A q \in Poll : poll'[q].id = poll[q].id /\ poll'[q].epoch = poll[q].epoch
      /\ \A q \in Poll : q # p => poll'[q] = poll[q]
      /\ poll'[p].pc # "none"
  <2>1. CASE p \in expired
    BY <1>0, <2>1
  <2>2. CASE p \notin expired
    BY <2>2, Told
  <2> QED  BY <2>1, <2>2
<1>2. /\ work' \in [Poll -> {"none", "queued", "mapping", "calling", "over"}]
      /\ work'[p] = "over" /\ \A q \in Poll : q # p => work'[q] = work[q]
  BY DEF PresenceTypeOK
<1>3. /\ x \in Contact
      /\ request' \in [Contact -> Poll \union {NoPoll}]
      /\ \A y \in Contact : request'[y] # request[y] => request'[y] = NoPoll /\ request[y] = p
      /\ pending' \subseteq pending /\ \A q \in pending : q # p => q \in pending'
  <2>1. x \in Contact /\ request \in [Contact -> Poll \union {NoPoll}]
    BY <1>0 DEF PresenceTypeOK, PollType
  <2>2. CASE Owner(p)
    BY <2>1, <2>2 DEF SettleRequest, Owner
  <2>3. CASE ~Owner(p)
    BY <2>1, <2>3 DEF SettleRequest
  <2> QED  BY <2>2, <2>3
<1>4. Requested' = Requested \/ Requested' = Requested \ {x}
  BY DEF SettleRequest, Owner, Requested, PresenceTypeOK
<1>5. PresenceTypeOK'
  <2>1. {pending', completed', expired'} \subseteq SUBSET Poll
    BY <1>3 DEF PresenceTypeOK
  <2>2. outcome' \in [Poll -> {"none", "ok", "failed"}]
    BY DEF PresenceTypeOK
  <2>3. \A y \in Requested' : poll'[request'[y]].id = y /\ poll'[request'[y]].epoch = epoch
    <3> SUFFICES ASSUME NEW y \in Contact, request'[y] # NoPoll
                 PROVE  poll'[request'[y]].id = y /\ poll'[request'[y]].epoch = epoch
      BY DEF Requested
    <3>1. request'[y] = request[y] /\ request[y] \in Poll /\ y \in Requested
      BY <1>3 DEF Requested
    <3> QED  BY <1>1, <3>1 DEF PresenceTypeOK
  <2> QED  BY <1>1, <1>2, <1>3, <2>1, <2>2, <2>3 DEF PresenceTypeOK, PollType
<1>6. Untouched'
  BY <1>1, <1>2, <1>3, PresenceAssumption DEF Untouched
<1>7. OneSubscription'
  BY <1>1, <1>2, <1>3 DEF OneSubscription, Unsettled, PresenceTypeOK
<1>8. TableBounded'
  <2>1. IsFiniteSet(Requested) /\ Cardinality(Requested) \in Nat
    BY FS_CardinalityType DEF TableBounded
  <2>2. /\ IsFiniteSet(Requested \ {x})
        /\ Cardinality(Requested \ {x}) <= Cardinality(Requested)
    BY <2>1, FS_Subset, Requested \ {x} \subseteq Requested
  <2>3. Cardinality(Requested \ {x}) \in Nat
    BY <2>2, FS_CardinalityType
  <2>4. Cardinality(Requested) <= MaxRequests /\ MaxRequests \in Nat
    BY PresenceAssumption DEF TableBounded
  <2>5. IsFiniteSet(Requested') /\ Cardinality(Requested') <= MaxRequests
    <3>1. CASE Requested' = Requested
      BY <2>1, <2>4, <3>1
    <3>2. CASE Requested' = Requested \ {x}
      BY <2>1, <2>2, <2>3, <2>4, <3>2
    <3> QED  BY <1>4, <3>1, <3>2
  <2> QED  BY <2>5 DEF TableBounded
<1>9. OnlyThisConnection'
  BY DEF OnlyThisConnection
<1> QED  BY <1>5, <1>6, <1>7, <1>8, <1>9

\* A request goes on.
LEMMA WorkKeeps ==
  ASSUME PresenceInv, NEW p \in Poll, Unsettled(p), NEW to \in {"mapping", "calling"},
         work' = [work EXCEPT ![p] = to], target' \in [Contact -> 0 .. MaxEpoch],
         OnlyThisConnection',
         UNCHANGED <<epoch, online, request, pending, completed, outcome, expired, poll>>
  PROVE  PresenceInv'
<1> USE DEF PresenceInv
<1>1. PresenceTypeOK'
  BY DEF PresenceTypeOK, Requested
<1>2. Untouched'
  BY DEF Untouched, Unsettled, PresenceTypeOK
<1>3. OneSubscription'
  BY DEF OneSubscription, Unsettled, PresenceTypeOK
<1>4. TableBounded'
  BY DEF TableBounded, Requested
<1> QED  BY <1>1, <1>2, <1>3, <1>4

\* A call is told; its request goes on.
LEMMA TellKeeps ==
  ASSUME PresenceInv, NEW p \in Poll, poll[p].pc # "none", NEW ok \in BOOLEAN, Tell(p, ok),
         outcome' \in [Poll -> {"none", "ok", "failed"}], expired' \subseteq Poll,
         UNCHANGED <<epoch, online, request, pending, completed, work, target>>
  PROVE  PresenceInv'
<1> USE DEF PresenceInv
<1>1. /\ poll' \in [Poll -> PollType]
      /\ \A q \in Poll : poll'[q].id = poll[q].id /\ poll'[q].epoch = poll[q].epoch
      /\ \A q \in Poll : q # p => poll'[q] = poll[q]
      /\ poll'[p].pc # "none"
  BY Told
<1>2. PresenceTypeOK'
  BY <1>1 DEF PresenceTypeOK, PollType, Requested
<1>3. Untouched'
  BY <1>1 DEF Untouched
<1>4. OneSubscription'
  BY <1>1 DEF OneSubscription, Unsettled
<1>5. TableBounded' /\ OnlyThisConnection'
  BY DEF TableBounded, OnlyThisConnection, Requested
<1> QED  BY <1>2, <1>3, <1>4, <1>5

LEMMA SocketKeeps == ASSUME PresenceInv, Clear \/ Opens PROVE PresenceInv'
<1> USE DEF PresenceInv
<1>1. CASE Clear
  <2> USE <1>1 DEF Clear
  <2>1. Requested' = {}
    BY DEF Requested, Cleared
  <2>2. epoch \in Nat /\ epoch' = epoch + 1 /\ epoch' \in 1 .. MaxEpoch
    BY PresenceAssumption DEF PresenceTypeOK
  <2>3. PresenceTypeOK'
    <3>1. target' \in [Contact -> 0 .. MaxEpoch]
      BY PresenceAssumption DEF Absent
    <3>2. request' \in [Contact -> Poll \union {NoPoll}] /\ online' \in BOOLEAN
      BY DEF Cleared
    <3>3. UNCHANGED <<pending, completed, outcome, expired, work, poll>>
      OBVIOUS
    <3> QED  BY <2>1, <2>2, <3>1, <3>2, <3>3 DEF PresenceTypeOK
  <2>4. Untouched'
    BY <2>2, PresenceAssumption DEF Untouched, Cleared, PresenceTypeOK
  <2>5. OneSubscription'
    <3>1. \A p \in Poll : poll[p].epoch # epoch'
      BY <2>2 DEF Untouched, PresenceTypeOK
    <3> QED  BY <3>1 DEF OneSubscription
  <2>6. TableBounded' /\ OnlyThisConnection'
    BY <2>1, FS_EmptySet, PresenceAssumption DEF TableBounded, OnlyThisConnection, Absent
  <2> QED  BY <2>3, <2>4, <2>5, <2>6
<1>2. CASE Opens
  BY <1>2 DEF Opens, requests, PresenceTypeOK, Untouched, OneSubscription, Unsettled, TableBounded,
              OnlyThisConnection, Requested
<1> QED  BY <1>1, <1>2

LEMMA PresenceInvNext == PresenceInv /\ [PresenceNext]_presenceVars => PresenceInv'
<1> SUFFICES ASSUME PresenceInv, [PresenceNext]_presenceVars PROVE PresenceInv'
  OBVIOUS
<1>1. ASSUME NEW p \in Poll, NEW x \in Contact, Join(p, x) PROVE PresenceInv'
  BY <1>1, AskedKeeps DEF Join, PresenceInv, PresenceTypeOK
<1>2. ASSUME NEW p \in Poll, NEW x \in Contact, AnsweredRecently(p, x) PROVE PresenceInv'
  BY <1>2, AskedKeeps DEF AnsweredRecently, PresenceInv, PresenceTypeOK
<1>3. ASSUME NEW p \in Poll, NEW x \in Contact, Refuse(p, x) PROVE PresenceInv'
  BY <1>3, AskedKeeps DEF Refuse
<1>4. ASSUME NEW p \in Poll, Ask(p) PROVE PresenceInv'
  BY <1>1, <1>2, <1>3, <1>4, RenewKeeps, NewKeeps DEF Ask
<1>5. ASSUME NEW p \in Poll, ReadMapping(p) PROVE PresenceInv'
  <2>1. target' \in [Contact -> 0 .. MaxEpoch] /\ OnlyThisConnection'
    BY <1>5 DEF ReadMapping, PresenceInv, PresenceTypeOK, OnlyThisConnection
  <2> QED  BY <1>5, <2>1, WorkKeeps DEF ReadMapping, Unsettled
<1>6. ASSUME NEW p \in Poll, CallProvider(p) PROVE PresenceInv'
  <2>1. poll[p].id \in Contact /\ poll[p].epoch = epoch
    BY <1>6 DEF CallProvider, StillWanted, Current, PresenceInv, PresenceTypeOK
  <2>2. target' \in [Contact -> 0 .. MaxEpoch] /\ OnlyThisConnection'
    BY <1>6, <2>1, LinkKeeps DEF CallProvider
  <2> QED  BY <1>6, <2>2, WorkKeeps DEF CallProvider, Unsettled
<1>7. ASSUME NEW p \in Poll, ProviderAnswers(p) \/ WorkFails(p) PROVE PresenceInv'
  <2>1. Unsettled(p)
    BY <1>7 DEF ProviderAnswers, WorkFails, Unsettled
  <2>2. CASE ProviderAnswers(p)
    <3>1. Current(p) \in BOOLEAN
      BY DEF Current, PresenceInv, PresenceTypeOK
    <3> QED  BY <2>1, <2>2, <3>1, EndKeeps DEF ProviderAnswers
  <2>3. CASE WorkFails(p)
    BY <2>1, <2>3, EndKeeps DEF WorkFails
  <2> QED  BY <1>7, <2>2, <2>3
<1>8. ASSUME NEW p \in Poll, Timeout(p) PROVE PresenceInv'
  <2>1. poll[p].pc # "none"
    BY <1>8 DEF Timeout, PresenceInv, Untouched, Unsettled
  <2>2. outcome' \in [Poll -> {"none", "ok", "failed"}] /\ expired' \subseteq Poll
    BY <1>8 DEF Timeout, PresenceInv, PresenceTypeOK
  <2> QED  BY <1>8, <2>1, <2>2, TellKeeps DEF Timeout
<1>9. ASSUME NEW p \in Poll, JoinedReturns(p) PROVE PresenceInv'
  <2>1. (outcome[poll[p].of] = "ok") \in BOOLEAN
    OBVIOUS
  <2>2. poll[p].pc # "none" /\ outcome' \in [Poll -> {"none", "ok", "failed"}]
        /\ expired' \subseteq Poll
    BY <1>9 DEF JoinedReturns, requests, PresenceInv, PresenceTypeOK
  <2> QED  BY <1>9, <2>1, <2>2, TellKeeps DEF JoinedReturns, requests
<1>10. CASE UNCHANGED presenceVars
  BY <1>10 DEF presenceVars, requests, PresenceInv, PresenceTypeOK, Untouched, OneSubscription,
               Unsettled, TableBounded, OnlyThisConnection, Requested
<1> QED  BY <1>4, <1>5, <1>6, <1>7, <1>8, <1>9, <1>10, SocketKeeps DEF PresenceNext, Works

LEMMA Always == PresenceSpec => []PresenceInv
BY PresenceInvInit, PresenceInvNext, PTL DEF PresenceSpec

-----------------------------------------------------------------------------
\* Every variable keeps its type, and the table holds requests of the present connection.
THEOREM PresenceTyped == PresenceSpec => []PresenceTypeOK
<1>1. PresenceInv => PresenceTypeOK
  BY DEF PresenceInv
<1> QED  BY <1>1, Always, PTL

\* A contact has at most one subscription under way on a connection, whatever has timed
\* out, been cleared or answered late.
THEOREM OnePerContact == PresenceSpec => []OneSubscription
<1>1. PresenceInv => OneSubscription
  BY DEF PresenceInv
<1> QED  BY <1>1, Always, PTL

\* The provider never has more subscriptions of a connection to answer than the table holds:
\* each of them is the request of its contact.
THEOREM SubscriptionsBounded == PresenceSpec => []RequestsBounded
<1>1. ASSUME PresenceInv PROVE RequestsBounded
  <2>1. IsFiniteSet(Requested) /\ Cardinality(Requested) \in Nat
        /\ Cardinality(Requested) <= MaxRequests
    BY <1>1, FS_CardinalityType DEF PresenceInv, TableBounded
  <2> DEFINE Owners == {request[x] : x \in Requested}
  <2>2. Underway \in SUBSET Owners
    BY <1>1, PresenceAssumption
    DEF PresenceInv, OneSubscription, Underway, Doing, Requested, PresenceTypeOK
  <2>3. IsFiniteSet(Owners) /\ Cardinality(Owners) <= Cardinality(Requested)
    <3> DEFINE f == [x \in Requested |-> request[x]]
    <3>1. f \in Surjection(Requested, Owners)
      BY DEF Surjection
    <3> QED  BY <2>1, <3>1, FS_Surjection DEF ExistsSurjection
  <2>4. Cardinality(Underway) <= Cardinality(Owners) /\ Cardinality(Underway) \in Nat
        /\ Cardinality(Owners) \in Nat
    BY <2>2, <2>3, FS_Subset, FS_CardinalityType
  <2>5. Underway = {p \in Poll : Unsettled(p) /\ poll[p].epoch = epoch}
    BY DEF Underway, Doing
  <2> QED  BY <2>1, <2>3, <2>4, <2>5, PresenceAssumption DEF RequestsBounded
<1> QED  BY <1>1, Always, PTL

\* What a contact is known by comes from the present connection, whenever a provider of
\* an earlier one answers.
THEOREM NothingOfOthers == PresenceSpec => []OnlyThisConnection
<1>1. PresenceInv => OnlyThisConnection
  BY DEF PresenceInv
<1> QED  BY <1>1, Always, PTL

\* All of them, as the invariant PresenceSafety.
THEOREM PresenceIsSafe == PresenceSpec => []PresenceSafety
BY PresenceTyped, OnePerContact, SubscriptionsBounded, NothingOfOthers, PTL DEF PresenceSafety
-----------------------------------------------------------------------------
(* The catalogue of groups: rows, the log of changes, the wire               *)

\* Rows of some spaces.
Rows == UNION {[S -> Nat] : S \in SUBSET Space}

LEMMA RowsAre == 
  /\ \A f \in Rows : DOMAIN f \subseteq Space /\ \A s \in DOMAIN f : f[s] \in Nat
  /\ \A S \in SUBSET Space : [S -> Nat] \subseteq Rows
  /\ NoRows \in Rows /\ DOMAIN NoRows = {}
<1>1. \A f \in Rows : DOMAIN f \subseteq Space /\ \A s \in DOMAIN f : f[s] \in Nat
  BY DEF Rows
<1>2. \A S \in SUBSET Space : [S -> Nat] \subseteq Rows
  BY DEF Rows
<1>3. NoRows \in [{} -> Nat] /\ DOMAIN NoRows = {}
  BY DEF NoRows
<1> QED  BY <1>1, <1>2, <1>3

LEMMA Overriding ==
  ASSUME NEW f \in Rows, NEW g \in Rows
  PROVE  /\ Override(f, g) \in Rows
         /\ DOMAIN Override(f, g) = DOMAIN f \union DOMAIN g
         /\ \A s \in DOMAIN f : Override(f, g)[s] = f[s]
         /\ \A s \in DOMAIN g \ DOMAIN f : Override(f, g)[s] = g[s]
<1> DEFINE D == DOMAIN f \union DOMAIN g
<1>1. D \in SUBSET Space /\ Override(f, g) \in [D -> Nat]
  BY RowsAre DEF Override
<1>2. Override(f, g) \in Rows
  BY <1>1, RowsAre
<1> QED  BY <1>2 DEF Override

(* SetToSeq lists each element once.                                          *)
LEMMA Listing ==
  ASSUME NEW D, IsFiniteSet(D)
  PROVE  /\ SetToSeq(D) \in Seq(D) /\ Len(SetToSeq(D)) \in Nat
         /\ DOMAIN SetToSeq(D) = 1 .. Len(SetToSeq(D))
         /\ \A k \in 1 .. Len(SetToSeq(D)) : SetToSeq(D)[k] \in D
         /\ \A j, k \in 1 .. Len(SetToSeq(D)) : SetToSeq(D)[j] = SetToSeq(D)[k] => j = k
         /\ \A x \in D : \E k \in 1 .. Len(SetToSeq(D)) : SetToSeq(D)[k] = x
<1> DEFINE n == Cardinality(D)
           q == SetToSeq(D)
<1>1. n \in Nat /\ ExistsBijection(1 .. n, D) /\ IsFiniteSet(1 .. n) /\ Cardinality(1 .. n) = n
  BY FS_CardinalityType, FS_Interval
<1>2. \E f \in [1 .. n -> D] : IsInjective(f)
  BY <1>1 DEF ExistsBijection, Bijection, Injection, IsInjective
<1>3. q \in [1 .. n -> D] /\ IsInjective(q)
  BY <1>2 DEF SetToSeq
<1>4. q \in Injection(1 .. n, D)
  BY <1>3 DEF Injection, IsInjective
<1>5. q \in Surjection(1 .. n, D)
  <2> HIDE DEF q, n
  <2> QED  BY <1>1, <1>4, FS_Injection DEF n
<1>6. q \in Seq(D) /\ Len(q) = n
  <2> HIDE DEF q, n
  <2> QED  BY <1>1, <1>3
<1> HIDE DEF q, n
<1>7. \A x \in D : \E k \in 1 .. n : q[k] = x
  BY <1>5 DEF Surjection
<1> QED  BY <1>1, <1>3, <1>6, <1>7 DEF IsInjective, q

(* A set of places of a sequence has a last one.                              *)
LEMMA LastPlace ==
  ASSUME NEW n \in Nat, NEW S \in SUBSET (1 .. n), S # {}
  PROVE  Max(S) \in S /\ \A m \in S : m <= Max(S)
<1> DEFINE T == {k .. n : k \in S}
<1>1. T \subseteq FiniteSubsetsOf(Nat) /\ T # {}
  <2>1. \A k \in S : k .. n \in SUBSET Nat /\ IsFiniteSet(k .. n)
    BY FS_Interval
  <2> QED  BY <2>1 DEF FiniteSubsetsOf
<1>2. PICK x \in T : \A y \in T : ~(<<y, x>> \in StrictSubsetOrdering(Nat))
  <2>1. IsWellFoundedOn(StrictSubsetOrdering(Nat), FiniteSubsetsOf(Nat))
    BY FS_StrictSubsetOrderingWellFounded
  <2> HIDE DEF T
  <2> QED  BY <1>1, <2>1, WFMin
<1>3. PICK k \in S : x = k .. n
  BY <1>2
<1>4. ASSUME NEW m \in S, m > k PROVE FALSE
  <2>1. m .. n \subseteq x /\ k \in x /\ k \notin m .. n
    BY <1>3, <1>4
  <2>2. <<m .. n, x>> \in StrictSubsetOrdering(Nat)
    BY <1>3, <2>1 DEF StrictSubsetOrdering
  <2> QED  BY <1>2, <1>4, <2>2
<1>5. \E y \in S : \A m \in S : y >= m
  BY <1>3, <1>4
<1> QED  BY <1>5 DEF Max

\* The log holds the last changes, numbered without a gap; its last entry of a space is
\* what was noted of it.
Entry == [revision : Nat, space : Space, row : Nat]
LogTyped == revision \in Nat /\ changes \in Seq(Entry) /\ noted \in [Space -> Nat]
LogKept ==
  /\ Len(changes) <= LogSize /\ Len(changes) <= revision
  /\ changes = <<>> => revision = 0
  /\ \A k \in DOMAIN changes : changes[k].revision = revision - Len(changes) + k
LogEnds ==
  \A k \in DOMAIN changes :
    (\A j \in DOMAIN changes : j > k => changes[j].space # changes[k].space)
      => changes[k].row = noted[changes[k].space]
LogInv == LogTyped /\ LogKept /\ LogEnds

LEMMA EntryAre ==
  ASSUME LogTyped
  PROVE  /\ Len(changes) \in Nat /\ DOMAIN changes = 1 .. Len(changes)
         /\ \A k \in DOMAIN changes : /\ changes[k].revision \in Nat
                                      /\ changes[k].space \in Space /\ changes[k].row \in Nat
<1>1. \A k \in DOMAIN changes : changes[k] \in Entry
  BY DEF LogTyped
<1>2. Len(changes) \in Nat /\ DOMAIN changes = 1 .. Len(changes)
  BY DEF LogTyped
<1> QED  BY <1>1, <1>2 DEF Entry

LEMMA SinceNoted ==
  ASSUME LogInv, NEW r \in Nat
  PROVE  /\ ChangesSince(r) \in Rows /\ DOMAIN ChangesSince(r) = Changed(r)
         /\ Changed(r) \subseteq Space
         /\ \A s \in Changed(r) : ChangesSince(r)[s] = noted[s]
<1>1. /\ Len(changes) \in Nat /\ DOMAIN changes = 1 .. Len(changes)
      /\ \A k \in DOMAIN changes : changes[k].space \in Space /\ changes[k].row \in Nat
  BY EntryAre DEF LogInv
<1>2. Changed(r) \subseteq Space
  BY <1>1 DEF Changed
<1>3. ASSUME NEW s \in Changed(r)
      PROVE  changes[LatestOf(s)].row \in Nat /\ changes[LatestOf(s)].row = noted[s]
  <2> DEFINE S == {k \in DOMAIN changes : changes[k].space = s}
  <2>1. S \in SUBSET (1 .. Len(changes)) /\ S # {}
    BY <1>1 DEF Changed
  <2>2. Max(S) \in S /\ \A m \in S : m <= Max(S)
    <3> HIDE DEF S
    <3> QED  BY <1>1, <2>1, LastPlace
  <2>3. LatestOf(s) \in S /\ \A m \in S : m <= LatestOf(s)
    BY <2>2 DEF LatestOf
  <2>4. \A j \in DOMAIN changes : j > LatestOf(s) => changes[j].space # s
    BY <1>1, <2>3
  <2> QED  BY <1>1, <2>3, <2>4 DEF LogInv, LogEnds
<1>4. ChangesSince(r) \in [Changed(r) -> Nat]
  BY <1>3 DEF ChangesSince
<1>5. ChangesSince(r) \in Rows
  BY <1>2, <1>4, RowsAre
<1> QED  BY <1>2, <1>3, <1>4, <1>5 DEF ChangesSince
-----
\* The entries of an event or an answer, and the log with them.
Order(rows) == SetToSeq(DOMAIN rows)
News(rows) == [k \in DOMAIN Order(rows) |->
                 [revision |-> revision + k, space |-> Order(rows)[k], row |-> rows[Order(rows)[k]]]]
Longer(rows) == changes \o News(rows)
Dropped(rows) == IF Len(changes) + Len(Order(rows)) > LogSize
                 THEN Len(changes) + Len(Order(rows)) - LogSize ELSE 0

LEMMA LongerIs ==
  ASSUME LogInv, NEW rows \in Rows
  PROVE  /\ Len(Order(rows)) \in Nat
         /\ Longer(rows) \in Seq(Entry) /\ Len(Longer(rows)) = Len(changes) + Len(Order(rows))
         /\ \A i \in 1 .. Len(Longer(rows)) :
              /\ Longer(rows)[i].revision = revision - Len(changes) + i
              /\ i <= Len(changes) => Longer(rows)[i] = changes[i]
              /\ i > Len(changes) => /\ Longer(rows)[i].space \in DOMAIN rows
                                     /\ Longer(rows)[i].row = rows[Longer(rows)[i].space]
         /\ \A s \in DOMAIN rows : \E i \in 1 .. Len(Longer(rows)) :
              i > Len(changes) /\ Longer(rows)[i].space = s
<1> DEFINE n == Len(Order(rows))
           new == News(rows)
<1>1. DOMAIN rows \in SUBSET Space /\ \A s \in DOMAIN rows : rows[s] \in Nat
  BY RowsAre
<1>2. IsFiniteSet(DOMAIN rows)
  BY <1>1, CatalogAssumption, FS_Subset
<1>3. /\ n \in Nat /\ DOMAIN Order(rows) = 1 .. n
      /\ \A k \in 1 .. n : Order(rows)[k] \in DOMAIN rows
      /\ \A x \in DOMAIN rows : \E k \in 1 .. n : Order(rows)[k] = x
  BY <1>2, Listing DEF Order
<1>4. /\ revision \in Nat /\ Len(changes) \in Nat /\ changes \in Seq(Entry)
      /\ DOMAIN changes = 1 .. Len(changes)
      /\ \A k \in 1 .. Len(changes) : changes[k].revision = revision - Len(changes) + k
  BY EntryAre DEF LogInv, LogTyped, LogKept
<1> HIDE DEF n
<1>5. /\ new \in [1 .. n -> Entry]
      /\ \A k \in 1 .. n : /\ new[k].revision = revision + k
                            /\ new[k].space = Order(rows)[k] /\ new[k].row = rows[Order(rows)[k]]
  BY <1>1, <1>3, <1>4 DEF News, Entry
<1> HIDE DEF new
<1>6. new \in Seq(Entry) /\ Len(new) = n
  BY <1>3, <1>5
<1>7. /\ Longer(rows) \in Seq(Entry) /\ Len(Longer(rows)) = Len(changes) + n
      /\ \A i \in 1 .. Len(changes) + n :
           Longer(rows)[i] = IF i <= Len(changes) THEN changes[i] ELSE new[i - Len(changes)]
  BY <1>4, <1>6, ConcatProperties DEF Longer, new
<1>8. ASSUME NEW i \in 1 .. Len(changes) + n
      PROVE  /\ Longer(rows)[i].revision = revision - Len(changes) + i
             /\ i <= Len(changes) => Longer(rows)[i] = changes[i]
             /\ i > Len(changes) => /\ Longer(rows)[i].space \in DOMAIN rows
                                    /\ Longer(rows)[i].row = rows[Longer(rows)[i].space]
  <2>1. CASE i <= Len(changes)
    BY <1>4, <1>7, <2>1
  <2>2. CASE i > Len(changes)
    <3>1. i - Len(changes) \in 1 .. n /\ Longer(rows)[i] = new[i - Len(changes)]
      BY <1>3, <1>4, <1>7, <2>2
    <3> QED  BY <1>3, <1>4, <1>5, <2>2, <3>1
  <2> QED  BY <1>3, <1>4, <2>1, <2>2
<1>9. ASSUME NEW s \in DOMAIN rows
      PROVE  \E i \in 1 .. Len(changes) + n : i > Len(changes) /\ Longer(rows)[i].space = s
  <2>1. PICK k \in 1 .. n : Order(rows)[k] = s
    BY <1>3
  <2>2. /\ Len(changes) + k \in 1 .. Len(changes) + n /\ Len(changes) + k > Len(changes)
        /\ (Len(changes) + k) - Len(changes) = k
    BY <1>3, <1>4
  <2>3. Longer(rows)[Len(changes) + k] = new[k]
    BY <1>4, <1>7, <2>2
  <2> QED  BY <1>5, <2>1, <2>2, <2>3
<1> QED  BY <1>3, <1>7, <1>8, <1>9 DEF n

LEMMA KeptIs ==
  ASSUME LogInv, NEW rows \in Rows, Note(rows)
  PROVE  /\ Dropped(rows) \in Nat
         /\ changes' \in Seq(Entry)
         /\ Len(changes') = Len(changes) + Len(Order(rows)) - Dropped(rows)
         /\ \A i \in 1 .. Len(changes') :
              i + Dropped(rows) \in 1 .. Len(Longer(rows)) /\ changes'[i] = Longer(rows)[i + Dropped(rows)]
<1> DEFINE all == Longer(rows)
           d == Dropped(rows)
           L == Len(all)
<1>1. /\ Len(Order(rows)) \in Nat /\ Len(changes) \in Nat /\ LogSize \in Nat
      /\ all \in Seq(Entry) /\ L = Len(changes) + Len(Order(rows))
  BY LongerIs, EntryAre, CatalogAssumption DEF LogInv
<1>2. L \in Nat /\ d \in 0 .. L /\ (d = 0 \/ (L > LogSize /\ d = L - LogSize))
      /\ (d = 0 => ~(L > LogSize))
  BY <1>1 DEF Dropped
<1>3. changes' = Kept(all)
  BY DEF Note, Longer, News, Order
<1> HIDE DEF all, d
<1>4. CASE d = 0
  <2>1. changes' = all
    BY <1>2, <1>3, <1>4 DEF Kept
  <2> QED  BY <1>1, <1>2, <1>4, <2>1 DEF all, d
<1>5. CASE d # 0
  <2>1. changes' = SubSeq(all, L - LogSize + 1, L)
    BY <1>2, <1>3, <1>5 DEF Kept
  <2>2. \A i \in d + 1 .. L : i \in 1 .. L /\ all[i] \in Entry
    BY <1>1, <1>2
  <2>3. d + 1 \in Int /\ L \in Int /\ L - LogSize + 1 = d + 1
    BY <1>1, <1>2, <1>5
  <2>4. /\ SubSeq(all, d + 1, L) \in Seq(Entry)
        /\ Len(SubSeq(all, d + 1, L)) = IF d + 1 <= L THEN L - (d + 1) + 1 ELSE 0
        /\ \A i \in 1 .. L - (d + 1) + 1 : SubSeq(all, d + 1, L)[i] = all[d + 1 + i - 1]
    BY <2>2, <2>3, SubSeqProperties
  <2>5. /\ changes' \in Seq(Entry) /\ Len(changes') = L - d
        /\ \A i \in 1 .. L - d : i + d \in 1 .. L /\ changes'[i] = all[i + d]
    <3>1. \A i \in 1 .. L - d : i \in 1 .. L - (d + 1) + 1 /\ d + 1 + i - 1 = i + d /\ i + d \in 1 .. L
      BY <1>2
    <3>2. (IF d + 1 <= L THEN L - (d + 1) + 1 ELSE 0) = L - d
      BY <1>2
    <3> QED  BY <2>1, <2>3, <2>4, <3>1, <3>2
  <2> QED  BY <1>1, <1>2, <2>5 DEF all, d
<1> QED  BY <1>4, <1>5
(* What is noted keeps the log as it is described, and what it still knows     *)
(* since some revision is what it knew, and what is new.                       *)
LEMMA NoteStep ==
  ASSUME LogInv, NEW rows \in Rows, Note(rows)
  PROVE  /\ LogInv' /\ revision <= revision'
         /\ noted' = Override(rows, noted)
         /\ revision' = revision => noted' = noted
         /\ \A r \in Nat : r <= revision /\ Complete(r)' =>
              Complete(r) /\ Changed(r) \union DOMAIN rows \subseteq Changed(r)'
<1> DEFINE n == Len(Order(rows))
           L == Len(changes)
           d == Dropped(rows)
           all == Longer(rows)
           N == Len(changes')
<1>1. /\ revision \in Nat /\ L \in Nat /\ L <= revision /\ L <= LogSize /\ n \in Nat
      /\ DOMAIN changes = 1 .. L /\ LogSize \in Nat \ {0} /\ noted \in [Space -> Nat]
      /\ (changes = <<>> => revision = 0)
      /\ \A k \in 1 .. L : changes[k].revision = revision - L + k
  BY EntryAre, LongerIs, CatalogAssumption DEF LogInv, LogTyped, LogKept
<1>2. /\ noted' = Override(rows, noted) /\ revision' = revision + n
      /\ noted' \in [Space -> Nat]
      /\ \A s \in DOMAIN rows : noted'[s] = rows[s]
      /\ \A s \in Space \ DOMAIN rows : noted'[s] = noted[s]
  <2>1. noted \in Rows /\ DOMAIN noted = Space /\ DOMAIN rows \subseteq Space
    BY <1>1, RowsAre
  <2>2. noted' = Override(rows, noted) /\ revision' = revision + n
    BY DEF Note, Order
  <2>3. noted' \in Rows /\ DOMAIN noted' = Space
    BY <2>1, <2>2, Overriding
  <2>4. noted' = [s \in DOMAIN noted' |-> noted'[s]] /\ \A s \in Space : noted'[s] \in Nat
    BY <2>1, <2>2, <2>3, RowsAre DEF Override
  <2>5. noted' \in [Space -> Nat]
    BY <2>3, <2>4
  <2>6. /\ \A s \in DOMAIN rows : noted'[s] = rows[s]
        /\ \A s \in Space \ DOMAIN rows : noted'[s] = noted[s]
    BY <2>1, <2>2, Overriding
  <2> QED  BY <2>2, <2>5, <2>6
<1>3. /\ d \in Nat /\ changes' \in Seq(Entry) /\ N = L + n - d /\ N \in Nat
      /\ DOMAIN changes' = 1 .. N
      /\ d = (IF L + n > LogSize THEN L + n - LogSize ELSE 0)
  BY KeptIs DEF Dropped
<1>4. \A i \in 1 .. N : i + d \in 1 .. L + n /\ changes'[i] = all[i + d]
  BY KeptIs, LongerIs
<1>5. \A i \in 1 .. L + n :
        /\ all[i].revision = revision - L + i
        /\ i <= L => all[i] = changes[i]
        /\ i > L => all[i].space \in DOMAIN rows /\ all[i].row = rows[all[i].space]
  BY LongerIs
<1>6. \A s \in DOMAIN rows : \E i \in 1 .. L + n : i > L /\ all[i].space = s
  BY LongerIs
<1> HIDE DEF n, d, all, L, N
<1>7. n = 0 => DOMAIN rows = {}
  <2> SUFFICES ASSUME n = 0, NEW s \in DOMAIN rows PROVE FALSE
    OBVIOUS
  <2>1. PICK i \in 1 .. L + n : i > L
    BY <1>6
  <2> QED  BY <1>1, <2>1
<1>8. revision' = revision => noted' = noted
  <2> SUFFICES ASSUME revision' = revision PROVE noted' = noted
    OBVIOUS
  <2>1. DOMAIN rows = {}
    BY <1>1, <1>2, <1>7
  <2> QED  BY <1>1, <1>2, <2>1
<1>9. N <= LogSize /\ N <= revision' /\ L <= N /\ (N = 0 => L = 0 /\ n = 0)
  BY <1>1, <1>2, <1>3
<1>10. changes' = <<>> => revision' = 0
  <2> SUFFICES ASSUME changes' = <<>> PROVE revision' = 0
    OBVIOUS
  <2>1. N = 0
    BY DEF N
  <2>2. changes = <<>>
    BY <1>9, <2>1 DEF L, LogInv, LogTyped
  <2> QED  BY <1>1, <1>2, <1>9, <2>1, <2>2
<1>11. \A k \in 1 .. N : changes'[k].revision = revision' - N + k
  <2> TAKE k \in 1 .. N
  <2>1. k + d \in 1 .. L + n /\ changes'[k].revision = revision - L + (k + d)
    BY <1>4, <1>5
  <2> QED  BY <1>1, <1>2, <1>3, <2>1
<1>12. ASSUME NEW k \in 1 .. N,
              \A j \in 1 .. N : j > k => changes'[j].space # changes'[k].space
       PROVE  changes'[k].row = noted'[changes'[k].space]
  <2> DEFINE s == changes'[k].space
  <2>0. /\ k + d \in 1 .. L + n /\ changes'[k] = all[k + d]
        /\ \A i \in 1 .. L + n : i > k + d => all[i].space # s
    <3>1. k + d \in 1 .. L + n /\ changes'[k] = all[k + d]
      BY <1>4
    <3>2. ASSUME NEW i \in 1 .. L + n, i > k + d PROVE all[i].space # s
      <4>1. i - d \in 1 .. N /\ i - d > k /\ (i - d) + d = i
        BY <1>1, <1>3, <3>2
      <4> QED  BY <1>4, <1>12, <4>1
    <3> QED  BY <3>1, <3>2
  <2> HIDE DEF s
  <2>1. CASE k + d > L
    BY <1>2, <1>5, <2>0, <2>1 DEF s
  <2>2. CASE k + d <= L
    <3>1. k + d \in 1 .. L /\ changes'[k] = changes[k + d] /\ s = changes[k + d].space
      <4>1. k + d \in 1 .. L /\ k + d \in 1 .. L + n
        BY <1>1, <1>3, <2>0, <2>2
      <4> QED  BY <1>5, <2>0, <2>2, <4>1 DEF s
    <3>2. s \notin DOMAIN rows
      <4> SUFFICES ASSUME s \in DOMAIN rows PROVE FALSE
        OBVIOUS
      <4>1. PICK i \in 1 .. L + n : i > L /\ all[i].space = s
        BY <1>6
      <4> QED  BY <1>1, <1>3, <2>0, <2>2, <4>1
    <3>3. \A j \in 1 .. L : j > k + d => changes[j].space # s
      <4> TAKE j \in 1 .. L
      <4>1. j \in 1 .. L + n /\ all[j] = changes[j]
        BY <1>1, <1>5
      <4> QED  BY <2>0, <4>1
    <3>4. changes[k + d].row = noted[s] /\ s \in Space
      BY <1>1, <3>1, <3>3, EntryAre DEF LogInv, LogEnds
    <3> QED  BY <1>2, <3>1, <3>2, <3>4 DEF s
  <2> QED  BY <1>1, <1>3, <2>0, <2>1, <2>2
<1>13. ASSUME NEW r \in Nat, r <= revision, Complete(r)'
       PROVE  Complete(r) /\ Changed(r) \union DOMAIN rows \subseteq Changed(r)'
  <2>1. d <= L /\ (L = 0 \/ revision - L + d <= r)
    <3>1. CASE changes' = <<>>
      BY <1>1, <1>3, <1>9, <3>1 DEF N
    <3>2. CASE changes' # <<>>
      <4>1. changes'[1].revision <= r + 1
        BY <1>13, <3>2 DEF Complete
      <4>2. N # 0 /\ 1 \in 1 .. N
        BY <1>3, <3>2 DEF N
      <4>3. changes'[1].revision = revision' - N + 1
        BY <1>11, <4>2
      <4> QED  BY <1>1, <1>2, <1>3, <1>13, <4>1, <4>2, <4>3
    <3> QED  BY <3>1, <3>2
  <2>2. Complete(r)
    <3>1. CASE L = 0
      BY <3>1 DEF Complete, L, LogInv, LogTyped
    <3>2. CASE L # 0
      <4>1. 1 \in 1 .. L /\ changes[1].revision = revision - L + 1
        BY <1>1, <3>2
      <4>2. changes[1].revision <= r + 1
        BY <1>1, <1>3, <1>13, <2>1, <3>2, <4>1
      <4> QED  BY <4>2 DEF Complete
    <3> QED  BY <3>1, <3>2
  <2>3. \A i \in 1 .. L + n : all[i].revision > r =>
           i - d \in 1 .. N /\ changes'[i - d] = all[i]
    <3> TAKE i \in 1 .. L + n
    <3> HAVE all[i].revision > r
    <3>1. revision - L + i > r
      BY <1>5
    <3>2. i > d
      BY <1>1, <1>3, <1>13, <2>1, <3>1
    <3>3. i - d \in 1 .. N /\ (i - d) + d = i
      BY <1>1, <1>3, <3>2
    <3> QED  BY <1>4, <3>3
  <2>4. ASSUME NEW i \in 1 .. L + n, all[i].revision > r PROVE all[i].space \in Changed(r)'
    <3>1. i - d \in 1 .. N /\ changes'[i - d] = all[i]
      BY <2>3, <2>4
    <3> QED  BY <1>3, <2>4, <3>1 DEF Changed
  <2>5. ASSUME NEW s \in Changed(r) PROVE s \in Changed(r)'
    <3>1. PICK k \in 1 .. L : changes[k].revision > r /\ changes[k].space = s
      BY <1>1 DEF Changed
    <3>2. k \in 1 .. L + n /\ all[k] = changes[k]
      BY <1>1, <1>5, <3>1
    <3> QED  BY <2>4, <3>1, <3>2
  <2>6. ASSUME NEW s \in DOMAIN rows PROVE s \in Changed(r)'
    <3>1. PICK i \in 1 .. L + n : i > L /\ all[i].space = s
      BY <1>6
    <3>2. all[i].revision = revision - L + i
      BY <1>5
    <3>3. all[i].revision > r
      BY <1>1, <1>13, <3>1, <3>2
    <3> QED  BY <2>4, <3>1, <3>3
  <2> QED  BY <2>2, <2>5, <2>6
<1>14. LogInv'
  <2>1. Len(changes') = N /\ DOMAIN changes' = 1 .. N /\ revision' \in Nat
    BY <1>1, <1>2, <1>3 DEF N
  <2>2. LogTyped'
    BY <1>2, <1>3, <2>1 DEF LogTyped
  <2>3. LogKept'
    BY <1>9, <1>10, <1>11, <2>1 DEF LogKept
  <2>4. LogEnds'
    BY <1>12, <2>1 DEF LogEnds
  <2> QED  BY <2>2, <2>3, <2>4 DEF LogInv
<1> QED  BY <1>1, <1>2, <1>8, <1>13, <1>14
-----------------------------------------------------------------------------
(* What is on its way: from WhatsApp to the log, from the log to storage      *)

Owners == CatalogCall \union {NoCatalog}
Message == [rows : Rows, call : Owners, part : Part \union {"event"}]
Write == [call : Owners, rows : Rows]

WireTyped == actual \in [Space -> Nat] /\ wire \in Seq(Message)
QueueTyped == backlog \in Seq(Rows) /\ writes \in Seq(Write) /\ stored \in [Space -> Nat]

\* What is on the wire is not older than what was noted, and comes in order.
WireOrdered ==
  /\ \A s \in Space : noted[s] <= actual[s]
  /\ \A k \in DOMAIN wire : \A s \in DOMAIN wire[k].rows :
       noted[s] <= wire[k].rows[s] /\ wire[k].rows[s] <= actual[s]
  /\ \A k \in DOMAIN wire : \A j \in 1 .. k :
       \A s \in DOMAIN wire[k].rows \intersect DOMAIN wire[j].rows :
         wire[j].rows[s] <= wire[k].rows[s]
AnswersWhole ==
  \A k \in DOMAIN wire : wire[k].call # NoCatalog =>
    wire[k].part \in Part /\ DOMAIN wire[k].rows = Listed[wire[k].part]
WireInv == WireTyped /\ WireOrdered /\ AnswersWhole

LEMMA MessagesAre ==
  ASSUME WireTyped
  PROVE  /\ Len(wire) \in Nat /\ DOMAIN wire = 1 .. Len(wire)
         /\ \A k \in DOMAIN wire : wire[k] \in Message
         /\ \A k \in DOMAIN wire : /\ wire[k].rows \in Rows /\ wire[k].call \in Owners
                                   /\ DOMAIN wire[k].rows \subseteq Space
                                   /\ \A s \in DOMAIN wire[k].rows : wire[k].rows[s] \in Nat
<1>1. Len(wire) \in Nat /\ DOMAIN wire = 1 .. Len(wire) /\ \A k \in DOMAIN wire : wire[k] \in Message
  BY DEF WireTyped
<1>2. \A k \in DOMAIN wire : wire[k].rows \in Rows /\ wire[k].call \in Owners
  BY <1>1 DEF Message
<1> QED  BY <1>1, <1>2, RowsAre

\* WhatsApp sends what it has.
LEMMA SentInv ==
  ASSUME LogInv, WireInv, actual' \in [Space -> Nat], \A s \in Space : actual[s] <= actual'[s],
         NEW rows \in Rows, NEW call \in Owners, NEW part \in Part \union {"event"},
         \A s \in DOMAIN rows : rows[s] = actual'[s],
         call # NoCatalog => part \in Part /\ DOMAIN rows = Listed[part],
         Emits(rows, call, part), UNCHANGED logVars
  PROVE  WireInv'
<1> DEFINE m == [rows |-> rows, call |-> call, part |-> part]
           n == Len(wire)
<1>1. noted \in [Space -> Nat] /\ noted' = noted /\ actual \in [Space -> Nat]
  BY DEF LogInv, LogTyped, WireInv, WireTyped, logVars
<1>2. m \in Message /\ m.rows = rows /\ m.call = call /\ m.part = part
  BY DEF Message
<1>3. n \in Nat /\ DOMAIN wire = 1 .. n /\ wire \in Seq(Message)
  BY MessagesAre DEF WireInv, WireTyped
<1>4. wire' = Append(wire, m)
  BY DEF Emits
<1>r. \A k \in 1 .. n : DOMAIN wire[k].rows \subseteq Space /\ \A s \in DOMAIN wire[k].rows : wire[k].rows[s] \in Nat
  BY <1>3, MessagesAre DEF WireInv
<1>s. DOMAIN rows \subseteq Space /\ \A s \in DOMAIN rows : rows[s] \in Nat
  BY RowsAre
<1> HIDE DEF m
<1>5. /\ wire' \in Seq(Message) /\ DOMAIN wire' = 1 .. n + 1
      /\ \A k \in 1 .. n : wire'[k] = wire[k]
      /\ wire'[n + 1] = m
  BY <1>2, <1>3, <1>4, AppendProperties
<1> HIDE DEF n
<1>6. \A k \in 1 .. n + 1 : k \in 1 .. n \/ k = n + 1
  BY <1>3
<1>7. WireTyped'
  BY <1>5 DEF WireTyped
<1>8. \A s \in Space : noted'[s] <= actual'[s]
  BY <1>1 DEF WireInv, WireOrdered
<1>9. ASSUME NEW k \in 1 .. n + 1, NEW s \in DOMAIN wire'[k].rows
      PROVE  noted'[s] <= wire'[k].rows[s] /\ wire'[k].rows[s] <= actual'[s]
  <2>1. CASE k \in 1 .. n
    <3>1. /\ s \in Space /\ wire[k].rows[s] \in Nat
          /\ noted[s] <= wire[k].rows[s] /\ wire[k].rows[s] <= actual[s]
      BY <1>3, <1>5, <1>9, <1>r, <2>1 DEF WireInv, WireOrdered
    <3> QED  BY <1>1, <1>5, <2>1, <3>1
  <2>2. CASE k = n + 1
    BY <1>1, <1>2, <1>5, <1>8, <1>9, <1>s, <2>2
  <2> QED  BY <1>6, <2>1, <2>2
<1>10. ASSUME NEW k \in 1 .. n + 1, NEW j \in 1 .. k,
              NEW s \in DOMAIN wire'[k].rows \intersect DOMAIN wire'[j].rows
       PROVE  wire'[j].rows[s] <= wire'[k].rows[s]
  <2>1. CASE k \in 1 .. n
    <3>1. j \in 1 .. n
      BY <1>3, <2>1
    <3> QED  BY <1>3, <1>5, <1>10, <2>1, <3>1 DEF WireInv, WireOrdered
  <2>2. CASE k = n + 1 /\ j = n + 1
    BY <1>2, <1>5, <1>s, <2>2
  <2>3. CASE k = n + 1 /\ j \in 1 .. n
    <3>1. s \in Space /\ wire[j].rows[s] \in Nat /\ wire[j].rows[s] <= actual[s]
      BY <1>3, <1>5, <1>10, <1>r, <2>3 DEF WireInv, WireOrdered
    <3>2. wire'[k].rows[s] = actual'[s] /\ wire'[j] = wire[j]
      BY <1>2, <1>5, <1>10, <2>3
    <3> QED  BY <1>1, <3>1, <3>2
  <2>4. j \in 1 .. n + 1
    BY <1>3
  <2> QED  BY <1>6, <2>1, <2>2, <2>3, <2>4
<1>11. WireOrdered'
  BY <1>5, <1>8, <1>9, <1>10 DEF WireOrdered
<1>12. AnswersWhole'
  BY <1>2, <1>3, <1>5, <1>6 DEF WireInv, AnswersWhole
<1> QED  BY <1>7, <1>11, <1>12 DEF WireInv

\* What arrives is noted.
LEMMA ArrivedInv ==
  ASSUME LogInv, WireInv, wire # <<>>, wire' = Tail(wire), actual' = actual,
         noted' = Override(wire[1].rows, noted)
  PROVE  WireInv' /\ \A s \in Space : noted[s] <= noted'[s]
<1> DEFINE n == Len(wire)
<1>1. /\ noted \in [Space -> Nat] /\ noted \in Rows /\ DOMAIN noted = Space
      /\ actual \in [Space -> Nat]
  <2>1. noted \in [Space -> Nat] /\ actual \in [Space -> Nat]
    BY DEF LogInv, LogTyped, WireInv, WireTyped
  <2> QED  BY <2>1, RowsAre
<1>2. n \in Nat /\ DOMAIN wire = 1 .. n /\ wire \in Seq(Message)
  BY MessagesAre DEF WireInv, WireTyped
<1>3. \A k \in 1 .. n : /\ wire[k].rows \in Rows /\ DOMAIN wire[k].rows \subseteq Space
                        /\ \A s \in DOMAIN wire[k].rows : wire[k].rows[s] \in Nat
  BY <1>2, MessagesAre DEF WireInv
<1>4. /\ n # 0 /\ wire' \in Seq(Message) /\ DOMAIN wire' = 1 .. n - 1
      /\ \A k \in 1 .. n - 1 : wire'[k] = wire[k + 1] /\ k + 1 \in 1 .. n
  BY <1>2, HeadTailProperties
<1>5. /\ \A s \in DOMAIN wire[1].rows : noted'[s] = wire[1].rows[s]
      /\ \A s \in Space \ DOMAIN wire[1].rows : noted'[s] = noted[s]
      /\ 1 \in 1 .. n
  <2>1. 1 \in 1 .. n
    BY <1>2, <1>4
  <2>2. wire[1].rows \in Rows
    BY <1>3, <2>1
  <2>3. /\ \A s \in DOMAIN wire[1].rows : Override(wire[1].rows, noted)[s] = wire[1].rows[s]
        /\ \A s \in DOMAIN noted \ DOMAIN wire[1].rows :
             Override(wire[1].rows, noted)[s] = noted[s]
    BY <1>1, <2>2, Overriding
  <2> QED  BY <1>1, <2>1, <2>3
<1> HIDE DEF n
<1>6. \A s \in Space : noted[s] <= noted'[s] /\ noted'[s] <= actual'[s] /\ noted'[s] \in Nat
  <2> TAKE s \in Space
  <2>1. noted[s] \in Nat /\ noted[s] <= actual[s]
    BY <1>1 DEF WireInv, WireOrdered
  <2>2. CASE s \in DOMAIN wire[1].rows
    BY <1>1, <1>2, <1>3, <1>5, <2>2 DEF WireInv, WireOrdered
  <2>3. CASE s \notin DOMAIN wire[1].rows
    BY <1>1, <1>5, <2>1, <2>3
  <2> QED  BY <2>2, <2>3
<1>7. ASSUME NEW k \in 1 .. n - 1, NEW s \in DOMAIN wire'[k].rows
      PROVE  noted'[s] <= wire'[k].rows[s] /\ wire'[k].rows[s] <= actual'[s]
  <2>1. /\ k + 1 \in 1 .. n /\ wire'[k] = wire[k + 1] /\ 1 \in 1 .. k + 1 /\ s \in Space
    BY <1>2, <1>3, <1>4, <1>7
  <2>2. noted[s] <= wire[k + 1].rows[s] /\ wire[k + 1].rows[s] <= actual[s]
    BY <1>2, <1>7, <2>1 DEF WireInv, WireOrdered
  <2>3. s \in DOMAIN wire[1].rows => wire[1].rows[s] <= wire[k + 1].rows[s]
    BY <1>2, <1>7, <2>1 DEF WireInv, WireOrdered
  <2> QED  BY <1>5, <2>1, <2>2, <2>3
<1>8. ASSUME NEW k \in 1 .. n - 1, NEW j \in 1 .. k,
             NEW s \in DOMAIN wire'[k].rows \intersect DOMAIN wire'[j].rows
      PROVE  wire'[j].rows[s] <= wire'[k].rows[s]
  <2>1. /\ k + 1 \in 1 .. n /\ j + 1 \in 1 .. k + 1 /\ j \in 1 .. n - 1
        /\ wire'[k] = wire[k + 1] /\ wire'[j] = wire[j + 1]
    BY <1>2, <1>4
  <2> QED  BY <1>2, <1>8, <2>1 DEF WireInv, WireOrdered
<1>9. WireTyped' /\ WireOrdered' /\ AnswersWhole'
  BY <1>1, <1>2, <1>4, <1>6, <1>7, <1>8 DEF WireTyped, WireOrdered, WireInv, AnswersWhole
<1> QED  BY <1>6, <1>9 DEF WireInv
-----------------------------------------------------------------------------
(* The calls                                                                  *)

CatalogStage == {"none", "reading", "offline", "fetching", "saving", "done", "failed"}

CallTyped ==
  /\ asked \in [CatalogCall -> [owner : Owners, known : [Space -> Nat]]]
  /\ cached \in Owners
  /\ collecting \in [CatalogCall -> CatalogStage]
  /\ began \in [CatalogCall -> Nat] /\ observed \in [CatalogCall -> Nat]
  /\ records \in [CatalogCall -> Rows] /\ gathered \in [CatalogCall -> Rows]
  /\ awaited \in [CatalogCall -> SUBSET Part] /\ missing \in [CatalogCall -> SUBSET Part]
  /\ open \in [CatalogCall -> SUBSET Part]
  /\ available \in [CatalogCall -> BOOLEAN] /\ partial \in [CatalogCall -> BOOLEAN]
  /\ overrun \in [CatalogCall -> BOOLEAN]

\* A call is answered by one that collects for itself; the cache has its result or its promise.
AskInv ==
  /\ \A c \in CatalogCall :
       /\ asked[c].owner # NoCatalog =>
            asked[asked[c].owner].owner = asked[c].owner /\ collecting[asked[c].owner] # "none"
       /\ collecting[c] # "none" => asked[c].owner = c
       /\ \A s \in Space : asked[c].known[s] <= noted[s]
       /\ began[c] <= revision /\ observed[c] <= revision
  /\ cached # NoCatalog =>
       asked[cached].owner = cached /\ collecting[cached] \notin {"none", "offline", "failed"}

\* What each stage of a call has established.
StageInv ==
  \A c \in CatalogCall :
    /\ awaited[c] # {} => collecting[c] = "fetching"
    /\ collecting[c] \in {"none", "reading", "offline"} =>
         missing[c] = {} /\ DOMAIN gathered[c] = {}
    /\ available[c] => collecting[c] \in {"saving", "done", "failed"}
    /\ collecting[c] \in {"fetching", "saving", "done"} => DOMAIN records[c] = Space
    /\ collecting[c] = "saving" /\ ~partial[c] => missing[c] = {}

\* As long as the log reaches back to the start of a call, it has all that was answered to it.
HeardInv ==
  \A c \in CatalogCall :
    collecting[c] \in {"fetching", "saving"} /\ Complete(began[c]) =>
      /\ collecting[c] = "fetching" => DOMAIN gathered[c] \subseteq Changed(began[c])
      /\ \A p \in Part \ (awaited[c] \union missing[c]) : Listed[p] \subseteq Changed(began[c])

\* A call that saves has one write under way.
SavingInv ==
  \A k \in DOMAIN writes : writes[k].call # NoCatalog =>
    /\ collecting[writes[k].call] = "saving"
    /\ \A j \in DOMAIN writes : writes[j].call = writes[k].call => j = k

\* A full catalogue has what its callers knew and, as long as it may be shared, what is noted.
Full(o) == collecting[o] = "done" /\ available[o] /\ ~partial[o] /\ ~overrun[o]
FreshInv ==
  \A o \in CatalogCall : Full(o) =>
    /\ \A c \in CatalogCall : asked[c].owner = o =>
         \A s \in Space : asked[c].known[s] <= records[o][s]
    /\ observed[o] = revision => \A s \in Space : noted[s] <= records[o][s]

\* What is on its way to storage ends with what was noted.
Waiting(s) == \E k \in DOMAIN backlog : s \in DOMAIN backlog[k]
Followed(k, s) ==
  \E j \in DOMAIN writes : j > k /\ writes[j].call = NoCatalog /\ s \in DOMAIN writes[j].rows
LastWaits ==
  \A k \in DOMAIN backlog : \A s \in DOMAIN backlog[k] :
    (\A j \in DOMAIN backlog : j > k => s \notin DOMAIN backlog[j]) => backlog[k][s] = noted[s]
LastWrites ==
  \A k \in DOMAIN writes : \A s \in DOMAIN writes[k].rows :
    ~Waiting(s) /\ ~Followed(k, s) => writes[k].rows[s] = noted[s]
RestStored == \A s \in Space : ~Waiting(s) /\ ~Followed(0, s) => stored[s] = noted[s]
StoreInv == connected => LastWaits /\ LastWrites /\ RestStored

CatalogInv ==
  /\ LogInv /\ WireInv /\ QueueTyped /\ CallTyped
  /\ AskInv /\ StageInv /\ HeardInv /\ SavingInv /\ FreshInv /\ StoreInv

LEMMA CatalogInvInit == CatalogInit => CatalogInv
<1> SUFFICES ASSUME CatalogInit PROVE CatalogInv
  OBVIOUS
<1> USE DEF CatalogInit, OfCalls
<1>1. /\ [s \in Space |-> 0] \in Rows /\ NoRows \in Rows /\ DOMAIN NoRows = {}
      /\ [s \in Space |-> 0] \in [Space -> Nat]
  <2>1. [s \in Space |-> 0] \in [Space -> Nat]
    OBVIOUS
  <2> QED  BY <2>1, RowsAre
<1>2. LogInv
  BY <1>1, CatalogAssumption DEF LogInv, LogTyped, LogKept, LogEnds
<1>3. WireInv
  BY <1>1 DEF WireInv, WireTyped, WireOrdered, AnswersWhole
<1>4. QueueTyped
  BY <1>1 DEF QueueTyped
<1>5. CallTyped
  <2>1. NotAsked \in [owner : Owners, known : [Space -> Nat]]
    BY DEF NotAsked, Owners
  <2> QED  BY <1>1, <2>1 DEF CallTyped, Owners, CatalogStage
<1>6. AskInv
  BY DEF AskInv, NotAsked
<1>7. StageInv /\ HeardInv /\ SavingInv /\ FreshInv
  BY <1>1 DEF StageInv, HeardInv, SavingInv, FreshInv, Full
<1>8. StoreInv
  BY DEF StoreInv, LastWaits, LastWrites, RestStored
<1> QED  BY <1>2, <1>3, <1>4, <1>5, <1>6, <1>7, <1>8 DEF CatalogInv

(* What a step leaves alone stays right.                                      *)
LEMMA Unchanging ==
  /\ LogInv /\ UNCHANGED logVars => LogInv'
  /\ WireInv /\ UNCHANGED <<actual, wire, noted>> => WireInv'
  /\ QueueTyped /\ UNCHANGED <<backlog, writes, stored>> => QueueTyped'
  /\ AskInv /\ UNCHANGED <<asked, began, observed, collecting, cached, noted, revision>> => AskInv'
  /\ StageInv /\ UNCHANGED <<collecting, awaited, missing, gathered, available, partial, records>>
       => StageInv'
  /\ HeardInv /\ UNCHANGED <<collecting, began, awaited, missing, gathered, logVars>> => HeardInv'
  /\ SavingInv /\ UNCHANGED <<writes, collecting>> => SavingInv'
  /\ FreshInv /\ UNCHANGED <<collecting, available, partial, overrun, asked, records, observed,
                             logVars>> => FreshInv'
  /\ StoreInv /\ UNCHANGED <<connected, backlog, writes, stored, noted>> => StoreInv'
<1>1. LogInv /\ UNCHANGED logVars => LogInv'
  BY DEF LogInv, LogTyped, LogKept, LogEnds, logVars
<1>2. WireInv /\ UNCHANGED <<actual, wire, noted>> => WireInv'
  BY DEF WireInv, WireTyped, WireOrdered, AnswersWhole
<1>3. QueueTyped /\ UNCHANGED <<backlog, writes, stored>> => QueueTyped'
  BY DEF QueueTyped
<1>4. AskInv /\ UNCHANGED <<asked, began, observed, collecting, cached, noted, revision>> => AskInv'
  BY DEF AskInv
<1>5. StageInv /\ UNCHANGED <<collecting, awaited, missing, gathered, available, partial, records>>
        => StageInv'
  BY DEF StageInv
<1>6. HeardInv /\ UNCHANGED <<collecting, began, awaited, missing, gathered, logVars>> => HeardInv'
  BY DEF HeardInv, Complete, Changed, logVars
<1>7. SavingInv /\ UNCHANGED <<writes, collecting>> => SavingInv'
  BY DEF SavingInv
<1>8. FreshInv /\ UNCHANGED <<collecting, available, partial, overrun, asked, records, observed,
                              logVars>> => FreshInv'
  BY DEF FreshInv, Full, logVars
<1>9. StoreInv /\ UNCHANGED <<connected, backlog, writes, stored, noted>> => StoreInv'
  BY DEF StoreInv, LastWaits, LastWrites, RestStored, Waiting, Followed
<1> QED  BY <1>1, <1>2, <1>3, <1>4, <1>5, <1>6, <1>7, <1>8, <1>9
-----------------------------------------------------------------------------
(* The steps                                                                  *)

LEMMA WhatsAppKeeps ==
  ASSUME CatalogInv,
         (\E s \in Space : SpaceChanges(s))
           \/ (\E c \in CatalogCall, p \in Part : QueryAnswered(c, p))
  PROVE  CatalogInv'
<1>1. actual \in [Space -> Nat] /\ NoCatalog \in Owners /\ CatalogCall \subseteq Owners
  BY DEF CatalogInv, WireInv, WireTyped, Owners
<1>2. /\ UNCHANGED <<logVars, noted, revision, backlog, writes, stored, connected, asked, began, observed,
                     collecting, cached, awaited, missing, gathered, available, partial, records,
                     overrun>>
      /\ open' \in [CatalogCall -> SUBSET Part]
  <2>1. CASE \E s \in Space : SpaceChanges(s)
    BY <2>1 DEF SpaceChanges, logVars, callVars, workVars, fetchVars, resultVars, CatalogInv, CallTyped
  <2>2. ASSUME NEW c \in CatalogCall, NEW p \in Part, QueryAnswered(c, p)
        PROVE  /\ UNCHANGED <<logVars, noted, revision, backlog, writes, stored, connected, asked, began, observed,
                     collecting, cached, awaited, missing, gathered, available, partial, records,
                     overrun>>
               /\ open' \in [CatalogCall -> SUBSET Part]
    BY <2>2 DEF QueryAnswered, logVars, callVars, workVars, fetchVars, resultVars, CatalogInv, CallTyped
  <2> QED  BY <2>1, <2>2
<1>3. WireInv'
  <2>1. ASSUME NEW s \in Space, SpaceChanges(s) PROVE WireInv'
    <3> DEFINE rows == [t \in {s} |-> actual'[t]]
    <3>1. /\ actual' = [actual EXCEPT ![s] = @ + 1] /\ UNCHANGED logVars
          /\ Emits(rows, NoCatalog, "event")
      BY <2>1 DEF SpaceChanges
    <3>2. /\ actual' \in [Space -> Nat] /\ \A t \in Space : actual[t] <= actual'[t]
      BY <1>1, <3>1
    <3>3. rows \in [{s} -> Nat] /\ \A t \in DOMAIN rows : rows[t] = actual'[t]
      BY <3>2
    <3>4. rows \in Rows
      BY <3>3, RowsAre
    <3> HIDE DEF rows
    <3> QED  BY <1>1, <3>1, <3>2, <3>3, <3>4, SentInv DEF CatalogInv
  <2>2. ASSUME NEW c \in CatalogCall, NEW p \in Part, QueryAnswered(c, p) PROVE WireInv'
    <3> DEFINE rows == [s \in Listed[p] |-> actual[s]]
    <3>1. actual' = actual /\ UNCHANGED logVars /\ Emits(rows, c, p)
      BY <2>2 DEF QueryAnswered
    <3>2. Listed[p] \in SUBSET Space
      BY CatalogAssumption
    <3>3. /\ rows \in [Listed[p] -> Nat] /\ \A t \in DOMAIN rows : rows[t] = actual'[t]
          /\ DOMAIN rows = Listed[p] /\ \A t \in Space : actual[t] <= actual'[t]
      BY <1>1, <3>1, <3>2
    <3>4. rows \in Rows
      BY <3>2, <3>3, RowsAre
    <3> HIDE DEF rows
    <3> QED  BY <1>1, <3>1, <3>3, <3>4, SentInv DEF CatalogInv
  <2> QED  BY <2>1, <2>2
<1>4. CallTyped'
  BY <1>2 DEF CatalogInv, CallTyped
<1> QED  BY <1>2, <1>3, <1>4, Unchanging DEF CatalogInv

LEMMA MishapKeeps ==
  ASSUME CatalogInv,
         SocketLost \/ CacheExpires \/ (\E c \in CatalogCall, p \in Part : QueryFails(c, p))
  PROVE  CatalogInv'
<1>1. CASE SocketLost
  <2>1. /\ UNCHANGED <<actual, logVars, noted, revision, writes, stored, asked, began, observed,
                       collecting, cached, awaited, missing, gathered, available, partial, records,
                       overrun>>
        /\ wire' = <<>> /\ backlog' = <<>> /\ connected' = FALSE /\ open' \in [CatalogCall -> SUBSET Part]
    BY <1>1 DEF SocketLost, logVars, callVars, workVars, resultVars, OfCalls
  <2>2. WireInv' /\ QueueTyped' /\ CallTyped' /\ StoreInv'
    BY <2>1 DEF CatalogInv, WireInv, WireTyped, WireOrdered, AnswersWhole, QueueTyped, CallTyped, StoreInv
  <2> QED  BY <2>1, <2>2, Unchanging DEF CatalogInv
<1>2. CASE CacheExpires
  <2>1. /\ UNCHANGED <<worldVars, actual, wire, connected, backlog, logVars, noted, revision, writes,
                       stored, asked, began, observed, collecting, open, awaited, missing, gathered,
                       available, partial, records, overrun>>
        /\ cached' = NoCatalog
    BY <1>2 DEF CacheExpires, worldVars, logVars, callVars, workVars, fetchVars, resultVars
  <2>2. CallTyped' /\ AskInv'
    BY <2>1 DEF CatalogInv, CallTyped, AskInv, Owners
  <2> QED  BY <2>1, <2>2, Unchanging DEF CatalogInv
<1>3. ASSUME NEW c \in CatalogCall, NEW p \in Part, QueryFails(c, p) PROVE CatalogInv'
  <2>1. /\ UNCHANGED <<worldVars, actual, wire, connected, backlog, logVars, noted, revision, writes,
                       stored, asked, began, observed, collecting, open, cached, gathered,
                       available, partial, records, overrun>>
        /\ p \in awaited[c]
        /\ awaited' = [awaited EXCEPT ![c] = @ \ {p}]
        /\ missing' = [missing EXCEPT ![c] = @ \union {p}]
    BY <1>3 DEF QueryFails, worldVars, logVars, callVars, workVars, resultVars
  <2>2. CallTyped'
    BY <2>1 DEF CatalogInv, CallTyped
  <2>3. StageInv'
    BY <2>1 DEF CatalogInv, CallTyped, StageInv
  <2>4. HeardInv'
    <3>1. \A d \in CatalogCall : awaited[d] \union missing[d] = awaited'[d] \union missing'[d]
      BY <2>1 DEF CatalogInv, CallTyped
    <3> QED  BY <2>1, <3>1 DEF CatalogInv, HeardInv, Complete, Changed, logVars
  <2> QED  BY <2>1, <2>2, <2>3, <2>4, Unchanging DEF CatalogInv
<1> QED  BY <1>1, <1>2, <1>3

LEMMA CallAsks ==
  ASSUME CatalogInv, NEW c \in CatalogCall, AskCatalog(c)
  PROVE  CatalogInv'
<1>0. /\ asked[c].owner = NoCatalog /\ NoCatalog \notin CatalogCall
      /\ revision \in Nat /\ noted \in [Space -> Nat]
      /\ UNCHANGED <<worldVars, actual, wire, connected, backlog, logVars, noted, revision, writes,
                     stored, open, awaited, missing, gathered, available, partial, records, overrun>>
  BY CatalogAssumption DEF AskCatalog, worldVars, logVars, fetchVars, resultVars, CatalogInv, LogInv, LogTyped
<1>n. collecting[c] = "none"
  BY <1>0 DEF CatalogInv, AskInv
<1>t. CallTyped
  BY DEF CatalogInv
<1>1. CASE connected /\ CacheValid
  <2>1. /\ cached # NoCatalog /\ observed[cached] = revision /\ cached \in CatalogCall
        /\ asked' = [asked EXCEPT ![c] = [owner |-> cached, known |-> noted]]
        /\ UNCHANGED <<began, observed, collecting, cached>>
        /\ asked[cached].owner = cached /\ collecting[cached] # "none" /\ cached # c
    BY <1>0, <1>1, <1>t, <1>n DEF AskCatalog, CacheValid, CatalogInv, CallTyped, Owners, AskInv
  <2>2. [owner |-> cached, known |-> noted] \in [owner : Owners, known : [Space -> Nat]]
    BY <1>0, <2>1 DEF Owners
  <2>3. /\ asked'[c].owner = cached /\ asked'[c].known = noted
        /\ \A d \in CatalogCall \ {c} : asked'[d] = asked[d]
    BY <1>t, <2>1 DEF CallTyped
  <2>4. CallTyped'
    BY <1>0, <1>t, <2>1, <2>2 DEF CallTyped
  <2>5. AskInv'
    <3>1. ASSUME NEW d \in CatalogCall
          PROVE  /\ asked'[d].owner # NoCatalog =>
                      asked'[asked'[d].owner].owner = asked'[d].owner /\ collecting'[asked'[d].owner] # "none"
                 /\ collecting'[d] # "none" => asked'[d].owner = d
                 /\ \A s \in Space : asked'[d].known[s] <= noted'[s]
                 /\ began'[d] <= revision' /\ observed'[d] <= revision'
      <4>1. CASE d = c
        BY <1>0, <1>n, <2>1, <2>3, <4>1 DEF CatalogInv, AskInv
      <4>2. CASE d # c
        <5>1. asked[d].owner \in Owners
          BY <1>t DEF CallTyped
        <5>2. asked[d].owner # NoCatalog => asked[d].owner # c /\ asked[d].owner \in CatalogCall
          BY <1>0, <1>n, <5>1 DEF CatalogInv, AskInv, Owners
        <5> QED  BY <1>0, <2>1, <2>3, <4>2, <5>2 DEF CatalogInv, AskInv
      <4> QED  BY <4>1, <4>2
    <3> QED  BY <2>1, <2>3, <3>1 DEF CatalogInv, AskInv
  <2>6. FreshInv'
    <3> SUFFICES ASSUME NEW o \in CatalogCall, Full(o)'
                 PROVE  /\ \A d \in CatalogCall : asked'[d].owner = o =>
                             \A s \in Space : asked'[d].known[s] <= records[o][s]
                        /\ observed[o] = revision => \A s \in Space : noted[s] <= records[o][s]
      BY <1>0, <2>1 DEF FreshInv
    <3>1. Full(o)
      BY <1>0, <2>1 DEF Full
    <3> QED  BY <2>1, <2>3, <3>1 DEF CatalogInv, FreshInv
  <2> QED  BY <1>0, <2>1, <2>4, <2>5, <2>6, Unchanging DEF CatalogInv
<1>2. CASE ~(connected /\ CacheValid)
  <2>1. /\ asked' = [asked EXCEPT ![c] = [owner |-> c, known |-> noted]]
        /\ began' = [began EXCEPT ![c] = revision]
        /\ observed' = [observed EXCEPT ![c] = revision]
        /\ collecting' = [collecting EXCEPT ![c] = IF connected THEN "reading" ELSE "offline"]
        /\ cached' = IF connected THEN c ELSE cached
    BY <1>2 DEF AskCatalog
  <2>2. [owner |-> c, known |-> noted] \in [owner : Owners, known : [Space -> Nat]]
    BY <1>0 DEF Owners
  <2>3. /\ asked'[c].owner = c /\ asked'[c].known = noted
        /\ \A d \in CatalogCall \ {c} : asked'[d] = asked[d]
        /\ collecting'[c] \in {"reading", "offline"} /\ began'[c] = revision /\ observed'[c] = revision
        /\ connected => collecting'[c] = "reading"
        /\ \A d \in CatalogCall \ {c} : /\ collecting'[d] = collecting[d] /\ began'[d] = began[d]
                                        /\ observed'[d] = observed[d]
    BY <1>t, <2>1 DEF CallTyped
  <2>4. CallTyped'
    BY <1>0, <1>t, <2>1, <2>2 DEF CallTyped, CatalogStage, Owners
  <2>5. AskInv'
    <3>1. ASSUME NEW d \in CatalogCall
          PROVE  /\ asked'[d].owner # NoCatalog =>
                      asked'[asked'[d].owner].owner = asked'[d].owner /\ collecting'[asked'[d].owner] # "none"
                 /\ collecting'[d] # "none" => asked'[d].owner = d
                 /\ \A s \in Space : asked'[d].known[s] <= noted'[s]
                 /\ began'[d] <= revision' /\ observed'[d] <= revision'
      <4>1. CASE d = c
        BY <1>0, <2>3, <4>1
      <4>2. CASE d # c
        <5>1. asked[d].owner \in Owners
          BY <1>t DEF CallTyped
        <5>2. asked[d].owner # NoCatalog => asked[d].owner # c /\ asked[d].owner \in CatalogCall
          BY <1>0, <1>n, <5>1 DEF CatalogInv, AskInv, Owners
        <5> QED  BY <1>0, <2>3, <4>2, <5>2 DEF CatalogInv, AskInv
      <4> QED  BY <4>1, <4>2
    <3>2. cached' # NoCatalog =>
            asked'[cached'].owner = cached' /\ collecting'[cached'] \notin {"none", "offline", "failed"}
      <4>1. CASE connected
        BY <2>1, <2>3, <4>1
      <4>2. CASE ~connected
        <5>1. cached' = cached /\ cached \in Owners
          BY <1>t, <2>1, <4>2 DEF CallTyped
        <5>2. cached # NoCatalog => cached # c /\ cached \in CatalogCall
          BY <1>n, <5>1 DEF CatalogInv, AskInv, Owners
        <5> QED  BY <2>3, <5>1, <5>2 DEF CatalogInv, AskInv
      <4> QED  BY <4>1, <4>2
    <3> QED  BY <3>1, <3>2 DEF AskInv
  <2>6. StageInv'
    BY <1>0, <1>n, <2>3 DEF CatalogInv, StageInv
  <2>7. HeardInv'
    BY <1>0, <2>3 DEF CatalogInv, HeardInv, Complete, Changed, logVars
  <2>8. SavingInv'
    <3>1. \A k \in DOMAIN writes : writes[k].call # NoCatalog => writes[k].call \in CatalogCall
      <4>1. \A k \in DOMAIN writes : writes[k] \in Write
        BY DEF CatalogInv, QueueTyped
      <4> QED  BY <4>1 DEF Write, Owners
    <3> QED  BY <1>0, <1>n, <2>3, <3>1 DEF CatalogInv, SavingInv
  <2>9. FreshInv'
    <3> SUFFICES ASSUME NEW o \in CatalogCall, Full(o)'
                 PROVE  /\ \A d \in CatalogCall : asked'[d].owner = o =>
                             \A s \in Space : asked'[d].known[s] <= records[o][s]
                        /\ observed'[o] = revision => \A s \in Space : noted[s] <= records[o][s]
      BY <1>0 DEF FreshInv
    <3>1. Full(o) /\ o # c
      BY <1>0, <2>3 DEF Full
    <3> QED  BY <2>3, <3>1 DEF CatalogInv, FreshInv
  <2> QED  BY <1>0, <2>4, <2>5, <2>6, <2>7, <2>8, <2>9, Unchanging DEF CatalogInv
<1> QED  BY <1>1, <1>2
LEMMA ReadKeeps ==
  ASSUME CatalogInv, NEW c \in CatalogCall, ReadSpaces(c)
  PROVE  CatalogInv'
<1>0. /\ collecting[c] \in {"reading", "offline"} /\ NoCatalog \notin CatalogCall
      /\ stored \in [Space -> Nat] /\ stored \in Rows
      /\ UNCHANGED <<worldVars, actual, wire, connected, backlog, logVars, noted, revision, writes,
                     stored, asked, began, observed, missing, gathered, available, partial, overrun>>
  <2>1. stored \in [Space -> Nat]
    BY DEF CatalogInv, QueueTyped
  <2> QED
    BY <2>1, RowsAre, CatalogAssumption
    DEF ReadSpaces, worldVars, logVars, callVars, resultVars
<1>t. CallTyped
  BY DEF CatalogInv
<1>s. /\ awaited[c] = {} /\ missing[c] = {} /\ ~available[c] /\ collecting[c] # "saving"
      /\ DOMAIN gathered[c] = {}
  BY <1>0, <1>t DEF CatalogInv, StageInv, CallTyped
<1>w. \A k \in DOMAIN writes : writes[k].call # NoCatalog =>
        writes[k].call \in CatalogCall /\ writes[k].call # c
  <2>1. \A k \in DOMAIN writes : writes[k] \in Write
    BY DEF CatalogInv, QueueTyped
  <2> QED  BY <1>s, <2>1 DEF Write, Owners, CatalogInv, SavingInv
<1>1. \/ /\ records' = [records EXCEPT ![c] = stored]
         /\ collecting' = [collecting EXCEPT ![c] = IF @ = "reading" THEN "fetching" ELSE "done"]
         /\ awaited' = [awaited EXCEPT ![c] = IF collecting[c] = "reading" THEN Part ELSE {}]
         /\ open' = [open EXCEPT ![c] = IF connected THEN awaited'[c] ELSE {}]
         /\ UNCHANGED cached
      \/ /\ CatalogRejected(c) /\ UNCHANGED <<records, open, awaited>>
  BY DEF ReadSpaces
<1>2. /\ collecting' = [collecting EXCEPT ![c] = collecting'[c]]
      /\ collecting'[c] \in {"fetching", "done", "failed"}
      /\ awaited' = [awaited EXCEPT ![c] = awaited'[c]]
      /\ awaited'[c] # {} => collecting'[c] = "fetching"
      /\ collecting'[c] = "fetching" => awaited'[c] = Part
      /\ awaited'[c] \subseteq Part
      /\ open' \in [CatalogCall -> SUBSET Part]
      /\ records' = [records EXCEPT ![c] = records'[c]] /\ records'[c] \in Rows
      /\ collecting'[c] # "failed" => records'[c] = stored
      /\ cached' \in {cached, NoCatalog}
      /\ cached' = c => collecting'[c] # "failed"
  BY <1>0, <1>t, <1>s, <1>1 DEF CallTyped, CatalogRejected
<1>3. \A d \in CatalogCall \ {c} :
        collecting'[d] = collecting[d] /\ awaited'[d] = awaited[d] /\ records'[d] = records[d]
  BY <1>2, <1>t DEF CallTyped
<1>4. CallTyped'
  <2>1. collecting' \in [CatalogCall -> CatalogStage]
    <3>1. collecting \in [CatalogCall -> CatalogStage] /\ collecting'[c] \in CatalogStage
      BY <1>t, <1>2 DEF CallTyped, CatalogStage
    <3> QED  BY <1>2, <3>1
  <2>2. awaited' \in [CatalogCall -> SUBSET Part]
    <3>1. awaited \in [CatalogCall -> SUBSET Part]
      BY <1>t DEF CallTyped
    <3> QED  BY <1>2, <3>1
  <2>3. records' \in [CatalogCall -> Rows]
    <3>1. records \in [CatalogCall -> Rows]
      BY <1>t DEF CallTyped
    <3> QED  BY <1>2, <3>1
  <2>4. cached' \in Owners
    <3>1. cached \in Owners /\ NoCatalog \in Owners
      BY <1>t DEF CallTyped, Owners
    <3> QED  BY <1>2, <3>1
  <2>5. /\ asked \in [CatalogCall -> [owner : Owners, known : [Space -> Nat]]]
        /\ began \in [CatalogCall -> Nat] /\ observed \in [CatalogCall -> Nat]
        /\ gathered \in [CatalogCall -> Rows] /\ missing \in [CatalogCall -> SUBSET Part]
        /\ available \in [CatalogCall -> BOOLEAN] /\ partial \in [CatalogCall -> BOOLEAN]
        /\ overrun \in [CatalogCall -> BOOLEAN]
    BY <1>t DEF CallTyped
  <2>6. open' \in [CatalogCall -> SUBSET Part]
    BY <1>2
  <2>7. UNCHANGED <<asked, began, observed, gathered, missing, available, partial, overrun>>
    BY <1>0
  <2> HIDE <1>0, <1>2
  <2> QED  BY <2>1, <2>2, <2>3, <2>4, <2>5, <2>6, <2>7 DEF CallTyped
<1>5. AskInv'
  <2>1. \A d \in CatalogCall : asked[d].owner \in Owners
    BY <1>t DEF CallTyped
  <2>2. cached \in Owners
    BY <1>t DEF CallTyped
  <2>3. asked[c].owner = c
    BY <1>0 DEF CatalogInv, AskInv
  <2> QED  BY <1>0, <1>2, <1>3, <2>1, <2>2, <2>3 DEF CatalogInv, AskInv, Owners
<1>6. StageInv'
  <2>1. collecting'[c] \in {"fetching", "done"} => DOMAIN records'[c] = Space
    BY <1>0, <1>2
  <2> QED  BY <1>0, <1>s, <1>2, <1>3, <2>1 DEF CatalogInv, StageInv
<1>7. HeardInv'
  BY <1>0, <1>s, <1>2, <1>3 DEF CatalogInv, HeardInv, Complete, Changed, logVars
<1>8. SavingInv'
  BY <1>0, <1>w, <1>3 DEF CatalogInv, SavingInv
<1>9. FreshInv'
  <2> SUFFICES ASSUME NEW o \in CatalogCall, Full(o)'
               PROVE  /\ \A d \in CatalogCall : asked[d].owner = o =>
                           \A s \in Space : asked[d].known[s] <= records'[o][s]
                      /\ observed[o] = revision => \A s \in Space : noted[s] <= records'[o][s]
    BY <1>0 DEF FreshInv
  <2>1. o # c
    BY <1>0, <1>s DEF Full
  <2>2. Full(o) /\ records'[o] = records[o]
    BY <1>0, <1>3, <2>1 DEF Full
  <2> QED  BY <2>2 DEF CatalogInv, FreshInv
<1> QED  BY <1>0, <1>4, <1>5, <1>6, <1>7, <1>8, <1>9, Unchanging DEF CatalogInv

LEMMA BacklogIs ==
  ASSUME QueueTyped
  PROVE  /\ Len(backlog) \in Nat /\ DOMAIN backlog = 1 .. Len(backlog)
         /\ Len(writes) \in Nat /\ DOMAIN writes = 1 .. Len(writes)
         /\ \A k \in DOMAIN backlog : /\ backlog[k] \in Rows /\ DOMAIN backlog[k] \subseteq Space
         /\ \A k \in DOMAIN writes : /\ writes[k].call \in Owners /\ writes[k].rows \in Rows
                                     /\ DOMAIN writes[k].rows \subseteq Space
<1>1. /\ Len(backlog) \in Nat /\ DOMAIN backlog = 1 .. Len(backlog)
      /\ Len(writes) \in Nat /\ DOMAIN writes = 1 .. Len(writes)
      /\ \A k \in DOMAIN backlog : backlog[k] \in Rows
      /\ \A k \in DOMAIN writes : writes[k] \in Write
  BY DEF QueueTyped
<1> QED  BY <1>1, RowsAre DEF Write

\* An event or an answer is noted, put behind the others and, if it is awaited, gathered.
LEMMA ArrivesKeeps ==
  ASSUME CatalogInv, Arrives
  PROVE  CatalogInv'
<1> DEFINE m == wire[1]
           rows == m.rows
           expected == m.call # NoCatalog /\ m.part \in awaited[m.call]
<1>0. /\ wire # <<>> /\ wire' = Tail(wire) /\ Note(rows) /\ backlog' = Append(backlog, rows)
      /\ IF expected
         THEN /\ gathered' = [gathered EXCEPT ![m.call] = Override(rows, @)]
              /\ awaited' = [awaited EXCEPT ![m.call] = @ \ {m.part}]
         ELSE UNCHANGED <<gathered, awaited>>
      /\ UNCHANGED <<actual, connected, writes, stored, cached, asked, began, collecting, observed,
                     records, open, missing, available, partial, overrun>>
  <2>1. wire # <<>> /\ Head(wire) = m
    BY DEF Arrives, CatalogInv, WireInv, WireTyped
  <2> QED  BY <2>1 DEF Arrives, callVars, workVars, resultVars
<1>1. 1 \in DOMAIN wire /\ rows \in Rows /\ m.call \in Owners /\ DOMAIN rows \subseteq Space
  BY <1>0, MessagesAre DEF CatalogInv, WireInv, WireTyped
<1>a. expected => DOMAIN rows = Listed[m.part]
  BY <1>1 DEF CatalogInv, WireInv, AnswersWhole
<1>t. CallTyped /\ LogInv /\ WireInv /\ QueueTyped
  BY DEF CatalogInv
<1> HIDE DEF m, rows
<1>2. /\ LogInv' /\ revision <= revision' /\ noted' = Override(rows, noted)
      /\ revision' = revision => noted' = noted
      /\ \A r \in Nat : r <= revision /\ Complete(r)' =>
           Complete(r) /\ Changed(r) \union DOMAIN rows \subseteq Changed(r)'
  BY <1>0, <1>1, <1>t, NoteStep
<1>3. WireInv' /\ \A s \in Space : noted[s] <= noted'[s]
  BY <1>0, <1>2, <1>t, ArrivedInv DEF m, rows
<1>4. QueueTyped'
  BY <1>0, <1>1, <1>t DEF QueueTyped
<1>5. CallTyped'
  <2>1. CASE expected
    <3>1. m.call \in CatalogCall /\ gathered[m.call] \in Rows
      BY <1>1, <1>t, <2>1 DEF Owners, CallTyped
    <3>2. Override(rows, gathered[m.call]) \in Rows
      BY <1>1, <3>1, Overriding
    <3>3. gathered' = [gathered EXCEPT ![m.call] = Override(rows, gathered[m.call])]
      BY <1>0, <2>1
    <3> HIDE DEF expected
    <3>4. gathered' \in [CatalogCall -> Rows]
      BY <1>t, <3>1, <3>2, <3>3 DEF CallTyped
    <3>5. awaited' \in [CatalogCall -> SUBSET Part]
      <4>1. /\ awaited' = [awaited EXCEPT ![m.call] = awaited[m.call] \ {m.part}]
            /\ awaited \in [CatalogCall -> SUBSET Part]
        BY <1>0, <1>t, <2>1 DEF CallTyped
      <4>2. awaited[m.call] \ {m.part} \in SUBSET Part
        BY <3>1, <4>1
      <4> QED  BY <3>1, <4>1, <4>2
    <3> QED  BY <1>0, <1>t, <3>4, <3>5 DEF CallTyped
  <2>2. CASE ~expected
    BY <1>0, <1>t, <2>2 DEF CallTyped
  <2> QED  BY <2>1, <2>2
<1>n. /\ revision \in Nat /\ revision' \in Nat /\ noted \in [Space -> Nat] /\ noted' \in [Space -> Nat]
      /\ \A c \in CatalogCall : /\ began[c] \in Nat /\ observed[c] \in Nat
                                /\ \A s \in Space : asked[c].known[s] \in Nat
  BY <1>2, <1>t DEF LogInv, LogTyped, CallTyped
<1>6. AskInv'
  <2>1. \A c \in CatalogCall : /\ \A s \in Space : asked[c].known[s] <= noted'[s]
                               /\ began[c] <= revision' /\ observed[c] <= revision'
    BY <1>2, <1>3, <1>n DEF CatalogInv, AskInv
  <2> QED  BY <1>0, <2>1 DEF CatalogInv, AskInv
<1>7. \A c \in CatalogCall :
        \/ gathered'[c] = gathered[c] /\ awaited'[c] = awaited[c]
        \/ /\ c = m.call /\ expected /\ collecting[c] = "fetching"
           /\ awaited'[c] = awaited[c] \ {m.part}
           /\ DOMAIN gathered'[c] = DOMAIN rows \union DOMAIN gathered[c]
  <2> TAKE c \in CatalogCall
  <2>1. CASE expected /\ c = m.call
    <3>1. /\ gathered \in [CatalogCall -> Rows] /\ awaited \in [CatalogCall -> SUBSET Part]
          /\ gathered' = [gathered EXCEPT ![c] = Override(rows, gathered[c])]
          /\ awaited' = [awaited EXCEPT ![c] = awaited[c] \ {m.part}] /\ awaited[c] # {}
      BY <1>0, <1>t, <2>1 DEF CallTyped
    <3>2. /\ gathered[c] \in Rows /\ gathered'[c] = Override(rows, gathered[c])
          /\ awaited'[c] = awaited[c] \ {m.part}
      BY <3>1
    <3>3. collecting[c] = "fetching"
      BY <3>1 DEF CatalogInv, StageInv
    <3>4. DOMAIN Override(rows, gathered[c]) = DOMAIN rows \union DOMAIN gathered[c]
      BY <1>1, <3>2, Overriding
    <3> QED  BY <2>1, <3>2, <3>3, <3>4
  <2>2. CASE expected /\ c # m.call
    BY <1>0, <1>t, <2>2 DEF CallTyped
  <2>3. CASE ~expected
    BY <1>0, <2>3
  <2> QED  BY <2>1, <2>2, <2>3
<1>8. StageInv'
  <2>1. \A c \in CatalogCall : collecting[c] \in {"none", "reading", "offline"} => gathered'[c] = gathered[c]
    BY <1>7
  <2>2. \A c \in CatalogCall : awaited'[c] # {} => awaited[c] # {}
    BY <1>7
  <2> HIDE DEF expected
  <2> QED  BY <1>0, <2>1, <2>2 DEF CatalogInv, StageInv
<1>9. HeardInv'
  <2> SUFFICES ASSUME NEW c \in CatalogCall, collecting[c] \in {"fetching", "saving"},
                      Complete(began[c])'
               PROVE  /\ collecting[c] = "fetching" => DOMAIN gathered'[c] \subseteq Changed(began[c])'
                      /\ \A p \in Part \ (awaited'[c] \union missing[c]) :
                           Listed[p] \subseteq Changed(began[c])'
    BY <1>0 DEF HeardInv, Complete, Changed
  <2>1. Complete(began[c]) /\ Changed(began[c]) \union DOMAIN rows \subseteq Changed(began[c])'
    <3>1. began[c] \in Nat /\ began[c] <= revision /\ began'[c] = began[c]
      BY <1>0, <1>n DEF CatalogInv, AskInv
    <3>2. Complete(began[c])' <=> changes' = <<>> \/ Head(changes').revision <= began[c] + 1
      BY <3>1 DEF Complete
    <3> DEFINE r == began[c]
    <3>3. Complete(r)' => Complete(r) /\ Changed(r) \union DOMAIN rows \subseteq Changed(r)'
      BY <1>2, <3>1
    <3> QED  BY <3>3
  <2>2. collecting[c] = "fetching" => DOMAIN gathered'[c] \subseteq Changed(began[c])'
    <3>1. collecting[c] = "fetching" => DOMAIN gathered[c] \subseteq Changed(began[c])
      BY <2>1 DEF CatalogInv, HeardInv
    <3> HIDE DEF expected
    <3> QED  BY <1>7, <2>1, <3>1
  <2>3. ASSUME NEW p \in Part \ (awaited'[c] \union missing[c])
        PROVE  Listed[p] \subseteq Changed(began[c])'
    <3>1. CASE p \notin awaited[c]
      BY <2>1, <2>3, <3>1 DEF CatalogInv, HeardInv
    <3>2. CASE p \in awaited[c]
      <4>1. expected /\ p = m.part
        BY <1>7, <2>3, <3>2
      <4> QED  BY <1>a, <2>1, <4>1
    <3> QED  BY <3>1, <3>2
  <2> QED  BY <2>2, <2>3
<1>10. FreshInv'
  <2> SUFFICES ASSUME NEW o \in CatalogCall, Full(o)'
               PROVE  /\ \A d \in CatalogCall : asked[d].owner = o =>
                           \A s \in Space : asked[d].known[s] <= records[o][s]
                      /\ observed[o] = revision' => \A s \in Space : noted'[s] <= records[o][s]
    BY <1>0 DEF FreshInv
  <2>1. Full(o)
    BY <1>0 DEF Full
  <2>2. observed[o] = revision' => observed[o] = revision /\ noted' = noted
    BY <1>2, <1>n DEF CatalogInv, AskInv
  <2> QED  BY <2>1, <2>2 DEF CatalogInv, FreshInv
<1>11. StoreInv'
  <2> SUFFICES ASSUME connected PROVE LastWaits' /\ LastWrites' /\ RestStored'
    BY <1>0 DEF StoreInv
  <2> DEFINE n == Len(backlog)
  <2>1. /\ n \in Nat /\ DOMAIN backlog = 1 .. n /\ DOMAIN backlog' = 1 .. n + 1
        /\ backlog'[n + 1] = rows /\ \A k \in 1 .. n : backlog'[k] = backlog[k]
        /\ \A k \in 1 .. n : DOMAIN backlog[k] \subseteq Space
    BY <1>0, <1>1, <1>t, BacklogIs, AppendProperties DEF QueueTyped
  <2>2. /\ \A s \in DOMAIN rows : noted'[s] = rows[s]
        /\ \A s \in Space \ DOMAIN rows : noted'[s] = noted[s]
    <3>1. noted \in Rows /\ DOMAIN noted = Space
      BY <1>n, RowsAre
    <3> QED  BY <1>1, <1>2, <3>1, Overriding
  <2> HIDE DEF n
  <2>3. ASSUME NEW k \in DOMAIN backlog', NEW s \in DOMAIN backlog'[k],
               \A j \in DOMAIN backlog' : j > k => s \notin DOMAIN backlog'[j]
        PROVE  backlog'[k][s] = noted'[s]
    <3>1. CASE k = n + 1
      BY <2>1, <2>2, <2>3, <3>1
    <3>2. CASE k \in 1 .. n
      <4>1. s \notin DOMAIN rows /\ s \in Space
        BY <2>1, <2>3, <3>2
      <4>2. \A j \in 1 .. n : j > k => s \notin DOMAIN backlog[j]
        BY <2>1, <2>3
      <4>3. backlog[k][s] = noted[s]
        BY <2>1, <2>3, <3>2, <4>2 DEF CatalogInv, StoreInv, LastWaits
      <4> QED  BY <2>1, <2>2, <3>2, <4>1, <4>3
    <3> QED  BY <2>1, <2>3, <3>1, <3>2
  <2>4. \A s : ~Waiting(s)' => ~Waiting(s) /\ s \notin DOMAIN rows
    <3> SUFFICES ASSUME NEW s, Waiting(s) \/ s \in DOMAIN rows PROVE Waiting(s)'
      OBVIOUS
    <3>1. n + 1 \in 1 .. n + 1 /\ \A k \in 1 .. n : k \in 1 .. n + 1
      BY <2>1
    <3> QED  BY <2>1, <3>1 DEF Waiting
  <2>5. \A k, s : Followed(k, s)' <=> Followed(k, s)
    BY <1>0 DEF Followed
  <2>6. LastWaits'
    BY <2>3 DEF LastWaits
  <2>7. LastWrites'
    <3> SUFFICES ASSUME NEW k \in DOMAIN writes, NEW s \in DOMAIN writes[k].rows,
                        ~Waiting(s)', ~Followed(k, s)'
                 PROVE  writes[k].rows[s] = noted'[s]
      BY <1>0 DEF LastWrites
    <3>1. s \in Space
      BY <1>t, BacklogIs
    <3>2. ~Waiting(s) /\ s \notin DOMAIN rows /\ ~Followed(k, s)
      BY <2>4, <2>5
    <3> QED  BY <2>2, <3>1, <3>2 DEF CatalogInv, StoreInv, LastWrites
  <2>8. RestStored'
    <3> SUFFICES ASSUME NEW s \in Space, ~Waiting(s)', ~Followed(0, s)'
                 PROVE  stored[s] = noted'[s]
      BY <1>0 DEF RestStored
    <3>1. ~Waiting(s) /\ s \notin DOMAIN rows /\ ~Followed(0, s)
      BY <2>4, <2>5
    <3> QED  BY <2>2, <3>1 DEF CatalogInv, StoreInv, RestStored
  <2> QED  BY <2>6, <2>7, <2>8
<1>12. SavingInv'
  BY <1>0, Unchanging DEF CatalogInv
<1> QED  BY <1>2, <1>3, <1>4, <1>5, <1>6, <1>8, <1>9, <1>10, <1>11, <1>12 DEF CatalogInv

LEMMA EventKeeps ==
  ASSUME CatalogInv, EventSaved
  PROVE  CatalogInv'
<1> DEFINE rows == backlog[1]
           w == [call |-> NoCatalog, rows |-> rows]
           n == Len(writes)
           b == Len(backlog)
<1>t. QueueTyped /\ CallTyped /\ NoCatalog \notin CatalogCall
  BY CatalogAssumption DEF CatalogInv
<1>0. /\ backlog # <<>> /\ writes' = Append(writes, w) /\ backlog' = Tail(backlog)
      /\ UNCHANGED <<actual, wire, connected, logVars, noted, revision, stored, cached, asked, began,
                     collecting, observed, records, open, awaited, missing, gathered, available,
                     partial, overrun>>
  BY <1>t DEF EventSaved, logVars, callVars, workVars, fetchVars, resultVars, QueueTyped
<1>1. /\ n \in Nat /\ b \in Nat /\ b # 0 /\ 1 \in 1 .. b /\ rows \in Rows
      /\ DOMAIN backlog = 1 .. b /\ DOMAIN writes = 1 .. n
      /\ \A k \in 1 .. b : DOMAIN backlog[k] \subseteq Space
      /\ \A k \in 1 .. n : DOMAIN writes[k].rows \subseteq Space
  <2>1. /\ n \in Nat /\ b \in Nat /\ b # 0
        /\ DOMAIN backlog = 1 .. b /\ DOMAIN writes = 1 .. n
        /\ \A k \in 1 .. b : DOMAIN backlog[k] \subseteq Space /\ backlog[k] \in Rows
        /\ \A k \in 1 .. n : DOMAIN writes[k].rows \subseteq Space
    BY <1>0, <1>t, BacklogIs DEF QueueTyped
  <2> QED  BY <2>1
<1>2. w \in Write /\ w.call = NoCatalog /\ w.rows = rows
  BY <1>1 DEF Write, Owners
<1> HIDE DEF w, rows
<1>3. /\ writes' \in Seq(Write) /\ backlog' \in Seq(Rows)
      /\ DOMAIN writes' = 1 .. n + 1 /\ DOMAIN backlog' = 1 .. b - 1
      /\ writes'[n + 1] = w /\ \A k \in 1 .. n : writes'[k] = writes[k]
      /\ \A k \in 1 .. b - 1 : backlog'[k] = backlog[k + 1] /\ k + 1 \in 1 .. b
  <2>1. /\ writes' \in Seq(Write) /\ DOMAIN writes' = 1 .. n + 1
        /\ writes'[n + 1] = w /\ \A k \in 1 .. n : writes'[k] = writes[k]
    BY <1>0, <1>1, <1>2, <1>t, AppendProperties DEF QueueTyped
  <2>2. /\ backlog' \in Seq(Rows) /\ DOMAIN backlog' = 1 .. b - 1
        /\ \A k \in 1 .. b - 1 : backlog'[k] = backlog[k + 1] /\ k + 1 \in 1 .. b
    BY <1>0, <1>1, <1>t, HeadTailProperties DEF QueueTyped
  <2> QED  BY <2>1, <2>2
<1> HIDE DEF n, b
<1>4. QueueTyped' /\ CallTyped'
  BY <1>0, <1>3, <1>t DEF QueueTyped, CallTyped
<1>5. SavingInv'
  <2> SUFFICES ASSUME NEW k \in 1 .. n + 1, writes'[k].call # NoCatalog
               PROVE  /\ collecting[writes'[k].call] = "saving"
                      /\ \A j \in 1 .. n + 1 : writes'[j].call = writes'[k].call => j = k
    BY <1>0, <1>3 DEF SavingInv
  <2>1. \A j \in 1 .. n + 1 : j = n + 1 \/ j \in 1 .. n
    BY <1>1
  <2>2. k \in 1 .. n
    BY <1>2, <1>3, <2>1
  <2> QED  BY <1>1, <1>2, <1>3, <2>1, <2>2 DEF CatalogInv, SavingInv
<1>6. StoreInv'
  <2> SUFFICES ASSUME connected PROVE LastWaits' /\ LastWrites' /\ RestStored'
    BY <1>0 DEF StoreInv
  <2>1. \A s : Waiting(s) => s \in DOMAIN rows \/ Waiting(s)'
    <3> SUFFICES ASSUME NEW k \in 1 .. b, NEW s \in DOMAIN backlog[k], s \notin DOMAIN rows
                 PROVE  Waiting(s)'
      BY <1>1 DEF Waiting
    <3>1. k - 1 \in 1 .. b - 1 /\ (k - 1) + 1 = k
      BY <1>1 DEF rows
    <3> QED  BY <1>3, <3>1 DEF Waiting
  <2>2. \A k \in 0 .. n : \A s : Followed(k, s) \/ s \in DOMAIN rows => Followed(k, s)'
    <3> SUFFICES ASSUME NEW k \in 0 .. n, NEW s, Followed(k, s) \/ s \in DOMAIN rows
                 PROVE  Followed(k, s)'
      OBVIOUS
    <3>1. n + 1 \in 1 .. n + 1 /\ n + 1 > k /\ \A j \in 1 .. n : j \in 1 .. n + 1
      BY <1>1
    <3> QED  BY <1>1, <1>2, <1>3, <3>1 DEF Followed
  <2>3. LastWaits'
    <3> SUFFICES ASSUME NEW k \in 1 .. b - 1, NEW s \in DOMAIN backlog'[k],
                        \A j \in 1 .. b - 1 : j > k => s \notin DOMAIN backlog'[j]
                 PROVE  backlog'[k][s] = noted[s]
      <4>1. DOMAIN backlog' = 1 .. b - 1 /\ noted' = noted
        BY <1>0, <1>3
      <4> HIDE <1>0, <1>2, <1>3
      <4> QED  BY <4>1 DEF LastWaits
    <3>1. k + 1 \in 1 .. b /\ backlog'[k] = backlog[k + 1]
      BY <1>3
    <3>2. ASSUME NEW j \in 1 .. b, j > k + 1 PROVE s \notin DOMAIN backlog[j]
      <4>1. j - 1 \in 1 .. b - 1 /\ j - 1 > k /\ (j - 1) + 1 = j
        BY <1>1, <3>2
      <4> QED  BY <1>3, <4>1
    <3> QED  BY <1>1, <3>1, <3>2 DEF CatalogInv, StoreInv, LastWaits
  <2>4. LastWrites'
    <3> SUFFICES ASSUME NEW k \in 1 .. n + 1, NEW s \in DOMAIN writes'[k].rows,
                        ~Waiting(s)', ~Followed(k, s)'
                 PROVE  writes'[k].rows[s] = noted[s]
      BY <1>0, <1>3 DEF LastWrites
    <3>1. CASE k = n + 1
      <4>1. s \in DOMAIN rows /\ writes'[k].rows[s] = backlog[1][s]
        BY <1>2, <1>3, <3>1 DEF rows
      <4>2. ASSUME NEW j \in 1 .. b, j > 1 PROVE s \notin DOMAIN backlog[j]
        <5>1. j - 1 \in 1 .. b - 1 /\ (j - 1) + 1 = j
          BY <1>1, <4>2
        <5> QED  BY <1>3, <5>1 DEF Waiting
      <4> QED  BY <1>1, <4>1, <4>2 DEF CatalogInv, StoreInv, LastWaits, rows
    <3>2. CASE k \in 1 .. n
      <4>1. k \in 0 .. n /\ writes'[k] = writes[k]
        BY <1>3, <3>2
      <4>2. ~Followed(k, s) /\ s \notin DOMAIN rows
        BY <2>2, <4>1
      <4>3. ~Waiting(s)
        BY <2>1, <4>2
      <4> QED  BY <1>1, <3>2, <4>1, <4>2, <4>3 DEF CatalogInv, StoreInv, LastWrites
    <3> QED  BY <1>1, <3>1, <3>2
  <2>5. RestStored'
    <3> SUFFICES ASSUME NEW s \in Space, ~Waiting(s)', ~Followed(0, s)' PROVE stored[s] = noted[s]
      BY <1>0 DEF RestStored
    <3>1. 0 \in 0 .. n
      BY <1>1
    <3>2. ~Followed(0, s) /\ s \notin DOMAIN rows
      BY <2>2, <3>1
    <3> QED  BY <2>1, <3>2 DEF CatalogInv, StoreInv, RestStored
  <2> QED  BY <2>3, <2>4, <2>5
<1> QED  BY <1>0, <1>4, <1>5, <1>6, Unchanging DEF CatalogInv

\* All that was answered to a call is noted.
LEMMA AllHeard ==
  ASSUME CatalogInv, NEW c \in CatalogCall, collecting[c] \in {"fetching", "saving"},
         Complete(began[c]), awaited[c] = {}, missing[c] = {}
  PROVE  Space \subseteq Changed(began[c])
<1> SUFFICES ASSUME NEW s \in Space PROVE s \in Changed(began[c])
  OBVIOUS
<1>1. PICK p \in Part : s \in Listed[p]
  BY CatalogAssumption
<1>2. p \in Part \ (awaited[c] \union missing[c])
  OBVIOUS
<1> QED  BY <1>1, <1>2 DEF CatalogInv, HeardInv

LEMMA UpdatesNoted ==
  ASSUME CatalogInv, NEW c \in CatalogCall, collecting[c] = "fetching"
  PROVE  Updates(c) \in Rows /\ \A s \in DOMAIN Updates(c) : Updates(c)[s] = noted[s]
<1> DEFINE old == IF Complete(began[c]) THEN gathered[c] ELSE NoRows
           news == ChangesSince(began[c])
<1>1. /\ news \in Rows /\ DOMAIN news = Changed(began[c])
      /\ \A s \in Changed(began[c]) : news[s] = noted[s]
  <2>1. began[c] \in Nat /\ LogInv
    BY DEF CatalogInv, CallTyped
  <2> QED  BY <2>1, SinceNoted
<1>2. old \in Rows /\ DOMAIN old \subseteq Changed(began[c])
  BY RowsAre DEF CatalogInv, CallTyped, HeardInv
<1>3. Updates(c) = Override(news, old)
  BY DEF Updates
<1> HIDE DEF news, old
<1>4. /\ Override(news, old) \in Rows /\ DOMAIN Override(news, old) = DOMAIN news \union DOMAIN old
      /\ \A s \in DOMAIN news : Override(news, old)[s] = news[s]
  BY <1>1, <1>2, Overriding
<1>5. DOMAIN Override(news, old) = Changed(began[c])
  BY <1>1, <1>2, <1>4
<1> QED  BY <1>1, <1>3, <1>4, <1>5

LEMMA Concluded ==
  ASSUME CatalogInv, NEW c \in CatalogCall, collecting[c] \in {"fetching", "saving"},
         NEW updates \in Rows, NEW hasSocket \in BOOLEAN, Conclude(c, updates, hasSocket)
  PROVE  /\ records' = [records EXCEPT ![c] = records'[c]]
         /\ records'[c] \in Rows /\ DOMAIN records'[c] = Space
         /\ observed' = [observed EXCEPT ![c] = revision]
         /\ overrun' = [overrun EXCEPT ![c] = ~Complete(began[c])]
         /\ collecting' = [collecting EXCEPT ![c] = "done"]
         /\ hasSocket => \A s \in Changed(began[c]) : records'[c][s] = noted[s]
<1> DEFINE news == ChangesSince(began[c])
           own == Override(updates, records[c])
<1>1. /\ news \in Rows /\ DOMAIN news = Changed(began[c]) /\ Changed(began[c]) \subseteq Space
      /\ \A s \in Changed(began[c]) : news[s] = noted[s]
  <2>1. began[c] \in Nat /\ LogInv
    BY DEF CatalogInv, CallTyped
  <2> QED  BY <2>1, SinceNoted
<1>2. /\ records \in [CatalogCall -> Rows] /\ DOMAIN records[c] = Space /\ DOMAIN updates \subseteq Space
      /\ records[c] \in Rows
  BY RowsAre DEF CatalogInv, CallTyped, StageInv
<1>3. own \in Rows /\ DOMAIN own = Space
  <2>1. own \in Rows /\ DOMAIN own = DOMAIN updates \union DOMAIN records[c]
    BY <1>2, Overriding
  <2> QED  BY <1>2, <2>1
<1>4. records' = [records EXCEPT ![c] = IF hasSocket THEN Override(news, own) ELSE own]
  BY DEF Conclude, LaterChanges
<1> HIDE DEF news, own
<1>5. /\ Override(news, own) \in Rows /\ DOMAIN Override(news, own) = Space
      /\ \A s \in Changed(began[c]) : Override(news, own)[s] = noted[s]
  BY <1>1, <1>3, Overriding
<1>6. records'[c] = (IF hasSocket THEN Override(news, own) ELSE own)
  BY <1>2, <1>4
<1> QED  BY <1>3, <1>4, <1>5, <1>6 DEF Conclude

\* A call that has come to its end: its catalogue, if it is full, has all that is noted.
LEMMA ConcludeKeeps ==
  ASSUME CatalogInv, NEW c \in CatalogCall, collecting[c] \in {"fetching", "saving"},
         awaited[c] = {},
         NEW updates \in Rows, NEW hasSocket \in BOOLEAN, Conclude(c, updates, hasSocket),
         UNCHANGED <<logVars, asked, began, cached, awaited, missing, open>>,
         available' = [available EXCEPT ![c] = hasSocket],
         NEW part \in BOOLEAN, partial' = [partial EXCEPT ![c] = part], ~part => missing[c] = {},
         NEW got \in Rows, gathered' = [gathered EXCEPT ![c] = got]
  PROVE  CallTyped' /\ AskInv' /\ StageInv' /\ HeardInv' /\ FreshInv'
<1>0. /\ CallTyped /\ asked[c].owner = c /\ revision \in Nat /\ noted \in [Space -> Nat]
      /\ UNCHANGED <<noted, revision>>
  BY DEF CatalogInv, LogInv, LogTyped, AskInv, logVars
<1>1. /\ records' = [records EXCEPT ![c] = records'[c]]
      /\ records'[c] \in Rows /\ DOMAIN records'[c] = Space
      /\ observed' = [observed EXCEPT ![c] = revision]
      /\ overrun' = [overrun EXCEPT ![c] = ~Complete(began[c])]
      /\ collecting' = [collecting EXCEPT ![c] = "done"]
      /\ hasSocket => \A s \in Changed(began[c]) : records'[c][s] = noted[s]
  BY Concluded
<1>2. CallTyped'
  <2>1. records' \in [CatalogCall -> Rows]
    BY <1>0, <1>1 DEF CallTyped
  <2>2. observed' \in [CatalogCall -> Nat] /\ overrun' \in [CatalogCall -> BOOLEAN]
    BY <1>0, <1>1 DEF CallTyped
  <2>3. collecting' \in [CatalogCall -> CatalogStage]
    BY <1>0, <1>1 DEF CallTyped, CatalogStage
  <2>4. /\ gathered' \in [CatalogCall -> Rows] /\ available' \in [CatalogCall -> BOOLEAN]
        /\ partial' \in [CatalogCall -> BOOLEAN]
    BY <1>0 DEF CallTyped
  <2> HIDE <1>1
  <2> QED  BY <1>0, <2>1, <2>2, <2>3, <2>4 DEF CallTyped
<1>3. /\ collecting'[c] = "done" /\ observed'[c] = revision /\ (overrun'[c] <=> ~Complete(began[c]))
      /\ available'[c] = hasSocket /\ partial'[c] = part
      /\ \A d \in CatalogCall \ {c} :
           /\ records'[d] = records[d] /\ observed'[d] = observed[d] /\ overrun'[d] = overrun[d]
           /\ collecting'[d] = collecting[d] /\ available'[d] = available[d]
           /\ partial'[d] = partial[d] /\ gathered'[d] = gathered[d]
  <2>1. /\ collecting'[c] = "done" /\ observed'[c] = revision
        /\ overrun'[c] <=> ~Complete(began[c])
        /\ \A d \in CatalogCall \ {c} :
             /\ records'[d] = records[d] /\ observed'[d] = observed[d]
             /\ overrun'[d] = overrun[d] /\ collecting'[d] = collecting[d]
    BY <1>0, <1>1 DEF CallTyped
  <2>2. /\ available'[c] = hasSocket /\ partial'[c] = part
        /\ \A d \in CatalogCall \ {c} : available'[d] = available[d] /\ partial'[d] = partial[d]
    BY <1>0 DEF CallTyped
  <2>3. \A d \in CatalogCall \ {c} : gathered'[d] = gathered[d]
    BY <1>0 DEF CallTyped
  <2> QED  BY <2>1, <2>2, <2>3
<1>4. AskInv'
  <2>1. \A d \in CatalogCall : asked[d].owner # NoCatalog => asked[d].owner \in CatalogCall
    BY <1>0 DEF CallTyped, Owners
  <2>2. cached # NoCatalog => cached \in CatalogCall
    BY <1>0 DEF CallTyped, Owners
  <2>3. \A d \in CatalogCall : (collecting'[d] = "none" <=> collecting[d] = "none")
                               /\ observed'[d] <= revision
    BY <1>0, <1>3 DEF CatalogInv, AskInv
  <2>4. cached # NoCatalog => collecting'[cached] \notin {"none", "offline", "failed"}
    BY <1>3, <2>2 DEF CatalogInv, AskInv
  <2> QED  BY <1>0, <2>1, <2>2, <2>3, <2>4 DEF CatalogInv, AskInv
<1>5. StageInv'
  BY <1>0, <1>1, <1>3 DEF CatalogInv, StageInv
<1>6. HeardInv'
  BY <1>3 DEF CatalogInv, HeardInv, Complete, Changed, logVars
<1>7. FreshInv'
  <2> SUFFICES ASSUME NEW o \in CatalogCall, Full(o)'
               PROVE  /\ \A d \in CatalogCall : asked[d].owner = o =>
                           \A s \in Space : asked[d].known[s] <= records'[o][s]
                      /\ observed'[o] = revision => \A s \in Space : noted[s] <= records'[o][s]
    BY <1>0 DEF FreshInv
  <2>1. CASE o # c
    <3>1. Full(o)
      BY <1>3, <2>1 DEF Full
    <3> QED  BY <1>3, <2>1, <3>1 DEF CatalogInv, FreshInv
  <2>2. CASE o = c
    <3>1. hasSocket /\ Complete(began[c]) /\ missing[c] = {}
      BY <1>3, <2>2 DEF Full
    <3>2. \A s \in Space : records'[c][s] = noted[s]
      BY <1>1, <3>1, AllHeard
    <3> QED  BY <1>0, <2>2, <3>2 DEF CatalogInv, AskInv
  <2> QED  BY <2>1, <2>2
<1> QED  BY <1>2, <1>4, <1>5, <1>6, <1>7

LEMMA GatherKeeps ==
  ASSUME CatalogInv, NEW c \in CatalogCall, Gather(c)
  PROVE  CatalogInv'
<1> DEFINE updates == IF connected THEN Updates(c) ELSE NoRows
           hasSocket == connected /\ missing[c] # Part
           part == missing[c] # {} \/ ~Complete(began[c])
           w == [call |-> c, rows |-> updates]
           n == Len(writes)
<1>t. CallTyped /\ QueueTyped /\ c # NoCatalog
  BY CatalogAssumption DEF CatalogInv
<1>0. /\ collecting[c] = "fetching" /\ awaited[c] = {}
      /\ available' = [available EXCEPT ![c] = hasSocket]
      /\ partial' = [partial EXCEPT ![c] = part]
      /\ gathered' = [gathered EXCEPT ![c] = updates]
      /\ \/ /\ writes' = Append(writes, w)
            /\ collecting' = [collecting EXCEPT ![c] = "saving"]
            /\ UNCHANGED <<records, observed, overrun>> /\ updates # NoRows
         \/ Conclude(c, NoRows, hasSocket) /\ UNCHANGED writes /\ updates = NoRows
      /\ UNCHANGED <<actual, wire, connected, backlog, logVars, noted, revision, stored, cached, asked,
                     began, open, awaited, missing>>
  BY DEF Gather, worldVars, logVars, callVars, fetchVars
<1>1. /\ updates \in Rows
      /\ connected => \A s \in DOMAIN updates : updates[s] = noted[s]
      /\ ~connected => updates = NoRows
      /\ hasSocket \in BOOLEAN /\ part \in BOOLEAN /\ (~part => missing[c] = {})
  BY <1>0, UpdatesNoted, RowsAre
<1>n. NoRows \in Rows
  BY RowsAre
<1> HIDE DEF updates, hasSocket, part
<1>2. CASE Conclude(c, NoRows, hasSocket) /\ UNCHANGED writes
  <2>1. CallTyped' /\ AskInv' /\ StageInv' /\ HeardInv' /\ FreshInv'
    <3>1. /\ Conclude(c, NoRows, hasSocket) /\ hasSocket \in BOOLEAN /\ NoRows \in Rows
          /\ UNCHANGED <<logVars, asked, began, cached, awaited, missing, open>>
          /\ available' = [available EXCEPT ![c] = hasSocket]
          /\ part \in BOOLEAN /\ partial' = [partial EXCEPT ![c] = part] /\ (~part => missing[c] = {})
          /\ updates \in Rows /\ gathered' = [gathered EXCEPT ![c] = updates]
          /\ collecting[c] \in {"fetching", "saving"} /\ awaited[c] = {}
      BY <1>0, <1>1, <1>2, <1>n
    <3> QED  BY <3>1, ConcludeKeeps
  <2>2. SavingInv'
    <3>1. collecting' = [collecting EXCEPT ![c] = "done"]
      BY <1>2 DEF Conclude
    <3>2. \A k \in DOMAIN writes : writes[k].call # NoCatalog =>
            writes[k].call \in CatalogCall /\ writes[k].call # c
      BY <1>0, <1>t, BacklogIs DEF Owners, CatalogInv, SavingInv
    <3>3. \A d \in CatalogCall \ {c} : collecting'[d] = collecting[d]
      BY <1>t, <3>1 DEF CallTyped
    <3> QED  BY <1>2, <3>2, <3>3 DEF CatalogInv, SavingInv
  <2> QED  BY <1>0, <1>2, <2>1, <2>2, Unchanging DEF CatalogInv
<1>3. CASE /\ writes' = Append(writes, w)
           /\ collecting' = [collecting EXCEPT ![c] = "saving"]
           /\ UNCHANGED <<records, observed, overrun>> /\ updates # NoRows
  <2>0. connected /\ c \in Owners
    BY <1>1, <1>3 DEF Owners
  <2>1. /\ w \in Write /\ w.call = c /\ w.rows = updates /\ connected
    BY <1>1, <2>0 DEF Write
  <2> HIDE DEF w
  <2>2. /\ n \in Nat /\ DOMAIN writes = 1 .. n
        /\ writes' \in Seq(Write) /\ DOMAIN writes' = 1 .. n + 1
        /\ writes'[n + 1] = w /\ \A k \in 1 .. n : writes'[k] = writes[k]
    BY <1>3, <1>t, <2>1, BacklogIs, AppendProperties DEF QueueTyped
  <2> HIDE DEF n
  <2>3. /\ collecting'[c] = "saving" /\ partial'[c] = part /\ available'[c] = hasSocket
        /\ \A d \in CatalogCall \ {c} :
             /\ collecting'[d] = collecting[d] /\ available'[d] = available[d]
             /\ partial'[d] = partial[d] /\ gathered'[d] = gathered[d]
    BY <1>0, <1>3, <1>t DEF CallTyped
  <2>4. CallTyped' /\ QueueTyped'
    <3>1. collecting' \in [CatalogCall -> CatalogStage]
      BY <1>3, <1>t DEF CallTyped, CatalogStage
    <3>2. /\ available' \in [CatalogCall -> BOOLEAN] /\ partial' \in [CatalogCall -> BOOLEAN]
          /\ gathered' \in [CatalogCall -> Rows]
      BY <1>0, <1>1, <1>t DEF CallTyped
    <3>3. CallTyped'
      BY <1>0, <1>3, <1>t, <3>1, <3>2 DEF CallTyped
    <3> QED  BY <1>0, <1>t, <2>2, <3>3 DEF QueueTyped
  <2>5. AskInv'
    <3>1. \A d \in CatalogCall : asked[d].owner # NoCatalog => asked[d].owner \in CatalogCall
      BY <1>t DEF CallTyped, Owners
    <3>2. cached # NoCatalog => cached \in CatalogCall
      BY <1>t DEF CallTyped, Owners
    <3>3. \A d \in CatalogCall : collecting'[d] = "none" <=> collecting[d] = "none"
      BY <1>0, <2>3
    <3>4. cached # NoCatalog => collecting'[cached] \notin {"none", "offline", "failed"}
      BY <2>3, <3>2 DEF CatalogInv, AskInv
    <3> QED  BY <1>0, <1>3, <3>1, <3>2, <3>3, <3>4 DEF CatalogInv, AskInv
  <2>6. StageInv'
    BY <1>0, <1>1, <1>3, <2>3 DEF CatalogInv, StageInv
  <2>7. HeardInv'
    BY <1>0, <2>3 DEF CatalogInv, HeardInv, Complete, Changed, logVars
  <2>8. FreshInv'
    <3> SUFFICES ASSUME NEW o \in CatalogCall, Full(o)'
                 PROVE  /\ \A d \in CatalogCall : asked[d].owner = o =>
                             \A s \in Space : asked[d].known[s] <= records[o][s]
                        /\ observed[o] = revision => \A s \in Space : noted[s] <= records[o][s]
      BY <1>0, <1>3 DEF FreshInv
    <3>1. Full(o)
      BY <1>3, <2>3 DEF Full
    <3> QED  BY <3>1 DEF CatalogInv, FreshInv
  <2>9. SavingInv'
    <3>1. \A k \in 1 .. n : writes[k].call # NoCatalog =>
            writes[k].call \in CatalogCall /\ writes[k].call # c
      BY <1>0, <1>t, <2>2, BacklogIs DEF Owners, CatalogInv, SavingInv
    <3>2. \A k \in 1 .. n + 1 : k = n + 1 \/ k \in 1 .. n
      BY <2>2
    <3> SUFFICES ASSUME NEW k \in 1 .. n + 1, writes'[k].call # NoCatalog
                 PROVE  /\ collecting'[writes'[k].call] = "saving"
                        /\ \A j \in 1 .. n + 1 : writes'[j].call = writes'[k].call => j = k
      BY <2>2 DEF SavingInv
    <3>5. writes'[n + 1].call = c /\ c # NoCatalog
      BY <1>t, <2>1, <2>2
    <3>3. CASE k = n + 1
      <4>1. \A j \in 1 .. n : writes'[j].call # c
        BY <2>2, <3>1, <3>5
      <4> QED  BY <2>3, <3>2, <3>3, <3>5, <4>1
    <3>4. CASE k \in 1 .. n
      <4>1. writes'[k] = writes[k] /\ writes[k].call \in CatalogCall \ {c}
        BY <2>2, <3>1, <3>4
      <4>2. /\ collecting[writes[k].call] = "saving"
            /\ \A j \in 1 .. n : writes[j].call = writes[k].call => j = k
        BY <2>2, <3>4, <4>1 DEF CatalogInv, SavingInv
      <4>3. collecting'[writes'[k].call] = "saving"
        BY <2>3, <4>1, <4>2
      <4>4. \A j \in 1 .. n + 1 : writes'[j].call = writes'[k].call => j = k
        BY <2>2, <3>2, <3>5, <4>1, <4>2
      <4> QED  BY <4>3, <4>4
    <3> QED  BY <3>2, <3>3, <3>4
  <2>10. StoreInv'
    <3>1. \A s : Waiting(s)' <=> Waiting(s)
      BY <1>0 DEF Waiting
    <3>2. \A k \in 0 .. n : \A s : Followed(k, s) => Followed(k, s)'
      <4>1. \A j \in 1 .. n : j \in 1 .. n + 1
        BY <2>2
      <4> QED  BY <2>2, <4>1 DEF Followed
    <3>3. LastWaits'
      BY <1>0, <2>1 DEF CatalogInv, StoreInv, LastWaits
    <3>4. LastWrites'
      <4> SUFFICES ASSUME NEW k \in 1 .. n + 1, NEW s \in DOMAIN writes'[k].rows,
                          ~Waiting(s)', ~Followed(k, s)'
                   PROVE  writes'[k].rows[s] = noted[s]
        BY <1>0, <2>2 DEF LastWrites
      <4>1. CASE k = n + 1
        <5>1. writes'[k].rows = updates /\ connected
          BY <2>1, <2>2, <4>1
        <5> QED  BY <1>1, <5>1
      <4>2. CASE k \in 1 .. n
        <5>1. k \in 0 .. n /\ writes'[k] = writes[k]
          BY <2>2, <4>2
        <5> QED  BY <2>1, <2>2, <3>1, <3>2, <4>2, <5>1 DEF CatalogInv, StoreInv, LastWrites
      <4> QED  BY <2>2, <4>1, <4>2
    <3>5. RestStored'
      <4>1. 0 \in 0 .. n
        BY <2>2
      <4> QED  BY <1>0, <2>1, <3>1, <3>2, <4>1 DEF CatalogInv, StoreInv, RestStored
    <3> QED  BY <3>3, <3>4, <3>5 DEF StoreInv
  <2> QED  BY <1>0, <2>4, <2>5, <2>6, <2>7, <2>8, <2>9, <2>10, Unchanging DEF CatalogInv
<1> QED  BY <1>0, <1>2, <1>3

\* The first write is done, all of its rows or, of a call's write, some of them.
LEMMA DrainedStore ==
  ASSUME CatalogInv, writes # <<>>, writes' = Tail(writes), NEW f \in Rows,
         DOMAIN f \subseteq DOMAIN writes[1].rows, \A s \in DOMAIN f : f[s] = writes[1].rows[s],
         writes[1].call = NoCatalog => DOMAIN f = DOMAIN writes[1].rows,
         stored' = Override(f, stored), UNCHANGED <<connected, backlog, noted>>
  PROVE  QueueTyped' /\ StoreInv'
<1> DEFINE n == Len(writes)
<1>1. /\ QueueTyped /\ stored \in Rows /\ DOMAIN stored = Space /\ n \in Nat /\ n # 0
      /\ DOMAIN writes = 1 .. n /\ DOMAIN f \subseteq Space
      /\ \A s \in DOMAIN f : f[s] \in Nat
  <2>1. QueueTyped /\ stored \in [Space -> Nat] /\ writes \in Seq(Write)
    BY DEF CatalogInv, QueueTyped
  <2>2. stored \in Rows /\ DOMAIN stored = Space /\ \A s \in DOMAIN f : f[s] \in Nat
    BY <2>1, RowsAre
  <2>3. n \in Nat /\ n # 0 /\ DOMAIN writes = 1 .. n
    BY <2>1, BacklogIs
  <2>4. DOMAIN f \subseteq Space
    BY RowsAre
  <2> QED  BY <2>1, <2>2, <2>3, <2>4
<1>2. /\ writes' \in Seq(Write) /\ DOMAIN writes' = 1 .. n - 1
      /\ \A k \in 1 .. n - 1 : writes'[k] = writes[k + 1] /\ k + 1 \in 1 .. n
  BY <1>1, HeadTailProperties DEF QueueTyped
<1> HIDE DEF n
<1>3. /\ stored' \in Rows /\ DOMAIN stored' = Space
      /\ \A s \in DOMAIN f : stored'[s] = f[s]
      /\ \A s \in Space \ DOMAIN f : stored'[s] = stored[s]
  <2>1. /\ Override(f, stored) \in Rows
        /\ DOMAIN Override(f, stored) = DOMAIN f \union DOMAIN stored
        /\ \A s \in DOMAIN f : Override(f, stored)[s] = f[s]
        /\ \A s \in DOMAIN stored \ DOMAIN f : Override(f, stored)[s] = stored[s]
    BY <1>1, Overriding
  <2> QED  BY <1>1, <2>1
<1>4. QueueTyped'
  <2>1. stored' = [s \in DOMAIN stored' |-> stored'[s]] /\ \A s \in Space : stored'[s] \in Nat
    BY <1>3, RowsAre DEF Override
  <2>2. stored' \in [Space -> Nat]
    BY <1>3, <2>1
  <2> QED  BY <1>1, <1>2, <2>2 DEF QueueTyped
<1>5. \A k \in 1 .. n : \A s : Followed(k, s) => Followed(k - 1, s)'
  <2> SUFFICES ASSUME NEW k \in 1 .. n, NEW s, NEW j \in 1 .. n, j > k,
                      writes[j].call = NoCatalog, s \in DOMAIN writes[j].rows
               PROVE  Followed(k - 1, s)'
    BY <1>1 DEF Followed
  <2>1. j - 1 \in 1 .. n - 1 /\ j - 1 > k - 1 /\ (j - 1) + 1 = j
    BY <1>1
  <2>2. writes'[j - 1] = writes[j] /\ j - 1 \in DOMAIN writes'
    BY <1>2, <2>1
  <2> QED  BY <2>1, <2>2 DEF Followed
<1>6. StoreInv'
  <2> SUFFICES ASSUME connected PROVE LastWaits' /\ LastWrites' /\ RestStored'
    BY DEF StoreInv
  <2>1. \A s : Waiting(s)' <=> Waiting(s)
    BY DEF Waiting
  <2>2. LastWaits'
    BY DEF CatalogInv, StoreInv, LastWaits
  <2>3. LastWrites'
    <3> SUFFICES ASSUME NEW k \in 1 .. n - 1, NEW s \in DOMAIN writes'[k].rows,
                        ~Waiting(s)', ~Followed(k, s)'
                 PROVE  writes'[k].rows[s] = noted[s]
      BY <1>2 DEF LastWrites
    <3>1. k + 1 \in 1 .. n /\ writes'[k] = writes[k + 1] /\ (k + 1) - 1 = k
      BY <1>1, <1>2
    <3>2. ~Followed(k + 1, s) /\ ~Waiting(s)
      BY <1>5, <2>1, <3>1
    <3> QED  BY <1>1, <3>1, <3>2 DEF CatalogInv, StoreInv, LastWrites
  <2>4. RestStored'
    <3> SUFFICES ASSUME NEW s \in Space, ~Waiting(s)', ~Followed(0, s)' PROVE stored'[s] = noted[s]
      BY DEF RestStored
    <3>1. 1 \in 1 .. n /\ 1 - 1 = 0 /\ \A j \in 1 .. n : j = 1 \/ j > 1
      BY <1>1
    <3>2. ~Followed(1, s) /\ ~Waiting(s)
      BY <1>5, <2>1, <3>1
    <3>3. CASE s \in DOMAIN f
      <4>1. writes[1].rows[s] = noted[s]
        BY <1>1, <3>1, <3>2, <3>3 DEF CatalogInv, StoreInv, LastWrites
      <4> QED  BY <1>3, <3>3, <4>1
    <3>4. CASE s \notin DOMAIN f
      <4>1. ~Followed(0, s)
        BY <1>1, <3>1, <3>2, <3>4 DEF Followed
      <4> QED  BY <1>3, <3>2, <3>4, <4>1 DEF CatalogInv, StoreInv, RestStored
    <3> QED  BY <3>3, <3>4
  <2> QED  BY <2>2, <2>3, <2>4
<1> QED  BY <1>4, <1>6

LEMMA WriteKeeps ==
  ASSUME CatalogInv, WriteSpaces
  PROVE  CatalogInv'
<1> DEFINE w == writes[1]
           c == w.call
           n == Len(writes)
<1>t. CallTyped /\ QueueTyped /\ NoCatalog \notin CatalogCall
  BY CatalogAssumption DEF CatalogInv
<1>0. /\ writes # <<>> /\ writes' = Tail(writes) /\ w = Head(writes)
      /\ UNCHANGED <<actual, wire, connected, backlog, logVars, noted, revision, asked, began, open,
                     awaited, missing, gathered, available, partial>>
  BY <1>t DEF WriteSpaces, worldVars, logVars, callVars, fetchVars, QueueTyped
<1>1. /\ n \in Nat /\ n # 0 /\ 1 \in 1 .. n /\ DOMAIN writes = 1 .. n
      /\ c \in Owners /\ w.rows \in Rows
      /\ \A k \in 1 .. n : writes[k].call \in Owners
  <2>1. n \in Nat /\ n # 0 /\ 1 \in 1 .. n
    BY <1>0, <1>t, BacklogIs DEF QueueTyped
  <2> QED  BY <1>t, <2>1, BacklogIs
<1>2. /\ DOMAIN writes' = 1 .. n - 1
      /\ \A k \in 1 .. n - 1 : writes'[k] = writes[k + 1] /\ k + 1 \in 1 .. n
  BY <1>0, <1>1, <1>t, HeadTailProperties DEF QueueTyped
<1>3. \/ /\ stored' = Override(w.rows, stored)
         /\ \/ c = NoCatalog /\ UNCHANGED <<collecting, records, observed, overrun>>
            \/ c # NoCatalog /\ Conclude(c, gathered[c], available[c])
         /\ UNCHANGED cached
      \/ /\ c # NoCatalog
         /\ \E some \in SUBSET DOMAIN w.rows : stored' = Override([s \in some |-> w.rows[s]], stored)
         /\ CatalogRejected(c)
         /\ UNCHANGED <<records, observed, overrun>>
  BY <1>0 DEF WriteSpaces
<1>4. QueueTyped' /\ StoreInv'
  <2>1. \E f \in Rows : /\ DOMAIN f \subseteq DOMAIN w.rows
                        /\ \A s \in DOMAIN f : f[s] = w.rows[s]
                        /\ c = NoCatalog => DOMAIN f = DOMAIN w.rows
                        /\ stored' = Override(f, stored)
    <3>1. CASE stored' = Override(w.rows, stored)
      BY <1>1, <3>1
    <3>2. ASSUME c # NoCatalog, NEW some \in SUBSET DOMAIN w.rows,
                 stored' = Override([s \in some |-> w.rows[s]], stored)
          PROVE  \E f \in Rows : /\ DOMAIN f \subseteq DOMAIN w.rows
                                 /\ \A s \in DOMAIN f : f[s] = w.rows[s]
                                 /\ c = NoCatalog => DOMAIN f = DOMAIN w.rows
                                 /\ stored' = Override(f, stored)
      <4> DEFINE f == [s \in some |-> w.rows[s]]
      <4>1. DOMAIN f = some /\ \A s \in DOMAIN f : f[s] = w.rows[s]
        OBVIOUS
      <4>2. some \in SUBSET Space /\ f \in [some -> Nat]
        BY <1>1, RowsAre
      <4>3. f \in Rows /\ stored' = Override(f, stored)
        BY <3>2, <4>2, RowsAre
      <4> HIDE DEF f
      <4> QED  BY <3>2, <4>1, <4>3
    <3> QED  BY <1>3, <3>1, <3>2
  <2> HIDE DEF w, c
  <2>2. PICK f \in Rows : /\ DOMAIN f \subseteq DOMAIN w.rows
                          /\ \A s \in DOMAIN f : f[s] = w.rows[s]
                          /\ c = NoCatalog => DOMAIN f = DOMAIN w.rows
                          /\ stored' = Override(f, stored)
    BY <2>1
  <2> QED  BY <1>0, <2>2, DrainedStore DEF w, c
<1>5. \A k \in 1 .. n : k = 1 \/ (k - 1 \in 1 .. n - 1 /\ (k - 1) + 1 = k)
  BY <1>1
<1>6. \A k \in 1 .. n - 1 : writes'[k].call # NoCatalog =>
        /\ collecting[writes'[k].call] = "saving" /\ writes'[k].call # c
        /\ writes'[k].call \in CatalogCall
        /\ \A j \in 1 .. n - 1 : writes'[j].call = writes'[k].call => j = k
  <2> SUFFICES ASSUME NEW k \in 1 .. n - 1, writes'[k].call # NoCatalog
               PROVE  /\ collecting[writes'[k].call] = "saving" /\ writes'[k].call # c
                      /\ writes'[k].call \in CatalogCall
                      /\ \A j \in 1 .. n - 1 : writes'[j].call = writes'[k].call => j = k
    OBVIOUS
  <2>1. k + 1 \in 1 .. n /\ k + 1 # 1 /\ writes'[k] = writes[k + 1]
    BY <1>1, <1>2
  <2>2. /\ collecting[writes[k + 1].call] = "saving"
        /\ \A j \in 1 .. n : writes[j].call = writes[k + 1].call => j = k + 1
    BY <1>1, <2>1 DEF CatalogInv, SavingInv
  <2>3. \A j \in 1 .. n - 1 : j + 1 \in 1 .. n /\ writes'[j] = writes[j + 1] /\ (j + 1 = k + 1 => j = k)
    BY <1>1, <1>2
  <2> QED  BY <1>1, <2>1, <2>2, <2>3 DEF Owners
<1>7. c # NoCatalog => c \in CatalogCall /\ collecting[c] = "saving" /\ awaited[c] = {}
  BY <1>1 DEF Owners, CatalogInv, SavingInv, StageInv
<1> HIDE DEF w, c, n
<1>8. CASE c = NoCatalog /\ UNCHANGED <<collecting, records, observed, overrun, cached>>
  <2>1. CallTyped' /\ SavingInv'
    BY <1>0, <1>2, <1>6, <1>8, <1>t DEF CallTyped, SavingInv
  <2> QED  BY <1>0, <1>4, <1>8, <2>1, Unchanging DEF CatalogInv
<1>9. CASE c # NoCatalog /\ Conclude(c, gathered[c], available[c]) /\ UNCHANGED cached
  <2>1. /\ c \in CatalogCall /\ gathered[c] \in Rows /\ available[c] \in BOOLEAN /\ partial[c] \in BOOLEAN
        /\ collecting[c] \in {"fetching", "saving"} /\ awaited[c] = {}
        /\ (~partial[c] => missing[c] = {})
        /\ UNCHANGED <<logVars, asked, began, cached, awaited, missing, open>>
    BY <1>0, <1>7, <1>9, <1>t DEF CallTyped, CatalogInv, StageInv
  <2>2. /\ available' = [available EXCEPT ![c] = available[c]]
        /\ partial' = [partial EXCEPT ![c] = partial[c]]
        /\ gathered' = [gathered EXCEPT ![c] = gathered[c]]
    BY <1>0, <1>t, <2>1 DEF CallTyped
  <2>3. CallTyped' /\ AskInv' /\ StageInv' /\ HeardInv' /\ FreshInv'
    BY <1>9, <2>1, <2>2, ConcludeKeeps
  <2>4. SavingInv'
    <3>1. collecting' = [collecting EXCEPT ![c] = "done"]
      BY <1>9 DEF Conclude
    <3>2. \A d \in CatalogCall \ {c} : collecting'[d] = collecting[d]
      BY <1>t, <3>1 DEF CallTyped
    <3> QED  BY <1>2, <1>6, <3>2 DEF SavingInv
  <2> QED  BY <1>0, <1>4, <2>3, <2>4, Unchanging DEF CatalogInv
<1>10. CASE c # NoCatalog /\ CatalogRejected(c) /\ UNCHANGED <<records, observed, overrun>>
  <2>1. /\ c \in CatalogCall /\ collecting' = [collecting EXCEPT ![c] = "failed"]
        /\ collecting'[c] = "failed" /\ \A d \in CatalogCall \ {c} : collecting'[d] = collecting[d]
        /\ cached' = IF cached = c THEN NoCatalog ELSE cached
    BY <1>7, <1>10, <1>t DEF CallTyped, CatalogRejected
  <2>2. CallTyped'
    BY <1>0, <1>10, <1>t, <2>1 DEF CallTyped, CatalogStage, Owners
  <2>3. AskInv'
    <3>1. \A d \in CatalogCall : asked[d].owner # NoCatalog => asked[d].owner \in CatalogCall
      BY <1>t DEF CallTyped, Owners
    <3>2. cached # NoCatalog => cached \in CatalogCall
      BY <1>t DEF CallTyped, Owners
    <3>3. \A d \in CatalogCall : collecting'[d] = "none" <=> collecting[d] = "none"
      BY <1>7, <1>10, <2>1
    <3>4. cached' # NoCatalog => cached' = cached /\ cached # c
      BY <2>1
    <3> QED  BY <1>0, <1>10, <2>1, <3>1, <3>2, <3>3, <3>4 DEF CatalogInv, AskInv
  <2>4. StageInv'
    BY <1>0, <1>7, <1>10, <2>1 DEF CatalogInv, StageInv
  <2>5. HeardInv'
    BY <1>0, <2>1 DEF CatalogInv, HeardInv, Complete, Changed, logVars
  <2>6. FreshInv'
    <3>1. \A o \in CatalogCall : Full(o)' => Full(o)
      BY <1>0, <1>10, <2>1 DEF Full
    <3> QED  BY <1>0, <1>10, <3>1 DEF CatalogInv, FreshInv
  <2>7. SavingInv'
    BY <1>2, <1>6, <2>1 DEF SavingInv
  <2> QED  BY <1>0, <1>4, <2>2, <2>3, <2>4, <2>5, <2>6, <2>7, Unchanging DEF CatalogInv
<1> QED  BY <1>3, <1>8, <1>9, <1>10

LEMMA CatalogInvNext ==
  ASSUME CatalogInv, [CatalogNext]_catalogVars
  PROVE  CatalogInv'
<1>1. CASE \E s \in Space : SpaceChanges(s)
  BY <1>1, WhatsAppKeeps
<1>2. CASE \E c \in CatalogCall, p \in Part : QueryAnswered(c, p)
  BY <1>2, WhatsAppKeeps
<1>3. CASE SocketLost \/ CacheExpires \/ (\E c \in CatalogCall, p \in Part : QueryFails(c, p))
  BY <1>3, MishapKeeps
<1>4. CASE \E c \in CatalogCall : AskCatalog(c)
  BY <1>4, CallAsks
<1>5. CASE \E c \in CatalogCall : ReadSpaces(c)
  BY <1>5, ReadKeeps
<1>6. CASE \E c \in CatalogCall : Gather(c)
  BY <1>6, GatherKeeps
<1>7. CASE Arrives
  BY <1>7, ArrivesKeeps
<1>8. CASE EventSaved
  BY <1>8, EventKeeps
<1>9. CASE WriteSpaces
  BY <1>9, WriteKeeps
<1>10. CASE UNCHANGED catalogVars
  <2>1. CallTyped'
    BY <1>10 DEF catalogVars, CatalogInv, CallTyped
  <2> QED  BY <1>10, <2>1, Unchanging DEF catalogVars, logVars, CatalogInv
<1> QED  BY <1>1, <1>2, <1>3, <1>4, <1>5, <1>6, <1>7, <1>8, <1>9, <1>10 DEF CatalogNext

\* The catalogue's invariant holds for any number of calls, groups, queries and changes, however
\* events, answers, failures and writes interleave (src/src/infra/http/controllers/sections.ts).
THEOREM CatalogInvariant == CatalogSpec => []CatalogInv
<1>1. CatalogInit => CatalogInv
  BY CatalogInvInit
<1>2. CatalogInv /\ [CatalogNext]_catalogVars => CatalogInv'
  BY CatalogInvNext
<1> QED  BY <1>1, <1>2, PTL DEF CatalogSpec

\* A full catalogue holds every change that an event brought before it was asked for, and what is
\* stored at rest is not older than what the events brought: no answer of WhatsApp overtakes a
\* later change, neither in a result, shared or not, nor in the database.
THEOREM CatalogIsSafe == CatalogSpec => []CatalogSafety
<1>1. CatalogInv => CatalogSafety
  <2> SUFFICES ASSUME CatalogInv PROVE CatalogSafety
    OBVIOUS
  <2>1. CatalogTypeOK
    BY DEF CatalogInv, LogInv, LogKept, AskInv, StageInv, CatalogTypeOK
  <2>2. CatalogFresh
    <3> SUFFICES ASSUME NEW c \in CatalogCall, NEW o \in CatalogCall, asked[c].owner = o, Full(o),
                        NEW s \in Space
                 PROVE  records[o][s] >= asked[c].known[s]
      BY DEF CatalogFresh, Full
    <3>1. asked[c].known[s] <= records[o][s]
      BY DEF CatalogInv, FreshInv
    <3> QED  BY <3>1
  <2>3. NewsStored
    <3> SUFFICES ASSUME connected, backlog = <<>>, writes = <<>>, NEW s \in Space
                 PROVE  stored[s] >= noted[s]
      BY DEF NewsStored
    <3>1. stored[s] = noted[s] /\ noted[s] \in Nat
      BY DEF CatalogInv, StoreInv, RestStored, Waiting, Followed, LogInv, LogTyped
    <3> QED  BY <3>1
  <2> QED  BY <2>1, <2>2, <2>3 DEF CatalogSafety
<1> QED  BY <1>1, CatalogInvariant, PTL
=============================================================================
