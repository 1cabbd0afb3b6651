---------------------------- MODULE ContactPlan ----------------------------
(***************************************************************************)
(* resolveContactPlan: before a contact is written, the phone and the LID  *)
(* it stands for are put together from the request, the stored contact and *)
(* three questions to the provider, which may answer anything and whose    *)
(* mapping may change between them.                                        *)
(***************************************************************************)
EXTENDS Integers, FiniteSets

CONSTANTS
  Phone,  \* JIDs of phones
  Lid,    \* JIDs of LIDs
  NoJid   \* no answer, or an answer that is not such a JID

ASSUME JidAssumption == NoJid \notin Phone \union Lid /\ Phone \intersect Lid = {}

VARIABLES
  wanted,      \* the JID the request names
  requireLid,  \* the configuration asks for a LID
  candidates,  \* the request's JID and those of the stored contact
  phone, lid,  \* what is resolved so far
  question,    \* what is awaited; "planned" or "refused" at the end
  heard        \* history: every JID named by anyone

planVars == <<wanted, requireLid, candidates, phone, lid, question, heard>>

Named(a) == {a} \ {NoJid}
Phones == candidates \intersect Phone
Lids == candidates \intersect Lid

PlanInit ==
  /\ wanted \in Phone \union Lid
  /\ requireLid \in BOOLEAN
  /\ candidates = {wanted} /\ heard = {wanted}
  /\ phone = NoJid /\ lid = NoJid
  /\ question = "contact"

\* The stored contact names up to three JIDs.
LookedUp ==
  /\ question = "contact"
  /\ \E known \in SUBSET (Phone \union Lid) :
       /\ IsFiniteSet(known) /\ Cardinality(known) <= 3
       /\ candidates' = candidates \union known
       /\ heard' = heard \union known
  /\ question' = IF Cardinality(Phones') > 1 \/ Cardinality(Lids') > 1 THEN "refused"
                 ELSE IF wanted \in Lid THEN "phoneOfLid" ELSE "lidOfPhone"
  /\ phone' = IF wanted \in Phone THEN wanted ELSE NoJid
  /\ UNCHANGED <<wanted, requireLid, lid>>

\* Mutant: the answer is not compared with the stored phone.
AnyPhone(p) == p # NoJid

AgreesWithStored(p) == p # NoJid /\ Phones \subseteq {p}

\* Without an answer the stored phone is a candidate.
PhoneOfLid ==
  /\ question = "phoneOfLid"
  /\ \E a \in Phone \union {NoJid} :
       /\ phone' = IF a = NoJid /\ Phones # {} THEN CHOOSE p \in Phones : TRUE ELSE a
       /\ heard' = heard \union Named(a)
       /\ question' = IF AgreesWithStored(phone') THEN "lidOfPhone" ELSE "refused"
  /\ UNCHANGED <<wanted, requireLid, candidates, lid>>

\* The LID the request or the stored contact names must be confirmed.
LidConfirmed(a) ==
  /\ wanted \in Lid => a = wanted
  /\ a # NoJid => Lids \subseteq {a}
  /\ a = NoJid => ~requireLid /\ Lids = {}

LidOfPhone ==
  /\ question = "lidOfPhone"
  /\ \E a \in Lid \union {NoJid} :
       /\ lid' = a
       /\ heard' = heard \union Named(a)
       /\ question' = IF ~LidConfirmed(a) THEN "refused"
                      ELSE IF a = NoJid THEN "planned" ELSE "reverse"
  /\ UNCHANGED <<wanted, requireLid, candidates, phone>>

ReverseLookup ==
  /\ question = "reverse"
  /\ \E a \in Phone \union {NoJid} :
       /\ heard' = heard \union Named(a)
       /\ question' = IF a \in {phone, NoJid} THEN "planned" ELSE "refused"
  /\ UNCHANGED <<wanted, requireLid, candidates, phone, lid>>

\* The connection changed during the question, or the provider failed.
QuestionFails ==
  /\ question \notin {"planned", "refused"}
  /\ question' = "refused"
  /\ UNCHANGED <<wanted, requireLid, candidates, phone, lid, heard>>

PlanNext == LookedUp \/ PhoneOfLid \/ LidOfPhone \/ ReverseLookup \/ QuestionFails

PlanSpec == PlanInit /\ [][PlanNext]_planVars

-----------------------------------------------------------------------------
(* Properties *)

\* A contact is written only if all that the request, the stored contact and the
\* provider ever said names one phone and at most one LID: the ones written.
OnePersonPlanned ==
  question = "planned" =>
    /\ heard \intersect Phone = {phone}
    /\ heard \intersect Lid = Named(lid)
    /\ requireLid => lid # NoJid
=============================================================================
