--------------------------- MODULE DispatchControl ---------------------------
(***************************************************************************)
(* The two boundaries an operation passes before it is run: the admission  *)
(* gate (04_CONTROL_ROOM/runtime_admission_gate.c) and the enforcement at  *)
(* dispatch (runtime_enforcement.c).  Both judge a request by a context    *)
(* the caller collected, remember requests and decisions in two rings, and *)
(* reassess or invalidate a decision by its identifier; `layer' says which *)
(* of the two a behaviour is about.                                        *)
(*                                                                         *)
(* A context is the set of the conditions that do not hold; the four       *)
(* states an operation can be refused in count as one, and so do the modes *)
(* that do not allow work.  A decision is named by the first check that    *)
(* refused it: the ten and thirteen outcomes of the headers are groups of  *)
(* these.  Events and counters are left out, but for the counter that      *)
(* identifiers are made of.  Nothing reads a decision's own expiration.    *)
(***************************************************************************)
EXTENDS Integers, FiniteSets, Sequences, SequencesExt

CONSTANTS
  RequestIds,     \* identifiers of requests, which callers choose ("" among them)
  References,     \* (bound) the sets of references that a request names
  Contexts,       \* (bound) the contexts that callers collect
  RequestRoom,    \* OZAYN_ROE_MAX_REQUESTS, OZAYN_RAG_MAX_REQUESTS
  DecisionRoom,   \* OZAYN_ROE_MAX_DECISIONS, OZAYN_RAG_MAX_DECISIONS
  MaxReassessed,  \* OZAYN_ROE_MAX_REASSESSMENTS, OZAYN_RAG_MAX_REASSESSMENTS
  DefaultLife,    \* OZAYN_ROE_DEFAULT_EXPIRY_MS, OZAYN_RAG_DEFAULT_EXPIRY_MS
  MaxJudged       \* (bound) requests judged, reassessments among them

ASSUME DispatchAssumption ==
  /\ {RequestRoom, DecisionRoom, DefaultLife} \subseteq Nat \ {0}
  /\ {MaxReassessed, MaxJudged} \subseteq Nat

VARIABLES
  layer,      \* which boundary
  requests,   \* the ring of requests, oldest first: [id, refs, life]
  decisions,  \* the ring of decisions, oldest first
  total,      \* stats.total_requests, the number of the next identifier
  judged,     \* (history) requests judged
  askedAs,    \* (history) identifier -> the numbers of the requests made under it
  wasReset,   \* (history) the statistics have been reset
  restored    \* (history) the requests of which a decision in force was stored twice

dispatchVars == <<layer, requests, decisions, total, judged, askedAs, wasReset, restored>>

Layers == {"admission", "enforcement"}
NoDeadline == -1
Nobody == -1                  \* the identifier in a buffer that nothing was written to
NoName == ""                  \* the identifier of a request that has none

(* The checks of each boundary, in their order, after that of the          *)
(* identifier.                                                             *)
EnforcementChecks ==
  <<"deadline", "operation", "mode", "readiness", "target", "capability", "session", "authorization",
    "safety", "dependencies", "resources", "devices", "workflow", "pipeline">>
AdmissionChecks ==
  <<"deadline", "mode", "readiness", "target", "capability", "session", "authorization",
    "safety", "dependencies", "resources", "devices", "workflow", "pipeline", "scheduler">>
Checks == IF layer = "enforcement" THEN EnforcementChecks ELSE AdmissionChecks

(* Some checks are made only of a request that names what they are about.  *)
Applies(check, refs) ==
  CASE check \in {"target", "capability", "workflow", "pipeline"} -> check \in refs
    [] check \in {"session", "authorization"} -> "session" \in refs
    [] OTHER -> TRUE

Verdict(id, refs, failing) ==
  LET against == {k \in DOMAIN Checks : Checks[k] \in failing /\ Applies(Checks[k], refs)}
  IN IF id = NoName THEN "id"
     ELSE IF against = {} THEN "granted"
     ELSE Checks[CHOOSE k \in against : \A j \in against : k <= j]

(* can_dispatch and can_admit, which leave out what they leave out.        *)
QuickCheck(id, refs, failing) ==
  LET skipped == IF layer = "enforcement" THEN {"dependencies"}
                 ELSE {"session", "authorization", "dependencies", "scheduler"}
  IN Verdict(id, refs, failing \ skipped) = "granted"

Pushed(ring, x, room) == Append(IF Len(ring) = room THEN Tail(ring) ELSE ring, x)

FoundAt(id) == {k \in DOMAIN decisions : decisions[k].id = id}
Found(id) == CHOOSE k \in FoundAt(id) : \A j \in FoundAt(id) : k <= j
Kept == {decisions[k].id : k \in DOMAIN decisions}

Passed(life) == IF life = 0 THEN {"deadline"} ELSE {}
Recorded(life) == IF life = NoDeadline THEN DefaultLife ELSE life

(* A request is recorded, judged, and the decision stored.  What was asked *)
(* first, and how long it was good for, is history.                        *)
Judge(request, context, held, first) ==
  /\ judged < MaxJudged
  /\ requests' = Pushed(requests, [request EXCEPT !.life = Recorded(@)], RequestRoom)
  /\ decisions' =
       Pushed(held,
              [id |-> total, request |-> request.id, active |-> TRUE, again |-> first.again,
               verdict |-> Verdict(request.id, request.refs, context \cup Passed(request.life)),
               asked |-> first.refs, life |-> first.life, number |-> judged, chain |-> first.chain,
               failing |-> context \cup Passed(first.life)],
              DecisionRoom)
  /\ total' = total + 1 /\ judged' = judged + 1

DispatchInit ==
  /\ layer \in Layers
  /\ requests = <<>> /\ decisions = <<>> /\ total = 0
  /\ judged = 0 /\ askedAs = [id \in RequestIds |-> {}] /\ wasReset = FALSE /\ restored = {}

(* ozayn_roe_enforce, ozayn_rag_admit: a request as its caller made it.    *)
Submit(id, refs, life, context) ==
  /\ Judge([id |-> id, refs |-> refs, life |-> life], context, decisions,
           [again |-> 0, refs |-> refs, life |-> Recorded(life), chain |-> judged])
  /\ askedAs' = [askedAs EXCEPT ![id] = @ \cup {judged}]
  /\ UNCHANGED <<layer, wasReset, restored>>

(* The request to be judged again: the gate knows no more of it than the   *)
(* decision says; the enforcement looks for its record, the oldest under   *)
(* this identifier.                                                        *)
RequestAgain(id) ==
  LET records == {k \in DOMAIN requests : requests[k].id = id}
  IN IF layer = "admission" \/ records = {}
     THEN [id |-> id, refs |-> {}, life |-> NoDeadline]
     ELSE requests[CHOOSE k \in records : \A j \in records : k <= j]

Superseded_Kept(k) == decisions              \* mutant: the old decision stays in force
Superseded(k) == [decisions EXCEPT ![k].active = FALSE]

(* ozayn_roe_reassess, ozayn_rag_reassess within the limit.                *)
Reassess(id, context) ==
  /\ id \in Kept
  /\ LET old == decisions[Found(id)]
     IN /\ old.active /\ old.again < MaxReassessed
        /\ Judge(RequestAgain(old.request), context, Superseded(Found(id)),
                 [again |-> old.again + 1, refs |-> old.asked, life |-> old.life, chain |-> old.chain])
  /\ UNCHANGED <<layer, askedAs, wasReset, restored>>

(* Beyond it, a refusal is written over whatever the caller's buffer held, *)
(* nothing or an earlier decision, and that is stored; the old decision is *)
(* left as it was.                                                         *)
Blank == [id |-> Nobody, request |-> NoName, active |-> FALSE, again |-> 0, verdict |-> "limit", asked |-> {},
          life |-> 0, number |-> 0, chain |-> 0, failing |-> {}]
RefuseAgain(id, buffer) ==
  /\ id \in Kept
  /\ decisions[Found(id)].active /\ decisions[Found(id)].again >= MaxReassessed
  /\ decisions' = Pushed(decisions, [buffer EXCEPT !.verdict = "limit"], DecisionRoom)
  /\ restored' = IF buffer.active THEN restored \cup {buffer.chain} ELSE restored
  /\ UNCHANGED <<layer, requests, total, judged, askedAs, wasReset>>

(* ozayn_roe_invalidate, ozayn_rag_invalidate.                             *)
Invalidate(id) ==
  /\ id \in Kept /\ decisions[Found(id)].active
  /\ decisions' = [decisions EXCEPT ![Found(id)].active = FALSE]
  /\ UNCHANGED <<layer, requests, total, judged, askedAs, wasReset, restored>>

(* ozayn_roe_reset_stats, ozayn_rag_reset_stats.                           *)
ResetStats ==
  /\ total' = 0 /\ wasReset' = TRUE
  /\ UNCHANGED <<layer, requests, decisions, judged, askedAs, restored>>

DispatchElapse ==
  LET Aged(ring) == [k \in DOMAIN ring |-> [ring[k] EXCEPT !.life = IF @ > 0 THEN @ - 1 ELSE @]]
  IN /\ requests' = Aged(requests) /\ decisions' = Aged(decisions)
     /\ UNCHANGED <<layer, total, judged, askedAs, wasReset, restored>>

DispatchNext ==
  \/ \E id \in RequestIds, refs \in References, context \in Contexts,
        life \in {NoDeadline, 0, DefaultLife} : Submit(id, refs, life, context)
  \/ \E id \in Kept :
       \/ \E context \in Contexts : Reassess(id, context)
       \/ \E buffer \in Range(decisions) \cup {Blank} : RefuseAgain(id, buffer)
       \/ Invalidate(id)
  \/ ResetStats \/ DispatchElapse

(***************************************************************************)
(* Properties.                                                             *)
(***************************************************************************)

DispatchTypeOK ==
  /\ layer \in Layers /\ total \in 0..MaxJudged /\ judged \in 0..MaxJudged
  /\ Len(requests) <= RequestRoom /\ Len(decisions) <= DecisionRoom
  /\ \A k \in DOMAIN requests : requests[k].id \in RequestIds /\ requests[k].life \in 0..DefaultLife
  /\ \A d \in Range(decisions) :
       /\ d.verdict \in Range(Checks) \cup {"id", "limit", "granted"}
       /\ d.again \in 0..MaxReassessed /\ d.chain <= d.number

Granted == {k \in DOMAIN decisions : decisions[k].verdict = "granted"}
(* What was asked for and does not hold.                                   *)
Missing(d) == {c \in d.failing : Applies(c, d.asked) /\ Contains(Checks, c)}

(* A grant is warranted: nothing that was asked for first was missing, its *)
(* deadline included, also after reassessments, unless the enforcement had *)
(* lost the request to others, or was asked more than once under its name,  *)
(* or it was the gate that judged again (04_CONTROL_ROOM/README.md, TOCTOU *)
(* protection).                                                            *)
GrantWarranted ==
  \A k \in Granted :
    LET d == decisions[k]
    IN Missing(d) # {} =>
         /\ d.again > 0
         /\ \/ layer = "admission"
            \/ d.number - d.chain > RequestRoom
            \/ Cardinality(askedAs[d.request]) > 1

(* A decision that is reassessed makes way for the new one: of the grants  *)
(* that go back to one request no two are in force, unless a refusal was   *)
(* written over a copy of its decision and stored: the copy can then be    *)
(* reassessed as well (runtime_enforcement.c:594, _store_decision).        *)
OneGrantInForce ==
  \A j, k \in Granted :
    j # k /\ decisions[j].active /\ decisions[k].active /\ decisions[j].chain \notin restored
      => decisions[j].chain # decisions[k].chain

(* An identifier leads to the decision it was given for, which is what     *)
(* invalidation and reassessment rest on, until the statistics are reset.  *)
IdLeadsToDecision ==
  ~wasReset => \A k \in Granted : Found(decisions[k].id) = k

(* What the quick check turns away the boundary would have refused.        *)
QuickRefusalIsFinal == \A k \in Granted : decisions[k].again = 0 =>
  QuickCheck(decisions[k].request, decisions[k].asked, decisions[k].failing)

DispatchSafe ==
  DispatchTypeOK /\ GrantWarranted /\ OneGrantInForce /\ IdLeadsToDecision /\ QuickRefusalIsFinal

(* What does not hold: that every grant is warranted (the gate judges      *)
(* again without the references of the request, and so without its session)*)
(* that one request never has two grants in force, whatever was stored,    *)
(* and that no grant stays in force under an identifier that was           *)
(* invalidated.                                                            *)
AlwaysWarranted == \A k \in Granted : Missing(decisions[k]) = {}
AlwaysOneGrant ==
  \A j, k \in Granted :
    j # k /\ decisions[j].active /\ decisions[k].active => decisions[j].chain # decisions[k].chain
InvalidatedIsGone ==
  [][\A id \in Kept : Invalidate(id) =>
       \A k \in Granted' : decisions'[k].id = id => ~decisions'[k].active]_dispatchVars
=============================================================================
