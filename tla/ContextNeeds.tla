----------------------------- MODULE ContextNeeds -----------------------------
(***************************************************************************)
(* Decisions over context needs: ContextNeedCoordinator                    *)
(* (context/fulfillment.py) and register_context_need_decision             *)
(* (storage/sqlite/context_need_store.py), beside the hosts of             *)
(* CognitiveRuntime that produce the needs.                                *)
(*                                                                         *)
(* A coordinator loads the lineage of a need with plain reads, prepares a  *)
(* decision and registers it in one write transaction; other coordinators  *)
(* decide the same need, and compilers persist requests, in between.  The  *)
(* rows of the lineage are never changed, so the checks that the parents   *)
(* named in a decision are those of its artifact always pass, and the      *)
(* decision row here carries its artifact only.  Query, labels, goal, task *)
(* and temporal selectors of a child are copies; its bounds are chosen.    *)
(***************************************************************************)
EXTENDS CognitiveRuntime

CONSTANTS
  Coordinators,  \* hosts that decide needs
  Tokens,        \* token budgets
  Latencies      \* latency budgets; None means unbounded

ASSUME BoundsAssumption ==
  /\ Tokens \subseteq Nat \ {0} /\ Latencies \subseteq Nat \ {0}
  /\ None \notin Latencies \cup Requests

VARIABLES
  contextRequests,  \* context_requests: id -> bounds
  decisions,        \* rows of context_need_decisions
  coordinators      \* the decision each coordinator has prepared

needVars == <<contextRequests, decisions, coordinators>>
allVars == <<cognitiveVars, needVars>>

Bounds == [tokens : Tokens, latency : Latencies \cup {None}]
Decision == [artifact : ArtifactIds, decidedAt : Times, child : Requests \cup {None},
             bounds : Bounds \cup {None}]

-----------------------------------------------------------------------------
ParentOf(a) == published[cognitive[artifacts[a].invocation]].request

\* Mutant: a child request may drop the latency bound of its parent.
NarrowsTokensOnly(parent, b) == b.tokens <= parent.tokens

(* A latency bound is kept or tightened.                                   *)
Narrows(parent, b) ==
  /\ b.tokens <= parent.tokens
  /\ parent.latency # None => b.latency # None /\ b.latency <= parent.latency

NeedsInit ==
  /\ CognitiveInit
  /\ contextRequests = [r \in {} |-> None]
  /\ decisions = {}
  /\ coordinators = [k \in Coordinators |-> None]

(* A need comes from a successful invocation.                              *)
Decidable(a) == artifacts[a].kind = "need" /\ Succeeded(artifacts[a].invocation)

(* accept and reject up to the transaction; a rejection has no child.      *)
PrepareDecision(k, a, t, child, b) ==
  /\ coordinators[k] = None
  /\ a \in DOMAIN artifacts
  /\ Decidable(a)
  /\ Reading(t)
  /\ clock' = t
  /\ child = None <=> b = None
  /\ child # None => /\ child # ParentOf(a)
                     /\ Narrows(contextRequests[ParentOf(a)], b)
  /\ coordinators' = [coordinators EXCEPT ![k] =
                        [artifact |-> a, decidedAt |-> t, child |-> child, bounds |-> b]]
  /\ UNCHANGED <<fenceVars, cognitive, invocations, artifacts, hosts, contextRequests, decisions>>

\* Mutant: a need that was decided already is decided again.
UndecidedUnchecked(d) == TRUE

Undecided(d) == \A e \in decisions : e.artifact # d.artifact

FreshChild(d) == d.child \notin DOMAIN contextRequests

\* Mutant: the times of a decision are not compared.
DecidedAnytime(d) == TRUE

(* The lineage check: a decision does not precede what it decides.         *)
DecidedAfter(d) ==
  /\ d.decidedAt >= artifacts[d.artifact].created
  /\ d.decidedAt >= invocations[artifacts[d.artifact].invocation].completed

\* Mutant: the staleness of the source projection is not checked again.
SourceUnfenced(d) == TRUE

SourceFresh(d) == Fresh(artifacts[d.artifact].invocation)

Registerable(d) ==
  /\ Undecided(d)
  /\ Decidable(d.artifact)
  /\ DecidedAfter(d)
  /\ d.child # None => /\ SourceFresh(d)
                       /\ Narrows(contextRequests[ParentOf(d.artifact)], d.bounds)
                       /\ FreshChild(d)

(* register_context_need_decision: the child request, if any, and the      *)
(* decision in one transaction.                                            *)
RegisterDecision(k) ==
  LET d == coordinators[k]
  IN  /\ d # None
      /\ Registerable(d)
      /\ decisions' = decisions \cup {d}
      /\ contextRequests' =
           [r \in DOMAIN contextRequests \cup ({d.child} \ {None}) |->
              IF r = d.child THEN d.bounds ELSE contextRequests[r]]
      /\ coordinators' = [coordinators EXCEPT ![k] = None]
      /\ UNCHANGED cognitiveVars

(* The decision is refused and rolled back, or its host dies first.        *)
DropDecision(k) ==
  /\ coordinators[k] # None
  /\ coordinators' = [coordinators EXCEPT ![k] = None]
  /\ UNCHANGED <<cognitiveVars, contextRequests, decisions>>

\* Mutant: the request of a projection is not persisted.
PersistRequestLost(i, r, b) == RegisterProjection(i, r) /\ UNCHANGED needVars

(* register_context_projection persists the request of the projection      *)
(* unless its id is taken, which must be by the same request.              *)
PersistRequest(i, r, b) ==
  /\ r \in DOMAIN contextRequests => contextRequests[r] = b
  /\ RegisterProjection(i, r)
  /\ contextRequests' = [x \in DOMAIN contextRequests \cup {r} |->
                           IF x = r THEN b ELSE contextRequests[x]]
  /\ UNCHANGED <<decisions, coordinators>>

NeedsNext ==
  \/ /\ ChangeState \/ \E h \in Hosts : HostStep(h) \/ HostInterrupted(h)
     /\ UNCHANGED needVars
  \/ \E k \in Coordinators, a \in ArtifactIds, t \in Times,
        child \in Requests \cup {None}, b \in Bounds \cup {None} :
       PrepareDecision(k, a, t, child, b)
  \/ \E k \in Coordinators : RegisterDecision(k) \/ DropDecision(k)
  \/ \E i \in ProjectionIds, r \in Requests, b \in Bounds : PersistRequest(i, r, b)

NeedsSpec == NeedsInit /\ [][NeedsNext]_allVars

(* Only hosts that are in a call are known to go on: nothing makes a       *)
(* coordinator or a compiler act.                                          *)
FairNeedsSpec ==
  NeedsSpec /\ \A h \in Hosts : WF_allVars(Proceed(h) /\ UNCHANGED needVars)

-----------------------------------------------------------------------------
(* Requests, decisions and prepared decisions have the columns of their    *)
(* tables, and every projection has its request.                           *)
NeedsTypeOK ==
  /\ DOMAIN contextRequests \subseteq Requests
  /\ \A r \in DOMAIN contextRequests : contextRequests[r] \in Bounds
  /\ \A i \in DOMAIN published : published[i].request \in DOMAIN contextRequests
  /\ decisions \subseteq Decision
  /\ coordinators \in [Coordinators -> Decision \cup {None}]

(* However many coordinators race, a need is decided once, a child request *)
(* is owned by one acceptance, and an acceptance and its child stand or    *)
(* fall together: the child exists with the bounds it was granted, even    *)
(* after compilers registered projections under its id.                    *)
NeedsDecidedOnce ==
  \A d, e \in decisions :
    /\ d.artifact = e.artifact \/ (d.child = e.child /\ d.child # None) => d = e
    /\ d.child # None => /\ d.child \in DOMAIN contextRequests
                         /\ contextRequests[d.child] = d.bounds

(* From a request to those it descends from, through any number of needs.  *)
Descent == {<<d.child, ParentOf(d.artifact)>> : d \in {e \in decisions : e.child # None}}
Ancestors(r) ==
  LET closed(S) == \A e \in Descent : (e[1] = r \/ e[1] \in S) => e[2] \in S
  IN  {p \in Requests : \A S \in SUBSET Requests : closed(S) => p \in S}

(* A chain of accepted needs never widens the bounds it started with, never *)
(* drops a latency bound on the way, and never comes back to a request of   *)
(* its own (docs/context-fulfillment.md, per-child non-amplification).      *)
ChainsNeverAmplify ==
  \A r \in DOMAIN contextRequests : \A p \in Ancestors(r) :
    LET child == contextRequests[r]
        ancestor == contextRequests[p]
    IN  /\ p # r
        /\ child.tokens <= ancestor.tokens
        /\ child.latency = None => ancestor.latency = None
        /\ (child.latency # None /\ ancestor.latency # None)
             => child.latency <= ancestor.latency

(* Every decision follows what it decides: a need that a successful        *)
(* invocation produced within its interval, also if the clock was set back *)
(* meanwhile.                                                              *)
DecisionsFollowNeeds ==
  \A d \in decisions :
    LET a == artifacts[d.artifact]
        i == invocations[a.invocation]
    IN  /\ a.kind = "need" /\ ~i.failed
        /\ i.started <= a.created /\ a.created <= i.completed /\ i.completed <= d.decidedAt

(* Work is granted only where the model judged the current state: at the   *)
(* moment of an acceptance the projection that produced the need is still  *)
(* the answer to its request.  A rejection may come later.                 *)
AcceptancesAreCurrent ==
  [][\A d \in decisions' \ decisions :
       LET p == published[cognitive[artifacts[d.artifact].invocation]]
       IN  d.child # None => p.content = answer[p.request]]_allVars
=============================================================================
