------------------------ MODULE RequirementPlanning ------------------------
(***************************************************************************)
(* Candidate generation and requirement planning over the store:           *)
(* LexicalCandidateGenerator.generate (context/candidates.py) and          *)
(* ControlledRequirementPlanner.plan and derive_request                    *)
(* (context/planning.py).                                                  *)
(*                                                                         *)
(* A client generates a candidate set in one pinned snapshot, plans from   *)
(* it, and derives an exact request from the plan; none of the three is    *)
(* persisted, each is given the request anew, and writers commit in        *)
(* between.  A text is the set of its tokens.  Fingerprints of requests    *)
(* are injective.  The reasons of an abstention are left out.              *)
(***************************************************************************)
EXTENDS Recall

CONSTANTS
  SubjectTerms,    \* subject -> its tokens (lexical_tokens)
  PredicateTerms,  \* predicate -> its tokens
  ValueTerms,      \* claim -> the tokens of its value (semantic_tokens)
  Position,        \* key -> its place in the order of subject and predicate
  Clients,         \* callers that plan
  Requests,        \* what they may ask; some with one id and different semantics
  DerivedId,       \* the UUID that clients give for a derived request
  Limits           \* how many candidates they ask for

ASSUME LexiconAssumption ==
  /\ \A k \in Keys : /\ IsFiniteSet(SubjectTerms[k.subject])
                     /\ IsFiniteSet(PredicateTerms[k.predicate])
  /\ \A c \in ClaimIds : IsFiniteSet(ValueTerms[c])
ASSUME PositionAssumption ==
  /\ IsFiniteSet(Keys)
  /\ \A k \in Keys : Position[k] \in Int
ASSUME PlanRequestsAssumption ==
  \A r \in Requests :
    /\ r = [id |-> r.id, query |-> r.query, known |-> r.known, valid |-> r.valid, exact |-> r.exact]
    /\ IsFiniteSet(r.query) /\ r.query # {}
    /\ r.known \in Times \cup {None} /\ r.valid \in Times \cup {None}
    /\ r.exact \subseteq Keys
ASSUME LimitsAssumption == Limits \subseteq Nat \ {0}

VARIABLE clients  \* what each client holds: a candidate set, then a plan, then a request

planningVars == <<epistemicVars, memoryVars, clients>>

Lexical == "lexical-v0.2"

-----------------------------------------------------------------------------
Found(k, r) == Recalled(k, r.known, r.valid)

\* Mutant: archived and forgotten memory is recalled as well.
RecallableOfAnyMemory(r) == {k \in Keys : Found(k, r).operative # None}

(* The keys a reader of the snapshot can recall at all: resolved, with the *)
(* memory of the operative claim ACTIVE.                                   *)
Recallable(r) == {k \in Keys : Found(k, r).operative \in Found(k, r).items}

(* rank_score; 0 when no term matches.                                     *)
Score(k, r, recalled) ==
  5 * Cardinality(r.query \cap PredicateTerms[k.predicate])
    + 3 * Cardinality(r.query \cap SubjectTerms[k.subject])
    + Cardinality(r.query \cap UNION {ValueTerms[c] : c \in recalled})

(* ContextCandidate                                                        *)
Candidate(k, r) ==
  LET found == Found(k, r)
  IN  [key |-> k, claim |-> found.operative, score |-> Score(k, r, found.items)]

Matching(r) == {c \in {Candidate(k, r) : k \in Recallable(r)} : c.score > 0}

Before(d, c) == \/ d.score > c.score
                \/ d.score = c.score /\ Position[d.key] < Position[c.key]

(* candidates[:limit], after the sort.                                     *)
Best(matching, limit) ==
  {c \in matching : Cardinality({d \in matching : Before(d, c)}) < limit}

\* Mutant: what was kept is counted instead of what was found.
ExhaustiveOnceCut(matching, limit) == Cardinality(Best(matching, limit)) <= limit

Exhaustive(matching, limit) == Cardinality(matching) <= limit

(* CandidateSet                                                            *)
LexicalSet(r, limit) ==
  LET matching == Matching(r)
  IN  [request |-> r, frontier |-> frontier, generator |-> Lexical,
       candidates |-> Best(matching, limit), exhaustive |-> Exhaustive(matching, limit)]

-----------------------------------------------------------------------------
(* plan.  The candidates that the query names by their predicate ...       *)
Named(set) ==
  {c \in set.candidates : set.request.query \cap PredicateTerms[c.key.predicate] # {}}

Supported(set) == set.generator = Lexical /\ set.exhaustive

(* ... must agree on the predicate; then they compete by subject only.     *)
Competing(set) ==
  IF Supported(set) /\ Cardinality({c.key.predicate : c \in Named(set)}) = 1
    THEN Named(set) ELSE {}

\* Mutant: a token of the predicate counts for a subject as well.
EvidenceTwice(set, k) == set.request.query

(* What is left of the query to tell the subjects of a predicate apart.    *)
Evidence(set, k) == set.request.query \ PredicateTerms[k.predicate]

(* _resolve_subject: the evidence holds a token of this subject that no    *)
(* competing subject has.                                                  *)
Qualified(set) ==
  LET pool == Competing(set)
  IN  {c \in pool : \E t \in SubjectTerms[c.key.subject] \cap Evidence(set, c.key) :
                      \A d \in pool \ {c} : t \notin SubjectTerms[d.key.subject]}

Chosen(set) == IF Cardinality(Competing(set)) = 1 THEN Competing(set) ELSE Qualified(set)

\* Mutant: any qualified subject resolves the plan.
PlanStatusOfAny(set) ==
  IF Competing(set) = {} THEN "ABSTAINED"
  ELSE IF Chosen(set) # {} THEN "RESOLVED" ELSE "AMBIGUOUS"

PlanStatus(set) ==
  IF Competing(set) = {} THEN "ABSTAINED"
  ELSE IF Cardinality(Chosen(set)) = 1 THEN "RESOLVED" ELSE "AMBIGUOUS"

(* RequirementPlan; "exact" is its requirement and "selected" its claim.   *)
PlanOf(set) ==
  LET status == PlanStatus(set)
      chosen == IF status = "RESOLVED" THEN Chosen(set) ELSE {}
  IN  [request |-> set.request, frontier |-> set.frontier, generator |-> set.generator,
       status |-> status,
       exact |-> {c.key : c \in chosen}, selected |-> {c.claim : c \in chosen},
       ambiguous |-> IF status = "AMBIGUOUS"
                       THEN {c.claim : c \in Competing(set)} ELSE {}]

\* Mutant: the request of a plan is recognized by its id.
SameRequestById(r, source) == r.id = source.id

(* The id and the fingerprint of a request, checked by plan and by         *)
(* derive_request.                                                         *)
SameRequest(r, source) == r = source

(* A request that has exact requirements is refused; so is a derived id    *)
(* that is the source's.                                                   *)
Plannable(r, set) == r.exact = {} /\ SameRequest(r, set.request)
Derivable(r, plan) ==
  SameRequest(r, plan.request) /\ plan.status = "RESOLVED" /\ DerivedId # r.id

Derived(r, plan) == [r EXCEPT !.id = DerivedId, !.exact = plan.exact]

-----------------------------------------------------------------------------
PlanningInit ==
  /\ EpistemicInit
  /\ MemoryInit
  /\ clients = [x \in Clients |-> None]

Unchanging == UNCHANGED <<epistemicVars, memoryVars>>

(* "recallable" keeps, for the properties, what the snapshot held.         *)
Generate(x, r, limit) ==
  /\ clients[x] = None
  /\ clients' = [clients EXCEPT ![x] =
                   [stage |-> "generated", recallable |-> Recallable(r),
                    held |-> LexicalSet(r, limit)]]
  /\ Unchanging

(* Another retriever searches what it likes and calls that exhaustive.     *)
GenerateElsewhere(x, r) ==
  /\ clients[x] = None
  /\ \E ks \in SUBSET Recallable(r) :
       clients' = [clients EXCEPT ![x] =
                     [stage |-> "generated", recallable |-> Recallable(r),
                      held |-> [LexicalSet(r, 1) EXCEPT
                                  !.generator = "other", !.exhaustive = TRUE,
                                  !.candidates = {Candidate(k, r) : k \in ks}]]]
  /\ Unchanging

Holds(x, stage) == clients[x] # None /\ clients[x].stage = stage

Moves(x, stage, value) ==
  clients' = [clients EXCEPT ![x].stage = stage, ![x].held = value]

Plan(x, r) ==
  /\ Holds(x, "generated")
  /\ Plannable(r, clients[x].held)
  /\ Moves(x, "planned", PlanOf(clients[x].held))
  /\ Unchanging

(* "source" keeps the plan of a derived request, for the properties.       *)
DeriveRequest(x, r) ==
  /\ Holds(x, "planned")
  /\ Derivable(r, clients[x].held)
  /\ Moves(x, "derived", [source |-> clients[x].held,
                          request |-> Derived(r, clients[x].held)])
  /\ Unchanging

(* A call is refused, or the client is done: what it held is gone.         *)
DropPlanning(x) ==
  /\ clients[x] # None
  /\ clients' = [clients EXCEPT ![x] = None]
  /\ Unchanging

PlanningNext ==
  \/ \E x \in Clients, r \in Requests, limit \in Limits : Generate(x, r, limit)
  \/ \E x \in Clients, r \in Requests : \/ GenerateElsewhere(x, r)
                                        \/ Plan(x, r) \/ DeriveRequest(x, r)
  \/ \E x \in Clients : DropPlanning(x)
  \/ (\E w \in Writers : ReadCurrent(w)) /\ UNCHANGED <<memoryVars, clients>>
  \/ (\E w \in Writers, c \in ClaimIds, b \in Bundles : CommitAndAdmit(w, c, b))
     /\ UNCHANGED clients
  \/ (\E m \in Targets, kind \in EventKinds : RecordMemoryEvent(m, kind))
     /\ UNCHANGED <<claimVars, drafts, clients>>

PlanningSpec == PlanningInit /\ [][PlanningNext]_planningVars

-----------------------------------------------------------------------------
(* Candidate sets and plans honour the contracts of their classes          *)
(* (CandidateSet, RequirementPlan.__post_init__): of a snapshot that       *)
(* existed, with a requirement and its claim only when resolved, and with  *)
(* the claims that compete when ambiguous.                                 *)
PlanningTypeOK ==
  \A x \in Clients :
    LET held == clients[x].held
    IN  /\ Holds(x, "generated") =>
             /\ held.frontier \in 0..frontier
             /\ {c.key : c \in held.candidates} \subseteq clients[x].recallable
             /\ Cardinality({c.key : c \in held.candidates}) = Cardinality(held.candidates)
        /\ Holds(x, "planned") =>
             /\ held.status = "RESOLVED" <=> held.exact # {}
             /\ Cardinality(held.exact) = Cardinality(held.selected)
             /\ Cardinality(held.exact) <= 1
             /\ held.status = "AMBIGUOUS" <=> Cardinality(held.ambiguous) > 1

(* A resolved plan names the one obligation that the whole snapshot leaves *)
(* open, not only the candidates that were returned                        *)
(* (docs/requirement-planning.md:109): no recallable key has another       *)
(* predicate the query names, and among the subjects of that predicate a   *)
(* token of the query that is not one of the predicate's names this one    *)
(* alone, and none of the others.                                          *)
ResolvedIsUnique ==
  \A x \in Clients :
    (Holds(x, "planned") /\ clients[x].held.status = "RESOLVED") =>
      \A k \in clients[x].held.exact :
        LET query == clients[x].held.request.query
            named == {j \in clients[x].recallable : query \cap PredicateTerms[j.predicate] # {}}
            only(j) == (query \cap SubjectTerms[j.subject])
                         \ (PredicateTerms[j.predicate]
                              \cup UNION {SubjectTerms[i.subject] : i \in named \ {j}})
        IN  /\ k \in named
            /\ \A j \in named : j.predicate = k.predicate
            /\ named # {k} => only(k) # {} /\ \A j \in named \ {k} : only(j) = {}

(* A limit and the rank behind it make the planner abstain, but never      *)
(* decide: with any limit it either abstains or plans what it plans when   *)
(* everything is returned.  This speaks of the store alone, so that it is  *)
(* enough to look where no client holds anything.                          *)
LimitNeverDecides ==
  (\A x \in Clients : clients[x] = None) =>
    \A r \in Requests :
      LET all == PlanOf(LexicalSet(r, Cardinality(Keys)))
      IN  \A limit \in Limits :
            LET plan == PlanOf(LexicalSet(r, limit))
            IN  plan = all \/ plan.status = "ABSTAINED"

(* The derived request asks what its source asked when the candidates were *)
(* generated, under a new id, plus one obligation: callers that reuse the  *)
(* id of a request for other semantics get no request from its plan.       *)
DerivedAsksItsSource ==
  \A x \in Clients :
    Holds(x, "derived") =>
      LET d == clients[x].held
      IN  /\ d.request.id # d.source.request.id
          /\ d.request.query = d.source.request.query
          /\ d.request.known = d.source.request.known
          /\ d.request.valid = d.source.request.valid
          /\ d.request.exact = d.source.exact /\ Cardinality(d.request.exact) = 1

(* As long as neither its key nor the memory of its claim changed after the *)
(* plan's snapshot, compiling the derived request recalls the claim that    *)
(* the plan selected, at the times the source asked about.                  *)
PlansHoldUntilTouched ==
  \A x \in Clients :
    Holds(x, "derived") =>
      LET d == clients[x].held
          touched == (d.request.exact \cup d.source.selected) \cap ChangedSince(d.source.frontier)
      IN  touched = {} =>
            \A k \in d.request.exact :
              LET found == Recalled(k, d.request.known, d.request.valid)
              IN  {found.operative} = d.source.selected /\ found.operative \in found.items
=============================================================================
