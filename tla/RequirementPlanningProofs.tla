---------------------- MODULE RequirementPlanningProofs ----------------------
(***************************************************************************)
(* Proofs about RequirementPlanning: what the planner decides rests on     *)
(* every key of the snapshot, whatever limit its candidates were cut at.   *)
(***************************************************************************)
EXTENDS RequirementPlanning, RecallProofs

(* The values of a function on a finite set are finitely many, and no more. *)
LEMMA FiniteRange ==
  ASSUME NEW S, IsFiniteSet(S), NEW f, f = [s \in S |-> f[s]]
  PROVE  /\ IsFiniteSet({f[s] : s \in S})
         /\ Cardinality({f[s] : s \in S}) <= Cardinality(S)
<1> DEFINE T == {f[s] : s \in S}
<1>1. f \in Surjection(S, T)
  BY DEF Surjection
<1>2. IsFiniteSet(T) /\ Cardinality(T) <= Cardinality(S)
  BY <1>1, FS_Surjection
<1> QED
  BY <1>2

(* There are as many of them when none occurs twice.                       *)
LEMMA InjectiveRange ==
  ASSUME NEW S, IsFiniteSet(S), NEW f, f = [s \in S |-> f[s]],
         \A s, t \in S : f[s] = f[t] => s = t
  PROVE  /\ IsFiniteSet({f[s] : s \in S})
         /\ Cardinality({f[s] : s \in S}) = Cardinality(S)
<1> DEFINE T == {f[s] : s \in S}
<1>1. f \in Surjection(S, T) /\ f \in Injection(S, T)
  BY DEF Injection, Surjection, IsInjective
<1> HIDE DEF T
<1>2. IsFiniteSet(T) /\ Cardinality(T) = Cardinality(S)
  BY <1>1, FS_Surjection
<1> QED
  BY <1>2 DEF T

(* The rank of a key is a natural number, and a key that the query names by *)
(* its predicate has a positive one.                                        *)
LEMMA ScoreIsNatural ==
  ASSUME NEW r \in Requests, NEW k, NEW recalled
  PROVE  /\ Score(k, r, recalled) \in Nat
         /\ r.query \cap PredicateTerms[k.predicate] # {} => Score(k, r, recalled) > 0
<1> DEFINE P == r.query \cap PredicateTerms[k.predicate]
           S == r.query \cap SubjectTerms[k.subject]
           V == r.query \cap UNION {ValueTerms[c] : c \in recalled}
<1>1. IsFiniteSet(r.query)
  BY PlanRequestsAssumption
<1>2. IsFiniteSet(P) /\ IsFiniteSet(S) /\ IsFiniteSet(V)
  BY <1>1, FS_Subset
<1>3. Cardinality(P) \in Nat /\ Cardinality(S) \in Nat /\ Cardinality(V) \in Nat
  BY <1>2, FS_CardinalityType
<1>4. P # {} => Cardinality(P) # 0
  BY <1>2, FS_EmptySet
<1>5. Score(k, r, recalled) = 5 * Cardinality(P) + 3 * Cardinality(S) + Cardinality(V)
  BY DEF Score
<1> HIDE DEF P, S, V
<1>6. Score(k, r, recalled) \in Nat /\ (P # {} => Score(k, r, recalled) > 0)
  BY <1>3, <1>4, <1>5
<1> QED
  BY <1>6 DEF P

(* The candidates of a snapshot are finitely many, their ranks are         *)
(* comparable, and there is one for each key.                              *)
LEMMA MatchingIsFinite ==
  ASSUME NEW r \in Requests
  PROVE  /\ IsFiniteSet(Matching(r))
         /\ \A c \in Matching(r) : c.score \in Nat /\ c = Candidate(c.key, r)
<1> DEFINE f == [k \in Recallable(r) |-> Candidate(k, r)]
<1>1. IsFiniteSet(Recallable(r))
  <2>1. Recallable(r) \in SUBSET Keys
    BY DEF Recallable
  <2> QED
    BY <2>1, PositionAssumption, FS_Subset
<1>2. f = [k \in Recallable(r) |-> f[k]]
  OBVIOUS
<1>3. IsFiniteSet({f[k] : k \in Recallable(r)})
  <2> HIDE DEF f
  <2> QED
    BY <1>1, <1>2, FiniteRange
<1>4. Matching(r) \in SUBSET {f[k] : k \in Recallable(r)}
  BY DEF Matching
<1>5. IsFiniteSet(Matching(r))
  <2> HIDE DEF f
  <2> QED
    BY <1>3, <1>4, FS_Subset
<1>6. ASSUME NEW k
      PROVE  Candidate(k, r).score \in Nat /\ Candidate(k, r).key = k
  BY ScoreIsNatural DEF Candidate
<1>7. \A c \in Matching(r) : \E k \in Recallable(r) : c = Candidate(k, r)
  BY DEF Matching
<1> QED
  BY <1>5, <1>6, <1>7

(* Nothing is cut off when there are no more candidates than the limit:    *)
(* fewer of them come before any one than there are.                       *)
LEMMA BestOfExhaustive ==
  ASSUME NEW r \in Requests, NEW limit \in Nat, Exhaustive(Matching(r), limit)
  PROVE  Best(Matching(r), limit) = Matching(r)
<1> DEFINE M == Matching(r)
           ahead(c) == {d \in M : Before(d, c)}
<1>1. IsFiniteSet(M) /\ \A c \in M : c.score \in Nat
  BY MatchingIsFinite
<1>2. Cardinality(M) \in Nat /\ Cardinality(M) <= limit
  BY <1>1, FS_CardinalityType DEF Exhaustive
<1>3. ASSUME NEW c \in M
      PROVE  Cardinality(ahead(c)) < limit
  <2>1. c \notin ahead(c)
    <3>1. \E k \in Keys : c.key = k
      BY <1>3 DEF Matching, Candidate, Recallable
    <3>2. Position[c.key] \in Int
      BY <3>1, PositionAssumption
    <3> QED
      BY <1>1, <1>3, <3>2 DEF Before
  <2>2. ahead(c) \in SUBSET (M \ {c})
    BY <2>1
  <2>3. IsFiniteSet(M \ {c}) /\ Cardinality(M \ {c}) = Cardinality(M) - 1
    BY <1>1, <1>3, FS_RemoveElement
  <2>4. /\ IsFiniteSet(ahead(c)) /\ Cardinality(ahead(c)) <= Cardinality(M \ {c})
        /\ Cardinality(ahead(c)) \in Nat
    BY <2>2, <2>3, FS_Subset, FS_CardinalityType
  <2> HIDE DEF M, ahead
  <2> QED
    BY <1>2, <2>3, <2>4
<1> QED
  BY <1>3 DEF Best

(* A supported candidate set holds every candidate of its snapshot.        *)
LEMMA SupportedHoldsAll ==
  ASSUME NEW r \in Requests, NEW limit \in Nat, Supported(LexicalSet(r, limit))
  PROVE  LexicalSet(r, limit).candidates = Matching(r)
BY BestOfExhaustive DEF LexicalSet, Supported

(* The limit either makes the planner abstain or leaves its plan alone:    *)
(* candidates.py:100 cuts the list only after it counted the matches.      *)
LEMMA LimitsOnlyAbstain ==
  ASSUME NEW r \in Requests, NEW limit \in Limits
  PROVE  LET all == PlanOf(LexicalSet(r, Cardinality(Keys)))
             plan == PlanOf(LexicalSet(r, limit))
         IN  plan = all \/ plan.status = "ABSTAINED"
<1> DEFINE n == Cardinality(Keys)
<1>1. n \in Nat /\ limit \in Nat
  BY PositionAssumption, LimitsAssumption, FS_CardinalityType
<1>2. Exhaustive(Matching(r), n)
  <2> DEFINE f == [k \in Recallable(r) |-> Candidate(k, r)]
             T == {f[k] : k \in Recallable(r)}
  <2>1. IsFiniteSet(Recallable(r)) /\ Cardinality(Recallable(r)) <= n
    <3>1. Recallable(r) \in SUBSET Keys
      BY DEF Recallable
    <3> QED
      BY <3>1, PositionAssumption, FS_Subset
  <2>2. f = [k \in Recallable(r) |-> f[k]]
    OBVIOUS
  <2>3. Matching(r) \in SUBSET T
    BY DEF Matching
  <2> HIDE DEF f
  <2>4. IsFiniteSet(T) /\ Cardinality(T) <= Cardinality(Recallable(r))
    BY <2>1, <2>2, FiniteRange
  <2>5. Cardinality(Matching(r)) <= Cardinality(T)
    BY <2>3, <2>4, FS_Subset
  <2>6. /\ Cardinality(Matching(r)) \in Nat /\ Cardinality(T) \in Nat
        /\ Cardinality(Recallable(r)) \in Nat
    BY <2>1, <2>4, MatchingIsFinite, FS_CardinalityType
  <2> QED
    BY <1>1, <2>1, <2>4, <2>5, <2>6 DEF Exhaustive
<1>3. CASE Supported(LexicalSet(r, limit))
  <2>1. LexicalSet(r, limit).candidates = Matching(r)
    BY <1>1, <1>3, SupportedHoldsAll
  <2>2. Best(Matching(r), n) = Matching(r)
    BY <1>1, <1>2, BestOfExhaustive
  <2>3. Exhaustive(Matching(r), limit)
    BY <1>3 DEF Supported, LexicalSet
  <2>4. LexicalSet(r, limit) = LexicalSet(r, n)
    BY <1>2, <2>1, <2>2, <2>3 DEF LexicalSet, Exhaustive
  <2> QED
    BY <2>4
<1>4. CASE ~Supported(LexicalSet(r, limit))
  BY <1>4 DEF PlanOf, PlanStatus, Competing
<1> QED
  BY <1>3, <1>4

(* With any limit the planner abstains or plans what it plans when         *)
(* everything is returned, in every state of the store.                    *)
THEOREM LimitsNeverDecide == PlanningSpec => []LimitNeverDecides
<1>1. LimitNeverDecides
  BY LimitsOnlyAbstain DEF LimitNeverDecides
<1> QED
  BY <1>1, PTL

-----------------------------------------------------------------------------
NamedIn(keys, query) == {k \in keys : query \cap PredicateTerms[k.predicate] # {}}

Only(k, keys, query) ==
  (query \cap SubjectTerms[k.subject])
    \ (PredicateTerms[k.predicate]
         \cup UNION {SubjectTerms[i.subject] : i \in NamedIn(keys, query) \ {k}})

(* What ResolvedIsUnique says of one plan.                                 *)
UniqueIn(k, keys, query) ==
  /\ k \in NamedIn(keys, query)
  /\ \A j \in NamedIn(keys, query) : j.predicate = k.predicate
  /\ NamedIn(keys, query) # {k} =>
       /\ Only(k, keys, query) # {}
       /\ \A j \in NamedIn(keys, query) \ {k} : Only(j, keys, query) = {}

(* The candidates the query names stand for all recallable keys it names.  *)
StandsFor(set, keys) ==
  /\ IsFiniteSet(Named(set))
  /\ {c.key : c \in Named(set)} = NamedIn(keys, set.request.query)
  /\ \A c, d \in Named(set) : c.key = d.key => c = d

(* The set the generator returns does, unless it was cut.                  *)
LEMMA GeneratedStandsFor ==
  ASSUME NEW r \in Requests, NEW limit \in Nat, Supported(LexicalSet(r, limit))
  PROVE  StandsFor(LexicalSet(r, limit), Recallable(r))
<1> DEFINE set == LexicalSet(r, limit)
<1>1. set.candidates = Matching(r) /\ set.request = r
  BY SupportedHoldsAll DEF LexicalSet
<1>2. IsFiniteSet(Matching(r)) /\ \A c \in Matching(r) : c = Candidate(c.key, r)
  BY MatchingIsFinite
<1>3. Named(set) = {c \in Matching(r) : r.query \cap PredicateTerms[c.key.predicate] # {}}
  BY <1>1 DEF Named
<1> HIDE DEF set
<1>4. IsFiniteSet(Named(set))
  <2>1. Named(set) \in SUBSET Matching(r)
    BY <1>3
  <2> QED
    BY <1>2, <2>1, FS_Subset
<1>5. ASSUME NEW c \in Named(set)
      PROVE  c.key \in NamedIn(Recallable(r), r.query)
  BY <1>3 DEF NamedIn, Matching, Candidate
<1>6. ASSUME NEW k \in NamedIn(Recallable(r), r.query)
      PROVE  \E c \in Named(set) : c.key = k
  <2> DEFINE c == Candidate(k, r)
  <2>1. c.key = k /\ c.score = Score(k, r, Found(k, r).items)
    BY DEF Candidate
  <2>2. c.score > 0
    BY <2>1, ScoreIsNatural DEF NamedIn
  <2>3. c \in Matching(r)
    BY <2>2 DEF Matching, NamedIn
  <2> QED
    BY <1>3, <2>1, <2>3 DEF NamedIn
<1>7. {c.key : c \in Named(set)} = NamedIn(Recallable(r), r.query)
  BY <1>5, <1>6
<1>8. \A c, d \in Named(set) : c.key = d.key => c = d
  BY <1>2, <1>3
<1> QED
  BY <1>1, <1>4, <1>7, <1>8 DEF StandsFor, set

(* A plan made of such a set is the only one the snapshot leaves open.     *)
LEMMA ResolvedIsUniqueIn ==
  ASSUME NEW set, NEW keys, Supported(set) => StandsFor(set, keys),
         PlanOf(set).status = "RESOLVED"
  PROVE  /\ \A k \in PlanOf(set).exact : UniqueIn(k, keys, set.request.query)
         /\ Cardinality(PlanOf(set).exact) = 1
<1> DEFINE query == set.request.query
           pool == Competing(set)
           named == NamedIn(keys, query)
<1>1. pool # {} /\ Cardinality(Chosen(set)) = 1
  BY DEF PlanOf, PlanStatus
<1>2. PlanOf(set).exact = {c.key : c \in Chosen(set)}
  BY DEF PlanOf
<1>3. /\ Supported(set) /\ pool = Named(set)
      /\ Cardinality({c.key.predicate : c \in pool}) = 1
  BY <1>1 DEF Competing
<1>4. /\ IsFiniteSet(pool) /\ {c.key : c \in pool} = named
      /\ \A c, d \in pool : c.key = d.key => c = d
  BY <1>3 DEF StandsFor
<1>5. Chosen(set) \in SUBSET pool
  BY DEF Chosen, Qualified
<1>6. PICK c : Chosen(set) = {c}
  BY <1>1, <1>4, <1>5, FS_Subset, FS_Singleton
<1>7. c \in pool /\ c.key \in named /\ PlanOf(set).exact = {c.key}
  BY <1>2, <1>4, <1>5, <1>6
<1>8. ASSUME NEW d \in pool
      PROVE  d.key.predicate = c.key.predicate
  <2> DEFINE f == [x \in pool |-> x.key.predicate]
  <2>1. f = [x \in pool |-> f[x]]
    OBVIOUS
  <2>2. {f[x] : x \in pool} = {x.key.predicate : x \in pool}
    OBVIOUS
  <2>3. IsFiniteSet({f[x] : x \in pool})
    <3> HIDE DEF f
    <3> QED
      BY <1>4, <2>1, FiniteRange
  <2>4. PICK p : {x.key.predicate : x \in pool} = {p}
    BY <1>3, <2>2, <2>3, FS_Singleton
  <2> QED
    BY <1>7, <2>4
<1>9. \A j \in named : j.predicate = c.key.predicate
  BY <1>4, <1>8
<1>10. ASSUME named # {c.key}
       PROVE  /\ Only(c.key, keys, query) # {}
              /\ \A j \in named \ {c.key} : Only(j, keys, query) = {}
  <2>1. Cardinality(pool) # 1
    <3> SUFFICES ASSUME Cardinality(pool) = 1 PROVE FALSE
      OBVIOUS
    <3>1. pool = {c}
      BY <1>4, <1>7, FS_Singleton
    <3> QED
      BY <1>4, <1>10, <3>1
  <2>2. Qualified(set) = {c}
    BY <1>6, <2>1 DEF Chosen
  <2>3. PICK t \in SubjectTerms[c.key.subject] \cap Evidence(set, c.key) :
          \A d \in pool \ {c} : t \notin SubjectTerms[d.key.subject]
    BY <2>2 DEF Qualified
  <2>4. ASSUME NEW i \in named \ {c.key}
        PROVE  t \notin SubjectTerms[i.subject]
    BY <1>4, <2>3
  <2>5. t \in Only(c.key, keys, query)
    BY <2>3, <2>4 DEF Only, Evidence
  <2>6. ASSUME NEW j \in named \ {c.key}, NEW u \in Only(j, keys, query)
        PROVE  FALSE
    <3>1. PICK d \in pool : d.key = j
      BY <1>4
    <3>2. u \in SubjectTerms[d.key.subject] \cap Evidence(set, d.key)
      BY <3>1 DEF Only, Evidence
    <3>3. ASSUME NEW e \in pool \ {d}
          PROVE  u \notin SubjectTerms[e.key.subject]
      <4>1. e.key \in named \ {j}
        BY <1>4, <3>1
      <4> QED
        BY <4>1 DEF Only
    <3>4. d \in Qualified(set)
      BY <3>2, <3>3 DEF Qualified
    <3> QED
      BY <2>2, <3>1, <3>4
  <2> QED
    BY <2>5, <2>6
<1>11. UniqueIn(c.key, keys, query)
  BY <1>7, <1>9, <1>10 DEF UniqueIn
<1>12. Cardinality(PlanOf(set).exact) = 1
  BY <1>7, FS_Singleton
<1> QED
  BY <1>7, <1>11, <1>12

-----------------------------------------------------------------------------
(* What a client holds, at each stage.                                     *)
SoundSet(set, keys) ==
  set.request \in Requests /\ (Supported(set) => StandsFor(set, keys))

SoundPlan(plan, keys) ==
  /\ plan.request \in Requests
  /\ plan.status = "RESOLVED" =>
       /\ \A k \in plan.exact : UniqueIn(k, keys, plan.request.query)
       /\ Cardinality(plan.exact) = 1

SoundDerived(d) ==
  /\ d.request.id # d.source.request.id
  /\ d.request.query = d.source.request.query
  /\ d.request.known = d.source.request.known
  /\ d.request.valid = d.source.request.valid
  /\ d.request.exact = d.source.exact /\ Cardinality(d.request.exact) = 1

Sound(x) ==
  LET c == clients[x]
  IN  /\ c # None => c = [stage |-> c.stage, recallable |-> c.recallable, held |-> c.held]
      /\ Holds(x, "generated") => SoundSet(c.held, c.recallable)
      /\ Holds(x, "planned") => SoundPlan(c.held, c.recallable)
      /\ Holds(x, "derived") => SoundDerived(c.held)

PlanningIInv == DOMAIN clients = Clients /\ \A x \in Clients : Sound(x)

(* A generator leaves a sound set: complete, or not to be planned from.    *)
LEMMA GenerateSound ==
  ASSUME PlanningIInv, NEW x \in Clients, NEW r \in Requests,
         (\E limit \in Limits : Generate(x, r, limit)) \/ GenerateElsewhere(x, r)
  PROVE  PlanningIInv'
<1>1. ASSUME NEW limit \in Limits, Generate(x, r, limit) PROVE PlanningIInv'
  <2> DEFINE new == [stage |-> "generated", recallable |-> Recallable(r),
                     held |-> LexicalSet(r, limit)]
  <2>1. SoundSet(LexicalSet(r, limit), Recallable(r))
    <3>1. limit \in Nat
      BY LimitsAssumption
    <3>2. LexicalSet(r, limit).request = r
      BY DEF LexicalSet
    <3> QED
      BY <3>1, <3>2, GeneratedStandsFor DEF SoundSet
  <2>2. clients' = [clients EXCEPT ![x] = new]
    BY <1>1 DEF Generate
  <2>3. new.stage = "generated" /\ SoundSet(new.held, new.recallable)
    BY <2>1
  <2>4. new = [stage |-> new.stage, recallable |-> new.recallable, held |-> new.held]
    OBVIOUS
  <2> HIDE DEF new
  <2> QED
    BY <2>2, <2>3, <2>4 DEF PlanningIInv, Sound, Holds
<1>2. ASSUME GenerateElsewhere(x, r) PROVE PlanningIInv'
  <2>1. PICK ks \in SUBSET Recallable(r) :
          clients' = [clients EXCEPT ![x] =
                        [stage |-> "generated", recallable |-> Recallable(r),
                         held |-> [LexicalSet(r, 1) EXCEPT
                                     !.generator = "other", !.exhaustive = TRUE,
                                     !.candidates = {Candidate(k, r) : k \in ks}]]]
    BY <1>2 DEF GenerateElsewhere
  <2> DEFINE set == [LexicalSet(r, 1) EXCEPT
                       !.generator = "other", !.exhaustive = TRUE,
                       !.candidates = {Candidate(k, r) : k \in ks}]
             new == [stage |-> "generated", recallable |-> Recallable(r), held |-> set]
  <2>2. set.request = r /\ set.generator = "other"
    BY DEF LexicalSet
  <2>3. SoundSet(set, Recallable(r))
    <3> HIDE DEF set
    <3> QED
      BY <2>2 DEF SoundSet, Supported, Lexical
  <2>4. clients' = [clients EXCEPT ![x] = new]
    BY <2>1
  <2> HIDE DEF set
  <2>5. new.stage = "generated" /\ SoundSet(new.held, new.recallable)
    BY <2>3
  <2>6. new = [stage |-> new.stage, recallable |-> new.recallable, held |-> new.held]
    OBVIOUS
  <2> HIDE DEF new
  <2> QED
    BY <2>4, <2>5, <2>6 DEF PlanningIInv, Sound, Holds
<1> QED
  BY <1>1, <1>2

(* What Moves leaves a client with.                                        *)
LEMMA MovesTo ==
  ASSUME PlanningIInv, NEW x \in Clients, clients[x] # None, NEW stage, NEW value,
         Moves(x, stage, value)
  PROVE  clients' = [clients EXCEPT ![x] = [stage |-> stage, held |-> value,
                                            recallable |-> clients[x].recallable]]
<1>1. clients[x] = [stage |-> clients[x].stage, recallable |-> clients[x].recallable,
                    held |-> clients[x].held]
  BY DEF PlanningIInv, Sound
<1>2. PICK s, k, h : clients[x] = [stage |-> s, recallable |-> k, held |-> h]
  BY <1>1
<1> DEFINE staged == [clients EXCEPT ![x].stage = stage]
<1>3. x \in DOMAIN clients
  BY DEF PlanningIInv
<1>4. /\ DOMAIN staged = DOMAIN clients
      /\ staged[x] = [stage |-> stage, recallable |-> k, held |-> h]
      /\ \A y \in DOMAIN clients \ {x} : staged[y] = clients[y]
  BY <1>2, <1>3
<1>5. clients' = [staged EXCEPT ![x].held = value]
  BY DEF Moves
<1> HIDE DEF staged
<1>6. /\ DOMAIN clients' = DOMAIN clients
      /\ clients'[x] = [stage |-> stage, held |-> value, recallable |-> clients[x].recallable]
      /\ \A y \in DOMAIN clients \ {x} : clients'[y] = clients[y]
  BY <1>2, <1>3, <1>4, <1>5
<1>7. clients' = [y \in DOMAIN clients |-> clients'[y]]
  BY <1>4, <1>5
<1> QED
  BY <1>3, <1>6, <1>7

(* Planning from a sound set gives a sound plan.                           *)
LEMMA PlanSound ==
  ASSUME PlanningIInv, NEW x \in Clients, NEW r \in Requests, Plan(x, r)
  PROVE  PlanningIInv'
<1> DEFINE set == clients[x].held
           keys == clients[x].recallable
           new == [stage |-> "planned", held |-> PlanOf(set), recallable |-> keys]
<1>1. SoundSet(set, keys) /\ clients[x] # None
  BY DEF Plan, Holds, PlanningIInv, Sound
<1>2. SoundPlan(PlanOf(set), keys)
  <2>1. PlanOf(set).request = set.request
    BY DEF PlanOf
  <2> QED
    BY <1>1, <2>1, ResolvedIsUniqueIn DEF SoundSet, SoundPlan
<1>3. clients' = [clients EXCEPT ![x] = new]
  BY <1>1, MovesTo DEF Plan
<1>4. new.stage = "planned" /\ SoundPlan(new.held, new.recallable)
  BY <1>2
<1>5. new = [stage |-> new.stage, recallable |-> new.recallable, held |-> new.held]
  OBVIOUS
<1> HIDE DEF new
<1> QED
  BY <1>3, <1>4, <1>5 DEF PlanningIInv, Sound, Holds

(* A request is derived from the request its plan was made for.            *)
LEMMA DeriveSound ==
  ASSUME PlanningIInv, NEW x \in Clients, NEW r \in Requests, DeriveRequest(x, r)
  PROVE  PlanningIInv'
<1> DEFINE plan == clients[x].held
           d == [source |-> plan, request |-> Derived(r, plan)]
           new == [stage |-> "derived", held |-> d, recallable |-> clients[x].recallable]
<1>1. SoundPlan(plan, clients[x].recallable) /\ clients[x] # None
  BY DEF DeriveRequest, Holds, PlanningIInv, Sound
<1>2. plan.status = "RESOLVED" /\ r = plan.request /\ r.id # DerivedId
  BY DEF DeriveRequest, Derivable, SameRequest
<1>3. SoundDerived(d)
  <2>1. r = [id |-> r.id, query |-> r.query, known |-> r.known, valid |-> r.valid,
             exact |-> r.exact]
    BY PlanRequestsAssumption
  <2>2. Cardinality(plan.exact) = 1
    BY <1>1, <1>2 DEF SoundPlan
  <2>3. /\ d.request = [id |-> DerivedId, query |-> r.query, known |-> r.known,
                        valid |-> r.valid, exact |-> plan.exact]
        /\ d.source = plan
    BY <2>1 DEF Derived
  <2> HIDE DEF d, plan
  <2>4. d.source.request = r /\ d.source.exact = plan.exact
    BY <1>2, <2>3
  <2>5. /\ d.request.id = DerivedId /\ d.request.exact = plan.exact
        /\ d.request.query = r.query /\ d.request.known = r.known /\ d.request.valid = r.valid
    BY <2>3
  <2> QED
    BY <1>2, <2>2, <2>4, <2>5 DEF SoundDerived
<1>4. clients' = [clients EXCEPT ![x] = new]
  <2>1. Moves(x, "derived", d)
    BY DEF DeriveRequest
  <2> HIDE DEF d
  <2> QED
    BY <1>1, <2>1, MovesTo
<1> HIDE DEF d
<1>5. new.stage = "derived" /\ SoundDerived(new.held)
  BY <1>3
<1>6. new = [stage |-> new.stage, recallable |-> new.recallable, held |-> new.held]
  OBVIOUS
<1> HIDE DEF new
<1> QED
  BY <1>4, <1>5, <1>6 DEF PlanningIInv, Sound, Holds

(* The other steps leave every client as it is, or without anything.       *)
LEMMA UnchangedSound ==
  ASSUME PlanningIInv, UNCHANGED clients \/ \E x \in Clients : DropPlanning(x)
  PROVE  PlanningIInv'
<1>1. CASE UNCHANGED clients
  BY <1>1 DEF PlanningIInv, Sound, Holds
<1>2. ASSUME NEW x \in Clients, DropPlanning(x) PROVE PlanningIInv'
  <2>1. clients' = [clients EXCEPT ![x] = None]
    BY <1>2 DEF DropPlanning
  <2> QED
    BY <2>1 DEF PlanningIInv, Sound, Holds
<1> QED
  BY <1>1, <1>2

(* Every client holds something sound, whatever is written in between.     *)
LEMMA PlanningInvariant == PlanningSpec => []PlanningIInv
<1>1. PlanningInit => PlanningIInv
  BY DEF PlanningInit, PlanningIInv, Sound, Holds
<1>2. PlanningIInv /\ [PlanningNext]_planningVars => PlanningIInv'
  <2> SUFFICES ASSUME PlanningIInv, [PlanningNext]_planningVars PROVE PlanningIInv'
    OBVIOUS
  <2>1. ASSUME NEW x \in Clients, NEW r \in Requests,
               (\E limit \in Limits : Generate(x, r, limit)) \/ GenerateElsewhere(x, r)
        PROVE  PlanningIInv'
    BY <2>1, GenerateSound
  <2>2. ASSUME NEW x \in Clients, NEW r \in Requests, Plan(x, r) PROVE PlanningIInv'
    BY <2>2, PlanSound
  <2>3. ASSUME NEW x \in Clients, NEW r \in Requests, DeriveRequest(x, r)
        PROVE  PlanningIInv'
    BY <2>3, DeriveSound
  <2>4. ASSUME UNCHANGED clients \/ \E x \in Clients : DropPlanning(x) PROVE PlanningIInv'
    BY <2>4, UnchangedSound
  <2> QED
    BY <2>1, <2>2, <2>3, <2>4 DEF PlanningNext, planningVars
<1> QED
  BY <1>1, <1>2, PTL DEF PlanningSpec

(* A resolved plan names the only obligation that its snapshot leaves open. *)
THEOREM ResolvedPlansAreUnique == PlanningSpec => []ResolvedIsUnique
<1>1. PlanningIInv => ResolvedIsUnique
  BY DEF PlanningIInv, Sound, SoundPlan, UniqueIn, Only, NamedIn, ResolvedIsUnique, Holds
<1> QED
  BY <1>1, PlanningInvariant, PTL

(* A derived request asks exactly what its source asked, plus one          *)
(* obligation.                                                             *)
THEOREM DerivedRequestsAreBound == PlanningSpec => []DerivedAsksItsSource
<1>1. PlanningIInv => DerivedAsksItsSource
  BY DEF PlanningIInv, Sound, SoundDerived, DerivedAsksItsSource
<1> QED
  BY <1>1, PlanningInvariant, PTL

-----------------------------------------------------------------------------
(* What candidate sets and plans are of the store: a recollection that is  *)
(* kept, that is, recalled again as long as neither its key nor the memory *)
(* of its claim changed after f.                                           *)
Kept(k, c, r, f) ==
  {k, c} \cap ChangedSince(f) = {} =>
    Found(k, r).operative = c /\ c \in Found(k, r).items

SetKept(set, keys) ==
  /\ set.request \in Requests
  /\ set.frontier \in Nat /\ set.frontier <= frontier
  /\ IsFiniteSet(set.candidates)
  /\ \A c \in set.candidates : /\ c.key \in keys /\ c.key \in Keys
                               /\ Kept(c.key, c.claim, set.request, set.frontier)
  /\ \A c, d \in set.candidates : (c.key = d.key \/ c.claim = d.claim) => c = d

PlanKept(plan) ==
  /\ plan.request \in Requests
  /\ plan.frontier \in Nat /\ plan.frontier <= frontier
  /\ plan.status = "RESOLVED" =>
       \E k \in Keys : \E c : /\ plan.exact = {k} /\ plan.selected = {c}
                              /\ Kept(k, c, plan.request, plan.frontier)
  /\ plan.status # "RESOLVED" => plan.exact = {} /\ plan.selected = {}
  /\ plan.status = "AMBIGUOUS" <=> Cardinality(plan.ambiguous) > 1

HeldKept(c) ==
  /\ c.stage = "generated" => SetKept(c.held, c.recallable)
  /\ c.stage = "planned" => PlanKept(c.held)
  /\ c.stage = "derived" => /\ PlanKept(c.held.source)
                            /\ c.held.source.status = "RESOLVED"

ClientsKept == \A x \in Clients : \A c : (clients[x] = c /\ c # None) => HeldKept(c)

(* What the snapshot recalls is kept, of one key per claim.                *)
LEMMA CandidateKept ==
  ASSUME Core, OperativeIsLast, NEW r \in Requests, NEW k \in Recallable(r), NEW f
  PROVE  /\ k \in Keys /\ Kept(k, Candidate(k, r).claim, r, f)
         /\ Candidate(k, r).key = k /\ Candidate(k, r).claim \in ClaimsOf(k)
<1>1. r.known \in Instants /\ r.valid \in Instants
  BY PlanRequestsAssumption DEF Instants
<1>2. k \in Keys /\ Found(k, r).operative \in Found(k, r).items
  BY DEF Recallable
<1>3. Candidate(k, r).key = k /\ Candidate(k, r).claim = Found(k, r).operative
  BY DEF Candidate
<1>4. Found(k, r).operative = Operative(k, r.known, r.valid)
  BY DEF Found, Recalled, Included, ResolveState
<1>5. Found(k, r).operative # None
  <2>1. Recalled(k, r.known, r.valid).items \subseteq DOMAIN claims
    BY <1>1, <1>2, RecalledTyped DEF Core
  <2> QED BY <1>2, <2>1, NoneAssumption DEF Found, Core, IInv, TypeInv, EpistemicTypeOK
<1>6. Found(k, r).operative \in ClaimsOf(k)
  BY <1>1, <1>2, <1>4, <1>5, RecalledTyped DEF Core
<1> QED BY <1>2, <1>3, <1>6 DEF Kept

LEMMA CandidatesKept ==
  ASSUME Core, OperativeIsLast, NEW r \in Requests, NEW set, set.request = r,
         set.frontier = frontier, IsFiniteSet(set.candidates),
         \A c \in set.candidates : \E k \in Recallable(r) : c = Candidate(k, r)
  PROVE  SetKept(set, Recallable(r))
<1>1. frontier \in Nat
  BY DEF Core, IInv, TypeInv, EpistemicTypeOK
<1>2. ASSUME NEW c \in set.candidates
      PROVE  /\ c.key \in Recallable(r) /\ c.key \in Keys /\ c.claim \in ClaimsOf(c.key)
             /\ c = Candidate(c.key, r) /\ Kept(c.key, c.claim, r, frontier)
  BY <1>2, CandidateKept
<1>3. ASSUME NEW c \in set.candidates, NEW d \in set.candidates, c.key = d.key \/ c.claim = d.claim
      PROVE  c = d
  <2>1. c.key = d.key
    BY <1>2, <1>3 DEF ClaimsOf
  <2> QED BY <1>2, <2>1
<1> QED BY <1>1, <1>2, <1>3 DEF SetKept

LEMMA GenerateKept ==
  ASSUME Core, OperativeIsLast, NEW x \in Clients, NEW r \in Requests,
         (\E limit \in Limits : Generate(x, r, limit)) \/ GenerateElsewhere(x, r)
  PROVE  \E c : /\ clients' = [clients EXCEPT ![x] = c]
                /\ HeldKept(c)
<1>1. ASSUME NEW limit \in Limits, Generate(x, r, limit)
      PROVE  \E c : clients' = [clients EXCEPT ![x] = c] /\ HeldKept(c)
  <2> DEFINE set == LexicalSet(r, limit)
             new == [stage |-> "generated", recallable |-> Recallable(r), held |-> set]
  <2>1. set.request = r /\ set.frontier = frontier /\ set.candidates \subseteq Matching(r)
    BY DEF LexicalSet, Best
  <2>2. IsFiniteSet(set.candidates)
    BY <2>1, MatchingIsFinite, FS_Subset
  <2>3. \A c \in set.candidates : \E k \in Recallable(r) : c = Candidate(k, r)
    BY <2>1 DEF Matching
  <2>4. clients' = [clients EXCEPT ![x] = new]
    BY <1>1 DEF Generate
  <2> HIDE DEF set
  <2>5. SetKept(set, Recallable(r))
    BY <2>1, <2>2, <2>3, CandidatesKept
  <2>6. HeldKept(new)
    BY <2>5 DEF HeldKept
  <2> QED BY <2>4, <2>6
<1>2. ASSUME GenerateElsewhere(x, r)
      PROVE  \E c : clients' = [clients EXCEPT ![x] = c] /\ HeldKept(c)
  <2>1. PICK ks \in SUBSET Recallable(r) :
          clients' = [clients EXCEPT ![x] =
                        [stage |-> "generated", recallable |-> Recallable(r),
                         held |-> [LexicalSet(r, 1) EXCEPT
                                     !.generator = "other", !.exhaustive = TRUE,
                                     !.candidates = {Candidate(k, r) : k \in ks}]]]
    BY <1>2 DEF GenerateElsewhere
  <2> DEFINE set == [LexicalSet(r, 1) EXCEPT
                       !.generator = "other", !.exhaustive = TRUE,
                       !.candidates = {Candidate(k, r) : k \in ks}]
             new == [stage |-> "generated", recallable |-> Recallable(r), held |-> set]
  <2>2. /\ set.request = r /\ set.frontier = frontier
        /\ set.candidates = {Candidate(k, r) : k \in ks}
    BY DEF LexicalSet
  <2>3. clients' = [clients EXCEPT ![x] = new]
    BY <2>1
  <2> HIDE DEF set
  <2>4. IsFiniteSet(set.candidates)
    <3> DEFINE f == [k \in ks |-> Candidate(k, r)]
    <3>1. IsFiniteSet(ks)
      <4>1. ks \in SUBSET Keys
        BY DEF Recallable
      <4> QED BY <4>1, PositionAssumption, FS_Subset
    <3>2. f = [k \in ks |-> f[k]] /\ set.candidates = {f[k] : k \in ks}
      BY <2>2
    <3> HIDE DEF f
    <3> QED BY <3>1, <3>2, FiniteRange
  <2>5. \A c \in set.candidates : \E k \in Recallable(r) : c = Candidate(k, r)
    BY <2>2
  <2>6. SetKept(set, Recallable(r))
    BY <2>2, <2>4, <2>5, CandidatesKept
  <2>7. HeldKept(new)
    BY <2>6 DEF HeldKept
  <2> QED BY <2>3, <2>7
<1> QED BY <1>1, <1>2

(* A plan keeps the recollection of the candidate that it chose, and when  *)
(* it is ambiguous, at least two claims compete.                           *)
LEMMA PlanKeeps ==
  ASSUME NEW set, NEW keys, SetKept(set, keys)
  PROVE  PlanKept(PlanOf(set))
<1> DEFINE plan == PlanOf(set)
           pool == Competing(set)
           status == PlanStatus(set)
           chosen == IF status = "RESOLVED" THEN Chosen(set) ELSE {}
<1>1. /\ plan.request = set.request /\ plan.frontier = set.frontier /\ plan.status = status
      /\ plan.exact = {c.key : c \in chosen} /\ plan.selected = {c.claim : c \in chosen}
      /\ plan.ambiguous = IF status = "AMBIGUOUS" THEN {c.claim : c \in pool} ELSE {}
  BY DEF PlanOf
<1>2. pool \subseteq set.candidates /\ Chosen(set) \subseteq pool
  BY DEF Competing, Named, Chosen, Qualified
<1>3. IsFiniteSet(pool) /\ IsFiniteSet(Chosen(set))
  BY <1>2, FS_Subset DEF SetKept
<1>4. ASSUME status = "RESOLVED"
      PROVE  \E k \in Keys : \E c : /\ plan.exact = {k} /\ plan.selected = {c}
                                /\ Kept(k, c, plan.request, plan.frontier)
  <2>1. Cardinality(Chosen(set)) = 1
    BY <1>4 DEF PlanStatus
  <2>2. PICK c : Chosen(set) = {c}
    BY <1>3, <2>1, FS_Singleton
  <2>3. plan.exact = {c.key} /\ plan.selected = {c.claim}
    BY <1>1, <1>4, <2>2
  <2>4. c \in set.candidates
    BY <1>2, <2>2
  <2> HIDE DEF plan
  <2>5. c.key \in Keys /\ Kept(c.key, c.claim, plan.request, plan.frontier)
    BY <1>1, <2>4 DEF SetKept
  <2> QED BY <2>3, <2>5
<1>5. ASSUME status = "AMBIGUOUS" PROVE Cardinality(plan.ambiguous) > 1
  <2>1. pool # {} /\ Cardinality(Chosen(set)) # 1
    BY <1>5 DEF PlanStatus
  <2>2. Cardinality(pool) # 1
    BY <2>1 DEF Chosen
  <2> DEFINE f == [c \in pool |-> c.claim]
             T == {c.claim : c \in pool}
  <2>3. \A c, d \in pool : c.claim = d.claim => c = d
    BY <1>2 DEF SetKept
  <2>4. Cardinality(T) = Cardinality(pool)
    <3>1. /\ f = [c \in pool |-> f[c]] /\ T = {f[c] : c \in pool}
          /\ \A c, d \in pool : f[c] = f[d] => c = d
      BY <2>3
    <3> HIDE DEF f, pool, T
    <3> QED BY <1>3, <3>1, InjectiveRange
  <2>5. Cardinality(pool) \in Nat /\ Cardinality(pool) # 0
    BY <1>3, <2>1, FS_CardinalityType, FS_EmptySet
  <2>6. plan.ambiguous = T
    BY <1>1, <1>5
  <2> HIDE DEF pool, T, plan
  <2> QED BY <2>2, <2>4, <2>5, <2>6
<1>6. ASSUME status # "AMBIGUOUS" PROVE ~(Cardinality(plan.ambiguous) > 1)
  BY <1>1, <1>6, FS_EmptySet
<1>7. status # "RESOLVED" => plan.exact = {} /\ plan.selected = {}
  BY <1>1
<1> HIDE DEF plan
<1> QED BY <1>1, <1>4, <1>5, <1>6, <1>7 DEF PlanKept, SetKept, plan

-----------------------------------------------------------------------------
(* What is kept stays kept, by a write that touches what it may and by a   *)
(* step that writes nothing.                                               *)
Persists(r, f) == \A k \in Keys : \A c : Kept(k, c, r, f) => Kept(k, c, r, f)'

LEMMA WriteKeeps ==
  ASSUME Core, OperativeIsLast, NEW T, Touches(T),
         NEW r \in Requests, NEW f \in Nat, f <= frontier
  PROVE  Persists(r, f)
<1> SUFFICES ASSUME NEW k \in Keys, NEW c, Kept(k, c, r, f), {k, c} \cap ChangedSince(f)' = {}
             PROVE  Found(k, r)'.operative = c /\ c \in Found(k, r)'.items
  BY DEF Persists, Kept
<1>1. r.known \in Instants /\ r.valid \in Instants
  BY PlanRequestsAssumption DEF Instants
<1>2. ChangedSince(f) \cup T \subseteq ChangedSince(f)'
  BY DEF Touches, ChangesSince
<1>3. k \notin T /\ c \notin T /\ Found(k, r).operative = c /\ c \in Found(k, r).items
  BY <1>2 DEF Kept
<1> QED BY <1>1, <1>3, OperativeStays DEF Found

LEMMA QuietKeeps ==
  ASSUME Core, OperativeIsLast, OperativeIsLast', Quiet, NEW r \in Requests, NEW f
  PROVE  Persists(r, f)
<1>1. r.known \in Instants /\ r.valid \in Instants
  BY PlanRequestsAssumption DEF Instants
<1>2. ChangedSince(f)' = ChangedSince(f)
  BY QuietChanges
<1>3. ASSUME NEW k \in Keys PROVE Found(k, r)' = Found(k, r)
  BY <1>1, QuietRecall DEF Found
<1> QED BY <1>2, <1>3 DEF Persists, Kept

AllPersist ==
  /\ frontier \in Nat /\ frontier' \in Nat /\ frontier <= frontier'
  /\ \A r \in Requests, f \in Nat : f <= frontier => Persists(r, f)

LEMMA PlanStays ==
  ASSUME AllPersist, NEW plan, PlanKept(plan)
  PROVE  PlanKept(plan)'
<1>1. plan.request \in Requests /\ plan.frontier \in Nat /\ plan.frontier <= frontier
  BY DEF PlanKept
<1>2. PICK f \in Nat, n \in Nat, m \in Nat : f = plan.frontier /\ n = frontier /\ m = frontier'
                                             /\ f <= n /\ n <= m
  BY <1>1 DEF AllPersist
<1>3. plan.frontier <= frontier'
  BY <1>2
<1>4. Persists(plan.request, plan.frontier)
  BY <1>1 DEF AllPersist
<1> QED BY <1>3, <1>4 DEF PlanKept, Persists

LEMMA SetStays ==
  ASSUME AllPersist, NEW set, NEW keys, SetKept(set, keys)
  PROVE  SetKept(set, keys)'
<1>1. set.request \in Requests /\ set.frontier \in Nat /\ set.frontier <= frontier
  BY DEF SetKept
<1>2. PICK f \in Nat, n \in Nat, m \in Nat : f = set.frontier /\ n = frontier /\ m = frontier'
                                             /\ f <= n /\ n <= m
  BY <1>1 DEF AllPersist
<1>3. set.frontier <= frontier'
  BY <1>2
<1>4. Persists(set.request, set.frontier)
  BY <1>1 DEF AllPersist
<1> QED BY <1>3, <1>4 DEF SetKept, Persists

LEMMA HeldStays ==
  ASSUME AllPersist, NEW c, HeldKept(c)
  PROVE  HeldKept(c)'
BY PlanStays, SetStays DEF HeldKept

(* Every step of the store, and every step of a client, is one.            *)
LEMMA PlanningStepKinds ==
  ASSUME Core, [PlanningNext]_planningVars
  PROVE  \/ Quiet /\ [EpistemicNext]_epistemicVars
         \/ (\E T : Writes(T)) /\ UNCHANGED clients
<1>1. ASSUME NEW w \in Writers, NEW c \in ClaimIds, NEW b \in Bundles, CommitAndAdmit(w, c, b)
      PROVE  \E T : Writes(T)
  BY <1>1 DEF Writes
<1>2. ASSUME NEW m \in Targets, NEW kind \in EventKinds, RecordMemoryEvent(m, kind),
             UNCHANGED <<claimVars, drafts>>
      PROVE  \E T : Writes(T)
  BY <1>2 DEF Writes
<1>3. ASSUME NEW w \in Writers, ReadCurrent(w), UNCHANGED memoryVars
      PROVE  Quiet /\ [EpistemicNext]_epistemicVars
  BY <1>3 DEF ReadCurrent, claimVars, Quiet, memoryVars, EpistemicNext
<1>4. ASSUME UNCHANGED <<epistemicVars, memoryVars>>
      PROVE  Quiet /\ [EpistemicNext]_epistemicVars
  BY <1>4 DEF epistemicVars, claimVars, memoryVars, Quiet
<1> QED
  BY <1>1, <1>2, <1>3, <1>4
     DEF PlanningNext, planningVars, Unchanging, Generate, GenerateElsewhere, Plan, DeriveRequest,
         DropPlanning

LEMMA PlanningPersists ==
  ASSUME Core, OperativeIsLast, OperativeIsLast', [PlanningNext]_planningVars, Core'
  PROVE  AllPersist
<1>1. frontier \in Nat
  BY DEF Core, IInv, TypeInv, EpistemicTypeOK
<1>2. CASE Quiet
  BY <1>1, <1>2, QuietKeeps DEF AllPersist, Quiet
<1>3. ASSUME NEW T, Writes(T) PROVE AllPersist
  <2>1. frontier' \in Nat /\ frontier < frontier' /\ Touches(T)
    BY <1>3, WriteGrows, WriteTouches
  <2>2. frontier <= frontier'
    <3>1. PICK n \in Nat, m \in Nat : n = frontier /\ m = frontier' /\ n < m
      BY <1>1, <2>1
    <3> QED BY <3>1
  <2> QED BY <1>1, <2>1, <2>2, WriteKeeps DEF AllPersist
<1> QED BY <1>2, <1>3, PlanningStepKinds

(* A step gives at most one client something new.                          *)
LEMMA ClientsKeptStep ==
  ASSUME Core, Core', OperativeIsLast, OperativeIsLast', PlanningIInv, ClientsKept,
         [PlanningNext]_planningVars
  PROVE  ClientsKept'
<1>1. AllPersist
  BY PlanningPersists
<1>2. ASSUME NEW x \in Clients, NEW c, clients' = [clients EXCEPT ![x] = c], c # None => HeldKept(c)
      PROVE  ClientsKept'
  BY <1>1, <1>2, HeldStays DEF ClientsKept, PlanningIInv
<1>3. CASE UNCHANGED clients
  BY <1>1, <1>3, HeldStays DEF ClientsKept
<1>4. ASSUME NEW x \in Clients, NEW r \in Requests,
             (\E limit \in Limits : Generate(x, r, limit)) \/ GenerateElsewhere(x, r)
      PROVE  ClientsKept'
  BY <1>2, <1>4, GenerateKept
<1>5. ASSUME NEW x \in Clients, NEW r \in Requests, Plan(x, r)
      PROVE  ClientsKept'
  <2> DEFINE c == clients[x]
             new == [stage |-> "planned", held |-> PlanOf(c.held), recallable |-> c.recallable]
  <2>1. c # None /\ SetKept(c.held, c.recallable)
    BY <1>5 DEF Plan, Holds, ClientsKept, HeldKept
  <2>2. PlanKept(PlanOf(c.held))
    BY <2>1, PlanKeeps
  <2>3. clients' = [clients EXCEPT ![x] = new]
    BY <1>5, <2>1, MovesTo DEF Plan
  <2>4. HeldKept(new)
    BY <2>2 DEF HeldKept
  <2> QED BY <1>2, <2>3, <2>4
<1>6. ASSUME NEW x \in Clients, NEW r \in Requests, DeriveRequest(x, r)
      PROVE  ClientsKept'
  <2> DEFINE c == clients[x]
             d == [source |-> c.held, request |-> Derived(r, c.held)]
             new == [stage |-> "derived", held |-> d, recallable |-> c.recallable]
  <2>1. c # None /\ PlanKept(c.held) /\ c.held.status = "RESOLVED"
    BY <1>6 DEF DeriveRequest, Derivable, Holds, ClientsKept, HeldKept
  <2>2. d.source = c.held
    OBVIOUS
  <2>3. clients' = [clients EXCEPT ![x] = new]
    <3>1. Moves(x, "derived", d)
      BY <1>6 DEF DeriveRequest
    <3> HIDE DEF d
    <3> QED BY <2>1, <3>1, MovesTo
  <2> HIDE DEF d
  <2>4. HeldKept(new)
    BY <2>1, <2>2 DEF HeldKept
  <2> QED BY <1>2, <2>3, <2>4
<1>7. ASSUME NEW x \in Clients, DropPlanning(x) PROVE ClientsKept'
  BY <1>2, <1>7 DEF DropPlanning
<1> QED BY <1>3, <1>4, <1>5, <1>6, <1>7 DEF PlanningNext, planningVars

LEMMA PlanningStore == PlanningSpec => [](Core /\ ClientsKept)
<1>1. PlanningInit => Core /\ ClientsKept
  BY CoreInit DEF PlanningInit, ClientsKept
<1>2. Core => OperativeIsLast
  BY OperativeLast DEF Core
<1>3. Core /\ [PlanningNext]_planningVars => Core'
  BY PlanningStepKinds, QuietCore, WritesCore
<1>4. Core /\ Core' /\ OperativeIsLast /\ OperativeIsLast' /\ PlanningIInv /\ ClientsKept
        /\ [PlanningNext]_planningVars => ClientsKept'
  BY ClientsKeptStep
<1> QED BY <1>1, <1>2, <1>3, <1>4, PlanningInvariant, PTL DEF PlanningSpec

(* Planning leaves every promise of the stores that it plans over.         *)
THEOREM PlanningKeepsPromises == PlanningSpec => StorePromises
<1>1. PlanningInit => Register!RegisterInit
  BY RegisterStarts DEF PlanningInit
<1>2. Core => OperativeIsLast
  BY OperativeLast DEF Core
<1>3. Core /\ [PlanningNext]_planningVars => StoreStep
  BY PlanningStepKinds DEF StoreStep
<1>4. Core /\ Core' /\ OperativeIsLast /\ OperativeIsLast' /\ StoreStep => [PastStays]_epistemicVars
  BY StorePast
<1>5. Core /\ Core' /\ StoreStep => [Register!RegisterNext]_(Register!registerVars)
  BY StoreRevisions
<1> QED
  BY <1>1, <1>2, <1>3, <1>4, <1>5, CorePromises, PlanningStore, PTL
     DEF PlanningSpec, StorePromises, PastAnswersStable, PastStays, RefinesRegister,
         Register!RegisterSpec

(* Candidate sets and plans honour the contracts of their classes: of a    *)
(* snapshot that existed, one candidate per key that it recalls, with a    *)
(* requirement and its claim only when resolved, and with at least two     *)
(* claims when ambiguous.                                                  *)
THEOREM PlanningTyped == PlanningSpec => []PlanningTypeOK
<1>1. Core /\ ClientsKept => PlanningTypeOK
  <2> SUFFICES ASSUME Core, ClientsKept, NEW x \in Clients, NEW c, c = clients[x], c # None
               PROVE  /\ c.stage = "generated" =>
                           /\ c.held.frontier \in 0..frontier
                           /\ {d.key : d \in c.held.candidates} \subseteq c.recallable
                           /\ Cardinality({d.key : d \in c.held.candidates})
                                = Cardinality(c.held.candidates)
                      /\ c.stage = "planned" =>
                           /\ c.held.status = "RESOLVED" <=> c.held.exact # {}
                           /\ Cardinality(c.held.exact) = Cardinality(c.held.selected)
                           /\ Cardinality(c.held.exact) <= 1
                           /\ c.held.status = "AMBIGUOUS" <=> Cardinality(c.held.ambiguous) > 1
    BY DEF PlanningTypeOK, Holds
  <2>1. HeldKept(c)
    BY DEF ClientsKept
  <2>2. ASSUME c.stage = "generated"
        PROVE  /\ c.held.frontier \in 0..frontier
               /\ {d.key : d \in c.held.candidates} \subseteq c.recallable
               /\ Cardinality({d.key : d \in c.held.candidates}) = Cardinality(c.held.candidates)
    <3> DEFINE S == c.held.candidates
               T == {d.key : d \in S}
               f == [d \in S |-> d.key]
    <3>1. SetKept(c.held, c.recallable)
      BY <2>1, <2>2 DEF HeldKept
    <3>2. c.held.frontier \in 0..frontier
      BY <3>1 DEF SetKept, Core, IInv, TypeInv, EpistemicTypeOK
    <3>3. IsFiniteSet(S) /\ T \subseteq c.recallable /\ \A d, e \in S : d.key = e.key => d = e
      BY <3>1 DEF SetKept
    <3>4. /\ f = [d \in S |-> f[d]] /\ T = {f[d] : d \in S}
          /\ \A d, e \in S : f[d] = f[e] => d = e
      BY <3>3
    <3>5. Cardinality(T) = Cardinality(S)
      <4> HIDE DEF f, S, T
      <4> QED BY <3>3, <3>4, InjectiveRange
    <3> QED BY <3>2, <3>3, <3>5
  <2>3. ASSUME c.stage = "planned"
        PROVE  /\ c.held.status = "RESOLVED" <=> c.held.exact # {}
               /\ Cardinality(c.held.exact) = Cardinality(c.held.selected)
               /\ Cardinality(c.held.exact) <= 1
               /\ c.held.status = "AMBIGUOUS" <=> Cardinality(c.held.ambiguous) > 1
    <3>1. PlanKept(c.held)
      BY <2>1, <2>3 DEF HeldKept
    <3>2. CASE c.held.status = "RESOLVED"
      <4>1. PICK k, s : c.held.exact = {k} /\ c.held.selected = {s}
        BY <3>1, <3>2 DEF PlanKept
      <4>2. Cardinality(c.held.exact) = 1 /\ Cardinality(c.held.selected) = 1
        BY <4>1, FS_Singleton
      <4> QED BY <3>1, <3>2, <4>1, <4>2 DEF PlanKept
    <3>3. CASE c.held.status # "RESOLVED"
      <4>1. c.held.exact = {} /\ c.held.selected = {}
        BY <3>1, <3>3 DEF PlanKept
      <4>2. Cardinality({}) = 0
        BY FS_EmptySet
      <4> QED BY <3>1, <3>3, <4>1, <4>2 DEF PlanKept
    <3> QED BY <3>2, <3>3
  <2> QED BY <2>2, <2>3
<1> QED BY <1>1, PlanningStore, PTL

(* As long as neither its key nor the memory of its claim changed after the *)
(* plan's snapshot, the derived request recalls the claim that was planned, *)
(* whatever else is written, archived or contradicted in between.           *)
THEOREM PlansHold == PlanningSpec => []PlansHoldUntilTouched
<1>1. PlanningIInv /\ ClientsKept => PlansHoldUntilTouched
  <2> SUFFICES ASSUME PlanningIInv, ClientsKept, NEW x \in Clients, Holds(x, "derived"),
                      NEW d, d = clients[x].held,
                      (d.request.exact \cup d.source.selected)
                        \cap ChangedSince(d.source.frontier) = {},
                      NEW k \in d.request.exact
               PROVE  LET found == Recalled(k, d.request.known, d.request.valid)
                      IN  {found.operative} = d.source.selected /\ found.operative \in found.items
    BY DEF PlansHoldUntilTouched
  <2>1. PlanKept(d.source) /\ d.source.status = "RESOLVED"
    BY DEF ClientsKept, HeldKept, Holds
  <2>2. SoundDerived(d)
    BY DEF PlanningIInv, Sound
  <2>3. PICK j \in Keys : \E s : /\ d.source.exact = {j} /\ d.source.selected = {s}
                                 /\ Kept(j, s, d.source.request, d.source.frontier)
    BY <2>1 DEF PlanKept
  <2>4. PICK c : /\ d.source.exact = {j} /\ d.source.selected = {c}
                 /\ Kept(j, c, d.source.request, d.source.frontier)
    BY <2>3
  <2>5. k = j /\ d.request.exact = {j}
    BY <2>2, <2>4 DEF SoundDerived
  <2>6. Found(j, d.source.request).operative = c /\ c \in Found(j, d.source.request).items
    BY <2>4, <2>5 DEF Kept
  <2>7. Found(j, d.source.request) = Recalled(k, d.request.known, d.request.valid)
    BY <2>2, <2>5 DEF Found, SoundDerived
  <2> QED BY <2>4, <2>6, <2>7
<1> QED BY <1>1, PlanningInvariant, PlanningStore, PTL
=============================================================================
