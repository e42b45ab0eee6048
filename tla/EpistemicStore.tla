--------------------------- MODULE EpistemicStore ---------------------------
(***************************************************************************)
(* Claims, claim relations and the materialized heads of the canonical     *)
(* store: EpistemicService.observe_claim (epistemic/service.py),           *)
(* commit_claim_bundle and its readers (storage/sqlite/epistemic_store.py) *)
(* and the bitemporal resolution (storage/sqlite/resolution.py).           *)
(*                                                                         *)
(* A writer first reads the current claim outside any transaction and      *)
(* later commits a bundle whose relation targets the claim it read; other  *)
(* writers may commit in between.  A bundle inserts an event, its          *)
(* evidence, a claim, at most one relation and a memory admission.  The    *)
(* event and the evidence are kept with the claim of their bundle: an      *)
(* evidence id is the id of that claim, and the event's recorded_at equals *)
(* the claim's (enforced at epistemic_store.py:105).                       *)
(***************************************************************************)
EXTENDS SemanticLog

CONSTANTS
  Keys,        \* (subject, predicate) pairs
  ClaimIds,    \* UUIDs of claims
  Writers,     \* connections running observe_claim
  Times,       \* instants: the values of recorded_at, known_at and valid_at
  Kinds,       \* the kinds of relation that writers choose
  Validities,  \* [from, to) intervals; a missing bound lies outside Times
  MaxExtraRefs \* bound on the older evidence one claim cites

ASSUME TimesAssumption == Times \subseteq Int
ASSUME ValiditiesAssumption ==
  Validities \subseteq {v \in [from : Int, to : Int] : v.from < v.to}
ASSUME KindsAssumption ==
  Kinds \subseteq {"CORRECTS", "SUPERSEDES", "CONTRADICTS", "SUPPORTS", "REFINES"}
ASSUME NoneAssumption == None \notin ClaimIds /\ None \notin Times /\ None \notin Kinds

VARIABLES
  claims,      \* id -> row of claims, for the ids inserted so far
  relations,   \* rows of claim_relations
  heads,       \* claim_heads: the materialized current claim of each key
  drafts       \* what each writer read before its write transaction

claimVars == <<claims, relations, heads>>
epistemicVars == <<frontier, claimVars, drafts>>

HeadMoving == {"CORRECTS", "SUPERSEDES"}

ClaimRow == [key : Keys, recordedAt : Times, valid : Validities,
             capturedAt : Times, refs : SUBSET ClaimIds, seq : Nat]
RelationRow == [source : ClaimIds, target : ClaimIds, kind : Kinds,
                recordedAt : Times, seq : Nat]
Draft == [key : Keys, target : ClaimIds \cup {None}, kind : Kinds \cup {None}]

-----------------------------------------------------------------------------
\* Mutant: the replay ignores known_at.
KnownByAnytime(t, K) == TRUE

(* Resolution (resolution.py).  K is known_at and p is valid_at; None means *)
(* that the query does not restrict that dimension.                         *)
KnownBy(t, K) == K = None \/ t <= K

Visible(k, K) ==
  {c \in DOMAIN claims : claims[c].key = k /\ KnownBy(claims[c].recordedAt, K)}

(* The head-moving relations among the visible claims of a key.            *)
Revisions(k, K) ==
  {r \in relations : /\ r.kind \in HeadMoving
                     /\ r.source \in Visible(k, K)
                     /\ r.target \in Visible(k, K)
                     /\ KnownBy(r.recordedAt, K)}

FirstClaim(cs) == Earliest(claims, cs)

(* The operative head after replaying the timeline of a key up to position *)
(* n: the first claim becomes head, and every head-moving relation makes   *)
(* its source the head.                                                    *)
HeadBefore(k, K, n) ==
  LET moves == LoggedBefore(Revisions(k, K), n)
      roots == {c \in Visible(k, K) : claims[c].seq < n}
  IN  IF moves # {} THEN Latest(moves).source
      ELSE IF roots # {} THEN FirstClaim(roots) ELSE None

HeadForKey(k, K) == HeadBefore(k, K, frontier + 1)

(* The replay raises CanonicalIntegrityError unless this holds.            *)
LineageIntact(k, K) ==
  \A r \in Revisions(k, K) : r.target = HeadBefore(k, K, r.seq)

(* The claims that were head at some point of an intact replay; following  *)
(* revision_parent from the head visits them from the latest to the first. *)
Lineage(k, K) == {r.source : r \in Revisions(k, K)}
                   \cup (IF Visible(k, K) = {} THEN {} ELSE {FirstClaim(Visible(k, K))})

ClaimValidAt(c, p) ==
  p = None \/ (claims[c].valid.from <= p /\ p < claims[c].valid.to)

Operative(k, K, p) ==
  LET valid == {c \in Lineage(k, K) : ClaimValidAt(c, p)}
  IN  IF p = None THEN HeadForKey(k, K)
      ELSE IF valid = {} THEN None
      ELSE CHOOSE c \in valid : \A d \in valid : claims[d].seq <= claims[c].seq

Other(r, c) == IF r.source = c THEN r.target ELSE r.source

\* Mutant: relations of every kind count as contradictions.
ConflictsOfAnyKind(c, K, p) ==
  {r \in relations : /\ c \in {r.source, r.target}
                     /\ KnownBy(r.recordedAt, K)
                     /\ KnownBy(claims[Other(r, c)].recordedAt, K)
                     /\ ClaimValidAt(Other(r, c), p)}

Conflicts(c, K, p) ==
  {r \in relations : /\ r.kind = "CONTRADICTS"
                     /\ c \in {r.source, r.target}
                     /\ KnownBy(r.recordedAt, K)
                     /\ KnownBy(claims[Other(r, c)].recordedAt, K)
                     /\ ClaimValidAt(Other(r, c), p)}

ResolveState(k, K, p) ==
  LET c == Operative(k, K, p)
      conflicts == Conflicts(c, K, p)
  IN  [status    |-> IF c = None THEN "MISSING"
                     ELSE IF conflicts # {} THEN "CONTESTED" ELSE "RESOLVED",
       operative |-> c,
       competing |-> {Other(r, c) : r \in conflicts},
       conflicts |-> conflicts]

-----------------------------------------------------------------------------
EpistemicInit ==
  /\ LogInit
  /\ claims = [c \in {} |-> None]
  /\ relations = {}
  /\ heads = [k \in Keys |-> None]
  /\ drafts = [w \in Writers |-> None]

(* observe_claim up to the transaction: a relation kind is refused when the *)
(* key has no current claim and required when it has one.                   *)
ReadCurrent(w) ==
  /\ drafts[w] = None
  /\ \E k \in Keys, kind \in Kinds \cup {None} :
       /\ (heads[k] = None) <=> (kind = None)
       /\ drafts' = [drafts EXCEPT ![w] =
                       [key |-> k, target |-> heads[k], kind |-> kind]]
  /\ UNCHANGED <<frontier, claimVars>>

(* The data a bundle carries besides its key and relation.                 *)
Bundles == [recordedAt : Times, capturedAt : Times, valid : Validities,
            extra : {e \in SUBSET DOMAIN claims : Cardinality(e) <= MaxExtraRefs}]

(* The checks of commit_claim_bundle on the bundle alone ...               *)
WellFormed(b) == b.capturedAt <= b.recordedAt /\ b.valid.from <= b.recordedAt

\* Mutant: the writer trusts what it read before the transaction.
TargetsReadHead(d) == d.target = None => heads[d.key] = None

(* ... and those against the state locked by its transaction: the relation *)
(* targets the current claim, the claim is not recorded before it, and the *)
(* older evidence it cites was captured and learned by then.               *)
TargetsLockedHead(d) == d.target = heads[d.key]

\* Mutant: a revision may be recorded before what it revises.
BackdatedAllowed(d, b) == TRUE

NotBackdated(d, b) ==
  heads[d.key] # None => b.recordedAt >= claims[heads[d.key]].recordedAt

\* Mutant: older evidence is cited unchecked.
EvidenceUnchecked(b) == TRUE

EvidenceKnown(b) ==
  \A e \in b.extra : /\ claims[e].capturedAt <= b.recordedAt
                     /\ claims[e].recordedAt <= b.recordedAt

Admissible(d, b) == /\ WellFormed(b)
                    /\ TargetsLockedHead(d)
                    /\ NotBackdated(d, b)
                    /\ EvidenceKnown(b)

\* Mutant: every admitted claim becomes the head.
AlwaysMovesHead(d) == TRUE

(* A first claim has no relation; a later one moves the head or not.       *)
MovesHead(d) == d.kind = None \/ d.kind \in HeadMoving

\* Mutant: the relation and the memory admission are not logged.
BundleRowsUnlogged(d) == 3

BundleRows(d) == IF d.kind = None THEN 5 ELSE 6

(* The log positions of a bundle are Event, Evidence, Claim, the relation  *)
(* if there is one, MemoryEntry and its CREATED lifecycle event.           *)
CommitClaimBundle(w, c, b) ==
  LET d == drafts[w]
      row == [key |-> d.key, recordedAt |-> b.recordedAt, valid |-> b.valid,
              capturedAt |-> b.capturedAt, refs |-> b.extra \cup {c},
              seq |-> frontier + 3]
      relation == [source |-> c, target |-> d.target, kind |-> d.kind,
                   recordedAt |-> b.recordedAt, seq |-> frontier + 4]
  IN  /\ d # None
      /\ c \in ClaimIds \ DOMAIN claims
      /\ Admissible(d, b)
      /\ Log(BundleRows(d))
      /\ claims' = [x \in DOMAIN claims \cup {c} |-> IF x = c THEN row ELSE claims[x]]
      /\ relations' = IF d.kind = None THEN relations ELSE relations \cup {relation}
      /\ heads' = IF MovesHead(d) THEN [heads EXCEPT ![d.key] = c] ELSE heads
      /\ drafts' = [drafts EXCEPT ![w] = None]

(* The bundle is refused, or its writer dies before the transaction.       *)
RejectClaimBundle(w) ==
  /\ drafts[w] # None
  /\ \E b \in Bundles : ~Admissible(drafts[w], b)
  /\ drafts' = [drafts EXCEPT ![w] = None]
  /\ UNCHANGED <<frontier, claimVars>>

(* rebuild_claim_heads replays every key that has claims.                  *)
RebuildClaimHeads ==
  /\ \A k \in Keys : LineageIntact(k, None)
  /\ heads' = [k \in Keys |-> HeadForKey(k, None)]
  /\ UNCHANGED <<frontier, claims, relations, drafts>>

EpistemicNext ==
  \/ \E w \in Writers : ReadCurrent(w)
  \/ \E w \in Writers, c \in ClaimIds, b \in Bundles : CommitClaimBundle(w, c, b)
  \/ \E w \in Writers : RejectClaimBundle(w)
  \/ RebuildClaimHeads

EpistemicSpec == EpistemicInit /\ [][EpistemicNext]_epistemicVars

-----------------------------------------------------------------------------
(* The rows of every table have the columns of schema.py, and positions    *)
(* lie within the log.                                                     *)
EpistemicTypeOK ==
  /\ frontier \in Nat
  /\ DOMAIN claims \subseteq ClaimIds
  /\ \A c \in DOMAIN claims : claims[c] \in ClaimRow /\ claims[c].seq <= frontier
  /\ relations \subseteq RelationRow
  /\ \A r \in relations : r.seq <= frontier
  /\ heads \in [Keys -> ClaimIds \cup {None}]
  /\ drafts \in [Writers -> Draft \cup {None}]

(* claim_heads, maintained by the writers, is the head that a replay of the *)
(* history finds, and the replay never raises: no stale writer got a        *)
(* head-moving relation past the locked check, and a rebuild changes        *)
(* nothing.                                                                 *)
HeadsMatchHistory ==
  \A k \in Keys : LineageIntact(k, None) /\ heads[k] = HeadForKey(k, None)

(* A query about the past (known_at) replays a prefix of the adopted       *)
(* lineage: it never raises, and it answers the last revision that was     *)
(* recorded by then.  This is what makes knowledge time monotonic along a  *)
(* lineage (docs/m1-semantics.md).                                         *)
AsKnownAtIsPrefix ==
  \A k \in Keys, K \in Times :
    LET known == {c \in Lineage(k, None) : claims[c].recordedAt <= K}
    IN  /\ LineageIntact(k, K)
        /\ Lineage(k, K) = known
        /\ known # {} => /\ HeadForKey(k, K) \in known
                         /\ \A c \in known : claims[c].seq <= claims[HeadForKey(k, K)].seq

(* A claim that contests the operative claim was never adopted itself, at  *)
(* any knowledge or valid time: contradictions stay beside the lineage.    *)
CompetingStayOffLineage ==
  \A k \in Keys, K \in Times \cup {None}, p \in Times \cup {None} :
    LET s == ResolveState(k, K, p)
    IN  s.status = "CONTESTED" => s.competing \cap Lineage(k, None) = {}

(* What an answer as known at K rests on - the operative claim, its        *)
(* competitors and the evidence each of them cites - was all recorded and  *)
(* captured by K, although each piece is filtered or checked elsewhere.    *)
AnswersRestOnKnowledge ==
  \A k \in Keys, K \in Times, p \in Times \cup {None} :
    LET s == ResolveState(k, K, p)
    IN  s.status # "MISSING" =>
          \A c \in s.competing \cup {s.operative} : \A e \in claims[c].refs :
            /\ claims[c].recordedAt <= K
            /\ claims[e].recordedAt <= K /\ claims[e].capturedAt <= K

(* Learning something at a later time never changes what was known at an   *)
(* earlier one: a step whose new claims are all recorded after K leaves    *)
(* every answer as known at K unchanged.                                   *)
PastAnswersStable ==
  [][\A k \in Keys, K \in Times, p \in Times \cup {None} :
       (\A c \in DOMAIN claims' \ DOMAIN claims : claims'[c].recordedAt > K)
         => ResolveState(k, K, p)' = ResolveState(k, K, p)]_epistemicVars

-----------------------------------------------------------------------------
(* The materialized heads with the recorded revisions implement a register *)
(* that is revised one claim at a time, each from its current value.       *)
Edges == {[key |-> claims[r.source].key, old |-> r.target, new |-> r.source] :
            r \in {q \in relations : q.kind \in HeadMoving}}
Roots == {[key |-> k, old |-> None, new |-> FirstClaim(Visible(k, None))] :
            k \in {j \in Keys : Visible(j, None) # {}}}

Register == INSTANCE RevisionRegister
              WITH current <- heads, revisions <- Edges \cup Roots

(* Two writers that read the same head cannot both revise it: every change *)
(* of a head is an adoption over the value it replaces, on record.         *)
RefinesRegister == Register!RegisterSpec
=============================================================================
