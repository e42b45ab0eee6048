------------------------- MODULE ContextProjections -------------------------
(***************************************************************************)
(* Context compilation over the epistemic store and memory: the dependency *)
(* capture (storage/sqlite/store.py), the exact and coverage compilers     *)
(* (context/compiler.py, context/coverage.py), registration and            *)
(* invalidation of projections (storage/sqlite/projection_store.py).       *)
(*                                                                         *)
(* A compiler reads one pinned WAL snapshot without holding any lock, so   *)
(* its reads are one step; it registers what it read in a later write      *)
(* transaction, and writers commit in between.  Besides the two compilers  *)
(* of the repository there are clients of the store's interface: one that  *)
(* compiles from a scan of all keys under the same capture discipline      *)
(* (docs/context-retrieval.md:47), and one that reads without a capture.   *)
(***************************************************************************)
EXTENDS Recall

CONSTANTS
  Compilers,      \* connections that compile context
  ProjectionIds,  \* UUIDs of projections
  RequestIds,     \* UUIDs of persisted context requests
  MaxOtherRows,   \* bound on the log entries that no claim bundle appends
  Requests,       \* what compilers are asked: keys (none: all), known_at, valid_at
  Modes,          \* the ways of compiling in use
  AnySemantics    \* the wildcard dependency "semantic:*"

ASSUME RequestsAssumption ==
  Requests \subseteq [needs : SUBSET Keys, known : Times \cup {None}, valid : Times \cup {None}]
ASSUME ModesAssumption == Modes \subseteq {"coverage", "exact", "scan", "plain"}
ASSUME AnySemanticsAssumption == AnySemantics \notin Keys \cup ClaimIds

VARIABLES
  captures,    \* what each compiler read, until it registers it
  requests,    \* context_requests
  projections  \* context_projections with their details, items and dependencies

contextVars == <<captures, requests, projections>>
vars == <<epistemicVars, memoryVars, contextVars>>

-----------------------------------------------------------------------------
(* A request without keys asks for all that exist (semantic_keys).         *)
Scans(r) == r.needs = {}
NeededKeys(r) == IF Scans(r) THEN {k \in Keys : Visible(k, None) # {}} ELSE r.needs

Answer(r) == [k \in NeededKeys(r) |-> Recalled(k, r.known, r.valid)]

Satisfied(a) == a.operative # None /\ a.omitted = {}

(* CoverageStatus; with one key this is also the exact compiler's rule.    *)
Coverage(content) ==
  LET done == {k \in DOMAIN content : Satisfied(content[k])}
  IN  IF done = {} THEN "INSUFFICIENT"
      ELSE IF done = DOMAIN content THEN "COMPLETE" ELSE "PARTIAL"

(* The keys of a capture: resolved_state records the key, the memory        *)
(* lookup of each claim found its memory entry, semantic_keys the wildcard. *)
CapturedKeys(r, content) ==
  DOMAIN content \cup (UNION {content[k].items \cup content[k].omitted : k \in DOMAIN content})
    \cup (IF Scans(r) THEN {AnySemantics} ELSE {})

(* Every logged row stales the fresh projections that depend on the        *)
(* wildcard (_log); a change of state also those that depend on what it    *)
(* touched (_invalidate_projection_dependencies_in_tx).                    *)
Invalidated(touched) ==
  [i \in DOMAIN projections |->
     IF projections[i].deps \cap (touched \cup {AnySemantics}) # {}
       THEN [projections[i] EXCEPT !.stale = TRUE] ELSE projections[i]]

-----------------------------------------------------------------------------
Init ==
  /\ EpistemicInit
  /\ MemoryInit
  /\ captures = [x \in Compilers |-> None]
  /\ requests = [r \in {} |-> None]
  /\ projections = [i \in {} |-> None]

Serves(mode, r) == \/ mode = "coverage" /\ r.needs # {}
                   \/ mode = "exact" /\ Cardinality(r.needs) = 1
                   \/ mode = "scan" /\ r.needs = {}
                   \/ mode = "plain"

(* The request that is persisted: the exact compiler takes its key beside  *)
(* the request, which therefore does not bind it.                          *)
Bound(r, mode) == IF mode = "exact" THEN [r EXCEPT !.needs = {}] ELSE r

(* Reads inside one snapshot: context_read_snapshot, which captures the    *)
(* dependencies, or a plain read_snapshot.  A compiler that dies later     *)
(* leaves its capture unregistered.                                        *)
Compile(x, id, r, mode) ==
  /\ captures[x] = None
  /\ Serves(mode, r)
  /\ captures' = [captures EXCEPT ![x] =
                    [id |-> id, asked |-> r, compiler |-> mode,
                     frontier |-> frontier, content |-> Answer(r)]]
  /\ UNCHANGED <<epistemicVars, memoryVars, requests, projections>>

Captured(cap) == cap.compiler # "plain"

\* Mutant: the memory lookups of a compilation are not captured.
DependenciesWithoutMemory(cap) ==
  IF Captured(cap) THEN DOMAIN cap.content ELSE {AnySemantics}

Dependencies(cap) ==
  IF Captured(cap) THEN CapturedKeys(cap.asked, cap.content) ELSE {AnySemantics}

\* Mutant: a request id can be reused for other semantics.
RegistrableRebound(cap) == ~Captured(cap) => cap.frontier = frontier

(* Unproven lineage registers at the current frontier only, and a request  *)
(* id keeps the semantics it was first persisted with.                     *)
Registrable(cap) ==
  /\ ~Captured(cap) => cap.frontier = frontier
  /\ cap.id \in DOMAIN requests => requests[cap.id] = Bound(cap.asked, cap.compiler)

\* Mutant: writes between the snapshot and the registration go unnoticed.
StaleAtRegistrationUnfenced(cap) ==
  AnySemantics \in Dependencies(cap) /\ cap.frontier < frontier

StaleAtRegistration(cap) ==
  \/ AnySemantics \in Dependencies(cap) /\ cap.frontier < frontier
  \/ Dependencies(cap) \cap ChangedSince(cap.frontier) # {}

\* Mutant: the request of a projection is not persisted.
PersistedNever(cap) == requests

(* INSERT OR IGNORE: the first semantics of a request id stay.             *)
Persisted(cap) == [r \in DOMAIN requests \cup {cap.id} |->
                     IF r \in DOMAIN requests THEN requests[r]
                     ELSE Bound(cap.asked, cap.compiler)]

(* register_context_projection.  The capture is consumed before the write   *)
(* transaction, so a refusal consumes it as well.  "asked" is not a column: *)
(* the row names its request and its compiler.                              *)
RegisterContextProjection(x, i) ==
  LET cap == captures[x]
      row == [request |-> cap.id, asked |-> cap.asked, compiler |-> cap.compiler,
              frontier |-> cap.frontier, content |-> cap.content,
              coverage |-> Coverage(cap.content), deps |-> Dependencies(cap),
              stale |-> StaleAtRegistration(cap)]
  IN  /\ cap # None
      /\ i \in ProjectionIds \ DOMAIN projections
      /\ Registrable(cap)
      /\ requests' = Persisted(cap)
      /\ projections' = [j \in DOMAIN projections \cup {i} |->
                           IF j = i THEN row ELSE projections[j]]
      /\ captures' = [captures EXCEPT ![x] = None]
      /\ UNCHANGED <<epistemicVars, memoryVars>>

RefuseContextProjection(x) ==
  /\ captures[x] # None
  /\ ~Registrable(captures[x])
  /\ captures' = [captures EXCEPT ![x] = None]
  /\ UNCHANGED <<epistemicVars, memoryVars, requests, projections>>

OtherRows == frontier - 5 * Cardinality(DOMAIN claims) - Cardinality(relations)

(* The writers of EpistemicStore and MemoryLifecycle, with the memory      *)
(* admission and the invalidation that belong to their transactions.       *)
AdmitClaim(w, c, b) ==
  /\ CommitAndAdmit(w, c, b)
  /\ projections' = Invalidated({drafts[w].key})
  /\ UNCHANGED <<captures, requests>>

\* Mutant: telemetry invalidates like a change of state.
TouchedByTelemetry(m, kind) == {m}

TouchedBy(m, kind) == IF ChangesState(m, kind) THEN {m} ELSE {}

ChangeMemory(m, kind) ==
  /\ OtherRows < MaxOtherRows
  /\ RecordMemoryEvent(m, kind)
  /\ projections' = Invalidated(TouchedBy(m, kind))
  /\ UNCHANGED <<claimVars, drafts, captures, requests>>

(* Any other logged write, such as register_agent.                         *)
LogUnrelated ==
  /\ OtherRows < MaxOtherRows
  /\ Log(1)
  /\ projections' = Invalidated({})
  /\ UNCHANGED <<claimVars, drafts, memoryVars, captures, requests>>

Next ==
  \/ \E x \in Compilers, id \in RequestIds, r \in Requests, mode \in Modes :
       Compile(x, id, r, mode)
  \/ \E x \in Compilers, i \in ProjectionIds : RegisterContextProjection(x, i)
  \/ \E x \in Compilers : RefuseContextProjection(x)
  \/ \E w \in Writers, c \in ClaimIds, b \in Bundles : AdmitClaim(w, c, b)
  \/ \E m \in Targets, kind \in EventKinds : ChangeMemory(m, kind)
  \/ LogUnrelated
  \/ /\ (\E w \in Writers : ReadCurrent(w) \/ RejectClaimBundle(w)) \/ RebuildClaimHeads
     /\ UNCHANGED <<memoryVars, contextVars>>
  \/ RebuildLifecycleStates /\ UNCHANGED <<claimVars, drafts, contextVars>>

Spec == Init /\ [][Next]_vars

-----------------------------------------------------------------------------
(* The tables hold rows of their types, and every claim was admitted to    *)
(* memory in its own transaction.                                          *)
ContextTypeOK ==
  /\ DOMAIN lifecycle = DOMAIN claims
  /\ DOMAIN requests \subseteq RequestIds
  /\ \A r \in DOMAIN requests : \E q \in Requests, mode \in Modes : requests[r] = Bound(q, mode)
  /\ DOMAIN projections \subseteq ProjectionIds
  /\ \A i \in DOMAIN projections :
       /\ projections[i].request \in DOMAIN requests
       /\ projections[i].frontier \in 0..frontier
       /\ projections[i].deps \subseteq Keys \cup ClaimIds \cup {AnySemantics}
       /\ projections[i].stale \in BOOLEAN

(* A projection that is not marked stale is exactly what compiling it again *)
(* would give now - operative claims, contradictions, memory gating and     *)
(* coverage - for its persisted request, however many writes committed      *)
(* while it was being compiled or since it was registered.                  *)
FreshMeansCurrent ==
  \A i \in DOMAIN projections :
    LET p == projections[i]
    IN  ~p.stale => /\ p.content = Answer(p.asked)
                    /\ p.coverage = Coverage(Answer(p.asked))
                    /\ requests[p.request] = Bound(p.asked, p.compiler)

(* Unrelated activity does not stale proven lineage: a stale projection    *)
(* without the wildcard has a dependency that changed after its frontier,  *)
(* and so do not SEEN/USED telemetry, agents or claims on other keys.      *)
StaleOnlyWhenTouched ==
  \A i \in DOMAIN projections :
    LET p == projections[i]
    IN  (p.stale /\ AnySemantics \notin p.deps) => p.deps \cap ChangedSince(p.frontier) # {}

(* The projections implement the freshness promise: accurate when published *)
(* fresh, immutable, and stale for good no later than their answer changes. *)
Answers == UNION {[needs -> Recollection] : needs \in SUBSET Keys}
Fence == INSTANCE FreshnessFence
           WITH answer <- [r \in Requests |-> Answer(r)],
                published <- [i \in DOMAIN projections |->
                                [request |-> projections[i].asked,
                                 content |-> projections[i].content,
                                 fresh   |-> ~projections[i].stale]]
ImplementsFence == Fence!FenceSpec
=============================================================================
