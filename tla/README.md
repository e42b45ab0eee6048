# Sarmady in TLA+

Sarmady is a library of canonical, bitemporal memory for agents: claims with
their evidence, memory entries that can be archived or forgotten, context
projections compiled from both, and model invocations made over projections.
Everything lives in one SQLite database in WAL mode that several processes may
open. This directory holds its formal model: TLA+ modules translated from
`src/sarmady`, TLC configurations that check them on small instances, and
TLAPS proofs of every safety property that the configurations find to hold.

Paths below are relative to `src/sarmady` of the repository.

## Inventory

| Component | State | Operations | Hard part | Correct when |
|---|---|---|---|---|
| **Semantic log** `storage/sqlite/store.py` | `semantic_log`: one position per canonical row | `_log`, `frontier`, write and read transactions | one log orders all tables; every logged row stales wildcard projections | positions order all replays; a failed transaction leaves nothing |
| **Claim admission** `epistemic/service.py`, `storage/sqlite/epistemic_store.py` | events, evidence, claims, relations, `claim_heads` | `observe_claim`, `commit_claim_bundle`, `rebuild_claim_heads` | the current claim is read before the transaction that revises it | the materialized heads are those of the history, and the history can be replayed |
| **Resolution** `storage/sqlite/resolution.py` | none | `head_for_key`, `resolve_state` | two time dimensions, filtered in several places | answers about the past are stable and rest only on what was known then |
| **Memory** `storage/sqlite/memory_store.py`, `memory_state.py` | `memory_entries.lifecycle`, lifecycle events | record an event, rebuild | a column and a replay of the same fact, with telemetry between | column = replay; forgetting is final |
| **Dependency capture** `storage/sqlite/store.py` | captures of a connection, by token | `context_read_snapshot`, lookups, consumption | completeness of what was read; a capture is used once | every fact an answer depends on is a dependency |
| **Context compilers** `context/compiler.py`, `context/coverage.py` | none | exact and coverage compilation | memory gating, contradictions, budgets | a projection says what it includes, omits and lacks |
| **Projections** `storage/sqlite/projection_store.py` | requests, projections, dependencies, `stale` | register, invalidate, rehydrate | writers commit between the snapshot and the registration | a projection not marked stale is what compiling now would give |
| **Cognition** `storage/sqlite/cognitive_store.py`, `runtime/model.py` | cognitive requests, invocations, artifacts | create, start, complete, fail | adapter runs outside any lock; processes die; the wall clock is set back; the write lock is not always free in time | an outcome and its artifact agree; stale context starts nothing |
| **Context needs** `storage/sqlite/context_need_store.py`, `context/fulfillment.py` | decisions, child requests | accept, reject | racing coordinators; chains of children | one decision per need; bounds never widen |
| **Reasoning policies** `storage/sqlite/reasoning_store.py`, `cognition/reasoning.py` | policies | register, link to a cognitive request, verified read | racing registrations of one id; a policy is read three times by id; two spellings of one digest | an id keeps its content, and an invocation runs under what its host meant |
| **Candidates, planning** `context/candidates.py`, `context/planning.py`, `context/_lexical.py` | none; the caller carries set, plan and request | rank and truncate keys, resolve a subject, derive a request | truncation against exhaustiveness; reused request ids; a plan outlives its snapshot | no truncated set passes for a unique match; a derived request asks what its source asked |
| **Schema** `storage/sqlite/schema.py` | `user_version`, all tables | create, migrate, backfill | a crash between statements; several processes open one store; version and rows are read before a lock | migrating again completes and repeats nothing, and no session starts on unproven lineage |
| **Agents, codecs, values, kernel records** | agents; none | insert; convert | none | - |

### Interactions

* All writers share one database. `BEGIN IMMEDIATE` serializes write
  transactions and a failed one rolls back, so *a write transaction is one
  atomic step*. A connection waits five seconds for the lock and then raises
  (`store.py:172`, `:179`); the transaction it could not begin changes nothing,
  and what matters is where the caller stands then. What was read before a
  transaction began is not protected; that is where most of the hazards are.
* A read snapshot (`BEGIN` in WAL mode) pins one committed state: *all reads of
  a snapshot are one atomic step*.
* `commit_claim_bundle` writes to the epistemic tables, to memory and to the
  projections (invalidation) in one transaction. `record_memory_event`
  invalidates when it changes the lifecycle column.
* The compilers call `resolve_state` and the memory lookups inside a snapshot
  that captures dependency keys. Registration consumes the capture and re-reads
  the log beyond its frontier.
* Candidate generation reads what the compilers read, in a snapshot of its own.
  Nothing of it is persisted: the caller passes set, plan and request from call
  to call, and each call compares the request by id and fingerprint.
* A reasoning policy is registered, then named by id in the cognitive request,
  then read again by that id for the model input, in three transactions.
* Every process runs `initialize_schema` when it opens the store, next to
  processes that already use it.
* The runtime checks a projection's `stale` column twice: when the cognitive
  request is admitted and again when the invocation starts. A coordinator does
  not look at it; the store checks it once, when it registers an acceptance.

## Modules

| Module | Models | Built on |
|---|---|---|
| `SemanticLog` | log positions, replay order | - |
| `EpistemicStore` | `observe_claim`, `commit_claim_bundle`, heads, resolution | `SemanticLog` |
| `RevisionRegister` | what claim heads promise (abstract) | - |
| `HeadReplay` | the loops of `head_for_key` and `resolve_state`, entry by entry | `EpistemicStore` |
| `MemoryLifecycle` | admission, events, lifecycle column, rebuild | `SemanticLog` |
| `LifecycleReplay` | the loop of the rebuild, event by event | `MemoryLifecycle` |
| `Recall` | what a reader of one snapshot recalls of a key; a bundle that also admits its claim to memory; what changed since a position | `EpistemicStore`, `MemoryLifecycle` |
| `ContextProjections` | capture, compilers, registration, invalidation, with all writers of the stores | `Recall` |
| `FreshnessFence` | what projections promise to their users (abstract) | - |
| `CognitiveRuntime` | hosts that admit, start, complete and fail invocations | `FreshnessFence` |
| `ContextNeeds` | coordinators that decide needs, beside the hosts | `CognitiveRuntime` |
| `ReasoningPolicies` | registration of policies and the invocations they govern | - |
| `RequirementPlanning` | candidate sets, plans and derived requests, beside the writers | `Recall` |
| `SchemaMigration` | openers of a store of any version, beside open sessions | `SemanticLog` |
| `EpistemicStoreProofs`, `MemoryLifecycleProofs`, `ReasoningPoliciesProofs`, `SchemaMigrationProofs` | theorems and their proofs | the module named, TLAPS |
| `RecallProofs` | theorems about the replays, and what a write does to what is recalled | `HeadReplay`, `LifecycleReplay`, `Recall`, the proofs of both stores |
| `ContextProjectionsProofs`, `RequirementPlanningProofs` | theorems and their proofs | the module named, `RecallProofs` |
| `CognitionProofs` | theorems about `CognitiveRuntime` and `ContextNeeds` | `ContextNeeds`, TLAPS |
| `MC*` | constants and symmetry sets of the instances | the module named |

The system is checked in two layers. `ContextProjections` composes the store's
writers with the compilers and is shown to implement `FreshnessFence`:
projections are immutable answers, published fresh only if accurate, and stale
for good no later than their answer changes. `CognitiveRuntime` and
`ContextNeeds` then run over `FreshnessFence` instead of the claims and
memories behind it, so a fence proved in the upper layer rests on what the
lower layer was shown to do. TLC checks this refinement on an instance, and
`ContextProjectionsProofs` proves it. `ReasoningPolicies` and `SchemaMigration`
are about tables that no other module needs the history of, and stand alone.

### How state and actions correspond to the code

*`SemanticLog`*: `frontier` is `MAX(seq)`; every logged row keeps the position
it was given. `LoggedBefore`, `Latest` and `Earliest` stand for `ORDER BY seq`
with a cut-off. The replays of the code are loops over rows in log order;
the model states their result in closed form (the last head-moving relation
before a position; the last event with an outcome of its own), and states
the condition under which the loop raises (`LineageIntact`, `HistoryIntact`)
at every step of it. `HeadReplay` and `LifecycleReplay` have the loops
themselves.

*`EpistemicStore`*: a row of `claims` carries its event and evidence, which its
bundle inserts with it. `ReadCurrent` is `observe_claim` up to its call of
`commit_claim_bundle`; the draft it leaves is what the writer believes to be
current. `CommitClaimBundle` is the write transaction with every check that
reads state, or compares fields of the bundle; `RejectClaimBundle` is the same
transaction refused, or its writer dead. A bundle takes five log positions and
six with a relation: Event, Evidence, Claim, [ClaimRelation], MemoryEntry,
MemoryLifecycleEvent.

*`MemoryLifecycle`*: an entry has the id of its target, which a unique index
makes possible. `AllowedFrom` and `NextState` are `next_memory_state`.
`AdmitMemory` has no step of its own in the composition; it is part of a
bundle.

*`HeadReplay`*: `ReadEntry` is one iteration of `head_for_key` with the head, the
`revision_parent` and the exception it may raise; position n of the log is
read if it holds a visible claim or a head-moving relation of the key. `Walk` is
the loop of `resolve_state` along `revision_parent`.

*`LifecycleReplay`*: `ReadEvent` is one iteration of
`rebuild_memory_lifecycle_states` over the events of one entry, with both of
its exceptions.

*`Recall`*: `Recalled` is the reading of one key that the compilers and the
candidate generator share: the resolved state, split by whether the memory of
each claim is ACTIVE. `ChangedSince` is `_dependency_keys_changed_since`.

*`ContextProjections`*: a compiler is asked for keys (none: all keys, by
`semantic_keys`) with `known_at` and `valid_at`. `Answer` is what the coverage
compiler includes, omits and reports as contested; for one key the exact
compiler gives the same. A `Compile` step is a snapshot, in one of four modes.
`coverage` and `exact` are the two compilers of the repository; they differ in
what their request binds, for the exact compiler takes its key beside the
request (`Bound`). `scan` is a client that compiles from `semantic_keys` under
a capture, which `docs/context-retrieval.md` declares safe and no shipped
compiler does; `plain` is a client that registers without a capture, so that
its projection depends on the wildcard `semantic:*`. Every writer of the lower
modules is an action here together with its invalidation.

*`CognitiveRuntime`*: `hosts[h]` is where a call of `invoke` or `invoke_step`
stands: admitted, running (the adapter works, no lock held), failing (in the
exception handler), raised (the handler did not get the write lock and raises
itself) or dead. Each move between stages is one transaction of
`cognitive_store.py`, or one that could not begin: `LockTimesOut` is that at a start
and in the handler, if `LongLocks` says that somebody may hold the lock for
long; at an admission it changes nothing, at a completion it is one of the
exceptions of `AdapterFails`. The runtime takes every timestamp from a wall clock;
`Reading` lets it stand, advance or, with `ClockSteps`, be set back.

*`ContextNeeds`*: `PrepareDecision` is `ContextNeedCoordinator.accept` and
`.reject` up to the store; `RegisterDecision` is
`register_context_need_decision` with the checks that can fail after the
preparation. `PersistRequest` is a compiler registering a projection under any
request id, also one that a coordinator has in mind for a child.

*`ReasoningPolicies`*: `RegisterPolicy` and `RefusePolicy` are the transaction of
`register_reasoning_policy`, `UsePolicy` a call that names a policy by id,
`UseNoPolicy` one without a policy,
`AdmitRequest` the part of `create_cognitive_request` that writes the policy's id,
`MaterializeInput` the read of `_materialize_input`. Between these a host holds
no lock. What a policy says (version, mode, stages, requirements, source) is one
value; kept apart is the spelling of its source digest, because older versions
stored and fingerprinted it as it came, and `_canonical_policy_for_registration`
compares both spellings. The store may hold rows of older versions from the
start, and `DamageRow` changes a column behind the store's back, the content, the
spelling or the fingerprint itself, which is what the fingerprint is verified
for. `BoundTo` is what an id was registered for, whichever column of its row is
damaged: the properties speak of it and not of what the row says. Hashes are
injective.

*`RequirementPlanning`*: `Generate` is one call of `generate`, in one snapshot;
`GenerateElsewhere` is a retriever of somebody else, which may return anything
recallable and call it exhaustive, for `plan` accepts any `CandidateSet`; `Plan`
and `DeriveRequest` are the planner's two methods with the request handed in
anew, `DropPlanning` a refusal or the end. A source with exact requirements of its
own and a derived id that is its source's are handed in as well, for `plan` and
`derive_request` to refuse. A text is the set of its tokens;
`Score` is `rank_score` (5 per token of the predicate, 3 of the subject, 1 of a
value). `Named`, `Competing`, `Evidence`, `Qualified` and `Chosen` follow `plan` and
`_resolve_subject` in order.

*`SchemaMigration`*: `ReadVersion`, `ReadEntries`, `BackfillMemory`,
`ReadProjections`, `BackfillLineage` and `SetVersion` are the statements of
`initialize_schema` between which another process can run or this one die
(`CutShort`). `AdmitEntry`, `RecordEvent` and `RegisterProjection` are what the
sessions of processes that finished do to the same tables. `declared` is a ghost
column: it remembers that a projection was written when callers declared its
dependencies, which no real column says.

## Checks

All runs finish exhaustively within a few minutes. `CHECK_DEADLOCK FALSE`
stands in every configuration: ids, log positions and clock readings are
bounded, so every instance comes to an end when they are used up.

| Run | Instance | What it shows |
|---|---|---|
| `EpistemicRaces` | 2 writers, 2 keys, 4 claims | heads equal the replayed history whatever the writers read; refinement of `RevisionRegister` |
| `BitemporalAnswers` | 1 writer, 1 key, 3 claims, 2 instants, 2 validities, 1 older evidence each | answers about the past are a prefix of the lineage, rest on what was known, and stay; the loops that find them raise nowhere and agree with the closed form |
| `MemoryReplay` | 2 entries, all 7 kinds, 5 events after their admissions | column = replay, in closed form and event by event; forgetting is final; archive and restore alternate |
| `ProjectionFreshness` | 1 compiler in all four modes, 1 writer, 2 keys, 3 claims, 1 memory event or other row | fresh projections are current; proven lineage is staled only by what touches it |
| `FreshnessPromise` | 1 compiler (coverage or scan), 2 projections under one request id with two meanings (everything now, one key as valid at 1), 2 keys, 2 claims whose validity may end at 1, entries archived and restored | `ContextProjections` implements `FreshnessFence`; fresh projections stay current when a request id is contended |
| `InvocationRaces` | 2 hosts, 2 invocations, 1 coordinator, 1 projection whose answer changes, clock that is set back, lock that is not obtained in time, fairness | outcomes match artifacts; starts and acceptances are current; decisions follow their needs; invocations end |
| `NeedChains` | 2 coordinators, 2 needs, 3 requests, 2 token budgets, a latency budget or none | one decision per need, chains never widen, loop or drop a bound |
| `PolicyRaces` | 2 hosts, 2 ids, 2 contents in 2 spellings, 2 requests, each row damaged once in any column | invocations run under what their host supplied; ids keep their content; only rebindings are refused |
| `Planning` | 1 client, 1 writer, 3 keys (2 subjects, 2 predicates), 3 claims whose validity may end at 1, 8 requests (2 share an id, one is as valid at 1, one has the derived id, one an exact requirement), limits 1 and 3 | a resolved plan is unique in its snapshot; limits make it abstain, never decide; derived requests ask what their source asked and hold until touched |
| `Migrations` | 2 openers, 1 entry, 1 projection, any version from 0 to 8, 2 interruptions, fairness | backfills are done once and in order; sessions start on proven lineage; migrations complete |
| `ClockSetBack` | 1 host, clock that is set back | **violation**, see Findings |
| `SlowOpener` | 2 openers, 1 projection | **violation**, see Findings |

**Bounds.** The hazards are races between a read and a later write, and the
bounds are what it takes for each to happen and be followed by one more step.
Two writers and two claims on a key make a stale writer; a third claim makes a
revision of a revision, a fourth lets the other key move meanwhile. Two
instants order any two times both ways; 0 and 9 in validities stand for
missing bounds, and a claim with validity [0, 1) is recalled now but not as valid
at 1. A compiler races one writer; two compilers matter only
where they contend for a request id, which in `FreshnessPromise` one compiler
does with itself, with two meanings for one id. Projections asked for at a past
knowledge time are not in these two runs: that such answers do not change is
`PastAnswersStable` of `BitemporalAnswers`, and the theorems about
`ContextProjections` cover all times. A chain of needs longer than a child
and a grandchild adds no new relation between a request and its ancestors:
each acceptance compares with its parent only. In `Planning` the keys are chosen
so that a predicate and a subject share a token, two subjects share one, and a
value alone matches; limit 1 truncates, limit 3 cannot. Requests as known at
a past time are too many states beside these and are left to `PlansHold`, which
covers all times. `LimitNeverDecides`
speaks of the store alone and is evaluated where no client holds anything. In
`Migrations` two openers suffice for one to be stale, and `MaxFailures` lets
each, or one twice, be interrupted.

`MaxFrontier` bounds the log where ids do not; 100 and 30 are beyond what the
claim ids allow, 9 is two admissions and five events, 11 is two bundles and one
more row or one bundle with several memory events (one that archives and
restores among them), 15 is three first claims, or two claims of one key with
the archiving of both, 3 is a backfill and two records of a session.
`MaxOtherRows` bounds rows logged by anything but a bundle; `MaxExtraRefs` the
older evidence that one claim cites; `MaxFailures` the opens and sessions that
are cut short. Symmetry is used only for safety properties and only over ids
that no definition distinguishes.

**Fairness.** `FairNeedsSpec` has weak fairness of `Proceed(h)` for each host,
in the composition with coordinators: a host in the middle of a call takes its
next step unless it is interrupted. `invoke` is synchronous, has no loop and waits for
nothing but the adapter and SQLite's lock; the adapter is assumed to return or
raise, as no timeout is enforced on it. The clock may be set back in this run;
`InvocationsEnd` then excuses exactly the invocations whose host died, whose
start lies ahead of the clock, or whose failure could not be recorded because
the lock was not obtained in time; `ClockSetBack` shows that such a clock does
leave one open, and for the lock it is what `LockTimesOut` does. `HostDies` and
`LockTimesOut` (together `HostInterrupted`) are no part of `Proceed`: nothing
makes them happen, and nothing keeps them from it. `FairSchemaSpec` has weak
fairness of `OpenStep(o)`: opening a store runs through unless it is cut short,
which happens finitely often, and a host that failed to open tries again.
Nothing is claimed to make coordinators, compilers, writers or planning clients
progress: the code has no scheduler that would.

**Assumptions of the upper layer.** Artifact kinds are reduced to a context
need and any other text; payloads, labels and query texts play no role in a
guard that can change between two steps, so they are left out.

**Assumptions about old stores.** Only a store of version 2 or less may hold
memory entries without any event (`schema.py` speaks of admissions before version
2), and such an entry is ACTIVE; a later store has a CREATED event of each. No
process still runs the code of an older version while a newer one migrates.

## Proofs

Every theorem is about the specification of its component, for every value of the
constants: any number of keys, claims, writers, entries, compilers, hosts,
coordinators, openers and requests, and logs of any length.

| Module | Theorems (property) |
|---|---|
| `EpistemicStoreProofs` | `TypeCorrect` (`EpistemicTypeOK`), `HeadsCorrect` (`HeadsMatchHistory`), `PastIsPrefix` (`AsKnownAtIsPrefix`), `CompetingOffLineage` (`CompetingStayOffLineage`), `AnswersRest` (`AnswersRestOnKnowledge`), `PastStable` (`PastAnswersStable`, of steps), `ImplementsRegister` (`RefinesRegister`, a refinement) |
| `MemoryLifecycleProofs` | `MemoryTyped` (`MemoryTypeOK`), `LifecycleIsReplay` (`LifecycleMatchesEvents`), `ForgettingIsFinal` (`ForgottenStaysForgotten`), `ArchivingAlternates` (`ArchivedOncePerRestore`) |
| `RecallProofs` | `QueriesRaiseNothing` (`ReplayAnswersQueries`), `RebuildIsIdle` (`RebuildChangesNothing`) |
| `ContextProjectionsProofs` | `ContextTyped` (`ContextTypeOK`), `FreshIsCurrent` (`FreshMeansCurrent`), `StaleIsTouched` (`StaleOnlyWhenTouched`), `ProjectionsImplementFence` (`ImplementsFence`, a refinement); `ContextKeepsPromises`: all of the stores' properties, for the composition |
| `CognitionProofs` | `RuntimeTyped` (`RuntimeTypeOK`), `OutcomesMatch` (`OutcomesMatchArtifacts`), `StartsCurrent` (`InvocationsStartCurrent`, of steps); `NeedsTyped` (`NeedsTypeOK`), `DecidedOnce` (`NeedsDecidedOnce`), `NeverAmplified` (`ChainsNeverAmplify`), `DecisionsFollow` (`DecisionsFollowNeeds`), `AcceptancesCurrent` (`AcceptancesAreCurrent`, of steps), and the results on hosts again for the composition: `OutcomesMatchBesideNeeds`, `StartsCurrentBesideNeeds` |
| `ReasoningPoliciesProofs` | `PoliciesTyped` (`PoliciesTypeOK`), `InputsGoverned` (`InputsAreGoverned`), `RefusalsAreRebindings` (`RefusedOnlyWhenRebound`), `BindingsNeverChange` (`BindingsAreFinal`, of steps) |
| `RequirementPlanningProofs` | `LimitsNeverDecide` (`LimitNeverDecides`), `ResolvedPlansAreUnique` (`ResolvedIsUnique`), `DerivedRequestsAreBound` (`DerivedAsksItsSource`), `PlanningTyped` (`PlanningTypeOK`), `PlansHold` (`PlansHoldUntilTouched`); `PlanningKeepsPromises`: all of the stores' properties, for the composition |
| `SchemaMigrationProofs` | `SchemaTypeCorrect` (`SchemaTypeOK`), `CreatedOnce` (`CreatedOnceAndFirst`), `LineageFenced` (`DeclaredLineageFenced`) |

They rest on the named assumptions on constants, which TLC evaluates in the
runs: `MaxFrontierAssumption`; `TimesAssumption`, `ValiditiesAssumption`,
`KindsAssumption` and `NoneAssumption`, that NULL is no id, instant or kind;
`EventKindsAssumption`; `TargetsAssumption`, that every claim has one memory
entry; `RequestsAssumption`, `ModesAssumption`, `AnySemanticsAssumption`;
`ClockAssumption`, `LocksAssumption`, `BoundsAssumption`; `LexiconAssumption`,
`PositionAssumption`, `PlanRequestsAssumption`, `LimitsAssumption`;
`FailuresAssumption`, `EntriesAssumption`, `ReasonsAssumption`.

### The arguments

**Claims.** `HeadsMatchHistory` is not inductive. It says nothing of a claim
that is not head, yet whether a later replay finds a claim depends on
positions: two rows with one position would make "the last relation"
ambiguous, a relation across keys would be replayed for neither, a head of
another key would be revised from the wrong history. `IInv` adds `TypeInv` (types,
positions within the log, drafts that carry a kind exactly when they carry a
target), `PositionsUnique`, `RelationsWithinKey`, `HeadsOfTheirKey` and
`RootsExist`. The argument for `CommitClaimBundle`: the new claim and relation lie
beyond the whole log (`CommitExtends`), so every replay of an older prefix sees
the same rows; the new relation, being the last, is replayed where the head is
the locked head, its target; and the replay ends at its source, the new head.

**Time.** For answers about the past `KInv` says how knowledge grows along a
key: the adopted claims are ordered by position and by recording instant alike
(`RelationsFollow`, `TimesOrdered`), the head is the last of them (`HeadIsLast`),
evidence is captured and recorded no later than the claim that cites it
(`RefsKnown`). Then what was known by K is a prefix, and the operative claim is its
last valid member (`OperativeIsLast`), from which the other theorems follow. A
commit that is recorded after K adds nothing that an answer as known at K reads
(`LaterStep`, `AnswerSame`). The refinement maps the adopted claims of a key to
the history of a register: a commit that moves the head appends one
(`CommitAdopts`), all other steps stutter.

**Memory.** `MemoryIInv` is the column against the replay, which an appended event
keeps because it is the last (`AppendKeepsReplays`). `EventIInv` ties
the column to the whole history of an entry: it was tombstoned or deleted once
and is so still, a deletion after a tombstone (`Forgetting`); an active entry was
restored after every archiving (`Restoring`), so that between two archivings lies
a restoration (`Alternating`).

**Replays.** The closed forms are what the loops compute, for histories of any
length. What a loop holds after position n is a recursive function of n; the
closed form at n satisfies the same equations (`HeadReadStep`, `ReadUpToStep`),
hence is the same function (`Computed`). The induction this takes is about sets
of numbers instead of predicates, which the provers cannot instantiate
(`SetInduction`, from the well-foundedness of "<"). A loop raises at a position
exactly where the closed form would change its head from a claim that is not
the target, or its state by an event that is not allowed from it: that `IInv`
and `MemoryIInv` exclude. They had to say that positions are positive and that
no two events share one (`PositionsUnique`, `EventsDistinct`).
`revision_parent` after the replay leads from each adopted claim to the one
adopted before it (`ParentIs`, `NothingBetween`), logged earlier, so that the
walk descends; by descent along positions it finds the last valid claim up to
where it started (`WalkIs`), which is `Operative`.

**Recollections.** `Core` is the invariants of both stores at once, with the fact
that they have the same ids. Every write touches a set of names `T` (keys, memory
entries, or the wildcard): the states of other keys and the memory of other
claims stay (`Untouched`), and every name in `T` has changed since any earlier
position (`ChangesSince`); every other step leaves all that is recalled
(`Quiet`). Both readers rest on these two kinds of step alone
(`StepKinds`, `PlanningStepKinds`). They also carry all that was proved of the
stores over to the compositions (`StorePromises`), where a bundle and the
admission of its claim are one step and other rows share the log.

**Projections.** `Rows` says what a capture is still worth (`CaptureOK`): it is the
answer as long as nothing was logged since, or, if it names what it read, as long as
none of that changed. So the decision at registration is right, and a
projection stays current until a write touches it, which stales it in the same
transaction (`WriteProjection`). The refinement maps a projection to the answer
it shows and a request to what compiling it now would give; a write that
changes an answer has staled its projections (`ShownAccurate`).

**Invocations.** `RuntimeIInv` ties each host's stage to the row of its invocation
(`StagesInv`: no two hosts are about to start one request), says that artifacts are
those of successes, one each, and dated within them (`OutcomesInv`), that an
invocation without completion has no error (`OpenInv`), and keeps from the fence
that a fresh projection shows the current answer (`FenceInv`).

**Needs.** What a coordinator prepared without a lock remains true of rows that
never change (`PreparedInv`): the artifact it read can be decided about. A
decision is about such an artifact, dated after it, and its child exists
(`DecidedInv`). For chains, `ChainsInv` speaks of every ancestor, not only of
the parent: a new child has no descendants yet (`NewAncestors`), and bounds
compose (`WithinTransitive`).

**Policies.** An id is bound by its fingerprint (`RowsSpelled`). A host that got its
registration accepted holds what its id is bound to (`HostBound`), and that is kept
by every later step: no step removes a row, binds it to anything else or repairs
it (`RowsKept`). Damage in any column separates the row from its fingerprint, so
that each read refuses (`IntactIsBound`). A refused host has met another
content or a damaged row (`Refusal`); that fingerprints contain the id is what
excludes a refusal by the index of fingerprints alone.

**Planning.** A set that claims to be exhaustive and comes from the lexical
generator holds all that matches (`BestOfExhaustive`, which needs no total
order of ranks), so what the planner decides from the set it decides from the
whole snapshot (`StandsFor`); other sets make it abstain. `Sound` carries this
from set to plan to request; fingerprints bind each to the request it was made
for. `ClientsKept` says what a set or a plan is still worth later: of each
candidate it holds, the claim is recalled again as operative and included
unless its key or the memory of that claim has changed since the snapshot
(`Kept`). Other competitors of the key may come and go (`OperativeStays`). It
is kept because a write that touches one of the two names makes it one that
changed (`WriteKeeps`); that derived requests recall what was planned follows.

**Migration.** `SchemaIInv` says what each unlocked read is still worth when it is
used. Entries read without an event may have got the backfilled event of another
opener, but no other CREATED event, and no event at all unless that one is
first (`EntriesRead`, with `CreatedUnique`, `CreatedFirst` and `IdsNameEntries`): the
id computed from the entry makes the repeated insert harmless. Projections that
an opener did not read were registered by a session, and a session is open only
when the version is 7 and the declared rows are fenced (`LineageRead`).

### Only model-checked

* Liveness: `InvocationsEnd` and `MigrationCompletes`; the prover has no fairness and
  no ENABLED.
* The two violations, and with them `FailuresAreRecorded` and `OnlyDeclaredInvalidated`,
  which do not hold.

## Findings

`ClockSetBack`. `docs/model-runtime.md:48` says that adapter exceptions and
malformed responses terminate the invocation with a durable error code. The
handler (`runtime/model.py:355`) dates the failure with a second reading of
`datetime.now(UTC)`, and `fail_model_invocation`
(`storage/sqlite/cognitive_store.py:179`) raises ValueError when that reading
precedes `started_at`. If the wall clock was set back by more than the call
took, the invocation stays open with neither `completed_at` nor `error_code`,
nothing closes it later, and the ValueError hides the adapter's exception.
The same promise fails in a second way, which `InvocationsEnd` therefore excuses:
`BEGIN IMMEDIATE` of `fail_model_invocation` (`storage/sqlite/store.py:199`) raises
`sqlite3.OperationalError` if another connection holds the write lock for more
than five seconds, a migration for instance. `ClockSetBack` has `LongLocks` FALSE, so
that its counterexample needs the clock alone.

`SlowOpener`. The docstring of `_backfill_legacy_projection_lineage`
(`storage/sqlite/schema.py:309`) says: "Conservatively invalidate projections
created before lineage proofs." But `initialize_schema` reads `user_version`
(`schema.py:13`) before it takes any lock, and the backfill updates every row with
`stale = 0` (`schema.py:336`). Of two processes that open an old or a new store at
once, the slower one stales projections that the faster one has registered
since under version 7, with proven lineage, and gives those it has read the
wildcard dependency for good. The error is on the safe side: nothing stale is
used, cached context is compiled again. That such an opener loses and repeats
nothing else is what `Migrations` shows.

Observations that contradict no promise:

* A CONSOLIDATED event stales no registered projection, for it changes no
  state, yet a projection that is registered after such an event in its
  dependencies is born stale (`projection_store.py:315`). The error is on the
  safe side; `StaleOnlyWhenTouched` counts the event as a touch.
* A dependency key is a string joined from subject and predicate; two pairs
  with separators inside could share a key. This can only invalidate too much.
* A request id binds the semantics it was first persisted with, but not the key
  of an exact compilation: two exact projections of different keys may share a
  request. `FreshMeansCurrent` is stated accordingly.
* A capture is consumed before the registration's transaction, so a refused
  registration has to compile again.

## Plan

Done: every component with control of its own has its module, and every safety
property of the runs that hold has its proof.

Open, in the order of what they would add:

1. `DependencyCapture`: capture tokens, nested reads, and the completeness check of
   registration. `ContextProjections` has only clients that present what they
   read; the check is there for those that do not.
2. Token estimates and budgets of the coverage compiler.

## Not modelled

* Codecs, value freezing, errors and row rehydration: conversions without
  state.
* Kernel and executive records: dataclasses that no service uses yet.
* Tokenization of texts for lexical scores; the diagnostic signals of
  candidates and the reasons of an abstention; the wording of materialized input.
* `CREATE TABLE IF NOT EXISTS`, which creates what other modules take for their
  variables; `stale_at_frontier`, which nothing reads.
* Collisions of random UUIDs and malformed bundles: a bundle that names an id
  in use is refused as a whole and changes nothing.
* Requests of old databases with a nonpositive latency budget, which today's
  constructors refuse.
* SQLite itself: serialization, atomicity and snapshot isolation are assumed.
