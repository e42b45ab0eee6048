--------------------------- MODULE CognitiveRuntime ---------------------------
(***************************************************************************)
(* Model invocations over persisted context: CognitiveRuntime              *)
(* (runtime/model.py) and the tables it writes                             *)
(* (storage/sqlite/cognitive_store.py).                                    *)
(*                                                                         *)
(* A host admits a cognitive request, materializes the model input, starts *)
(* an invocation, runs the adapter without holding any lock, and completes *)
(* or fails the invocation.  Every step is a transaction of its own, and   *)
(* the host may die between any two.  The projections a host works from    *)
(* behave as FreshnessFence promises: ContextProjections, which implements *)
(* it, goes on registering and invalidating them.                          *)
(*                                                                         *)
(* A host makes one invocation per cognitive request, so both share an id. *)
(***************************************************************************)
EXTENDS FreshnessFence, Integers, FiniteSets

CONSTANTS
  InvocationIds,  \* UUIDs of cognitive requests and their invocations
  ArtifactIds,    \* UUIDs of generated artifacts
  Hosts,          \* processes running CognitiveRuntime
  Times,          \* readings of the wall clock
  ClockSteps,     \* whether the wall clock may be set back
  LongLocks,      \* whether a connection may hold the write lock past the timeout of others
  None

ASSUME ClockAssumption == Times \subseteq Int /\ ClockSteps \in BOOLEAN
ASSUME LocksAssumption == LongLocks \in BOOLEAN
ASSUME NoneAssumption == None \notin Times \cup InvocationIds

VARIABLES
  clock,        \* the last reading of the wall clock
  cognitive,    \* cognitive_requests: id -> projection
  invocations,  \* model_invocations: id -> row
  artifacts,    \* generated_artifacts: id -> row
  hosts         \* what each host is doing, None when idle

runtimeVars == <<clock, cognitive, invocations, artifacts, hosts>>
cognitiveVars == <<fenceVars, runtimeVars>>

InvocationRow == [started : Times, completed : Times \cup {None}, failed : BOOLEAN]

(* "need" is the reserved kind context-need:v1 of a typed proposal.        *)
ArtifactRow == [invocation : InvocationIds, kind : {"need", "text"}, created : Times]

(* "raised": the handler of a failure has raised itself.                   *)
HostState == [stage : {"admitted", "running", "failing", "raised", "dead"},
              id : InvocationIds]

-----------------------------------------------------------------------------
Reading(t) == ClockSteps \/ clock <= t

At(h, stage) == hosts[h] # None /\ hosts[h].stage = stage

Enter(h, stage) == hosts' = [hosts EXCEPT ![h].stage = stage]
Leave(h) == hosts' = [hosts EXCEPT ![h] = None]

Terminal(v) == invocations[v].completed # None
Succeeded(v) == Terminal(v) /\ ~invocations[v].failed
Fresh(v) == published[cognitive[v]].fresh

CognitiveInit ==
  /\ FenceInit
  /\ clock \in Times
  /\ cognitive = [v \in {} |-> None]
  /\ invocations = [v \in {} |-> None]
  /\ artifacts = [a \in {} |-> None]
  /\ hosts = [h \in Hosts |-> None]

(* create_cognitive_request.  Its check before the transaction is implied  *)
(* by the one under the write lock: a stale projection never recovers.     *)
CreateCognitiveRequest(h, v, i) ==
  /\ hosts[h] = None
  /\ v \in InvocationIds \ DOMAIN cognitive
  /\ i \in DOMAIN published
  /\ published[i].fresh
  /\ cognitive' = [x \in DOMAIN cognitive \cup {v} |-> IF x = v THEN i ELSE cognitive[x]]
  /\ hosts' = [hosts EXCEPT ![h] = [stage |-> "admitted", id |-> v]]
  /\ UNCHANGED <<fenceVars, clock, invocations, artifacts>>

\* Mutant: staleness is checked at the admission only.
StartableUnfenced(v) == TRUE

(* The second fence, under the write lock of the start.                    *)
Startable(v) == Fresh(v)

StartModelInvocation(h, t) ==
  LET v == hosts[h].id
      row == [started |-> t, completed |-> None, failed |-> FALSE]
  IN  /\ At(h, "admitted")
      /\ Startable(v)
      /\ Reading(t)
      /\ clock' = t
      /\ invocations' = [x \in DOMAIN invocations \cup {v} |->
                           IF x = v THEN row ELSE invocations[x]]
      /\ Enter(h, "running")
      /\ UNCHANGED <<fenceVars, cognitive, artifacts>>

RefuseModelInvocation(h) ==
  /\ At(h, "admitted")
  /\ ~Startable(hosts[h].id)
  /\ Leave(h)
  /\ UNCHANGED <<fenceVars, clock, cognitive, invocations, artifacts>>

\* Mutant: the artifact may be dated after the completion.
CompletableAnyArtifact(v, created, completed) ==
  /\ ~Terminal(v)
  /\ invocations[v].started <= created
  /\ invocations[v].started <= completed

Completable(v, created, completed) ==
  /\ ~Terminal(v)
  /\ invocations[v].started <= completed
  /\ invocations[v].started <= created /\ created <= completed

\* Mutant: the artifact names its own id for its invocation's.
WithStrayArtifact(a, v, kind, created) ==
  [x \in DOMAIN artifacts \cup {a} |->
     IF x = a THEN [invocation |-> a, kind |-> kind, created |-> created] ELSE artifacts[x]]

WithArtifact(a, v, kind, created) ==
  [x \in DOMAIN artifacts \cup {a} |->
     IF x = a THEN [invocation |-> v, kind |-> kind, created |-> created] ELSE artifacts[x]]

(* _complete_artifact: the clock is read for the artifact and once more for *)
(* the completion; complete_model_invocation writes both rows.              *)
CompleteModelInvocation(h, a, kind, created, completed) ==
  LET v == hosts[h].id
  IN  /\ At(h, "running")
      /\ a \in ArtifactIds \ DOMAIN artifacts
      /\ Reading(created)
      /\ ClockSteps \/ created <= completed
      /\ clock' = completed
      /\ Completable(v, created, completed)
      /\ invocations' = [invocations EXCEPT ![v].completed = completed]
      /\ artifacts' = WithArtifact(a, v, kind, created)
      /\ Leave(h)
      /\ UNCHANGED <<fenceVars, cognitive>>

\* Mutant: an exception of the adapter goes past the runtime.
RaisedUnhandled(h) == Leave(h)

(* The handler of invoke and invoke_step.                                  *)
Raised(h) == Enter(h, "failing")

(* The adapter raises or returns something malformed, or the completion is *)
(* refused or does not get the write lock.                                 *)
AdapterFails(h) ==
  /\ At(h, "running")
  /\ Raised(h)
  /\ UNCHANGED <<fenceVars, clock, cognitive, invocations, artifacts>>

(* _fail_open_invocation and fail_model_invocation ...                     *)
FailModelInvocation(h, t) ==
  LET v == hosts[h].id
  IN  /\ At(h, "failing")
      /\ Reading(t)
      /\ clock' = t
      /\ ~Terminal(v)
      /\ invocations[v].started <= t
      /\ invocations' = [invocations EXCEPT ![v].completed = t, ![v].failed = TRUE]
      /\ Leave(h)
      /\ UNCHANGED <<fenceVars, cognitive, artifacts>>

(* ... which raises itself when the clock is behind started_at.            *)
RefuseFailure(h, t) ==
  /\ At(h, "failing")
  /\ Reading(t)
  /\ clock' = t
  /\ t < invocations[hosts[h].id].started
  /\ Leave(h)
  /\ UNCHANGED <<fenceVars, cognitive, invocations, artifacts>>

(* BEGIN IMMEDIATE gives up when the lock is not free within five seconds. *)
(* At a start that ends the call, and the request stays without an         *)
(* invocation; in the handler of a failure it replaces the exception, and  *)
(* the invocation stays open.                                              *)
LockTimesOut(h) ==
  /\ LongLocks
  /\ \/ At(h, "admitted") /\ Leave(h)
     \/ At(h, "failing") /\ Enter(h, "raised")
  /\ UNCHANGED <<fenceVars, clock, cognitive, invocations, artifacts>>

(* Its exception reaches the caller; the process may call again.           *)
EscapeHandler(h) ==
  /\ At(h, "raised")
  /\ Leave(h)
  /\ UNCHANGED <<fenceVars, clock, cognitive, invocations, artifacts>>

(* The process dies, or an exception that is no Exception passes the       *)
(* handlers.  Nothing takes up its invocation again.                       *)
HostDies(h) ==
  /\ hosts[h] # None
  /\ hosts[h].stage # "dead"
  /\ Enter(h, "dead")
  /\ UNCHANGED <<fenceVars, clock, cognitive, invocations, artifacts>>

HostStep(h) ==
  \/ \E v \in InvocationIds, i \in ProjectionIds : CreateCognitiveRequest(h, v, i)
  \/ \E t \in Times : StartModelInvocation(h, t)
  \/ RefuseModelInvocation(h)
  \/ \E a \in ArtifactIds, kind \in {"need", "text"}, created, completed \in Times :
       CompleteModelInvocation(h, a, kind, created, completed)
  \/ AdapterFails(h)
  \/ \E t \in Times : FailModelInvocation(h, t)
  \/ \E t \in Times : RefuseFailure(h, t)
  \/ EscapeHandler(h)

(* What may befall a host at any time.                                     *)
HostInterrupted(h) == LockTimesOut(h) \/ HostDies(h)

(* The rest of the store, as far as hosts can tell: FreshnessFence with its *)
(* choices spelled out.                                                     *)
RegisterProjection(i, r) ==
  \E content \in Answers, fresh \in BOOLEAN :
    /\ published' = [j \in DOMAIN published \cup {i} |->
                       IF j = i THEN [request |-> r, content |-> content, fresh |-> fresh]
                       ELSE published[j]]
    /\ Publish(i)
    /\ UNCHANGED runtimeVars

ChangeState ==
  \E a \in [Requests -> Answers], staled \in SUBSET DOMAIN published :
    /\ answer' = a
    /\ published' = [i \in DOMAIN published |->
                       IF i \in staled THEN [published[i] EXCEPT !.fresh = FALSE]
                       ELSE published[i]]
    /\ Change
    /\ UNCHANGED runtimeVars

CognitiveNext ==
  \/ \E h \in Hosts : HostStep(h) \/ HostInterrupted(h)
  \/ \E i \in ProjectionIds, r \in Requests : RegisterProjection(i, r)
  \/ ChangeState

CognitiveSpec == CognitiveInit /\ [][CognitiveNext]_cognitiveVars

(* A host that called invoke goes on until it returns: the calls are       *)
(* synchronous and the adapter is assumed to return or raise.              *)
Proceed(h) == HostStep(h) /\ hosts[h] # None

-----------------------------------------------------------------------------
(* The tables hold rows of their types, linked by their foreign keys.      *)
RuntimeTypeOK ==
  /\ clock \in Times
  /\ DOMAIN cognitive \subseteq InvocationIds
  /\ \A v \in DOMAIN cognitive : cognitive[v] \in DOMAIN published
  /\ DOMAIN invocations \subseteq DOMAIN cognitive
  /\ \A v \in DOMAIN invocations : invocations[v] \in InvocationRow
  /\ DOMAIN artifacts \subseteq ArtifactIds
  /\ \A a \in DOMAIN artifacts :
       artifacts[a] \in ArtifactRow /\ artifacts[a].invocation \in DOMAIN invocations
  /\ hosts \in [Hosts -> HostState \cup {None}]

(* A success and its artifact stand or fall together: an invocation that   *)
(* completed without error has exactly one artifact, made within its       *)
(* interval even if the clock was set back; a failed or open one has none. *)
OutcomesMatchArtifacts ==
  \A v \in DOMAIN invocations :
    LET made == {a \in DOMAIN artifacts : artifacts[a].invocation = v}
    IN  /\ Cardinality(made) = (IF Succeeded(v) THEN 1 ELSE 0)
        /\ Terminal(v) => invocations[v].started <= invocations[v].completed
        /\ \A a \in made : /\ invocations[v].started <= artifacts[a].created
                           /\ artifacts[a].created <= invocations[v].completed

(* What a model is invoked on is the answer to its context request at the  *)
(* moment the invocation starts, whatever was committed since the          *)
(* projection was read and the request admitted.                           *)
InvocationsStartCurrent ==
  [][\A v \in DOMAIN invocations' \ DOMAIN invocations :
       LET p == published[cognitive[v]]
       IN  p.content = answer[p.request]]_cognitiveVars

(* Every call of an adapter ends with an artifact or with an error on its  *)
(* invocation, unless its host dies over it, the clock is set back behind  *)
(* its start, or the handler of its failure does not get the write lock.   *)
(* Nothing but these three leaves an invocation open.                      *)
InvocationsEnd ==
  \A v \in InvocationIds :
    (\E h \in Hosts : (At(h, "running") \/ At(h, "failing")) /\ hosts[h].id = v)
      ~> (\/ v \in DOMAIN invocations /\ (Terminal(v) \/ clock < invocations[v].started)
          \/ \E h \in Hosts : (At(h, "dead") \/ At(h, "raised")) /\ hosts[h].id = v)

(* "Adapter exceptions and malformed adapter responses terminate the       *)
(* invocation with a durable error code" (docs/model-runtime.md:48): the   *)
(* handler of a failure does not return before its invocation is terminal. *)
FailuresAreRecorded ==
  [][\A h \in Hosts : (At(h, "failing") /\ (hosts'[h] = None \/ At(h, "raised")')) =>
       invocations'[hosts[h].id].completed # None]_cognitiveVars
=============================================================================
