-------------------------- MODULE SchemaMigration --------------------------
(***************************************************************************)
(* Opening a store whose schema may be old: initialize_schema and its two  *)
(* backfills (storage/sqlite/schema.py), by several processes at once,     *)
(* next to the sessions of those that have opened it.                      *)
(*                                                                         *)
(* The version is read before any lock is taken, and so are the rows that  *)
(* a backfill works on; each backfill is one transaction, and the version  *)
(* advances last.  A process may die, or its open may fail, between any    *)
(* two of these steps; it then opens the store again.                      *)
(*                                                                         *)
(* Not modelled: CREATE TABLE IF NOT EXISTS, which creates what the other  *)
(* modules take for their variables; stale_at_frontier, which nothing      *)
(* reads; sessions that run the code of an older version.                  *)
(***************************************************************************)
EXTENDS SemanticLog

CONSTANTS
  Openers,        \* processes that open the store
  Entries,        \* ids of memory entries
  ProjectionIds,  \* ids of context projections
  MaxFailures     \* bound on the opens and sessions that are cut short

ASSUME FailuresAssumption == MaxFailures \in Nat
ASSUME EntriesAssumption == IsFiniteSet(Entries)
ASSUME ReasonsAssumption == None \notin {"lineage-migration", "state-changed"}

VARIABLES
  userVersion,   \* PRAGMA user_version
  entries,       \* memory_entries
  events,        \* rows of memory_lifecycle_events, each logged
  projections,   \* context_projections: id -> row
  openers,       \* where each process stands in initialize_schema
  failures

schemaVars == <<frontier, userVersion, entries, events, projections, openers, failures>>

SchemaVersion == 7

(* The first version whose dependency rows are proven by a capture.        *)
LineageVersion == 6

Steps == {"closed", "entries", "backfill", "projections", "lineage", "version", "open"}

(* "declared": the row was written before version 6, when dependencies were *)
(* declared by the caller; no column says so.  reason is stale_reason, and  *)
(* a row without one is fresh.                                              *)
ProjectionRow == [declared : BOOLEAN, wildcard : BOOLEAN,
                  reason : {None, "lineage-migration", "state-changed"}]
EventIds == [by : {"uuid5", "random"}, entry : Entries, n : Nat]
CreationRow == [id : EventIds, entry : Entries, created : BOOLEAN, seq : Nat]
OpenerState == [step : Steps, version : Nat, entries : SUBSET Entries,
                projections : SUBSET ProjectionIds]

Closed == [step |-> "closed", version |-> 0, entries |-> {}, projections |-> {}]

Fenced(p) == p.reason # None /\ p.wildcard

-----------------------------------------------------------------------------
(* What older versions left behind.  Up to version 2 entries may lack their *)
(* CREATED event; positions before this model's log are 0.                  *)
LegacyEvents(created) ==
  {[id |-> [by |-> "random", entry |-> m, n |-> 0], entry |-> m,
    created |-> TRUE, seq |-> 0] : m \in created}

SchemaInit ==
  /\ LogInit
  /\ userVersion \in 0..(SchemaVersion + 1)
  /\ entries \in SUBSET Entries
  /\ \E created \in SUBSET entries :
       /\ userVersion > 2 => created = entries
       /\ events = LegacyEvents(created)
  /\ \E present \in SUBSET ProjectionIds : projections \in [present -> ProjectionRow]
  /\ \A i \in DOMAIN projections :
       LET p == projections[i]
       IN  /\ IF userVersion < LineageVersion THEN p.declared ELSE p.declared => Fenced(p)
           /\ p.reason = "lineage-migration" => p.declared /\ p.wildcard
  /\ openers = [o \in Openers |-> Closed]
  /\ failures = 0

At(o, step) == openers[o].step = step

Goes(o, step) == openers' = [openers EXCEPT ![o].step = step]

\* Mutant: a version that came later was forgotten in the list.
SupportedForgotten == 0..5 \cup {SchemaVersion}

Supported == 0..SchemaVersion

(* PRAGMA user_version; an unsupported store is refused and left alone.    *)
ReadVersion(o) ==
  /\ At(o, "closed")
  /\ userVersion \in Supported
  /\ openers' = [openers EXCEPT ![o].step = "entries", ![o].version = userVersion]
  /\ UNCHANGED <<frontier, userVersion, entries, events, projections, failures>>

\* Mutant: the bound of the lineage backfill is off by one.
LacksLineageLate(version) == version < LineageVersion - 1

LacksLineage(version) == version < LineageVersion

AfterEntries(o) == IF LacksLineage(openers[o].version) THEN "projections" ELSE "version"

(* _backfill_legacy_memory_created_events: the query outside a transaction *)
(* for the entries without any event ...                                   *)
ReadEntries(o) ==
  LET rows == {m \in entries : \A e \in events : e.entry # m}
  IN  /\ At(o, "entries")
      /\ openers' = [openers EXCEPT
                       ![o].entries = rows,
                       ![o].step = IF rows = {} THEN AfterEntries(o) ELSE "backfill"]
      /\ UNCHANGED <<frontier, userVersion, entries, events, projections, failures>>

\* Mutant: a backfilled event gets a random id.
BackfillIdRandom(m) == [by |-> "random", entry |-> m, n |-> frontier + 1]

(* uuid5 over the id of the entry: every process computes the same id.     *)
BackfillId(m) == [by |-> "uuid5", entry |-> m, n |-> 0]

(* ... and the transaction, which inserts an event unless its id is there  *)
(* and logs it unless it is logged.  Positions within the transaction are  *)
(* not told apart; this insert into the log invalidates nothing.           *)
BackfillMemory(o) ==
  LET missing == {m \in openers[o].entries : \A e \in events : e.id # BackfillId(m)}
  IN  /\ At(o, "backfill")
      /\ Log(Cardinality(missing))
      /\ events' = events \cup
           {[id |-> BackfillId(m), entry |-> m, created |-> TRUE, seq |-> frontier'] :
              m \in missing}
      /\ Goes(o, AfterEntries(o))
      /\ UNCHANGED <<userVersion, entries, projections, failures>>

(* _backfill_legacy_projection_lineage: again a query outside ...          *)
ReadProjections(o) ==
  /\ At(o, "projections")
  /\ openers' = [openers EXCEPT
                   ![o].projections = DOMAIN projections,
                   ![o].step = IF DOMAIN projections = {} THEN "version" ELSE "lineage"]
  /\ UNCHANGED <<frontier, userVersion, entries, events, projections, failures>>

(* ... and a transaction: the rows that were read get the wildcard, and    *)
(* every row that is fresh by now, read or not, goes stale.                *)
BackfillLineage(o) ==
  /\ At(o, "lineage")
  /\ projections' =
       [i \in DOMAIN projections |->
          [projections[i] EXCEPT
             !.wildcard = @ \/ i \in openers[o].projections,
             !.reason = IF @ = None THEN "lineage-migration" ELSE @]]
  /\ Goes(o, "version")
  /\ UNCHANGED <<frontier, userVersion, entries, events, failures>>

(* The version advances only after every backfill succeeded.               *)
SetVersion(o) ==
  /\ At(o, "version")
  /\ userVersion' = SchemaVersion
  /\ Goes(o, "open")
  /\ UNCHANGED <<frontier, entries, events, projections, failures>>

OpenStep(o) == \/ ReadVersion(o) \/ ReadEntries(o) \/ BackfillMemory(o)
               \/ ReadProjections(o) \/ BackfillLineage(o) \/ SetVersion(o)

(* The process dies or closes the store, or a statement of its open raises *)
(* (a lock that is held too long, a disk that is full).                    *)
CutShort(o) ==
  /\ ~At(o, "closed")
  /\ failures < MaxFailures
  /\ failures' = failures + 1
  /\ openers' = [openers EXCEPT ![o] = Closed]
  /\ UNCHANGED <<frontier, userVersion, entries, events, projections>>

(* Sessions: a logged write stales the fresh projections that depend on the *)
(* wildcard or on what it touched.  A projection may be stale when it is    *)
(* registered.                                                              *)
Invalidated(touched) ==
  [i \in DOMAIN projections |->
     IF projections[i].reason = None /\ (projections[i].wildcard \/ i \in touched)
       THEN [projections[i] EXCEPT !.reason = "state-changed"] ELSE projections[i]]

Recorded(m, created) ==
  {[id |-> [by |-> "random", entry |-> m, n |-> frontier'],
    entry |-> m, created |-> created, seq |-> frontier']}

AdmitEntry(o, m) ==
  /\ At(o, "open")
  /\ m \in Entries \ entries
  /\ Log(1)
  /\ entries' = entries \cup {m}
  /\ events' = events \cup Recorded(m, TRUE)
  /\ projections' = Invalidated({})
  /\ UNCHANGED <<userVersion, openers, failures>>

\* Mutant: the entry of an event is not looked up.
RecordEventUnchecked(o, m, touched) ==
  /\ At(o, "open")
  /\ Log(1)
  /\ events' = events \cup Recorded(m, FALSE)
  /\ projections' = Invalidated(touched)
  /\ UNCHANGED <<userVersion, entries, openers, failures>>

RecordEvent(o, m, touched) ==
  /\ At(o, "open")
  /\ m \in entries
  /\ Log(1)
  /\ events' = events \cup Recorded(m, FALSE)
  /\ projections' = Invalidated(touched)
  /\ UNCHANGED <<userVersion, entries, openers, failures>>

RegisterProjection(o, i, wildcard, reason) ==
  /\ At(o, "open")
  /\ i \in ProjectionIds \ DOMAIN projections
  /\ projections' =
       [j \in DOMAIN projections \cup {i} |->
          IF j = i THEN [declared |-> FALSE, wildcard |-> wildcard, reason |-> reason]
          ELSE projections[j]]
  /\ UNCHANGED <<frontier, userVersion, entries, events, openers, failures>>

SessionStep(o) ==
  \/ \E m \in Entries : AdmitEntry(o, m)
  \/ \E m \in Entries, touched \in SUBSET DOMAIN projections : RecordEvent(o, m, touched)
  \/ \E i \in ProjectionIds, wildcard \in BOOLEAN, reason \in {None, "state-changed"} :
       RegisterProjection(o, i, wildcard, reason)

SchemaNext == \E o \in Openers : OpenStep(o) \/ CutShort(o) \/ SessionStep(o)

SchemaSpec == SchemaInit /\ [][SchemaNext]_schemaVars

(* initialize_schema runs through unless it is cut short, and the host then *)
(* opens the store again.                                                   *)
FairSchemaSpec == SchemaSpec /\ \A o \in Openers : WF_schemaVars(OpenStep(o))

-----------------------------------------------------------------------------
(* The tables and the progress of the openers have their types, and every  *)
(* event belongs to an entry and lies within the log.                      *)
SchemaTypeOK ==
  /\ frontier \in Nat
  /\ userVersion \in Nat
  /\ entries \subseteq Entries
  /\ events \subseteq CreationRow
  /\ \A e \in events : e.entry \in entries /\ e.seq <= frontier
  /\ DOMAIN projections \subseteq ProjectionIds
  /\ \A i \in DOMAIN projections : projections[i] \in ProjectionRow
  /\ openers \in [Openers -> OpenerState]
  /\ \A o \in Openers : openers[o].entries \subseteq entries
                        /\ openers[o].projections \subseteq DOMAIN projections

(* Whatever interleaving of openers, crashes and sessions: no entry is ever *)
(* given a second CREATED event, nothing is recorded of an entry before it, *)
(* and in an open store each has one.  So every replay of memory events     *)
(* begins as rebuild_memory_lifecycle_states demands.                       *)
CreatedOnceAndFirst ==
  \A m \in entries :
    LET own == {e \in events : e.entry = m}
    IN  /\ \A c, d \in own : (c.created /\ d.created) => c = d
        /\ \A e \in own : \E c \in own : c.created /\ (e # c => c.seq < e.seq)
        /\ (\E o \in Openers : At(o, "open")) => own # {}

(* Once the version says 7, and so before any session can use it, no       *)
(* projection with declared dependencies is fresh, and all of them carry   *)
(* the wildcard: the version never runs ahead of the backfill, also when   *)
(* openers crash in between or read different versions.                    *)
DeclaredLineageFenced ==
  (userVersion = SchemaVersion \/ \E o \in Openers : At(o, "open")) =>
    \A i \in DOMAIN projections : projections[i].declared => Fenced(projections[i])

(* An interrupted migration is retried and completes: a supported store    *)
(* ends up at version 7 with every opener in it.                           *)
MigrationCompletes ==
  (userVersion \in 0..SchemaVersion) ~>
    [](userVersion = SchemaVersion /\ \A o \in Openers : At(o, "open"))

(* "Conservatively invalidate projections created before lineage proofs"   *)
(* (schema.py:309): only those, for the lineage of later ones is proven.   *)
OnlyDeclaredInvalidated ==
  \A i \in DOMAIN projections :
    projections[i].reason = "lineage-migration" => projections[i].declared
=============================================================================
