--------------------------- MODULE MemoryLifecycle ---------------------------
(***************************************************************************)
(* Long-term memory: entries admitted with their claims, the append-only   *)
(* lifecycle events and the lifecycle column materialized from them        *)
(* (storage/sqlite/memory_store.py, memory_state.py).  An entry has the id *)
(* of its target: the index idx_memory_unique_target (schema.py:97) allows *)
(* one entry per target, and only commit_claim_bundle inserts any.         *)
(***************************************************************************)
EXTENDS SemanticLog

CONSTANTS
  Targets,    \* what can be admitted to memory
  EventKinds  \* the kinds of event that callers record

ASSUME EventKindsAssumption ==
  EventKinds \subseteq {"SEEN", "USED", "CONSOLIDATED", "ARCHIVED", "RESTORED",
                       "TOMBSTONED", "DELETED"}

VARIABLES
  lifecycle,    \* memory_entries.lifecycle of the entries admitted so far
  memoryEvents  \* rows of memory_lifecycle_events

memoryVars == <<lifecycle, memoryEvents>>

Telemetry == {"SEEN", "USED"}
Outcome == [ARCHIVED |-> "ARCHIVED", RESTORED |-> "ACTIVE",
            TOMBSTONED |-> "TOMBSTONED", DELETED |-> "DELETED"]
Lifecycles == {"ACTIVE", "ARCHIVED", "TOMBSTONED", "DELETED"}

EventRow == [entry : Targets, kind : EventKinds \cup {"CREATED"}, seq : Nat]

-----------------------------------------------------------------------------
\* Mutant: archiving is idempotent.
ArchivableAgain == {"ACTIVE", "ARCHIVED"}

Archivable == {"ACTIVE"}

\* Mutant: a tombstone can be restored.
RestorableFromTombstone == {"ARCHIVED", "TOMBSTONED"}

Restorable == {"ARCHIVED"}

(* next_memory_state: the states in which it accepts an event, and its     *)
(* result.                                                                 *)
AllowedFrom(kind) ==
  CASE kind = "ARCHIVED"   -> Archivable
    [] kind = "RESTORED"   -> Restorable
    [] kind = "TOMBSTONED" -> {"ACTIVE", "ARCHIVED"}
    [] kind = "DELETED"    -> {"TOMBSTONED"}
    [] OTHER               -> Lifecycles

NextState(s, kind) == IF kind \in DOMAIN Outcome THEN Outcome[kind] ELSE s

\* Mutant: the replay takes any event of the entry for the last one.
StateBeforeUnordered(m, n) ==
  LET changes == LoggedBefore({e \in memoryEvents : e.entry = m /\ e.kind \in DOMAIN Outcome}, n)
  IN  IF changes = {} THEN "ACTIVE" ELSE Outcome[(CHOOSE e \in changes : TRUE).kind]

(* The state after replaying the events of an entry logged before n: that  *)
(* of its last event with an outcome of its own, ACTIVE without one.       *)
StateBefore(m, n) ==
  LET changes == LoggedBefore({e \in memoryEvents : e.entry = m /\ e.kind \in DOMAIN Outcome}, n)
  IN  IF changes = {} THEN "ACTIVE" ELSE Outcome[Latest(changes).kind]

(* The replay raises CanonicalIntegrityError unless this holds.            *)
HistoryIntact(m) ==
  LET own == {e \in memoryEvents : e.entry = m}
  IN  /\ \E e \in own : e.kind = "CREATED" /\ \A o \in own : e.seq <= o.seq
      /\ \A e \in own : StateBefore(m, e.seq) \in AllowedFrom(e.kind)

-----------------------------------------------------------------------------
MemoryInit == lifecycle = [m \in {} |-> "ACTIVE"] /\ memoryEvents = {}

\* Mutant: the CREATED event is not part of the admission's log entries.
AdmitMemoryUnlogged(m) ==
  /\ m \in Targets \ DOMAIN lifecycle
  /\ lifecycle' = [x \in DOMAIN lifecycle \cup {m} |->
                     IF x = m THEN "ACTIVE" ELSE lifecycle[x]]
  /\ memoryEvents' = memoryEvents \cup {[entry |-> m, kind |-> "CREATED", seq |-> frontier' + 1]}

(* The last two rows of a transaction that admits a target: the entry and  *)
(* its CREATED event.                                                      *)
AdmitMemory(m) ==
  /\ m \in Targets \ DOMAIN lifecycle
  /\ lifecycle' = [x \in DOMAIN lifecycle \cup {m} |->
                     IF x = m THEN "ACTIVE" ELSE lifecycle[x]]
  /\ memoryEvents' = memoryEvents \cup {[entry |-> m, kind |-> "CREATED", seq |-> frontier']}

ChangesState(m, kind) == NextState(lifecycle[m], kind) # lifecycle[m]

RecordMemoryEvent(m, kind) ==
  /\ kind \in EventKinds
  /\ m \in DOMAIN lifecycle
  /\ lifecycle[m] \in AllowedFrom(kind)
  /\ Log(1)
  /\ memoryEvents' = memoryEvents \cup {[entry |-> m, kind |-> kind, seq |-> frontier']}
  /\ lifecycle' = [lifecycle EXCEPT ![m] = NextState(lifecycle[m], kind)]

RebuildLifecycleStates ==
  /\ \A m \in DOMAIN lifecycle : HistoryIntact(m)
  /\ lifecycle' = [m \in DOMAIN lifecycle |-> StateBefore(m, frontier + 1)]
  /\ UNCHANGED <<frontier, memoryEvents>>

(* Alone, the module admits a target in a transaction of its own.          *)
AdmitTarget(m) == Log(2) /\ AdmitMemory(m)

LifecycleInit == LogInit /\ MemoryInit
LifecycleNext ==
  \/ \E m \in Targets : AdmitTarget(m)
  \/ \E m \in Targets, kind \in EventKinds : RecordMemoryEvent(m, kind)
  \/ RebuildLifecycleStates

LifecycleSpec == LifecycleInit /\ [][LifecycleNext]_<<frontier, memoryVars>>

-----------------------------------------------------------------------------
(* Entries and events have the columns of their tables, and the positions  *)
(* of the events lie within the log.                                       *)
MemoryTypeOK ==
  /\ frontier \in Nat
  /\ DOMAIN lifecycle \subseteq Targets
  /\ \A m \in DOMAIN lifecycle : lifecycle[m] \in Lifecycles
  /\ memoryEvents \subseteq EventRow
  /\ \A e \in memoryEvents : e.entry \in DOMAIN lifecycle /\ e.seq <= frontier

(* The lifecycle column is what a replay of the events yields, and every   *)
(* replay succeeds, whatever telemetry is interleaved: a rebuild changes   *)
(* nothing and never raises.                                               *)
LifecycleMatchesEvents ==
  \A m \in DOMAIN lifecycle :
    HistoryIntact(m) /\ lifecycle[m] = StateBefore(m, frontier + 1)

(* Forgetting is final: after a TOMBSTONED event nothing brings the entry  *)
(* back into recall, it was tombstoned once, and it is DELETED only then.  *)
ForgottenStaysForgotten ==
  \A m \in DOMAIN lifecycle :
    LET of(kind) == {e \in memoryEvents : e.entry = m /\ e.kind = kind}
    IN  /\ of("TOMBSTONED") # {} => lifecycle[m] \in {"TOMBSTONED", "DELETED"}
        /\ Cardinality(of("TOMBSTONED")) <= 1 /\ Cardinality(of("DELETED")) <= 1
        /\ \A d \in of("DELETED") : \E t \in of("TOMBSTONED") : t.seq < d.seq

(* Archiving and restoring alternate: between two ARCHIVED events of one   *)
(* entry it was restored, so an entry archived by two callers at once is   *)
(* archived by one of them only.                                           *)
ArchivedOncePerRestore ==
  \A a, b \in {e \in memoryEvents : e.kind = "ARCHIVED"} :
    (a.entry = b.entry /\ a.seq < b.seq) =>
      \E r \in memoryEvents : /\ r.kind = "RESTORED" /\ r.entry = a.entry
                              /\ a.seq < r.seq /\ r.seq < b.seq
=============================================================================
