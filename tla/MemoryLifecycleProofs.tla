------------------------ MODULE MemoryLifecycleProofs ------------------------
(***************************************************************************)
(* Proofs about MemoryLifecycle, for any set of targets, any kinds of      *)
(* events and a log of any length.  An event is appended beyond every      *)
(* position of the log, so the replays that led to the rows before it do   *)
(* not change, and the replay of everything ends with it.                  *)
(***************************************************************************)
EXTENDS MemoryLifecycle, FiniteSetTheorems, TLAPS

Changes(m) == {e \in memoryEvents : e.entry = m /\ e.kind \in DOMAIN Outcome}
Replay(rows) == IF rows = {} THEN "ACTIVE" ELSE Outcome[Latest(rows).kind]

(* The replay of StateBefore, in those terms.                              *)
LEMMA StateBeforeIs ==
  ASSUME NEW m, NEW n
  PROVE  /\ StateBefore(m, n) = Replay({e \in Changes(m) : e.seq < n})
         /\ StateBefore(m, n)' = Replay({e \in Changes(m)' : e.seq < n})
BY DEF StateBefore, Replay, Changes, LoggedBefore

(* Positions start with 1, and each holds at most one event.               *)
EventsDistinct == /\ \A e \in memoryEvents : 0 < e.seq
                  /\ \A e, o \in memoryEvents : e.seq = o.seq => e = o

MemoryIInv == MemoryTypeOK /\ EventsDistinct /\ LifecycleMatchesEvents

(* The position of a row that a transaction appends.                       *)
Appends(f, row) ==
  /\ f \in Nat /\ f = frontier
  /\ frontier' \in Nat /\ f < frontier' /\ row.seq = frontier'
  /\ memoryEvents' = memoryEvents \cup {row}

(* An appended row changes no replay of what was logged before it, and is  *)
(* the last one of a replay of everything.                                 *)
LEMMA AppendKeepsReplays ==
  ASSUME MemoryTypeOK, NEW f, NEW row, Appends(f, row), NEW m
  PROVE  /\ \A n \in Nat : n <= row.seq => StateBefore(m, n)' = StateBefore(m, n)
         /\ StateBefore(m, f + 1) = Replay(Changes(m))
         /\ StateBefore(m, frontier + 1)' =
              IF row.entry = m /\ row.kind \in DOMAIN Outcome
                THEN Outcome[row.kind] ELSE Replay(Changes(m))
<1>1. PICK g \in Nat : g = frontier'
  BY DEF Appends
<1>2. /\ f \in Nat /\ f < g /\ row.seq = g
      /\ \A e \in memoryEvents : e.seq \in Nat /\ e.seq <= f
      /\ memoryEvents' = memoryEvents \cup {row}
  BY <1>1 DEF Appends, MemoryTypeOK, EventRow
<1>3. Changes(m)' = Changes(m) \cup (IF row.entry = m /\ row.kind \in DOMAIN Outcome
                                       THEN {row} ELSE {})
  BY <1>2 DEF Changes
<1>4. \A e \in Changes(m) : e.seq \in Nat /\ e.seq <= f
  BY <1>2 DEF Changes
<1>5. ASSUME NEW n \in Nat, n <= row.seq
      PROVE  StateBefore(m, n)' = StateBefore(m, n)
  <2>1. {e \in Changes(m)' : e.seq < n} = {e \in Changes(m) : e.seq < n}
    BY <1>2, <1>3, <1>5
  <2> QED
    BY <2>1, StateBeforeIs
<1>6. StateBefore(m, f + 1) = Replay(Changes(m))
  <2>1. {e \in Changes(m) : e.seq < f + 1} = Changes(m)
    BY <1>2, <1>4
  <2> QED
    BY <2>1, StateBeforeIs
<1>7. StateBefore(m, frontier + 1)' = Replay(Changes(m)')
  <2>1. {e \in Changes(m)' : e.seq < g + 1} = Changes(m)'
    BY <1>2, <1>3, <1>4
  <2>2. StateBefore(m, g + 1)' = Replay(Changes(m)')
    BY <2>1, StateBeforeIs
  <2> QED
    BY <1>1, <2>2
<1>8. Latest(Changes(m) \cup {row}) = row
  <2> DEFINE l == Latest(Changes(m) \cup {row})
  <2>1. \A q \in Changes(m) \cup {row} : q.seq <= row.seq
    BY <1>2, <1>4
  <2>2. l \in Changes(m) \cup {row} /\ row.seq <= l.seq
    BY <2>1 DEF Latest
  <2> HIDE DEF l
  <2> QED
    BY <1>2, <1>4, <2>2 DEF l
<1>9. Replay(Changes(m)') = IF row.entry = m /\ row.kind \in DOMAIN Outcome
                              THEN Outcome[row.kind] ELSE Replay(Changes(m))
  BY <1>3, <1>8 DEF Replay
<1> QED
  BY <1>5, <1>6, <1>7, <1>9

LEMMA AppendDistinct ==
  ASSUME MemoryTypeOK, EventsDistinct, NEW f, NEW row, Appends(f, row)
  PROVE  EventsDistinct'
<1>1. /\ f \in Nat /\ row.seq \in Nat /\ f < row.seq
      /\ \A e \in memoryEvents : e.seq \in Nat /\ e.seq <= f
      /\ memoryEvents' = memoryEvents \cup {row}
  BY DEF Appends, MemoryTypeOK, EventRow
<1>2. 0 < row.seq /\ \A e \in memoryEvents : e.seq # row.seq
  BY <1>1
<1> QED
  BY <1>1, <1>2 DEF EventsDistinct

(* Every outcome is a lifecycle.                                           *)
LEMMA NextStateTyped ==
  ASSUME NEW s \in Lifecycles, NEW kind
  PROVE  NextState(s, kind) \in Lifecycles
BY DEF NextState, Lifecycles, Outcome

(* A recorded event finds the state that a replay finds before it, and     *)
(* leaves the one it finds after it.                                       *)
LEMMA RecordStep ==
  ASSUME MemoryIInv, NEW m \in Targets, NEW kind \in EventKinds, RecordMemoryEvent(m, kind)
  PROVE  MemoryIInv'
<1> DEFINE row == [entry |-> m, kind |-> kind, seq |-> frontier']
<1>1. PICK f \in Nat : f = frontier
  BY DEF MemoryIInv, MemoryTypeOK
<1>2. frontier' = f + 1 /\ frontier' \in Nat
  BY <1>1 DEF RecordMemoryEvent, Log
<1>3. PICK e0 : e0 = row
  OBVIOUS
<1>4. e0.entry = m /\ e0.kind = kind /\ e0.seq = f + 1 /\ e0 \in EventRow
  <2>1. e0 = [entry |-> m, kind |-> kind, seq |-> f + 1]
    BY <1>2, <1>3
  <2> QED
    BY <2>1 DEF EventRow
<1>5. /\ memoryEvents' = memoryEvents \cup {e0}
      /\ lifecycle' = [lifecycle EXCEPT ![m] = NextState(lifecycle[m], kind)]
      /\ m \in DOMAIN lifecycle /\ lifecycle[m] \in AllowedFrom(kind)
  BY <1>3 DEF RecordMemoryEvent
<1>6. Appends(f, e0)
  BY <1>1, <1>2, <1>4, <1>5 DEF Appends
<1> HIDE DEF row
<1>7. MemoryTypeOK'
  <2>1. \A x \in DOMAIN lifecycle' : lifecycle'[x] \in Lifecycles
    BY <1>5, NextStateTyped DEF MemoryIInv, MemoryTypeOK
  <2>2. \A e \in memoryEvents' : e.entry \in DOMAIN lifecycle' /\ e.seq <= frontier'
    <3>1. \A e \in memoryEvents : e.seq \in Nat /\ e.seq <= f /\ e.entry \in DOMAIN lifecycle
      BY <1>1 DEF MemoryIInv, MemoryTypeOK, EventRow
    <3> QED
      BY <1>2, <1>4, <1>5, <3>1
  <2> QED
    BY <1>2, <1>4, <1>5, <2>1, <2>2 DEF MemoryIInv, MemoryTypeOK
<1>8. ASSUME NEW x \in DOMAIN lifecycle
      PROVE  HistoryIntact(x)' /\ lifecycle'[x] = StateBefore(x, frontier + 1)'
  <2>1. /\ \A n \in Nat : n <= f + 1 => StateBefore(x, n)' = StateBefore(x, n)
        /\ StateBefore(x, f + 1) = Replay(Changes(x))
        /\ StateBefore(x, frontier + 1)' =
             IF m = x /\ kind \in DOMAIN Outcome THEN Outcome[kind] ELSE Replay(Changes(x))
    BY <1>4, <1>6, AppendKeepsReplays DEF MemoryIInv
  <2>2. HistoryIntact(x) /\ lifecycle[x] = Replay(Changes(x))
    BY <1>1, <2>1 DEF MemoryIInv, LifecycleMatchesEvents
  <2>3. lifecycle'[x] = StateBefore(x, frontier + 1)'
    BY <1>5, <2>1, <2>2 DEF NextState
  <2>4. \A e \in memoryEvents : e.seq \in Nat /\ e.seq <= f
    BY <1>1 DEF MemoryIInv, MemoryTypeOK, EventRow
  <2>5. ASSUME NEW e \in memoryEvents', e.entry = x
        PROVE  StateBefore(x, e.seq)' \in AllowedFrom(e.kind)
    <3>1. CASE e \in memoryEvents
      BY <2>1, <2>2, <2>4, <2>5, <3>1 DEF HistoryIntact
    <3>2. CASE e = e0
      BY <1>4, <1>5, <2>1, <2>2, <2>5, <3>2
    <3> QED
      BY <1>5, <3>1, <3>2
  <2>6. PICK c \in memoryEvents : /\ c.entry = x /\ c.kind = "CREATED"
                                  /\ \A o \in memoryEvents : o.entry = x => c.seq <= o.seq
    BY <2>2 DEF HistoryIntact
  <2>7. c.seq <= e0.seq
    BY <1>4, <2>4
  <2>8. \A o \in memoryEvents' : o.entry = x => c.seq <= o.seq
    BY <1>5, <2>6, <2>7
  <2>9. HistoryIntact(x)'
    BY <1>5, <2>5, <2>6, <2>8 DEF HistoryIntact
  <2> QED
    BY <2>3, <2>9
<1>9. LifecycleMatchesEvents'
  BY <1>5, <1>8 DEF LifecycleMatchesEvents
<1>10. EventsDistinct'
  BY <1>6, AppendDistinct DEF MemoryIInv
<1> QED
  BY <1>7, <1>9, <1>10 DEF MemoryIInv

(* An admitted target starts with its CREATED event, ACTIVE, whatever else *)
(* its transaction logs.                                                   *)
LEMMA AdmitLogged ==
  ASSUME MemoryIInv, NEW m \in Targets, NEW rows \in Nat \ {0}, Log(rows), AdmitMemory(m)
  PROVE  MemoryIInv'
<1> DEFINE row == [entry |-> m, kind |-> "CREATED", seq |-> frontier']
<1>1. PICK f \in Nat : f = frontier
  BY DEF MemoryIInv, MemoryTypeOK
<1>2. PICK g \in Nat : g = frontier' /\ f < g
  <2>1. frontier' = f + rows /\ f + rows \in Nat /\ f < f + rows
    BY <1>1 DEF Log
  <2> QED
    BY <2>1
<1>3. PICK e0 : e0 = row
  OBVIOUS
<1>4. e0.entry = m /\ e0.kind = "CREATED" /\ e0.seq = g /\ e0 \in EventRow
  <2>1. e0 = [entry |-> m, kind |-> "CREATED", seq |-> g]
    BY <1>2, <1>3
  <2> QED
    BY <2>1 DEF EventRow
<1>5. /\ memoryEvents' = memoryEvents \cup {e0} /\ m \notin DOMAIN lifecycle
      /\ lifecycle' = [x \in DOMAIN lifecycle \cup {m} |->
                         IF x = m THEN "ACTIVE" ELSE lifecycle[x]]
  BY <1>3 DEF AdmitMemory
<1>6. Appends(f, e0)
  BY <1>1, <1>2, <1>4, <1>5 DEF Appends
<1> HIDE DEF row
<1>7. \A e \in memoryEvents : e.seq \in Nat /\ e.seq <= f /\ e.entry \in DOMAIN lifecycle
  BY <1>1 DEF MemoryIInv, MemoryTypeOK, EventRow
<1>8. MemoryTypeOK'
  <2>1. \A x \in DOMAIN lifecycle' : lifecycle'[x] \in Lifecycles
    BY <1>5 DEF MemoryIInv, MemoryTypeOK, Lifecycles
  <2>2. \A e \in memoryEvents' : e.entry \in DOMAIN lifecycle' /\ e.seq <= frontier'
    BY <1>2, <1>4, <1>5, <1>7
  <2> QED
    BY <1>2, <1>4, <1>5, <2>1, <2>2 DEF MemoryIInv, MemoryTypeOK
<1>9. ASSUME NEW x \in DOMAIN lifecycle'
      PROVE  HistoryIntact(x)' /\ lifecycle'[x] = StateBefore(x, frontier + 1)'
  <2>1. /\ \A n \in Nat : n <= g => StateBefore(x, n)' = StateBefore(x, n)
        /\ StateBefore(x, f + 1) = Replay(Changes(x))
        /\ StateBefore(x, frontier + 1)' = Replay(Changes(x))
    BY <1>4, <1>6, AppendKeepsReplays DEF MemoryIInv, Outcome
  <2>2. CASE x = m
    <3>1. Changes(x) = {}
      BY <1>5, <1>7, <2>2 DEF Changes
    <3>2. lifecycle'[x] = StateBefore(x, frontier + 1)'
      BY <1>5, <2>1, <2>2, <3>1 DEF Replay
    <3>3. {e \in memoryEvents' : e.entry = x} = {e0}
      BY <1>4, <1>5, <1>7, <2>2
    <3>4. StateBefore(x, g)' = "ACTIVE"
      <4>1. {e \in Changes(x) : e.seq < g} = {}
        BY <3>1
      <4>2. StateBefore(x, g) = "ACTIVE"
        BY <4>1, StateBeforeIs DEF Replay
      <4> QED
        BY <2>1, <4>2
    <3>5. "ACTIVE" \in AllowedFrom("CREATED")
      BY DEF AllowedFrom, Lifecycles
    <3>6. HistoryIntact(x)'
      BY <1>4, <3>3, <3>4, <3>5 DEF HistoryIntact
    <3> QED
      BY <3>2, <3>6
  <2>3. CASE x # m
    <3>1. x \in DOMAIN lifecycle /\ lifecycle'[x] = lifecycle[x]
      BY <1>5, <2>3
    <3>2. HistoryIntact(x) /\ lifecycle[x] = Replay(Changes(x))
      BY <1>1, <2>1, <3>1 DEF MemoryIInv, LifecycleMatchesEvents
    <3>3. {e \in memoryEvents' : e.entry = x} = {e \in memoryEvents : e.entry = x}
      BY <1>4, <1>5, <2>3
    <3>4. \A e \in {o \in memoryEvents : o.entry = x} :
             StateBefore(x, e.seq)' = StateBefore(x, e.seq)
      <4>1. \A e \in {o \in memoryEvents : o.entry = x} : e.seq \in Nat /\ e.seq <= g
        BY <1>2, <1>7
      <4> QED
        BY <2>1, <4>1
    <3>5. HistoryIntact(x)'
      BY <3>2, <3>3, <3>4 DEF HistoryIntact
    <3> QED
      BY <2>1, <3>1, <3>2, <3>5
  <2> QED
    BY <2>2, <2>3
<1>10. LifecycleMatchesEvents'
  BY <1>9 DEF LifecycleMatchesEvents
<1>11. EventsDistinct'
  BY <1>6, AppendDistinct DEF MemoryIInv
<1> QED
  BY <1>8, <1>10, <1>11 DEF MemoryIInv

LEMMA AdmitStep ==
  ASSUME MemoryIInv, NEW m \in Targets, AdmitTarget(m)
  PROVE  MemoryIInv'
BY AdmitLogged DEF AdmitTarget

(* A rebuild writes what is there.                                         *)
LEMMA RebuildStep ==
  ASSUME MemoryIInv, RebuildLifecycleStates
  PROVE  /\ DOMAIN lifecycle' = DOMAIN lifecycle
         /\ \A m \in DOMAIN lifecycle : lifecycle'[m] = lifecycle[m]
         /\ frontier' = frontier /\ memoryEvents' = memoryEvents
BY DEF RebuildLifecycleStates, MemoryIInv, LifecycleMatchesEvents

(* So does a step that logs rows of other tables, or none: the events and  *)
(* what they say of an entry stay.                                         *)
LEMMA UnchangedStep ==
  ASSUME MemoryIInv, DOMAIN lifecycle' = DOMAIN lifecycle,
         \A m \in DOMAIN lifecycle : lifecycle'[m] = lifecycle[m],
         frontier' \in Nat, frontier <= frontier', memoryEvents' = memoryEvents
  PROVE  MemoryIInv'
<1>0. PICK f \in Nat, g \in Nat : f = frontier /\ g = frontier' /\ f <= g
  BY DEF MemoryIInv, MemoryTypeOK
<1>a. \A e \in memoryEvents : e.seq \in Nat /\ e.seq <= f /\ e.seq <= g
  BY <1>0 DEF MemoryIInv, MemoryTypeOK, EventRow
<1>1. MemoryTypeOK'
  BY <1>0, <1>a DEF MemoryIInv, MemoryTypeOK
<1>2. \A m, n : StateBefore(m, n)' = StateBefore(m, n)
  BY DEF StateBefore
<1>3. \A m : HistoryIntact(m)' <=> HistoryIntact(m)
  BY <1>2 DEF HistoryIntact
<1>4. \A m : StateBefore(m, frontier + 1)' = StateBefore(m, frontier + 1)
  <2>1. \A m : StateBefore(m, g + 1)' = StateBefore(m, g + 1)
    BY <1>2
  <2>2. \A m : {e \in Changes(m) : e.seq < g + 1} = {e \in Changes(m) : e.seq < f + 1}
    BY <1>a DEF Changes
  <2>3. \A m : StateBefore(m, g + 1) = StateBefore(m, f + 1)
    BY <2>2, StateBeforeIs
  <2> QED
    BY <1>0, <2>1, <2>3
<1> QED
  BY <1>1, <1>3, <1>4 DEF MemoryIInv, EventsDistinct, LifecycleMatchesEvents

(* The materialized lifecycle is what the events say, at every step.       *)
LEMMA MemoryInvariant == LifecycleSpec => []MemoryIInv
<1>1. LifecycleInit => MemoryIInv
  BY DEF LifecycleInit, LogInit, MemoryInit, MemoryIInv, MemoryTypeOK, EventsDistinct,
         LifecycleMatchesEvents
<1>2. MemoryIInv /\ [LifecycleNext]_<<frontier, memoryVars>> => MemoryIInv'
  <2> SUFFICES ASSUME MemoryIInv, [LifecycleNext]_<<frontier, memoryVars>> PROVE MemoryIInv'
    OBVIOUS
  <2>1. ASSUME NEW m \in Targets, AdmitTarget(m) PROVE MemoryIInv'
    BY <2>1, AdmitStep
  <2>2. ASSUME NEW m \in Targets, NEW kind \in EventKinds, RecordMemoryEvent(m, kind)
        PROVE  MemoryIInv'
    BY <2>2, RecordStep
  <2>3. CASE RebuildLifecycleStates
    BY <2>3, RebuildStep, UnchangedStep DEF MemoryIInv, MemoryTypeOK
  <2>4. CASE UNCHANGED <<frontier, memoryVars>>
    BY <2>4, UnchangedStep DEF memoryVars, MemoryIInv, MemoryTypeOK
  <2> QED
    BY <2>1, <2>2, <2>3, <2>4 DEF LifecycleNext
<1> QED
  BY <1>1, <1>2, PTL DEF LifecycleSpec

(* Entries and events have the columns of their tables.                    *)
THEOREM MemoryTyped == LifecycleSpec => []MemoryTypeOK
<1>1. MemoryIInv => MemoryTypeOK
  BY DEF MemoryIInv
<1> QED
  BY <1>1, MemoryInvariant, PTL

(* A replay of the events of an entry never raises and yields its          *)
(* lifecycle column: a rebuild changes nothing.                            *)
THEOREM LifecycleIsReplay == LifecycleSpec => []LifecycleMatchesEvents
<1>1. MemoryIInv => LifecycleMatchesEvents
  BY DEF MemoryIInv
<1> QED
  BY <1>1, MemoryInvariant, PTL

-----------------------------------------------------------------------------
Of(m, kind) == {e \in memoryEvents : e.entry = m /\ e.kind = kind}

(* What the lifecycle of an entry says of the events that it had.          *)
Forgetting(m) ==
  /\ \A t, u \in Of(m, "TOMBSTONED") : t = u
  /\ \A t, u \in Of(m, "DELETED") : t = u
  /\ Of(m, "TOMBSTONED") # {} <=> lifecycle[m] \in {"TOMBSTONED", "DELETED"}
  /\ Of(m, "DELETED") # {} => lifecycle[m] = "DELETED"
  /\ \A d \in Of(m, "DELETED") : \E t \in Of(m, "TOMBSTONED") : t.seq < d.seq

Restoring(m) ==
  lifecycle[m] = "ACTIVE" =>
    \A a \in Of(m, "ARCHIVED") : \E r \in Of(m, "RESTORED") : a.seq < r.seq

Alternating(m) ==
  \A a, b \in Of(m, "ARCHIVED") :
    a.seq < b.seq => \E r \in Of(m, "RESTORED") : a.seq < r.seq /\ r.seq < b.seq

EventIInv ==
  \A m \in DOMAIN lifecycle : Forgetting(m) /\ Restoring(m) /\ Alternating(m)

(* The transitions of next_memory_state.                                   *)
LEMMA Transitions ==
  ASSUME NEW s \in Lifecycles, NEW kind \in EventKinds, s \in AllowedFrom(kind)
  PROVE  /\ kind = "TOMBSTONED" => s \in {"ACTIVE", "ARCHIVED"} /\ NextState(s, kind) = "TOMBSTONED"
         /\ kind = "DELETED" => s = "TOMBSTONED" /\ NextState(s, kind) = "DELETED"
         /\ kind = "ARCHIVED" => s = "ACTIVE" /\ NextState(s, kind) = "ARCHIVED"
         /\ kind = "RESTORED" => s = "ARCHIVED" /\ NextState(s, kind) = "ACTIVE"
         /\ kind \notin {"TOMBSTONED", "DELETED", "ARCHIVED", "RESTORED"} => NextState(s, kind) = s
<1>1. DOMAIN Outcome = {"TOMBSTONED", "DELETED", "ARCHIVED", "RESTORED"}
  BY DEF Outcome
<1>2. /\ Outcome["TOMBSTONED"] = "TOMBSTONED" /\ Outcome["DELETED"] = "DELETED"
      /\ Outcome["ARCHIVED"] = "ARCHIVED" /\ Outcome["RESTORED"] = "ACTIVE"
  BY DEF Outcome
<1>3. CASE kind = "TOMBSTONED"
  BY <1>1, <1>2, <1>3 DEF AllowedFrom, NextState
<1>4. CASE kind = "DELETED"
  BY <1>1, <1>2, <1>4 DEF AllowedFrom, NextState
<1>5. CASE kind = "ARCHIVED"
  BY <1>1, <1>2, <1>5 DEF AllowedFrom, NextState, Archivable
<1>6. CASE kind = "RESTORED"
  BY <1>1, <1>2, <1>6 DEF AllowedFrom, NextState, Restorable
<1>7. CASE kind \notin {"TOMBSTONED", "DELETED", "ARCHIVED", "RESTORED"}
  BY <1>1, <1>7 DEF NextState
<1> QED
  BY <1>3, <1>4, <1>5, <1>6, <1>7

(* A recorded event leaves the entry it is recorded for consistent with its *)
(* events, and the other entries as they are.                               *)
LEMMA RecordKeepsEvents ==
  ASSUME MemoryTypeOK, EventIInv, NEW m \in Targets, NEW kind \in EventKinds,
         RecordMemoryEvent(m, kind)
  PROVE  EventIInv'
<1>1. PICK f \in Nat : f = frontier
  BY DEF MemoryTypeOK
<1>2. PICK e0 : e0 = [entry |-> m, kind |-> kind, seq |-> f + 1]
  OBVIOUS
<1>3. e0.entry = m /\ e0.kind = kind /\ e0.seq = f + 1
  BY <1>2
<1>4. frontier' = f + 1
  BY <1>1 DEF RecordMemoryEvent, Log
<1>5. /\ memoryEvents' = memoryEvents \cup {e0}
      /\ lifecycle' = [lifecycle EXCEPT ![m] = NextState(lifecycle[m], kind)]
      /\ m \in DOMAIN lifecycle /\ lifecycle[m] \in AllowedFrom(kind)
  BY <1>2, <1>4 DEF RecordMemoryEvent
<1>6. \A e \in memoryEvents : e.seq \in Nat /\ e.seq < e0.seq
  BY <1>1, <1>3 DEF MemoryTypeOK, EventRow
<1>7. \A x, k : Of(x, k)' = IF x = m /\ k = kind THEN Of(x, k) \cup {e0} ELSE Of(x, k)
  BY <1>3, <1>5 DEF Of
<1>8. \A x, k : Of(x, k) \subseteq memoryEvents
  BY DEF Of
<1>9. lifecycle[m] \in Lifecycles
  BY <1>5 DEF MemoryTypeOK
<1> DEFINE s == lifecycle[m]
           t == NextState(lifecycle[m], kind)
<1>10. /\ kind = "TOMBSTONED" => s \in {"ACTIVE", "ARCHIVED"} /\ t = "TOMBSTONED"
       /\ kind = "DELETED" => s = "TOMBSTONED" /\ t = "DELETED"
       /\ kind = "ARCHIVED" => s = "ACTIVE" /\ t = "ARCHIVED"
       /\ kind = "RESTORED" => s = "ARCHIVED" /\ t = "ACTIVE"
       /\ kind \notin {"TOMBSTONED", "DELETED", "ARCHIVED", "RESTORED"} => t = s
  BY <1>5, <1>9, Transitions
<1>11. lifecycle'[m] = t /\ \A x \in DOMAIN lifecycle \ {m} : lifecycle'[x] = lifecycle[x]
  BY <1>5
<1> HIDE DEF t
<1>12. Forgetting(m)'
  <2>1. Forgetting(m)
    BY <1>5 DEF EventIInv
  <2>2. CASE kind = "TOMBSTONED"
    BY <1>6, <1>7, <1>8, <1>10, <1>11, <2>1, <2>2 DEF Forgetting
  <2>3. CASE kind = "DELETED"
    BY <1>6, <1>7, <1>8, <1>10, <1>11, <2>1, <2>3 DEF Forgetting
  <2>4. CASE kind \notin {"TOMBSTONED", "DELETED"}
    BY <1>7, <1>10, <1>11, <2>1, <2>4 DEF Forgetting
  <2> QED
    BY <2>2, <2>3, <2>4
<1>13. Restoring(m)'
  <2>1. Restoring(m)
    BY <1>5 DEF EventIInv
  <2>2. CASE kind = "RESTORED"
    <3>1. Of(m, "ARCHIVED")' = Of(m, "ARCHIVED") /\ e0 \in Of(m, "RESTORED")'
      BY <1>7, <2>2
    <3> QED
      BY <1>6, <1>8, <3>1 DEF Restoring
  <2>3. CASE kind # "RESTORED"
    BY <1>7, <1>10, <1>11, <2>1, <2>3 DEF Restoring
  <2> QED
    BY <2>2, <2>3
<1>14. Alternating(m)'
  <2>1. Alternating(m) /\ Restoring(m)
    BY <1>5 DEF EventIInv
  <2>2. CASE kind = "ARCHIVED"
    <3>1. Of(m, "ARCHIVED")' = Of(m, "ARCHIVED") \cup {e0} /\ Of(m, "RESTORED")' = Of(m, "RESTORED")
      BY <1>7, <2>2
    <3>2. \A a \in Of(m, "ARCHIVED") : \E r \in Of(m, "RESTORED") : a.seq < r.seq /\ r.seq < e0.seq
      BY <1>6, <1>8, <1>10, <2>1, <2>2 DEF Restoring
    <3>3. \A a \in Of(m, "ARCHIVED") : ~(e0.seq < a.seq)
      BY <1>3, <1>6, <1>8
    <3>4. ~(e0.seq < e0.seq)
      BY <1>3
    <3> QED
      BY <2>1, <3>1, <3>2, <3>3, <3>4 DEF Alternating
  <2>3. CASE kind # "ARCHIVED"
    <3>1. Of(m, "ARCHIVED")' = Of(m, "ARCHIVED") /\ Of(m, "RESTORED") \subseteq Of(m, "RESTORED")'
      BY <1>7, <2>3
    <3> QED
      BY <2>1, <3>1 DEF Alternating
  <2> QED
    BY <2>2, <2>3
<1>15. ASSUME NEW x \in DOMAIN lifecycle, x # m
       PROVE  Forgetting(x)' /\ Restoring(x)' /\ Alternating(x)'
  <2>1. lifecycle'[x] = lifecycle[x] /\ \A k : Of(x, k)' = Of(x, k)
    BY <1>7, <1>11, <1>15
  <2>2. Forgetting(x) /\ Restoring(x) /\ Alternating(x)
    BY DEF EventIInv
  <2> QED
    BY <2>1, <2>2 DEF Forgetting, Restoring, Alternating
<1> QED
  BY <1>5, <1>12, <1>13, <1>14, <1>15 DEF EventIInv

(* An entry that is admitted had no event before.                          *)
LEMMA AdmitKeepsEvents ==
  ASSUME MemoryTypeOK, EventIInv, NEW m \in Targets, AdmitMemory(m)
  PROVE  EventIInv'
<1>1. PICK e0 : e0 = [entry |-> m, kind |-> "CREATED", seq |-> frontier']
  OBVIOUS
<1>2. /\ memoryEvents' = memoryEvents \cup {e0} /\ m \notin DOMAIN lifecycle
      /\ lifecycle' = [x \in DOMAIN lifecycle \cup {m} |->
                         IF x = m THEN "ACTIVE" ELSE lifecycle[x]]
  BY <1>1 DEF AdmitMemory
<1>3. \A x, k : k # "CREATED" => Of(x, k)' = Of(x, k)
  BY <1>1, <1>2 DEF Of
<1>4. \A k : Of(m, k) = {}
  BY <1>2 DEF MemoryTypeOK, Of
<1>5. Forgetting(m)' /\ Restoring(m)' /\ Alternating(m)'
  BY <1>2, <1>3, <1>4 DEF Forgetting, Restoring, Alternating
<1>6. ASSUME NEW x \in DOMAIN lifecycle, x # m
      PROVE  Forgetting(x)' /\ Restoring(x)' /\ Alternating(x)'
  <2>1. lifecycle'[x] = lifecycle[x] /\ \A k : k # "CREATED" => Of(x, k)' = Of(x, k)
    BY <1>2, <1>3, <1>6
  <2>2. Forgetting(x) /\ Restoring(x) /\ Alternating(x)
    BY DEF EventIInv
  <2> QED
    BY <2>1, <2>2 DEF Forgetting, Restoring, Alternating
<1> QED
  BY <1>2, <1>5, <1>6 DEF EventIInv

(* A step that records no event and changes no lifecycle keeps it.         *)
LEMMA UnchangedEvents ==
  ASSUME EventIInv, DOMAIN lifecycle' = DOMAIN lifecycle,
         \A m \in DOMAIN lifecycle : lifecycle'[m] = lifecycle[m],
         memoryEvents' = memoryEvents
  PROVE  EventIInv'
<1>1. \A m, k : Of(m, k)' = Of(m, k)
  BY DEF Of
<1> QED
  BY <1>1 DEF EventIInv, Forgetting, Restoring, Alternating

(* The events of an entry and its lifecycle agree at every step.           *)
LEMMA EventInvariant == LifecycleSpec => []EventIInv
<1>1. LifecycleInit => EventIInv
  BY DEF LifecycleInit, MemoryInit, EventIInv
<1>2. MemoryIInv /\ EventIInv /\ [LifecycleNext]_<<frontier, memoryVars>> => EventIInv'
  <2> SUFFICES ASSUME MemoryIInv, EventIInv, [LifecycleNext]_<<frontier, memoryVars>>
               PROVE  EventIInv'
    OBVIOUS
  <2>1. ASSUME NEW m \in Targets, AdmitTarget(m) PROVE EventIInv'
    BY <2>1, AdmitKeepsEvents DEF AdmitTarget, MemoryIInv
  <2>2. ASSUME NEW m \in Targets, NEW kind \in EventKinds, RecordMemoryEvent(m, kind)
        PROVE  EventIInv'
    BY <2>2, RecordKeepsEvents DEF MemoryIInv
  <2>3. CASE RebuildLifecycleStates
    BY <2>3, RebuildStep, UnchangedEvents
  <2>4. CASE UNCHANGED <<frontier, memoryVars>>
    BY <2>4, UnchangedEvents DEF memoryVars
  <2> QED
    BY <2>1, <2>2, <2>3, <2>4 DEF LifecycleNext
<1> QED
  BY <1>1, <1>2, MemoryInvariant, PTL DEF LifecycleSpec

(* A set without two members is counted at most once.                      *)
LEMMA AtMostOne ==
  ASSUME NEW S, \A t, u \in S : t = u
  PROVE  Cardinality(S) <= 1
<1>1. CASE S = {}
  BY <1>1, FS_EmptySet
<1>2. CASE S # {}
  <2>1. PICK t \in S : S = {t}
    BY <1>2
  <2>2. Cardinality({t}) = 1
    BY FS_Singleton
  <2>3. Cardinality(S) = 1
    BY <2>1, <2>2
  <2> QED
    BY <2>3
<1> QED
  BY <1>1, <1>2

LEMMA Forgotten == EventIInv => ForgottenStaysForgotten
BY AtMostOne DEF EventIInv, Forgetting, Of, ForgottenStaysForgotten

LEMMA Archived == MemoryIInv /\ EventIInv => ArchivedOncePerRestore
BY DEF MemoryIInv, MemoryTypeOK, EventIInv, Alternating, Of, ArchivedOncePerRestore

(* Nothing brings a tombstoned entry back.                                 *)
THEOREM ForgettingIsFinal == LifecycleSpec => []ForgottenStaysForgotten
BY Forgotten, EventInvariant, PTL

(* Between two ARCHIVED events of an entry it was restored.                *)
THEOREM ArchivingAlternates == LifecycleSpec => []ArchivedOncePerRestore
BY Archived, EventInvariant, MemoryInvariant, PTL
=============================================================================
