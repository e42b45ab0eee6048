------------------------ MODULE SchemaMigrationProofs ------------------------
(***************************************************************************)
(* Proofs about SchemaMigration: for any number of openers, entries and    *)
(* projections, any number of crashes and any version found on disk, the   *)
(* two backfills establish what the sessions of version 7 rely on.         *)
(*                                                                         *)
(* Neither result is inductive: what an opener does next rests on what it  *)
(* read, without a lock, some steps ago.  The invariant says for each step *)
(* of initialize_schema what its reads are still worth.                    *)
(***************************************************************************)
EXTENDS SchemaMigration, FiniteSetTheorems, TLAPS

USE DEF SchemaVersion, LineageVersion, Steps

HasEvent(m) == \E e \in events : e.entry = m
AllEntriesCovered == \A m \in entries : HasEvent(m)
AllDeclaredFenced == \A i \in DOMAIN projections : projections[i].declared => Fenced(projections[i])

(* An entry that lacked events when it was read got its first one, if any, *)
(* from another backfill, under the id this one will use.                  *)
EntriesRead ==
  \A o \in Openers :
    /\ At(o, "backfill") =>
         /\ \A m \in entries \ openers[o].entries : HasEvent(m)
         /\ \A m \in openers[o].entries :
              HasEvent(m) => \E e \in events : e.id = BackfillId(m)
    /\ openers[o].step \in {"projections", "lineage", "version", "open"} => AllEntriesCovered

CreatedUnique ==
  \A c, d \in events : (c.entry = d.entry /\ c.created /\ d.created) => c = d

CreatedFirst ==
  \A e \in events : \E c \in events :
    c.entry = e.entry /\ c.created /\ (e # c => c.seq < e.seq)

IdsNameEntries == \A e \in events : e.id.entry = e.entry

(* What was read of the version and of the projections still holds, because *)
(* nobody inserts projections with declared dependencies any more.          *)
LineageRead ==
  /\ userVersion >= LineageVersion => AllDeclaredFenced
  /\ \A o \in Openers :
       /\ At(o, "lineage") =>
            \A i \in DOMAIN projections :
              projections[i].declared => i \in openers[o].projections
       /\ openers[o].step \in {"version", "open"} => AllDeclaredFenced
       /\ (~At(o, "closed") /\ ~LacksLineage(openers[o].version)) => AllDeclaredFenced

SchemaIInv == /\ SchemaTypeOK /\ IdsNameEntries
              /\ EntriesRead /\ CreatedUnique /\ CreatedFirst
              /\ LineageRead

-----------------------------------------------------------------------------
(* A backfill advances the log by a natural number of rows.                *)
LEMMA BackfillAdvances ==
  ASSUME SchemaTypeOK, NEW o \in Openers, BackfillMemory(o)
  PROVE  frontier' \in Nat /\ frontier <= frontier'
<1> DEFINE missing == {m \in openers[o].entries : \A e \in events : e.id # BackfillId(m)}
<1>1. missing \in SUBSET Entries
  BY DEF SchemaTypeOK, OpenerState
<1>2. IsFiniteSet(missing)
  BY <1>1, FS_Subset, EntriesAssumption
<1>3. Cardinality(missing) \in Nat
  BY <1>2, FS_CardinalityType
<1>4. frontier' = frontier + Cardinality(missing)
  BY DEF BackfillMemory, Log
<1>5. frontier \in Nat
  BY DEF SchemaTypeOK
<1> HIDE DEF missing
<1>6. PICK n \in Nat : n = Cardinality(missing)
  BY <1>3
<1>7. PICK f \in Nat : f = frontier
  BY <1>5
<1> QED BY <1>4, <1>6, <1>7

(* Every step keeps the types.                                             *)
LEMMA SchemaTypePreserved ==
  ASSUME SchemaTypeOK, [SchemaNext]_schemaVars
  PROVE  SchemaTypeOK'
<1> USE DEF SchemaTypeOK
<1>1. CASE UNCHANGED schemaVars
  BY <1>1 DEF schemaVars
<1>2. ASSUME NEW o \in Openers, ReadVersion(o)
      PROVE  SchemaTypeOK'
  <2>1. userVersion \in Nat
    BY <1>2 DEF ReadVersion
  <2>2. openers' \in [Openers -> OpenerState]
    <3>1. PICK s : s = [openers[o] EXCEPT !.step = "entries", !.version = userVersion]
      OBVIOUS
    <3>2. openers[o] \in OpenerState
      OBVIOUS
    <3>3. s \in OpenerState
      BY <2>1, <3>1, <3>2 DEF OpenerState
    <3>4. openers' = [openers EXCEPT ![o] = s]
      BY <1>2, <3>1 DEF ReadVersion
    <3> QED BY <3>3, <3>4
  <2>3. \A p \in Openers : /\ openers'[p].entries = openers[p].entries
                           /\ openers'[p].projections = openers[p].projections
    BY <1>2 DEF ReadVersion, OpenerState
  <2> QED BY <1>2, <2>2, <2>3 DEF ReadVersion
<1>3. ASSUME NEW o \in Openers, ReadEntries(o)
      PROVE  SchemaTypeOK'
  <2>1. PICK rows \in SUBSET entries, step \in Steps :
          openers' = [openers EXCEPT ![o].entries = rows, ![o].step = step]
    BY <1>3 DEF ReadEntries, AfterEntries
  <2>2. openers' \in [Openers -> OpenerState]
    <3>1. PICK s : s = [openers[o] EXCEPT !.entries = rows, !.step = step]
      OBVIOUS
    <3>2. openers[o] \in OpenerState /\ rows \in SUBSET Entries
      OBVIOUS
    <3>3. s \in OpenerState
      BY <3>1, <3>2 DEF OpenerState
    <3>4. openers' = [openers EXCEPT ![o] = s]
      BY <2>1, <3>1
    <3> QED BY <3>3, <3>4
  <2>3. \A p \in Openers : openers'[p].entries \subseteq entries
                           /\ openers'[p].projections \subseteq DOMAIN projections
    BY <2>1 DEF OpenerState
  <2> QED BY <1>3, <2>2, <2>3 DEF ReadEntries
<1>4. ASSUME NEW o \in Openers, BackfillMemory(o)
      PROVE  SchemaTypeOK'
  <2> DEFINE missing == {m \in openers[o].entries : \A e \in events : e.id # BackfillId(m)}
             row(m) == [id |-> BackfillId(m), entry |-> m, created |-> TRUE, seq |-> frontier']
  <2>1. frontier' \in Nat /\ frontier <= frontier'
    BY <1>4, BackfillAdvances
  <2>2. PICK f \in Nat : f = frontier'
    BY <2>1
  <2>3. events' = events \cup {row(m) : m \in missing}
    BY <1>4 DEF BackfillMemory
  <2>4. missing \subseteq entries
    OBVIOUS
  <2>5. \A m \in missing : row(m) \in CreationRow
    BY <2>2, <2>4 DEF CreationRow, EventIds, BackfillId
  <2> HIDE DEF missing
  <2>6. events' \subseteq CreationRow
    BY <2>3, <2>5
  <2>7. \A e \in events' : e.entry \in entries /\ e.seq <= frontier'
    <3>1. \A e \in events : e.entry \in entries /\ e.seq <= f
      BY <2>1, <2>2 DEF CreationRow
    <3>2. \A m \in missing : row(m).entry \in entries /\ row(m).seq <= f
      BY <2>2, <2>4
    <3> QED BY <2>2, <2>3, <3>1, <3>2
  <2>8. openers' \in [Openers -> OpenerState]
    BY <1>4 DEF BackfillMemory, Goes, AfterEntries, OpenerState
  <2>9. \A p \in Openers : openers'[p].entries \subseteq entries
                           /\ openers'[p].projections \subseteq DOMAIN projections
    BY <1>4 DEF BackfillMemory, Goes, OpenerState
  <2> QED BY <1>4, <2>1, <2>6, <2>7, <2>8, <2>9 DEF BackfillMemory
<1>5. ASSUME NEW o \in Openers, ReadProjections(o)
      PROVE  SchemaTypeOK'
  BY <1>5 DEF ReadProjections, At, OpenerState
<1>6. ASSUME NEW o \in Openers, BackfillLineage(o)
      PROVE  SchemaTypeOK'
  <2>1. \A i \in DOMAIN projections' : projections'[i] \in ProjectionRow
    <3> SUFFICES ASSUME NEW i \in DOMAIN projections PROVE projections'[i] \in ProjectionRow
      BY <1>6 DEF BackfillLineage
    <3>1. PICK p \in ProjectionRow : p = projections[i]
      OBVIOUS
    <3>2. projections'[i] = [p EXCEPT !.wildcard = @ \/ i \in openers[o].projections,
                                      !.reason = IF @ = None THEN "lineage-migration" ELSE @]
      BY <1>6, <3>1 DEF BackfillLineage
    <3> HIDE DEF SchemaTypeOK
    <3> QED BY <3>2 DEF ProjectionRow
  <2>2. DOMAIN projections' = DOMAIN projections
    BY <1>6 DEF BackfillLineage
  <2>3. openers' \in [Openers -> OpenerState]
    <3>1. PICK s : s = [openers[o] EXCEPT !.step = "version"]
      OBVIOUS
    <3>2. s \in OpenerState
      BY <3>1 DEF OpenerState
    <3>3. openers' = [openers EXCEPT ![o] = s]
      BY <1>6, <3>1 DEF BackfillLineage, Goes
    <3> QED BY <3>2, <3>3
  <2>4. \A p \in Openers : openers'[p].entries \subseteq entries
                           /\ openers'[p].projections \subseteq DOMAIN projections
    BY <1>6 DEF BackfillLineage, Goes, OpenerState
  <2> QED BY <1>6, <2>1, <2>2, <2>3, <2>4 DEF BackfillLineage
<1>7. ASSUME NEW o \in Openers, SetVersion(o)
      PROVE  SchemaTypeOK'
  BY <1>7 DEF SetVersion, Goes, OpenerState
<1>8. ASSUME NEW o \in Openers, CutShort(o)
      PROVE  SchemaTypeOK'
  BY <1>8 DEF CutShort, Closed, OpenerState
<1>9. ASSUME NEW o \in Openers, NEW m \in Entries, AdmitEntry(o, m)
      PROVE  SchemaTypeOK'
  <2>1. PICK f \in Nat : f = frontier
    OBVIOUS
  <2>2. frontier' = f + 1
    BY <1>9, <2>1 DEF AdmitEntry, Log
  <2>3. Recorded(m, TRUE) \subseteq CreationRow
    BY <2>2 DEF Recorded, CreationRow, EventIds
  <2>4. \A e \in events' : e \in CreationRow /\ e.entry \in entries' /\ e.seq <= frontier'
    <3>1. \A e \in events : e \in CreationRow /\ e.entry \in entries' /\ e.seq <= f + 1
      BY <1>9, <2>1 DEF AdmitEntry, CreationRow
    <3>2. \A e \in Recorded(m, TRUE) : e.entry \in entries' /\ e.seq <= f + 1
      BY <1>9, <2>2 DEF AdmitEntry, Recorded
    <3> QED BY <1>9, <2>2, <2>3, <3>1, <3>2 DEF AdmitEntry
  <2>5. \A i \in DOMAIN projections' : projections'[i] \in ProjectionRow
    BY <1>9 DEF AdmitEntry, Invalidated, ProjectionRow
  <2>6. DOMAIN projections' = DOMAIN projections
    BY <1>9 DEF AdmitEntry, Invalidated
  <2>7. entries \subseteq entries' /\ entries' \subseteq Entries
    BY <1>9 DEF AdmitEntry
  <2>8. openers' = openers /\ userVersion' = userVersion
    BY <1>9 DEF AdmitEntry
  <2>9. \A p \in Openers : openers'[p].entries \subseteq entries'
                           /\ openers'[p].projections \subseteq DOMAIN projections'
    BY <2>6, <2>7, <2>8
  <2>10. events' \subseteq CreationRow
    BY <2>4
  <2>11. frontier' \in Nat
    BY <2>2
  <2> QED BY <2>4, <2>5, <2>6, <2>7, <2>8, <2>9, <2>10, <2>11
<1>10. ASSUME NEW o \in Openers, NEW m \in Entries, NEW touched \in SUBSET DOMAIN projections,
              RecordEvent(o, m, touched)
       PROVE  SchemaTypeOK'
  <2>1. PICK f \in Nat : f = frontier
    OBVIOUS
  <2>2. frontier' = f + 1
    BY <1>10, <2>1 DEF RecordEvent, Log
  <2>3. Recorded(m, FALSE) \subseteq CreationRow
    BY <2>2 DEF Recorded, CreationRow, EventIds
  <2>4. \A e \in events' : e \in CreationRow /\ e.entry \in entries' /\ e.seq <= frontier'
    <3>1. \A e \in events : e \in CreationRow /\ e.entry \in entries' /\ e.seq <= f + 1
      BY <1>10, <2>1 DEF RecordEvent, CreationRow
    <3>2. \A e \in Recorded(m, FALSE) : e.entry \in entries' /\ e.seq <= f + 1
      BY <1>10, <2>2 DEF RecordEvent, Recorded
    <3> QED BY <1>10, <2>2, <2>3, <3>1, <3>2 DEF RecordEvent
  <2>5. \A i \in DOMAIN projections' : projections'[i] \in ProjectionRow
    BY <1>10 DEF RecordEvent, Invalidated, ProjectionRow
  <2>6. DOMAIN projections' = DOMAIN projections
    BY <1>10 DEF RecordEvent, Invalidated
  <2>7. entries \subseteq entries' /\ entries' \subseteq Entries
    BY <1>10 DEF RecordEvent
  <2>8. openers' = openers /\ userVersion' = userVersion
    BY <1>10 DEF RecordEvent
  <2>9. \A p \in Openers : openers'[p].entries \subseteq entries'
                           /\ openers'[p].projections \subseteq DOMAIN projections'
    BY <2>6, <2>7, <2>8
  <2>10. events' \subseteq CreationRow
    BY <2>4
  <2>11. frontier' \in Nat
    BY <2>2
  <2> QED BY <2>4, <2>5, <2>6, <2>7, <2>8, <2>9, <2>10, <2>11
<1>11. ASSUME NEW o \in Openers, NEW i \in ProjectionIds, NEW wildcard \in BOOLEAN,
              NEW reason \in {None, "state-changed"}, RegisterProjection(o, i, wildcard, reason)
       PROVE  SchemaTypeOK'
  BY <1>11 DEF RegisterProjection, ProjectionRow
<1> QED BY <1>1, <1>2, <1>3, <1>4, <1>5, <1>6, <1>7, <1>8, <1>9, <1>10, <1>11
        DEF SchemaNext, OpenStep, SessionStep

(* Nothing a session, a backfill or a crash does frees a fenced projection *)
(* or adds one with declared dependencies.                                 *)
LEMMA DeclaredStayFenced ==
  ASSUME SchemaTypeOK, [SchemaNext]_schemaVars
  PROVE  /\ DOMAIN projections \subseteq DOMAIN projections'
         /\ \A i \in DOMAIN projections' : projections'[i].declared =>
              /\ i \in DOMAIN projections /\ projections[i].declared
              /\ Fenced(projections[i]) => Fenced(projections'[i])
<1> USE ReasonsAssumption DEF Fenced
<1>1. CASE UNCHANGED projections
  BY <1>1
<1>2. ASSUME NEW o \in Openers, BackfillLineage(o)
      PROVE  /\ DOMAIN projections \subseteq DOMAIN projections'
             /\ \A i \in DOMAIN projections' : projections'[i].declared =>
                  /\ i \in DOMAIN projections /\ projections[i].declared
                  /\ Fenced(projections[i]) => Fenced(projections'[i])
  <2> SUFFICES ASSUME NEW i \in DOMAIN projections
               PROVE  /\ projections'[i].declared = projections[i].declared
                      /\ Fenced(projections[i]) => Fenced(projections'[i])
    BY <1>2 DEF BackfillLineage
  <2>1. PICK p \in ProjectionRow : p = projections[i]
    BY DEF SchemaTypeOK
  <2>2. PICK q : q = projections'[i]
    OBVIOUS
  <2>3. q = [p EXCEPT !.wildcard = @ \/ i \in openers[o].projections,
                      !.reason = IF @ = None THEN "lineage-migration" ELSE @]
    BY <1>2, <2>1, <2>2 DEF BackfillLineage
  <2>4. /\ q.declared = p.declared /\ (p.wildcard => q.wildcard)
        /\ p.reason # None => q.reason # None
    BY <2>3 DEF ProjectionRow
  <2> QED BY <2>1, <2>2, <2>4
<1>3. ASSUME NEW touched, projections' = Invalidated(touched)
      PROVE  /\ DOMAIN projections \subseteq DOMAIN projections'
             /\ \A i \in DOMAIN projections' : projections'[i].declared =>
                  /\ i \in DOMAIN projections /\ projections[i].declared
                  /\ Fenced(projections[i]) => Fenced(projections'[i])
  BY <1>3 DEF Invalidated, SchemaTypeOK, ProjectionRow
<1>4. ASSUME NEW o \in Openers, NEW i \in ProjectionIds, NEW wildcard \in BOOLEAN,
             NEW reason \in {None, "state-changed"}, RegisterProjection(o, i, wildcard, reason)
      PROVE  /\ DOMAIN projections \subseteq DOMAIN projections'
             /\ \A j \in DOMAIN projections' : projections'[j].declared =>
                  /\ j \in DOMAIN projections /\ projections[j].declared
                  /\ Fenced(projections[j]) => Fenced(projections'[j])
  BY <1>4 DEF RegisterProjection
<1>5. ASSUME NEW o \in Openers, OpenStep(o) \/ CutShort(o), ~BackfillLineage(o)
      PROVE  UNCHANGED projections
  BY <1>5 DEF OpenStep, ReadVersion, ReadEntries, BackfillMemory, ReadProjections, SetVersion, CutShort
<1> QED BY <1>1, <1>2, <1>3, <1>4, <1>5
        DEF SchemaNext, SessionStep, AdmitEntry, RecordEvent, schemaVars

(* What was read of versions and projections stays true.                   *)
LEMMA LineagePreserved ==
  ASSUME SchemaTypeOK, LineageRead, [SchemaNext]_schemaVars
  PROVE  LineageRead'
<1>1. AllDeclaredFenced => AllDeclaredFenced'
  BY DeclaredStayFenced DEF AllDeclaredFenced
<1>2. ASSUME NEW p \in Openers, openers'[p] = openers[p]
      PROVE  /\ At(p, "lineage")' =>
                  \A i \in DOMAIN projections' :
                    projections'[i].declared => i \in openers'[p].projections
             /\ openers'[p].step \in {"version", "open"} => AllDeclaredFenced'
             /\ (~At(p, "closed")' /\ ~LacksLineage(openers'[p].version)) => AllDeclaredFenced'
  BY <1>1, <1>2, DeclaredStayFenced DEF LineageRead, At
<1>3. ASSUME UNCHANGED <<userVersion, openers>>
      PROVE  LineageRead'
  BY <1>1, <1>2, <1>3 DEF LineageRead
<1>4. ASSUME NEW o \in Openers, ReadVersion(o)
      PROVE  LineageRead'
  BY <1>1, <1>2, <1>4
     DEF LineageRead, ReadVersion, At, LacksLineage, SchemaTypeOK, OpenerState
<1>5. ASSUME NEW o \in Openers, ReadEntries(o)
      PROVE  LineageRead'
  <2> DEFINE rows == {m \in entries : \A e \in events : e.entry # m}
             step == IF rows = {} THEN AfterEntries(o) ELSE "backfill"
  <2>0. openers' = [openers EXCEPT ![o].entries = rows, ![o].step = step]
    BY <1>5 DEF ReadEntries
  <2> HIDE DEF rows
  <2>1. /\ step \in {"version", "projections", "backfill"}
        /\ step = "version" => ~LacksLineage(openers[o].version)
    BY DEF AfterEntries
  <2> HIDE DEF step
  <2>2. /\ openers'[o].step = step /\ openers'[o].version = openers[o].version
        /\ \A p \in Openers \ {o} : openers'[p] = openers[p]
    <3>1. PICK s : s = [openers[o] EXCEPT !.entries = rows, !.step = step]
      OBVIOUS
    <3>2. openers[o] \in OpenerState
      BY DEF SchemaTypeOK
    <3>3. s.step = step /\ s.version = openers[o].version
      BY <3>1, <3>2 DEF OpenerState
    <3>4. openers' = [openers EXCEPT ![o] = s]
      BY <2>0, <3>1
    <3>5. openers \in [Openers -> OpenerState]
      BY DEF SchemaTypeOK
    <3> QED BY <3>3, <3>4, <3>5
  <2>3. ~LacksLineage(openers[o].version) => AllDeclaredFenced'
    BY <1>1, <1>5 DEF LineageRead, ReadEntries, At
  <2>4. userVersion' = userVersion
    BY <1>5 DEF ReadEntries
  <2> QED BY <1>1, <1>2, <2>1, <2>2, <2>3, <2>4 DEF LineageRead, At
<1>6. ASSUME NEW o \in Openers, BackfillMemory(o)
      PROVE  LineageRead'
  BY <1>1, <1>2, <1>6
     DEF LineageRead, BackfillMemory, Goes, AfterEntries, At, SchemaTypeOK, OpenerState
<1>7. ASSUME NEW o \in Openers, ReadProjections(o)
      PROVE  LineageRead'
  BY <1>1, <1>2, <1>7
     DEF LineageRead, ReadProjections, AllDeclaredFenced, At, SchemaTypeOK, OpenerState
<1>8. ASSUME NEW o \in Openers, BackfillLineage(o)
      PROVE  LineageRead'
  <2>1. AllDeclaredFenced'
    <3>1. \A i \in DOMAIN projections : projections[i].declared => i \in openers[o].projections
      BY <1>8 DEF LineageRead, BackfillLineage
    <3>2. \A i \in DOMAIN projections : projections[i] \in ProjectionRow
      BY DEF SchemaTypeOK
    <3>3. ASSUME NEW i \in DOMAIN projections
          PROVE  /\ projections'[i].declared = projections[i].declared
                 /\ projections[i].declared => projections'[i].wildcard
                 /\ projections'[i].reason # None
      <4>1. projections'[i] = [projections[i] EXCEPT
              !.wildcard = @ \/ i \in openers[o].projections,
              !.reason = IF @ = None THEN "lineage-migration" ELSE @]
        BY <1>8 DEF BackfillLineage
      <4>2. PICK p \in ProjectionRow : p = projections[i]
        BY <3>2
      <4>3. PICK q : q = projections'[i]
        OBVIOUS
      <4>4. q = [p EXCEPT !.wildcard = @ \/ i \in openers[o].projections,
                          !.reason = IF @ = None THEN "lineage-migration" ELSE @]
        BY <4>1, <4>2, <4>3
      <4>5. /\ q.declared = p.declared /\ (i \in openers[o].projections => q.wildcard)
            /\ q.reason # None
        BY <4>4, ReasonsAssumption DEF ProjectionRow
      <4>6. p.declared => i \in openers[o].projections
        BY <3>1, <4>2
      <4> QED BY <4>2, <4>3, <4>5, <4>6
    <3>4. DOMAIN projections' = DOMAIN projections
      BY <1>8 DEF BackfillLineage
    <3> QED BY <3>3, <3>4 DEF AllDeclaredFenced, Fenced
  <2>2. openers' = [openers EXCEPT ![o].step = "version"] /\ userVersion' = userVersion
    BY <1>8 DEF BackfillLineage, Goes
  <2>3. openers'[o].step = "version" /\ \A p \in Openers \ {o} : openers'[p] = openers[p]
    BY <2>2 DEF SchemaTypeOK, OpenerState
  <2> QED BY <2>1, <2>2, <2>3, <1>2 DEF LineageRead, At
<1>9. ASSUME NEW o \in Openers, SetVersion(o)
      PROVE  LineageRead'
  BY <1>1, <1>2, <1>9
     DEF LineageRead, SetVersion, Goes, At, SchemaTypeOK, OpenerState
<1>10. ASSUME NEW o \in Openers, CutShort(o)
       PROVE  LineageRead'
  BY <1>1, <1>2, <1>10 DEF LineageRead, CutShort, Closed, At, SchemaTypeOK, OpenerState
<1> QED BY <1>3, <1>4, <1>5, <1>6, <1>7, <1>8, <1>9, <1>10
        DEF SchemaNext, OpenStep, SessionStep, AdmitEntry, RecordEvent, RegisterProjection, schemaVars

EventsInv == IdsNameEntries /\ EntriesRead /\ CreatedUnique /\ CreatedFirst

(* The steps that insert no event; what one opener reads now is true now.  *)
LEMMA EventsUnchanged ==
  ASSUME SchemaTypeOK, EventsInv, UNCHANGED <<entries, events>>,
         \/ UNCHANGED openers
         \/ \E o \in Openers : \/ ReadVersion(o) \/ ReadEntries(o) \/ ReadProjections(o)
                               \/ BackfillLineage(o) \/ SetVersion(o) \/ CutShort(o)
  PROVE  EventsInv'
<1>1. IdsNameEntries' /\ CreatedUnique' /\ CreatedFirst'
  BY DEF EventsInv, IdsNameEntries, CreatedUnique, CreatedFirst
<1>2. ASSUME NEW p \in Openers, openers'[p] = openers[p]
      PROVE  /\ At(p, "backfill")' =>
                  /\ \A m \in entries' \ openers'[p].entries : HasEvent(m)'
                  /\ \A m \in openers'[p].entries :
                       HasEvent(m)' => \E e \in events' : e.id = BackfillId(m)
             /\ openers'[p].step \in {"projections", "lineage", "version", "open"} =>
                  AllEntriesCovered'
  BY <1>2 DEF EventsInv, EntriesRead, AllEntriesCovered, HasEvent, At, BackfillId
<1>3. CASE UNCHANGED openers
  BY <1>1, <1>2, <1>3 DEF EventsInv, EntriesRead, BackfillId
<1>4. ASSUME NEW o \in Openers, ReadEntries(o)
      PROVE  EntriesRead'
  <2> DEFINE rows == {m \in entries : \A e \in events : e.entry # m}
  <2>1. \A p \in Openers : p # o => openers'[p] = openers[p]
    BY <1>4 DEF ReadEntries, SchemaTypeOK
  <2>2. /\ openers'[o].entries = rows
        /\ openers'[o].step = IF rows = {} THEN AfterEntries(o) ELSE "backfill"
    BY <1>4 DEF ReadEntries, SchemaTypeOK, OpenerState
  <2>3. \A m \in entries \ rows : HasEvent(m)
    BY DEF HasEvent
  <2>4. \A m \in rows : ~HasEvent(m)
    BY DEF HasEvent
  <2> HIDE DEF rows
  <2>5. /\ At(o, "backfill")' =>
              /\ \A m \in entries' \ openers'[o].entries : HasEvent(m)'
              /\ \A m \in openers'[o].entries :
                   HasEvent(m)' => \E e \in events' : e.id = BackfillId(m)
        /\ openers'[o].step \in {"projections", "lineage", "version", "open"} =>
              AllEntriesCovered'
    BY <2>2, <2>3, <2>4 DEF At, AllEntriesCovered, HasEvent
  <2> QED BY <1>2, <2>1, <2>5 DEF EntriesRead, BackfillId
<1>5. ASSUME NEW o \in Openers,
             \/ ReadVersion(o) \/ ReadProjections(o) \/ BackfillLineage(o)
             \/ SetVersion(o) \/ CutShort(o)
      PROVE  EntriesRead'
  <2>1. \A p \in Openers : p # o => openers'[p] = openers[p]
    BY <1>5 DEF ReadVersion, ReadProjections, BackfillLineage, SetVersion, CutShort, Goes, SchemaTypeOK
  <2>2. /\ openers'[o].step # "backfill"
        /\ openers'[o].step \in {"projections", "lineage", "version", "open"} =>
             openers[o].step \in {"projections", "lineage", "version", "open"}
    <3> USE DEF SchemaTypeOK, OpenerState, Goes, At
    <3>1. CASE ReadVersion(o)
      BY <3>1 DEF ReadVersion
    <3>2. CASE ReadProjections(o)
      BY <3>2 DEF ReadProjections
    <3>3. CASE BackfillLineage(o)
      BY <3>3 DEF BackfillLineage
    <3>4. CASE SetVersion(o)
      BY <3>4 DEF SetVersion
    <3>5. CASE CutShort(o)
      BY <3>5 DEF CutShort, Closed
    <3> QED BY <1>5, <3>1, <3>2, <3>3, <3>4, <3>5
  <2>3. AllEntriesCovered => AllEntriesCovered'
    BY DEF AllEntriesCovered, HasEvent
  <2> QED BY <1>2, <2>1, <2>2, <2>3 DEF EventsInv, EntriesRead, At, BackfillId
<1> QED BY <1>1, <1>3, <1>4, <1>5 DEF EventsInv

(* The backfill gives a first event to every entry it read, once.          *)
LEMMA BackfillPreservesEvents ==
  ASSUME SchemaTypeOK, EventsInv, NEW o \in Openers, BackfillMemory(o)
  PROVE  EventsInv'
<1> DEFINE missing == {m \in openers[o].entries : \A e \in events : e.id # BackfillId(m)}
           row(m) == [id |-> BackfillId(m), entry |-> m, created |-> TRUE, seq |-> frontier']
<1>1. events' = events \cup {row(m) : m \in missing} /\ entries' = entries
  BY DEF BackfillMemory
<1>2. \A m \in missing : ~HasEvent(m)
  BY DEF BackfillMemory, EventsInv, EntriesRead
<1>3. \A m \in openers[o].entries \ missing : HasEvent(m)
  BY DEF EventsInv, IdsNameEntries, HasEvent, BackfillId
<1>4. \A m \in entries \ openers[o].entries : HasEvent(m)
  BY DEF BackfillMemory, EventsInv, EntriesRead
<1> HIDE DEF missing
<1>5. \A e \in events' : e \in events \/ \E m \in missing : e = row(m)
  BY <1>1
<1>6. \A m \in missing : row(m) \in events'
  BY <1>1
<1>7. IdsNameEntries'
  BY <1>5 DEF EventsInv, IdsNameEntries, BackfillId
<1>8. CreatedUnique'
  <2> SUFFICES ASSUME NEW c \in events', NEW d \in events', c.entry = d.entry, c.created, d.created
               PROVE  c = d
    BY DEF CreatedUnique
  <2>1. CASE c \in events /\ d \in events
    BY <2>1 DEF EventsInv, CreatedUnique
  <2>2. ASSUME NEW m \in missing, c = row(m) \/ d = row(m)
        PROVE  c = d
    <3>1. c.entry = m /\ d.entry = m
      BY <2>2
    <3>2. \A e \in events : e.entry # m
      BY <1>2 DEF HasEvent
    <3>3. c = row(m) /\ d = row(m)
      <4>1. ASSUME NEW x \in events', x.entry = m
            PROVE  x = row(m)
        BY <1>5, <3>2, <4>1
      <4> QED BY <3>1, <4>1
    <3> QED BY <3>3
  <2> QED BY <2>1, <2>2, <1>5
<1>9. CreatedFirst'
  <2> SUFFICES ASSUME NEW e \in events'
               PROVE  \E c \in events' : c.entry = e.entry /\ c.created /\ (e # c => c.seq < e.seq)
    BY DEF CreatedFirst
  <2>1. CASE e \in events
    BY <2>1, <1>1 DEF EventsInv, CreatedFirst
  <2>2. CASE \E m \in missing : e = row(m)
    BY <2>2
  <2> QED BY <2>1, <2>2, <1>5
<1>10. AllEntriesCovered'
  <2>1. \A m \in missing : HasEvent(m)'
    BY <1>6 DEF HasEvent
  <2>2. \A m \in entries : HasEvent(m) => HasEvent(m)'
    BY <1>1 DEF HasEvent
  <2> QED BY <1>1, <1>3, <1>4, <2>1, <2>2 DEF AllEntriesCovered
<1>11. EntriesRead'
  <2> SUFFICES ASSUME NEW p \in Openers
               PROVE  /\ At(p, "backfill")' =>
                           /\ \A m \in entries' \ openers'[p].entries : HasEvent(m)'
                           /\ \A m \in openers'[p].entries :
                                HasEvent(m)' => \E e \in events' : e.id = BackfillId(m)
                      /\ openers'[p].step \in {"projections", "lineage", "version", "open"} =>
                           AllEntriesCovered'
    BY DEF EntriesRead, BackfillId
  <2>1. CASE p = o
    <3>1. openers'[o].step # "backfill"
      BY DEF BackfillMemory, Goes, AfterEntries, SchemaTypeOK, OpenerState
    <3> QED BY <2>1, <3>1, <1>10 DEF At
  <2>2. CASE p # o
    <3>1. openers'[p] = openers[p]
      BY <2>2 DEF BackfillMemory, Goes, SchemaTypeOK
    <3>2. ASSUME At(p, "backfill"), NEW m \in openers[p].entries
          PROVE  \E e \in events' : e.id = BackfillId(m)
      <4>1. CASE HasEvent(m)
        BY <1>1, <3>2, <4>1 DEF EventsInv, EntriesRead
      <4>2. CASE ~HasEvent(m)
        <5>1. m \in missing
          BY <1>3, <1>4, <4>2, <3>2 DEF SchemaTypeOK
        <5> QED BY <5>1, <1>6
      <4> QED BY <4>1, <4>2
    <3> QED BY <3>1, <3>2, <1>10, <1>1 DEF At, AllEntriesCovered
  <2> QED BY <2>1, <2>2
<1> QED BY <1>7, <1>8, <1>9, <1>11 DEF EventsInv

(* A session records events of entries that have one, or of new entries    *)
(* together with their first.                                              *)
LEMMA SessionPreservesEvents ==
  ASSUME SchemaTypeOK, EventsInv, NEW o \in Openers, NEW m \in Entries, NEW created \in BOOLEAN,
         At(o, "open"), Log(1), UNCHANGED openers,
         events' = events \cup Recorded(m, created),
         entries' = entries \cup {m},
         created <=> m \notin entries
  PROVE  EventsInv'
<1> DEFINE e0 == [id |-> [by |-> "random", entry |-> m, n |-> frontier'],
                  entry |-> m, created |-> created, seq |-> frontier']
<1>1. events' = events \cup {e0}
  BY DEF Recorded
<1>2. AllEntriesCovered
  BY DEF EventsInv, EntriesRead, At
<1>3. \A e \in events : e.seq < frontier'
  <2>1. PICK f \in Nat : f = frontier
    BY DEF SchemaTypeOK
  <2> QED BY <2>1 DEF SchemaTypeOK, Log, CreationRow
<1>4. created => \A e \in events : e.entry # m
  BY DEF SchemaTypeOK
<1>5. ~created => \E c \in events : c.entry = m /\ c.created
  BY <1>2 DEF AllEntriesCovered, HasEvent, EventsInv, CreatedFirst
<1>6. e0.entry = m /\ e0.created = created /\ e0.seq = frontier' /\ e0.id.entry = m
      /\ e0.id.by = "random"
  OBVIOUS
<1> HIDE DEF e0
<1>7. IdsNameEntries'
  BY <1>1, <1>6 DEF EventsInv, IdsNameEntries
<1>8. CreatedUnique'
  BY <1>1, <1>4, <1>6 DEF EventsInv, CreatedUnique
<1>9. CreatedFirst'
  BY <1>1, <1>3, <1>5, <1>6 DEF EventsInv, CreatedFirst
<1>10. \A x \in entries : HasEvent(x)' /\ HasEvent(x)
  BY <1>1, <1>2 DEF HasEvent, AllEntriesCovered
<1>11. HasEvent(m)'
  BY <1>1, <1>6 DEF HasEvent
<1>12. AllEntriesCovered'
  BY <1>10, <1>11 DEF AllEntriesCovered
<1>13. ASSUME NEW p \in Openers, At(p, "backfill"), NEW x \in openers[p].entries
       PROVE  \E e \in events' : e.id = BackfillId(x)
  <2>1. HasEvent(x)
    BY <1>10 DEF SchemaTypeOK
  <2>2. \E e \in events : e.id = BackfillId(x)
    BY <2>1, <1>13 DEF EventsInv, EntriesRead
  <2> QED BY <2>2, <1>1
<1>14. EntriesRead'
  BY <1>10, <1>11, <1>12, <1>13 DEF EntriesRead, At, BackfillId, SchemaTypeOK
<1> QED BY <1>7, <1>8, <1>9, <1>14 DEF EventsInv

(* Every step keeps what is known of the events.                           *)
LEMMA EventsPreserved ==
  ASSUME SchemaTypeOK, EventsInv, [SchemaNext]_schemaVars
  PROVE  EventsInv'
<1>1. CASE UNCHANGED schemaVars
  BY <1>1, EventsUnchanged DEF schemaVars
<1>2. ASSUME NEW o \in Openers,
             \/ ReadVersion(o) \/ ReadEntries(o) \/ ReadProjections(o)
             \/ BackfillLineage(o) \/ SetVersion(o) \/ CutShort(o)
      PROVE  EventsInv'
  <2>1. UNCHANGED <<entries, events>>
    BY <1>2 DEF ReadVersion, ReadEntries, ReadProjections, BackfillLineage, SetVersion, CutShort
  <2> QED BY <1>2, <2>1, EventsUnchanged
<1>3. ASSUME NEW o \in Openers, BackfillMemory(o)
      PROVE  EventsInv'
  BY <1>3, BackfillPreservesEvents
<1>4. ASSUME NEW o \in Openers, NEW m \in Entries, AdmitEntry(o, m)
      PROVE  EventsInv'
  BY <1>4, SessionPreservesEvents DEF AdmitEntry
<1>5. ASSUME NEW o \in Openers, NEW m \in Entries, NEW touched \in SUBSET DOMAIN projections,
             RecordEvent(o, m, touched)
      PROVE  EventsInv'
  <2>1. entries' = entries \cup {m} /\ m \in entries
    BY <1>5 DEF RecordEvent
  <2> QED BY <1>5, <2>1, SessionPreservesEvents DEF RecordEvent
<1>6. ASSUME NEW o \in Openers, NEW i \in ProjectionIds, NEW wildcard \in BOOLEAN,
             NEW reason \in {None, "state-changed"}, RegisterProjection(o, i, wildcard, reason)
      PROVE  EventsInv'
  BY <1>6, EventsUnchanged DEF RegisterProjection
<1> QED BY <1>1, <1>2, <1>3, <1>4, <1>5, <1>6 DEF SchemaNext, OpenStep, SessionStep

(* What older versions left behind satisfies the invariant.                *)
LEMMA SchemaInitInv == SchemaInit => SchemaIInv
<1> SUFFICES ASSUME SchemaInit PROVE SchemaIInv
  OBVIOUS
<1>1. PICK created \in SUBSET entries : events = LegacyEvents(created)
  BY DEF SchemaInit
<1>2. \A e \in events : /\ e.entry \in created /\ e.created /\ e.seq = 0 /\ e.id.entry = e.entry
                        /\ e \in CreationRow
                        /\ e = [id |-> [by |-> "random", entry |-> e.entry, n |-> 0],
                                entry |-> e.entry, created |-> TRUE, seq |-> 0]
  <2> DEFINE row(m) == [id |-> [by |-> "random", entry |-> m, n |-> 0], entry |-> m,
                        created |-> TRUE, seq |-> 0]
  <2>1. events = {row(m) : m \in created}
    BY <1>1 DEF LegacyEvents
  <2>2. created \subseteq Entries
    BY DEF SchemaInit
  <2>3. \A m \in created : row(m) \in CreationRow
    BY <2>2 DEF CreationRow, EventIds
  <2>4. \A e \in events : \E m \in created : e = row(m)
    BY <2>1
  <2>5. ASSUME NEW e \in events, NEW m \in created, e = row(m)
        PROVE  /\ e.entry = m /\ e.created /\ e.seq = 0 /\ e.id.entry = m
               /\ e \in CreationRow
    BY <2>3, <2>5
  <2> QED BY <2>4, <2>5
<1>3. \A o \in Openers : openers[o] = Closed
  BY DEF SchemaInit
<1>4. SchemaTypeOK
  <2>1. openers \in [Openers -> OpenerState]
    BY DEF SchemaInit, Closed, OpenerState
  <2>2. \A i \in DOMAIN projections : projections[i] \in ProjectionRow
    BY DEF SchemaInit
  <2>3. DOMAIN projections \subseteq ProjectionIds
    BY DEF SchemaInit
  <2>4. frontier = 0 /\ userVersion \in Nat /\ entries \subseteq Entries
    BY DEF SchemaInit, LogInit
  <2> QED BY <1>2, <1>3, <2>1, <2>2, <2>3, <2>4 DEF SchemaTypeOK, Closed
<1>5. IdsNameEntries /\ CreatedUnique /\ CreatedFirst
  <2>1. IdsNameEntries
    BY <1>2 DEF IdsNameEntries
  <2>2. CreatedFirst
    BY <1>2 DEF CreatedFirst
  <2>3. CreatedUnique
    <3> SUFFICES ASSUME NEW c \in events, NEW d \in events, c.entry = d.entry
                 PROVE  c = d
      BY DEF CreatedUnique
    <3>1. PICK m : m = c.entry
      OBVIOUS
    <3> DEFINE row == [id |-> [by |-> "random", entry |-> m, n |-> 0], entry |-> m,
                       created |-> TRUE, seq |-> 0]
    <3>2. c = row
      BY <1>2, <3>1
    <3>3. d = row
      BY <1>2, <3>1
    <3> QED BY <3>2, <3>3
  <2> QED BY <2>1, <2>2, <2>3
<1>6. EntriesRead
  BY <1>3 DEF EntriesRead, At, Closed
<1>7. LineageRead
  <2>1. userVersion >= LineageVersion => AllDeclaredFenced
    BY DEF SchemaInit, AllDeclaredFenced
  <2> QED BY <1>3, <2>1 DEF LineageRead, At, Closed
<1> QED BY <1>4, <1>5, <1>6, <1>7 DEF SchemaIInv

(* The invariant is inductive.                                             *)
LEMMA SchemaInvariant == SchemaSpec => []SchemaIInv
<1>1. SchemaIInv /\ [SchemaNext]_schemaVars => SchemaIInv'
  BY SchemaTypePreserved, EventsPreserved, LineagePreserved DEF SchemaIInv, EventsInv
<1> QED BY SchemaInitInv, <1>1, PTL DEF SchemaSpec

(* Tables and openers keep their types through every migration.            *)
THEOREM SchemaTypeCorrect == SchemaSpec => []SchemaTypeOK
<1>1. SchemaIInv => SchemaTypeOK
  BY DEF SchemaIInv
<1> QED BY <1>1, SchemaInvariant, PTL

(* However many processes migrate one store at once and die over it, no    *)
(* memory entry gets a second CREATED event, none is preceded by another   *)
(* event, and none lacks one in an open store.                             *)
THEOREM CreatedOnce == SchemaSpec => []CreatedOnceAndFirst
<1>1. ASSUME SchemaIInv PROVE CreatedOnceAndFirst
  <2> SUFFICES ASSUME NEW m \in entries
               PROVE  LET own == {e \in events : e.entry = m}
                      IN  /\ \A c, d \in own : (c.created /\ d.created) => c = d
                          /\ \A e \in own : \E c \in own : c.created /\ (e # c => c.seq < e.seq)
                          /\ (\E o \in Openers : At(o, "open")) => own # {}
    BY DEF CreatedOnceAndFirst
  <2>1. \A c, d \in events : (c.entry = d.entry /\ c.created /\ d.created) => c = d
    BY <1>1 DEF SchemaIInv, CreatedUnique
  <2>2. \A e \in events : \E c \in events :
          c.entry = e.entry /\ c.created /\ (e # c => c.seq < e.seq)
    BY <1>1 DEF SchemaIInv, CreatedFirst
  <2>3. (\E o \in Openers : At(o, "open")) => \E e \in events : e.entry = m
    BY <1>1 DEF SchemaIInv, EntriesRead, AllEntriesCovered, HasEvent, At
  <2> QED BY <2>1, <2>2, <2>3
<1> QED BY <1>1, SchemaInvariant, PTL

(* A store that says version 7, or that any process has open, holds no     *)
(* fresh projection whose dependencies were only declared.                 *)
THEOREM LineageFenced == SchemaSpec => []DeclaredLineageFenced
<1>1. SchemaIInv => DeclaredLineageFenced
  BY DEF SchemaIInv, DeclaredLineageFenced, LineageRead, AllDeclaredFenced, At
<1> QED BY <1>1, SchemaInvariant, PTL
=============================================================================
