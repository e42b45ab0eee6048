--------------------------- MODULE LifecycleReplay ---------------------------
(***************************************************************************)
(* The loop of rebuild_memory_lifecycle_states                             *)
(* (storage/sqlite/memory_store.py) over the events of one entry, event by *)
(* event.  MemoryLifecycle states its result (StateBefore) and where it    *)
(* raises (HistoryIntact) in closed form.                                  *)
(***************************************************************************)
EXTENDS MemoryLifecycle

\* Mutant: telemetry that was recorded on a forgotten entry makes it active.
ReadEventRevives(m, n, state) ==
  LET here == {e \in memoryEvents : e.entry = m /\ e.seq = n}
      kind == (CHOOSE e \in here : TRUE).kind
  IN  IF here = {} \/ state = "RAISED" THEN state
      ELSE IF state = "UNREAD" THEN IF kind = "CREATED" THEN "ACTIVE" ELSE "RAISED"
      ELSE IF state \in AllowedFrom(kind)
        THEN IF kind \in DOMAIN Outcome THEN Outcome[kind] ELSE "ACTIVE"
      ELSE "RAISED"

(* One iteration: the first event must be CREATED, every further one is    *)
(* applied by next_memory_state.  "UNREAD" is held before the first event, *)
(* "RAISED" once the loop has raised.                                      *)
ReadEvent(m, n, state) ==
  LET here == {e \in memoryEvents : e.entry = m /\ e.seq = n}
      kind == (CHOOSE e \in here : TRUE).kind
  IN  IF here = {} \/ state = "RAISED" THEN state
      ELSE IF state = "UNREAD" THEN IF kind = "CREATED" THEN "ACTIVE" ELSE "RAISED"
      ELSE IF state \in AllowedFrom(kind) THEN NextState(state, kind) ELSE "RAISED"

(* What the loop holds after each position of the log.                     *)
EventReplay(m) ==
  LET read[n \in 0..frontier] ==
        IF n = 0 THEN "UNREAD" ELSE ReadEvent(m, n, read[n - 1])
  IN  read

(* Rebuilding raises for no entry and writes what the column holds already, *)
(* whatever telemetry and changes of state were recorded in between.        *)
RebuildChangesNothing ==
  \A m \in DOMAIN lifecycle : EventReplay(m)[frontier] = lifecycle[m]
=============================================================================
