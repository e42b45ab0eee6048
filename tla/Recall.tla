------------------------------- MODULE Recall -------------------------------
(***************************************************************************)
(* Claims and their memory together: what a reader of one snapshot recalls *)
(* of a key, as the compilers (context/compiler.py, context/coverage.py)   *)
(* and the candidate generator (context/candidates.py) do.                 *)
(***************************************************************************)
EXTENDS EpistemicStore, MemoryLifecycle

ASSUME TargetsAssumption == Targets = ClaimIds

(* What a compiler includes of a resolved state: the operative claim and   *)
(* its competitors, as far as their memory is ACTIVE; the others are       *)
(* omitted and leave a gap.  Evidence follows from the included claims.    *)
Included(state) ==
  LET found == IF state.status = "MISSING" THEN {}
               ELSE state.competing \cup {state.operative}
      active == {c \in found : lifecycle[c] = "ACTIVE"}
  IN  [operative |-> state.operative, competing |-> state.competing,
       items |-> active, omitted |-> found \ active]

Recalled(k, K, p) == Included(ResolveState(k, K, p))

Recollection == [operative : ClaimIds \cup {None}, competing : SUBSET ClaimIds,
                 items : SUBSET ClaimIds, omitted : SUBSET ClaimIds]

(* _dependency_keys_changed_since.  A MemoryEntry row is logged in one     *)
(* transaction with its CREATED event, which stands for both here.         *)
ChangedSince(f) ==
  {claims[c].key : c \in {x \in DOMAIN claims : claims[x].seq > f}}
    \cup {claims[r.source].key : r \in {x \in relations : x.seq > f}}
    \cup {e.entry : e \in {x \in memoryEvents : x.seq > f /\ x.kind \notin Telemetry}}

(* The transaction of a claim bundle admits its claim to memory.           *)
CommitAndAdmit(w, c, b) == CommitClaimBundle(w, c, b) /\ AdmitMemory(c)
=============================================================================
