---------------------------- MODULE SemanticLog ----------------------------
(***************************************************************************)
(* The semantic log that orders every canonical write of the store         *)
(* (storage/sqlite/store.py).  Write transactions are serialized by        *)
(* BEGIN IMMEDIATE, and a failed one rolls back, so a transaction is one   *)
(* step.  The log is represented by its length and by the position "seq"   *)
(* that each logged row got; rows are never updated or deleted.            *)
(***************************************************************************)
EXTENDS Integers, FiniteSets

CONSTANTS MaxFrontier, \* bound on the length of the log
          None         \* SQL NULL / Python None

ASSUME MaxFrontierAssumption == MaxFrontier \in Nat

VARIABLE frontier      \* MAX(semantic_log.seq), 0 when the log is empty

LogInit == frontier = 0

(* A transaction appends n entries, at positions frontier + 1 .. frontier + n. *)
Log(n) == /\ frontier + n <= MaxFrontier
          /\ frontier' = frontier + n

(* The row of a nonempty set of logged rows that was logged last.          *)
Latest(rows) == CHOOSE r \in rows : \A q \in rows : q.seq <= r.seq

(* The id whose row was logged first, among a nonempty set of ids.         *)
Earliest(rows, ids) == CHOOSE c \in ids : \A d \in ids : rows[c].seq <= rows[d].seq

(* "ORDER BY seq", cut off at a position: what a replay has seen before n. *)
LoggedBefore(rows, n) == {r \in rows : r.seq < n}
=============================================================================
