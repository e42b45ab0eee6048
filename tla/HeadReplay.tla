----------------------------- MODULE HeadReplay -----------------------------
(****************************************************************************)
(* The loops of storage/sqlite/resolution.py, entry by entry: the replay of *)
(* head_for_key over the timeline of a key, and the walk of resolve_state   *)
(* along revision_parent.  EpistemicStore states what they find as sets     *)
(* (HeadForKey, Operative) and where they raise (LineageIntact).            *)
(****************************************************************************)
EXTENDS EpistemicStore

(* What head_for_key holds before the first entry.                         *)
Unread == [head |-> None, parent |-> [c \in ClaimIds |-> None], raised |-> FALSE]

(* A revision of a head: it must be the one that is held.                  *)
Revised(was, r) ==
  IF r.target # was.head THEN [was EXCEPT !.raised = TRUE]
  ELSE [head |-> r.source, parent |-> [was.parent EXCEPT ![r.source] = r.target],
        raised |-> FALSE]

\* Mutant: revision_parent is not kept.
ReadEntryUnlinked(k, K, n, was) ==
  LET added == {c \in Visible(k, K) : claims[c].seq = n}
      moves == {r \in Revisions(k, K) : r.seq = n}
  IN  IF was.raised THEN was
      ELSE IF moves # {} THEN [Revised(was, CHOOSE r \in moves : TRUE) EXCEPT !.parent = was.parent]
      ELSE IF added # {} /\ was.head = None THEN [was EXCEPT !.head = CHOOSE c \in added : TRUE]
      ELSE was

(* One iteration: position n of the log, if the timeline has an entry there. *)
(* Relations of other kinds are skipped.                                     *)
ReadEntry(k, K, n, was) ==
  LET added == {c \in Visible(k, K) : claims[c].seq = n}
      moves == {r \in Revisions(k, K) : r.seq = n}
  IN  IF was.raised THEN was
      ELSE IF moves # {} THEN Revised(was, CHOOSE r \in moves : TRUE)
      ELSE IF added # {} /\ was.head = None THEN [was EXCEPT !.head = CHOOSE c \in added : TRUE]
      ELSE was

(* head_for_key: what it holds after each position.                        *)
HeadReplay(k, K) ==
  LET read[n \in 0..frontier] ==
        IF n = 0 THEN Unread ELSE ReadEntry(k, K, n, read[n - 1])
  IN  read

(* resolve_state, from a claim of the lineage on: the first claim along    *)
(* revision_parent that is valid at p.                                     *)
Walk(parent, p) ==
  LET found[c \in DOMAIN claims \cup {None}] ==
        IF c = None THEN None
        ELSE IF ClaimValidAt(c, p) THEN c ELSE found[parent[c]]
  IN  found

(* No query raises, at any knowledge and valid time: the replay finds the  *)
(* head of the closed form, revision_parent leads to claims that exist and *)
(* were logged earlier, so that the walk ends, and the walk stops at the   *)
(* last claim of the lineage that is valid, which resolve_state answers.   *)
ReplayAnswersQueries ==
  \A k \in Keys, K \in Times \cup {None} :
    LET run == HeadReplay(k, K)[frontier]
    IN  /\ ~run.raised /\ run.head = HeadForKey(k, K)
        /\ \A c \in DOMAIN claims :
             run.parent[c] # None => /\ run.parent[c] \in DOMAIN claims
                                     /\ claims[run.parent[c]].seq < claims[c].seq
        /\ \A p \in Times : Walk(run.parent, p)[run.head] = Operative(k, K, p)
=============================================================================
