--------------------------- MODULE FreshnessFence ---------------------------
(***************************************************************************)
(* What the store promises about context projections, without dependency   *)
(* keys, frontiers or captures: a published projection is an answer to its *)
(* request that never changes, it is published fresh only if it is the     *)
(* answer at that moment, and it stops being fresh, for good, no later     *)
(* than the answer changes.                                                *)
(***************************************************************************)
CONSTANTS Requests, Answers, ProjectionIds

VARIABLES
  answer,    \* the current answer to every request
  published  \* id -> [request, content, fresh]

fenceVars == <<answer, published>>

Accurate(i) == published[i].fresh =>
                 published[i].content = answer[published[i].request]

FenceInit == /\ answer \in [Requests -> Answers]
             /\ published = [i \in {} |-> {}]

Publication == [request : Requests, content : Answers, fresh : BOOLEAN]

(* A write: answers change and some projections stop being fresh, among    *)
(* them all those whose answer changed.                                    *)
Change ==
  /\ answer' \in [Requests -> Answers]
  /\ DOMAIN published' = DOMAIN published
  /\ \A i \in DOMAIN published :
       /\ published'[i] \in {published[i], [published[i] EXCEPT !.fresh = FALSE]}
       /\ Accurate(i)'

(* A registration; the content may be outdated already, but not if fresh.  *)
Publish(i) ==
  /\ i \notin DOMAIN published
  /\ UNCHANGED answer
  /\ DOMAIN published' = DOMAIN published \cup {i}
  /\ published'[i] \in Publication
  /\ Accurate(i)'
  /\ \A j \in DOMAIN published : published'[j] = published[j]

FenceNext == Change \/ \E i \in ProjectionIds : Publish(i)

FenceSpec == FenceInit /\ [][FenceNext]_fenceVars
=============================================================================
