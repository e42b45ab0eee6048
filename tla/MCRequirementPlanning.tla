----------------------- MODULE MCRequirementPlanning -----------------------
(* Small instances of RequirementPlanning for TLC.                         *)
EXTENDS RequirementPlanning, TLC

CONSTANTS c1, c2, c3, w1, x1

Key(s, p) == [subject |-> s, predicate |-> p]

(* Two subjects share a predicate, one of them a token with it as well; one *)
(* of the subjects has another predicate.                                   *)
MCKeys == {Key("alpha", "memory_gb"), Key("beta-memory", "memory_gb"), Key("alpha", "os")}
MCSubjectTerms == "alpha" :> {"alpha", "machine"} @@ "beta-memory" :> {"beta", "machine", "memory"}
MCPredicateTerms == "memory_gb" :> {"memory", "gb"} @@ "os" :> {"os"}
MCValueTerms == c1 :> {} @@ c2 :> {} @@ c3 :> {"beta"}
MCPosition == [k \in MCKeys |-> IF k.subject = "beta-memory" THEN 2
                                ELSE IF k.predicate = "os" THEN 1 ELSE 0]

Ask(id, query) ==
  [id |-> id, query |-> query, known |-> None, valid |-> None, exact |-> {}]

(* The predicate alone, with one subject, with both subjects, with another  *)
(* predicate, and a value alone, two of them under one id; the predicate as *)
(* it is valid at 1; a query under the id that clients give for derived     *)
(* requests; and one with an exact requirement of its own.                  *)
MCRequests == {Ask("q1", {"memory"}), Ask("q1", {"memory", "alpha"}),
               Ask("q2", {"memory", "alpha", "beta"}), Ask("q3", {"memory", "machine", "os"}),
               Ask("q4", {"beta"}), [Ask("q5", {"memory"}) EXCEPT !.valid = 1],
               Ask("d1", {"os"}), [Ask("q6", {"os"}) EXCEPT !.exact = {Key("alpha", "os")}]}

(* The second is over at 1.                                                *)
MCEnded == {[from |-> 0, to |-> 9], [from |-> 0, to |-> 1]}

MCSymmetry == Permutations({c1, c2})
=============================================================================
