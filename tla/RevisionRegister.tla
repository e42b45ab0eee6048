-------------------------- MODULE RevisionRegister --------------------------
(***************************************************************************)
(* What the epistemic store promises about the current claim of a key: one *)
(* register per key, whose value changes only by adopting a claim never    *)
(* adopted before over the value it has at that moment, and a record of    *)
(* those adoptions that is never rewritten.                                *)
(***************************************************************************)
CONSTANTS Keys, ClaimIds, None

VARIABLES current,   \* the adopted claim of each key, None before the first
          revisions  \* every adoption made so far: [key, old, new]

registerVars == <<current, revisions>>

RegisterInit == /\ current = [k \in Keys |-> None]
                /\ revisions = {}

Adopt(k, c) ==
  /\ \A e \in revisions : e.new # c
  /\ current' = [current EXCEPT ![k] = c]
  /\ revisions' = revisions \cup {[key |-> k, old |-> current[k], new |-> c]}

RegisterNext == \E k \in Keys, c \in ClaimIds : Adopt(k, c)

RegisterSpec == RegisterInit /\ [][RegisterNext]_registerVars
=============================================================================
