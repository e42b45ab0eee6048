--------------------------- MODULE CognitionProofs ---------------------------
(***************************************************************************)
(* Proofs about CognitiveRuntime and ContextNeeds: the safety of model     *)
(* invocations for any number of hosts, requests and artifacts and for     *)
(* clocks that are set back; and on top of it, for any number of           *)
(* coordinators and compilers, that a need is decided once, on a current   *)
(* answer if it is accepted, and that chains of accepted needs of any      *)
(* length never widen their bounds.                                        *)
(***************************************************************************)
EXTENDS ContextNeeds, FiniteSetTheorems, TLAPS

Made(v) == {a \in DOMAIN artifacts : artifacts[a].invocation = v}

(* What FreshnessFence keeps.                                              *)
FenceInv ==
  /\ answer \in [Requests -> Answers]
  /\ \A i \in DOMAIN published : published[i] \in Publication /\ Accurate(i)

(* The host of an admitted request is the only one about to start it, and  *)
(* what is running or failing was started.                                 *)
StagesInv ==
  /\ \A h \in Hosts : hosts[h] # None =>
       /\ hosts[h].stage = "admitted" => hosts[h].id \in DOMAIN cognitive \ DOMAIN invocations
       /\ hosts[h].stage \in {"running", "failing"} => hosts[h].id \in DOMAIN invocations
  /\ \A g, h \in Hosts :
       (At(g, "admitted") /\ At(h, "admitted") /\ hosts[g].id = hosts[h].id) => g = h

(* OutcomesMatchArtifacts without counting.                                *)
OutcomesInv ==
  \A v \in DOMAIN invocations :
    /\ Succeeded(v) => \E a \in DOMAIN artifacts : Made(v) = {a}
    /\ ~Succeeded(v) => Made(v) = {}
    /\ Terminal(v) => invocations[v].started <= invocations[v].completed
    /\ \A a \in Made(v) : /\ invocations[v].started <= artifacts[a].created
                          /\ artifacts[a].created <= invocations[v].completed

(* What has no completion has no error.                                    *)
OpenInv == \A v \in DOMAIN invocations : ~Terminal(v) => ~invocations[v].failed

RuntimeIInv == RuntimeTypeOK /\ FenceInv /\ StagesInv /\ OutcomesInv /\ OpenInv

(* Rows that a decision can rest on are never changed.                     *)
RowsKept ==
  /\ \A a \in DOMAIN artifacts : a \in DOMAIN artifacts' /\ artifacts'[a] = artifacts[a]
  /\ \A v \in DOMAIN cognitive : v \in DOMAIN cognitive' /\ cognitive'[v] = cognitive[v]
  /\ \A v \in DOMAIN invocations :
       v \in DOMAIN invocations' /\ (Terminal(v) => invocations'[v] = invocations[v])

-----------------------------------------------------------------------------
LEMMA InitRuntime == CognitiveInit => RuntimeIInv
  BY DEF CognitiveInit, FenceInit, RuntimeIInv, RuntimeTypeOK, FenceInv, StagesInv,
         OutcomesInv, OpenInv, At

LEMMA OutcomesCounted == RuntimeIInv => OutcomesMatchArtifacts
<1> SUFFICES ASSUME RuntimeIInv, NEW v \in DOMAIN invocations
             PROVE  /\ Cardinality(Made(v)) = (IF Succeeded(v) THEN 1 ELSE 0)
                    /\ Terminal(v) => invocations[v].started <= invocations[v].completed
                    /\ \A a \in Made(v) : /\ invocations[v].started <= artifacts[a].created
                                          /\ artifacts[a].created <= invocations[v].completed
  BY DEF OutcomesMatchArtifacts, Made
<1>1. CASE Succeeded(v)
  <2>1. PICK a \in DOMAIN artifacts : Made(v) = {a}
    BY <1>1 DEF RuntimeIInv, OutcomesInv
  <2>2. Cardinality(Made(v)) = 1
    BY <2>1, FS_Singleton
  <2> QED BY <1>1, <2>2 DEF RuntimeIInv, OutcomesInv
<1>2. CASE ~Succeeded(v)
  <2>1. Cardinality(Made(v)) = 0
    BY <1>2, FS_EmptySet DEF RuntimeIInv, OutcomesInv
  <2> QED BY <1>2, <2>1 DEF RuntimeIInv, OutcomesInv
<1> QED BY <1>1, <1>2

-----------------------------------------------------------------------------
(* Steps that leave the tables of invocations and artifacts alone preserve *)
(* what is said of them.                                                   *)
LEMMA OutcomesUntouched ==
  ASSUME OutcomesInv, OpenInv, UNCHANGED <<invocations, artifacts>>
  PROVE  OutcomesInv' /\ OpenInv'
  BY DEF OutcomesInv, OpenInv, Made, Succeeded, Terminal

LEMMA FenceUntouched ==
  ASSUME FenceInv, UNCHANGED fenceVars
  PROVE  FenceInv'
  BY DEF FenceInv, fenceVars, Accurate

(* A host moves on or is done: with the tables of requests and invocations *)
(* as they are, no other host minds.                                       *)
LEMMA HostMoves ==
  ASSUME RuntimeIInv, NEW h \in Hosts, hosts[h] # None,
         NEW next \in HostState \cup {None},
         hosts' = [hosts EXCEPT ![h] = next],
         next # None => /\ next.stage \in {"failing", "raised", "dead"}
                        /\ next.stage = "failing" => next.id \in DOMAIN invocations,
         DOMAIN cognitive' = DOMAIN cognitive, DOMAIN invocations' = DOMAIN invocations
  PROVE  StagesInv' /\ hosts' \in [Hosts -> HostState \cup {None}]
<1>1. hosts \in [Hosts -> HostState \cup {None}]
  BY DEF RuntimeIInv, RuntimeTypeOK
<1>2. hosts' \in [Hosts -> HostState \cup {None}]
  BY <1>1
<1>3. \A g \in Hosts : hosts'[g] = IF g = h THEN next ELSE hosts[g]
  BY <1>1
<1>4. \A g \in Hosts : At(g, "admitted")' => g # h /\ At(g, "admitted") /\ hosts'[g] = hosts[g]
  BY <1>3 DEF At
<1>5. \A g, k \in Hosts :
        (At(g, "admitted")' /\ At(k, "admitted")' /\ hosts'[g].id = hosts'[k].id) => g = k
  BY <1>4 DEF RuntimeIInv, StagesInv
<1>6. \A g \in Hosts : hosts'[g] # None =>
        /\ hosts'[g].stage = "admitted" =>
             hosts'[g].id \in DOMAIN cognitive' \ DOMAIN invocations'
        /\ hosts'[g].stage \in {"running", "failing"} => hosts'[g].id \in DOMAIN invocations'
  BY <1>3 DEF RuntimeIInv, StagesInv
<1> QED BY <1>2, <1>5, <1>6 DEF StagesInv

-----------------------------------------------------------------------------
LEMMA CreateStep ==
  ASSUME RuntimeIInv, NEW h \in Hosts, NEW v \in InvocationIds, NEW i \in ProjectionIds,
         CreateCognitiveRequest(h, v, i)
  PROVE  RuntimeIInv' /\ RowsKept
<1> USE DEF CreateCognitiveRequest, RuntimeIInv
<1>1. FenceInv' /\ OutcomesInv' /\ OpenInv'
  BY FenceUntouched, OutcomesUntouched
<1>2. UNCHANGED <<answer, published, clock, invocations, artifacts>>
  BY DEF fenceVars
<1>3. /\ DOMAIN cognitive' = DOMAIN cognitive \cup {v}
      /\ cognitive'[v] = i
      /\ \A x \in DOMAIN cognitive : x # v /\ cognitive'[x] = cognitive[x]
  OBVIOUS
<1>4. /\ hosts \in [Hosts -> HostState \cup {None}]
      /\ [stage |-> "admitted", id |-> v] \in HostState
  BY DEF RuntimeTypeOK, HostState
<1>5. /\ hosts' \in [Hosts -> HostState \cup {None}]
      /\ hosts'[h] = [stage |-> "admitted", id |-> v]
      /\ \A g \in Hosts \ {h} : hosts'[g] = hosts[g]
  BY <1>4
<1>6. RuntimeTypeOK'
  BY <1>2, <1>3, <1>5 DEF RuntimeTypeOK
<1>7. v \notin DOMAIN invocations
  BY DEF RuntimeTypeOK
<1>8. \A g \in Hosts : hosts'[g] # None =>
        /\ hosts'[g].stage = "admitted" =>
             hosts'[g].id \in DOMAIN cognitive' \ DOMAIN invocations'
        /\ hosts'[g].stage \in {"running", "failing"} => hosts'[g].id \in DOMAIN invocations'
  BY <1>2, <1>3, <1>5, <1>7 DEF StagesInv
<1>9. \A g \in Hosts \ {h} : At(g, "admitted")' => At(g, "admitted") /\ hosts'[g].id # v
  BY <1>5 DEF StagesInv, At
<1>10. \A g, k \in Hosts :
         (At(g, "admitted")' /\ At(k, "admitted")' /\ hosts'[g].id = hosts'[k].id) => g = k
  BY <1>5, <1>9 DEF StagesInv
<1>11. StagesInv'
  BY <1>8, <1>10 DEF StagesInv
<1>12. RowsKept
  BY <1>2, <1>3, <1>6 DEF RowsKept, RuntimeTypeOK
<1> QED BY <1>1, <1>6, <1>11, <1>12

LEMMA StartStep ==
  ASSUME RuntimeIInv, NEW h \in Hosts, NEW t \in Times, StartModelInvocation(h, t)
  PROVE  RuntimeIInv' /\ RowsKept
<1> DEFINE v == hosts[h].id
           row == [started |-> t, completed |-> None, failed |-> FALSE]
<1> USE DEF RuntimeIInv
<1>1. FenceInv' /\ UNCHANGED <<answer, published, cognitive, artifacts>> /\ clock' = t
  BY FenceUntouched DEF StartModelInvocation, fenceVars
<1>2. /\ hosts[h] \in HostState /\ hosts[h] # None /\ hosts[h].stage = "admitted"
      /\ hosts \in [Hosts -> HostState \cup {None}]
  BY DEF RuntimeTypeOK, StartModelInvocation, At
<1>3. v \in InvocationIds /\ v \in DOMAIN cognitive \ DOMAIN invocations
  BY <1>2 DEF StagesInv, HostState
<1>4. /\ DOMAIN invocations' = DOMAIN invocations \cup {v}
      /\ invocations'[v] = row
      /\ \A x \in DOMAIN invocations : x # v /\ invocations'[x] = invocations[x]
  BY <1>3 DEF StartModelInvocation
<1>5. row \in InvocationRow /\ row.completed = None
  BY DEF InvocationRow
<1>6. hosts' = [hosts EXCEPT ![h] = [hosts[h] EXCEPT !.stage = "running"]]
  BY DEF StartModelInvocation, Enter
<1>7. /\ [hosts[h] EXCEPT !.stage = "running"] \in HostState
      /\ [hosts[h] EXCEPT !.stage = "running"].stage = "running"
      /\ [hosts[h] EXCEPT !.stage = "running"].id = v
  BY <1>2 DEF HostState
<1> HIDE DEF v, row
<1>8. /\ hosts' \in [Hosts -> HostState \cup {None}]
      /\ hosts'[h].stage = "running" /\ hosts'[h].id = v
      /\ \A g \in Hosts \ {h} : hosts'[g] = hosts[g]
  BY <1>2, <1>6, <1>7
<1>9. RuntimeTypeOK'
  BY <1>1, <1>3, <1>4, <1>5, <1>8 DEF RuntimeTypeOK
<1>10. \A g \in Hosts \ {h} : At(g, "admitted")' => At(g, "admitted") /\ hosts'[g].id # v
  BY <1>2, <1>8 DEF StagesInv, At, v
<1>11. \A g \in Hosts : hosts'[g] # None =>
        /\ hosts'[g].stage = "admitted" =>
             hosts'[g].id \in DOMAIN cognitive' \ DOMAIN invocations'
        /\ hosts'[g].stage \in {"running", "failing"} => hosts'[g].id \in DOMAIN invocations'
  BY <1>1, <1>4, <1>8, <1>10 DEF StagesInv, At
<1>12. \A g, k \in Hosts :
         (At(g, "admitted")' /\ At(k, "admitted")' /\ hosts'[g].id = hosts'[k].id) => g = k
  BY <1>8, <1>10 DEF StagesInv, At
<1>13. StagesInv'
  BY <1>11, <1>12 DEF StagesInv
<1>14. Made(v) = {}
  BY <1>3 DEF Made, RuntimeTypeOK
<1>15. \A x : Made(x)' = Made(x)
  BY <1>1 DEF Made
<1>16. OutcomesInv'
  BY <1>1, <1>4, <1>5, <1>14, <1>15 DEF OutcomesInv, Succeeded, Terminal
<1>17. OpenInv'
  BY <1>4 DEF OpenInv, Terminal, row
<1>18. RowsKept
  BY <1>1, <1>4 DEF RowsKept
<1> QED BY <1>1, <1>9, <1>13, <1>16, <1>17, <1>18

(* A step of a host that touches neither requests nor invocations.         *)
LEMMA OnlyHostMoves ==
  ASSUME RuntimeIInv, NEW h \in Hosts, hosts[h] # None,
         NEW next \in HostState \cup {None},
         hosts' = [hosts EXCEPT ![h] = next],
         next # None => /\ next.stage \in {"failing", "raised", "dead"}
                        /\ next.stage = "failing" => next.id \in DOMAIN invocations,
         UNCHANGED <<fenceVars, cognitive, invocations, artifacts>>, clock' \in Times
  PROVE  RuntimeIInv' /\ RowsKept
<1>1. StagesInv' /\ hosts' \in [Hosts -> HostState \cup {None}]
  BY HostMoves
<1>2. FenceInv' /\ OutcomesInv' /\ OpenInv'
  BY FenceUntouched, OutcomesUntouched DEF RuntimeIInv
<1>3. RuntimeTypeOK'
  BY <1>1 DEF RuntimeIInv, RuntimeTypeOK, fenceVars
<1> QED BY <1>1, <1>2, <1>3 DEF RuntimeIInv, RowsKept

LEMMA RefuseStep ==
  ASSUME RuntimeIInv, NEW h \in Hosts, RefuseModelInvocation(h)
  PROVE  RuntimeIInv' /\ RowsKept
  BY OnlyHostMoves DEF RefuseModelInvocation, Leave, At, RuntimeIInv, RuntimeTypeOK

LEMMA FailsStep ==
  ASSUME RuntimeIInv, NEW h \in Hosts, AdapterFails(h)
  PROVE  RuntimeIInv' /\ RowsKept
<1> DEFINE next == [hosts[h] EXCEPT !.stage = "failing"]
<1>1. hosts[h] \in HostState /\ hosts[h] # None /\ hosts[h].id \in DOMAIN invocations
  BY DEF RuntimeIInv, RuntimeTypeOK, StagesInv, AdapterFails, At
<1>2. next \in HostState /\ next.stage = "failing" /\ next.id = hosts[h].id
  BY <1>1 DEF HostState
<1>3. hosts' = [hosts EXCEPT ![h] = next] /\ clock' \in Times
  BY DEF AdapterFails, Raised, Enter, RuntimeIInv, RuntimeTypeOK
<1> HIDE DEF next
<1> QED BY <1>1, <1>2, <1>3, OnlyHostMoves DEF AdapterFails

LEMMA RefuseFailureStep ==
  ASSUME RuntimeIInv, NEW h \in Hosts, NEW t \in Times, RefuseFailure(h, t)
  PROVE  RuntimeIInv' /\ RowsKept
  BY OnlyHostMoves DEF RefuseFailure, Leave, At

LEMMA LockStep ==
  ASSUME RuntimeIInv, NEW h \in Hosts, LockTimesOut(h)
  PROVE  RuntimeIInv' /\ RowsKept
<1> DEFINE next == [hosts[h] EXCEPT !.stage = "raised"]
<1>1. CASE At(h, "admitted") /\ Leave(h)
  BY <1>1, OnlyHostMoves DEF LockTimesOut, Leave, At, RuntimeIInv, RuntimeTypeOK
<1>2. CASE At(h, "failing") /\ Enter(h, "raised")
  <2>1. hosts[h] \in HostState /\ hosts[h] # None
    BY <1>2 DEF RuntimeIInv, RuntimeTypeOK, At
  <2>2. next \in HostState /\ next.stage = "raised"
    BY <2>1 DEF HostState
  <2>3. hosts' = [hosts EXCEPT ![h] = next] /\ clock' \in Times
    BY <1>2 DEF LockTimesOut, Enter, RuntimeIInv, RuntimeTypeOK
  <2> HIDE DEF next
  <2> QED BY <2>1, <2>2, <2>3, OnlyHostMoves DEF LockTimesOut
<1> QED BY <1>1, <1>2 DEF LockTimesOut

LEMMA EscapeStep ==
  ASSUME RuntimeIInv, NEW h \in Hosts, EscapeHandler(h)
  PROVE  RuntimeIInv' /\ RowsKept
  BY OnlyHostMoves DEF EscapeHandler, Leave, At, RuntimeIInv, RuntimeTypeOK

LEMMA DeathStep ==
  ASSUME RuntimeIInv, NEW h \in Hosts, HostDies(h)
  PROVE  RuntimeIInv' /\ RowsKept
<1> DEFINE next == [hosts[h] EXCEPT !.stage = "dead"]
<1>1. hosts[h] \in HostState /\ hosts[h] # None
  BY DEF RuntimeIInv, RuntimeTypeOK, HostDies
<1>2. next \in HostState /\ next.stage = "dead"
  BY <1>1 DEF HostState
<1>3. hosts' = [hosts EXCEPT ![h] = next] /\ clock' \in Times
  BY DEF HostDies, Enter, RuntimeIInv, RuntimeTypeOK
<1> HIDE DEF next
<1> QED BY <1>1, <1>2, <1>3, OnlyHostMoves DEF HostDies

(* An invocation that is open has nothing to its name, so the artifact of  *)
(* its completion is its only one.                                         *)
LEMMA CompleteStep ==
  ASSUME RuntimeIInv, NEW h \in Hosts, NEW a \in ArtifactIds, NEW kind \in {"need", "text"},
         NEW created \in Times, NEW completed \in Times,
         CompleteModelInvocation(h, a, kind, created, completed)
  PROVE  RuntimeIInv' /\ RowsKept
<1> USE DEF RuntimeIInv
<1>0. PICK v \in InvocationIds : v = hosts[h].id
  BY DEF CompleteModelInvocation, At, RuntimeTypeOK, HostState
<1>1. FenceInv' /\ UNCHANGED <<answer, published, cognitive>> /\ clock' = completed
  BY FenceUntouched DEF CompleteModelInvocation, fenceVars
<1>2. /\ hosts[h] # None /\ hosts[h].stage = "running" /\ a \notin DOMAIN artifacts
      /\ ~Terminal(v) /\ hosts' = [hosts EXCEPT ![h] = None]
      /\ invocations[v].started <= created /\ created <= completed
      /\ invocations' = [invocations EXCEPT ![v].completed = completed]
  BY <1>0 DEF CompleteModelInvocation, At, Leave, Completable
<1>3. v \in DOMAIN invocations
  BY <1>0, <1>2 DEF StagesInv
<1> DEFINE done == [invocations[v] EXCEPT !.completed = completed]
           made == [invocation |-> v, kind |-> kind, created |-> created]
<1>4. invocations[v] \in InvocationRow
  BY <1>3 DEF RuntimeTypeOK
<1>5. /\ done \in InvocationRow /\ done.completed = completed /\ completed # None
      /\ done.started = invocations[v].started /\ done.failed = invocations[v].failed
  BY <1>4, NoneAssumption DEF InvocationRow
<1>6. /\ DOMAIN invocations' = DOMAIN invocations /\ invocations'[v] = done
      /\ \A x \in DOMAIN invocations \ {v} : invocations'[x] = invocations[x]
  BY <1>2, <1>3
<1>7. /\ DOMAIN artifacts' = DOMAIN artifacts \cup {a} /\ artifacts'[a] = made
      /\ \A x \in DOMAIN artifacts : x # a /\ artifacts'[x] = artifacts[x]
  BY <1>0, <1>2 DEF CompleteModelInvocation, WithArtifact
<1>8. made \in ArtifactRow /\ made.invocation = v /\ made.created = created
  BY <1>3 DEF ArtifactRow, RuntimeTypeOK
<1>9. StagesInv' /\ hosts' \in [Hosts -> HostState \cup {None}]
  BY <1>1, <1>2, <1>6, HostMoves
<1> HIDE DEF done, made
<1>10. RuntimeTypeOK'
  BY <1>1, <1>3, <1>5, <1>6, <1>7, <1>8, <1>9 DEF RuntimeTypeOK
<1>11. Made(v) = {} /\ Made(v)' = {a}
  BY <1>2, <1>3, <1>7, <1>8 DEF OutcomesInv, Succeeded, Made
<1>12. \A x \in DOMAIN invocations \ {v} : Made(x)' = Made(x)
  BY <1>7, <1>8 DEF Made
<1>13. \A x \in DOMAIN invocations \ {v} :
         /\ Succeeded(x)' <=> Succeeded(x)
         /\ Terminal(x)' <=> Terminal(x)
         /\ \A b \in Made(x) : artifacts'[b] = artifacts[b]
  BY <1>6, <1>7 DEF Succeeded, Terminal, Made
<1>14. invocations[v].failed = FALSE
  BY <1>2, <1>3 DEF OpenInv
<1>15. Terminal(v)' /\ Succeeded(v)'
  BY <1>5, <1>6, <1>14 DEF Terminal, Succeeded
<1>16. invocations[v].started <= completed
  BY <1>2, <1>4, ClockAssumption DEF InvocationRow
<1>17. OutcomesInv'
  <2> SUFFICES ASSUME NEW x \in DOMAIN invocations
               PROVE  /\ Succeeded(x)' => \E b \in DOMAIN artifacts' : Made(x)' = {b}
                      /\ ~Succeeded(x)' => Made(x)' = {}
                      /\ Terminal(x)' => invocations'[x].started <= invocations'[x].completed
                      /\ \A b \in Made(x)' : /\ invocations'[x].started <= artifacts'[b].created
                                             /\ artifacts'[b].created <= invocations'[x].completed
    BY <1>6 DEF OutcomesInv
  <2>1. CASE x = v
    BY <2>1, <1>2, <1>5, <1>6, <1>7, <1>8, <1>11, <1>15, <1>16
  <2>2. CASE x # v
    BY <2>2, <1>6, <1>7, <1>12, <1>13 DEF OutcomesInv
  <2> QED BY <2>1, <2>2
<1>18. OpenInv'
  BY <1>5, <1>6, <1>10 DEF OpenInv, Terminal
<1>19. RowsKept
  BY <1>1, <1>2, <1>6, <1>7 DEF RowsKept
<1> QED BY <1>1, <1>9, <1>10, <1>17, <1>18, <1>19

LEMMA FailStep ==
  ASSUME RuntimeIInv, NEW h \in Hosts, NEW t \in Times, FailModelInvocation(h, t)
  PROVE  RuntimeIInv' /\ RowsKept
<1> DEFINE v == hosts[h].id
<1> USE DEF RuntimeIInv
<1>1. FenceInv' /\ UNCHANGED <<answer, published, cognitive, artifacts>> /\ clock' = t
  BY FenceUntouched DEF FailModelInvocation, fenceVars
<1>2. /\ hosts[h] # None /\ hosts[h].stage = "failing"
      /\ ~Terminal(v) /\ invocations[v].started <= t /\ hosts' = [hosts EXCEPT ![h] = None]
  BY DEF FailModelInvocation, At, Leave
<1>3. v \in DOMAIN invocations
  BY <1>2 DEF StagesInv
<1> DEFINE closed == [invocations EXCEPT ![v].completed = t]
<1>4. invocations[v] \in InvocationRow
  BY <1>3 DEF RuntimeTypeOK
<1>5. /\ DOMAIN closed = DOMAIN invocations /\ closed[v].completed = t
      /\ closed[v] \in InvocationRow /\ closed[v].started = invocations[v].started
      /\ \A x \in DOMAIN invocations \ {v} : closed[x] = invocations[x]
  BY <1>3, <1>4 DEF InvocationRow
<1>6. invocations' = [closed EXCEPT ![v].failed = TRUE]
  BY <1>3 DEF FailModelInvocation
<1> HIDE DEF closed
<1>7. /\ DOMAIN invocations' = DOMAIN invocations /\ invocations'[v].completed = t
      /\ invocations'[v].failed = TRUE /\ invocations'[v] \in InvocationRow
      /\ invocations'[v].started = invocations[v].started
      /\ \A x \in DOMAIN invocations \ {v} : invocations'[x] = invocations[x]
  BY <1>3, <1>5, <1>6 DEF InvocationRow
<1>8. StagesInv' /\ hosts' \in [Hosts -> HostState \cup {None}]
  BY <1>1, <1>2, <1>7, HostMoves
<1>9. RuntimeTypeOK'
  BY <1>1, <1>7, <1>8 DEF RuntimeTypeOK
<1>10. \A x : Made(x)' = Made(x)
  BY <1>1 DEF Made
<1>11. Made(v) = {} /\ t # None
  BY <1>2, <1>3, NoneAssumption DEF OutcomesInv, Succeeded
<1> HIDE DEF v
<1>12. OutcomesInv'
  BY <1>1, <1>2, <1>7, <1>10, <1>11 DEF OutcomesInv, Succeeded, Terminal
<1>13. OpenInv'
  BY <1>7, <1>11 DEF OpenInv, Terminal
<1>14. RowsKept
  BY <1>1, <1>2, <1>7 DEF RowsKept
<1> QED BY <1>1, <1>8, <1>9, <1>12, <1>13, <1>14

(* What the rest of the store does.                                        *)
LEMMA FenceStep ==
  ASSUME RuntimeIInv, UNCHANGED runtimeVars, FenceInv', DOMAIN published \subseteq DOMAIN published'
  PROVE  RuntimeIInv' /\ RowsKept
<1>1. UNCHANGED <<clock, cognitive, invocations, artifacts, hosts>>
  BY DEF runtimeVars
<1>2. OutcomesInv' /\ OpenInv'
  BY <1>1, OutcomesUntouched DEF RuntimeIInv
<1>3. StagesInv'
  BY <1>1 DEF RuntimeIInv, StagesInv, At
<1>4. RuntimeTypeOK'
  BY <1>1 DEF RuntimeIInv, RuntimeTypeOK
<1> QED BY <1>1, <1>2, <1>3, <1>4 DEF RuntimeIInv, RowsKept

LEMMA RegisterStep ==
  ASSUME RuntimeIInv, NEW i \in ProjectionIds, NEW r \in Requests, RegisterProjection(i, r)
  PROVE  RuntimeIInv' /\ RowsKept /\ published'[i].request = r
         /\ DOMAIN published' = DOMAIN published \cup {i}
         /\ \A j \in DOMAIN published : published'[j] = published[j]
<1>1. Publish(i) /\ UNCHANGED runtimeVars
  BY DEF RegisterProjection
<1>2. /\ published'[i].request = r
      /\ DOMAIN published' = DOMAIN published \cup {i}
      /\ \A j \in DOMAIN published : published'[j] = published[j]
  BY <1>1 DEF RegisterProjection, Publish
<1>3. \A j \in DOMAIN published : Accurate(j)'
  BY <1>1, <1>2 DEF Publish, Accurate, RuntimeIInv, FenceInv
<1>4. FenceInv'
  BY <1>1, <1>2, <1>3 DEF FenceInv, Publish, RuntimeIInv
<1> QED BY <1>1, <1>2, <1>4, FenceStep

LEMMA ChangeStep ==
  ASSUME RuntimeIInv, ChangeState
  PROVE  RuntimeIInv' /\ RowsKept /\ DOMAIN published' = DOMAIN published
         /\ \A i \in DOMAIN published : published'[i].request = published[i].request
<1>1. Change /\ UNCHANGED runtimeVars
  BY DEF ChangeState
<1>2. \A i \in DOMAIN published : published'[i] \in Publication
                                  /\ published'[i].request = published[i].request
  <2> SUFFICES ASSUME NEW i \in DOMAIN published
               PROVE  published'[i] \in Publication
                      /\ published'[i].request = published[i].request
    OBVIOUS
  <2>1. published[i] \in Publication
    BY DEF RuntimeIInv, FenceInv
  <2>2. published'[i] \in {published[i], [published[i] EXCEPT !.fresh = FALSE]}
    BY <1>1 DEF Change
  <2> QED BY <2>1, <2>2 DEF Publication
<1>3. FenceInv' /\ DOMAIN published' = DOMAIN published
  BY <1>1, <1>2 DEF FenceInv, Change
<1> QED BY <1>1, <1>2, <1>3, FenceStep

-----------------------------------------------------------------------------
LEMMA HostStepPreserves ==
  ASSUME RuntimeIInv, NEW h \in Hosts, HostStep(h) \/ HostInterrupted(h)
  PROVE  RuntimeIInv' /\ RowsKept
<1>1. CASE \E v \in InvocationIds, i \in ProjectionIds : CreateCognitiveRequest(h, v, i)
  BY <1>1, CreateStep
<1>2. CASE \E t \in Times : StartModelInvocation(h, t)
  BY <1>2, StartStep
<1>3. CASE RefuseModelInvocation(h)
  BY <1>3, RefuseStep
<1>4. CASE \E a \in ArtifactIds, kind \in {"need", "text"}, created, completed \in Times :
             CompleteModelInvocation(h, a, kind, created, completed)
  BY <1>4, CompleteStep
<1>5. CASE AdapterFails(h)
  BY <1>5, FailsStep
<1>6. CASE \E t \in Times : FailModelInvocation(h, t)
  BY <1>6, FailStep
<1>7. CASE \E t \in Times : RefuseFailure(h, t)
  BY <1>7, RefuseFailureStep
<1>8. CASE EscapeHandler(h)
  BY <1>8, EscapeStep
<1>9. CASE HostInterrupted(h)
  BY <1>9, LockStep, DeathStep DEF HostInterrupted
<1> QED BY <1>1, <1>2, <1>3, <1>4, <1>5, <1>6, <1>7, <1>8, <1>9 DEF HostStep

LEMMA NextPreserves ==
  ASSUME RuntimeIInv, [CognitiveNext]_cognitiveVars
  PROVE  RuntimeIInv'
<1>1. CASE CognitiveNext
  BY <1>1, HostStepPreserves, RegisterStep, ChangeStep DEF CognitiveNext
<1>2. CASE UNCHANGED cognitiveVars
  BY <1>2, FenceUntouched, FenceStep DEF cognitiveVars, fenceVars, RuntimeIInv
<1> QED BY <1>1, <1>2

LEMMA RuntimeInvariant == CognitiveSpec => []RuntimeIInv
  BY InitRuntime, NextPreserves, PTL DEF CognitiveSpec

(* The only step that starts an invocation finds the projection fresh.     *)
LEMMA StartsAreCurrent ==
  ASSUME RuntimeIInv, NEW h \in Hosts, HostStep(h) \/ HostInterrupted(h)
  PROVE  \A v \in DOMAIN invocations' \ DOMAIN invocations :
           published[cognitive[v]].content = answer[published[cognitive[v]].request]
<1>1. CASE \E t \in Times : StartModelInvocation(h, t)
  <2>1. hosts[h].id \in DOMAIN cognitive /\ Fresh(hosts[h].id)
    BY <1>1 DEF StartModelInvocation, Startable, At, StagesInv, RuntimeIInv
  <2>2. Accurate(cognitive[hosts[h].id])
    BY <2>1 DEF RuntimeIInv, RuntimeTypeOK, FenceInv
  <2>3. DOMAIN invocations' \subseteq DOMAIN invocations \cup {hosts[h].id}
    BY <1>1 DEF StartModelInvocation
  <2> QED BY <2>1, <2>2, <2>3 DEF Fresh, Accurate
<1>2. CASE ~\E t \in Times : StartModelInvocation(h, t)
  <2>1. DOMAIN invocations' = DOMAIN invocations
    BY <1>2 DEF HostStep, HostInterrupted, HostDies, LockTimesOut, EscapeHandler,
                CreateCognitiveRequest, RefuseModelInvocation, CompleteModelInvocation,
                AdapterFails, FailModelInvocation, RefuseFailure
  <2> QED BY <2>1
<1> QED BY <1>1, <1>2

-----------------------------------------------------------------------------
(* The rows of cognitive requests, invocations and artifacts keep their    *)
(* types and foreign keys, for any number of hosts that die at any step.   *)
THEOREM RuntimeTyped == CognitiveSpec => []RuntimeTypeOK
<1>1. RuntimeIInv => RuntimeTypeOK
  BY DEF RuntimeIInv
<1> QED BY <1>1, RuntimeInvariant, PTL

(* Success and artifact stand or fall together, and what is dated lies     *)
(* within its invocation, however the clock is set.                        *)
THEOREM OutcomesMatch == CognitiveSpec => []OutcomesMatchArtifacts
  BY OutcomesCounted, RuntimeInvariant, PTL

(* An invocation starts from the answer of that moment, whatever happened   *)
(* between the registration of its projection, its admission and its start. *)
THEOREM StartsCurrent == CognitiveSpec => InvocationsStartCurrent
<1>1. ASSUME RuntimeIInv, [CognitiveNext]_cognitiveVars
      PROVE  [\A v \in DOMAIN invocations' \ DOMAIN invocations :
                LET p == published[cognitive[v]]
                IN  p.content = answer[p.request]]_cognitiveVars
  <2>1. CASE \E h \in Hosts : HostStep(h) \/ HostInterrupted(h)
    BY <1>1, <2>1, StartsAreCurrent
  <2>2. CASE ~\E h \in Hosts : HostStep(h) \/ HostInterrupted(h)
    BY <1>1, <2>2 DEF CognitiveNext, RegisterProjection, ChangeState, runtimeVars, cognitiveVars
  <2> QED BY <2>1, <2>2
<1> QED BY <1>1, RuntimeInvariant, PTL DEF CognitiveSpec, InvocationsStartCurrent
-----------------------------------------------------------------------------
(* From here on the coordinators decide what the artifacts ask for.        *)

(* A coordinator prepares only what can be decided, and whatever it found  *)
(* true of the lineage stays true.                                         *)
PreparedInv ==
  \A k \in Coordinators : coordinators[k] # None =>
    /\ coordinators[k].artifact \in DOMAIN artifacts
    /\ Decidable(coordinators[k].artifact)
    /\ coordinators[k].child = None <=> coordinators[k].bounds = None

DecidedInv ==
  \A d \in decisions :
    /\ d.artifact \in DOMAIN artifacts
    /\ Decidable(d.artifact)
    /\ invocations[artifacts[d.artifact].invocation].completed <= d.decidedAt
    /\ d.child # None => d.child \in DOMAIN contextRequests

(* Projections are added, and keep their requests.                         *)
RequestsKept ==
  \A i \in DOMAIN published :
    i \in DOMAIN published' /\ published'[i].request = published[i].request

-----------------------------------------------------------------------------
(* Descent as a constant relation: what can be reached from r along D.     *)
Above(D, r) ==
  {p \in Requests :
     \A S \in SUBSET Requests :
       (\A e \in D : (e[1] = r \/ e[1] \in S) => e[2] \in S) => p \in S}

Within(child, ancestor) ==
  /\ child.tokens <= ancestor.tokens
  /\ child.latency = None => ancestor.latency = None
  /\ (child.latency # None /\ ancestor.latency # None) => child.latency <= ancestor.latency

ChainsInv ==
  \A r \in DOMAIN contextRequests : \A p \in Above(Descent, r) :
    p # r /\ Within(contextRequests[r], contextRequests[p])

NeedsIInv == /\ RuntimeIInv /\ NeedsTypeOK /\ PreparedInv /\ DecidedInv
             /\ NeedsDecidedOnce /\ ChainsInv

LEMMA ChainsWithin == ChainsInv <=> ChainsNeverAmplify
  BY DEF ChainsInv, ChainsNeverAmplify, Ancestors, Above, Within

(* Ancestors are requests that some request descends from.                 *)
LEMMA AboveAreParents ==
  ASSUME NEW D, NEW R \in SUBSET Requests, \A e \in D : e[2] \in R, NEW r
  PROVE  Above(D, r) \subseteq R
  BY DEF Above

(* A request that descends from none has no ancestors.                     *)
LEMMA NothingAbove ==
  ASSUME NEW D, NEW r, \A e \in D : e[1] # r
  PROVE  Above(D, r) = {}
<1>1. {} \in SUBSET Requests
  OBVIOUS
<1>2. \A e \in D : (e[1] = r \/ e[1] \in {}) => e[2] \in {}
  OBVIOUS
<1> QED BY <1>1, <1>2 DEF Above

LEMMA AboveClosed ==
  ASSUME NEW D, NEW r, NEW e \in D, e[2] \in Requests, e[1] = r \/ e[1] \in Above(D, r)
  PROVE  e[2] \in Above(D, r)
<1> SUFFICES ASSUME NEW S \in SUBSET Requests,
                    \A f \in D : (f[1] = r \/ f[1] \in S) => f[2] \in S
             PROVE  e[2] \in S
  BY DEF Above
<1> QED BY DEF Above

(* A new child under an old parent: the ancestors of the old requests stay *)
(* as they were ...                                                        *)
LEMMA OldAncestors ==
  ASSUME NEW D, NEW R \in SUBSET Requests, NEW c, NEW q, c \notin R,
         \A e \in D : e[2] \in R, NEW r \in R
  PROVE  Above(D \cup {<<c, q>>}, r) \subseteq Above(D, r)
<1> SUFFICES ASSUME NEW p \in Above(D \cup {<<c, q>>}, r), NEW S \in SUBSET Requests,
                    \A e \in D : (e[1] = r \/ e[1] \in S) => e[2] \in S
             PROVE  p \in S
  BY DEF Above
<1>1. \A e \in D \cup {<<c, q>>} : (e[1] = r \/ e[1] \in S \ {c}) => e[2] \in S \ {c}
  <2> SUFFICES ASSUME NEW e \in D \cup {<<c, q>>}, e[1] = r \/ e[1] \in S \ {c}
               PROVE  e[2] \in S \ {c}
    OBVIOUS
  <2>1. e \in D
    OBVIOUS
  <2> QED BY <2>1
<1>2. S \ {c} \in SUBSET Requests
  OBVIOUS
<1> QED BY <1>1, <1>2 DEF Above

(* ... and those of the child are its parent and the parent's.             *)
LEMMA NewAncestors ==
  ASSUME NEW D, NEW R \in SUBSET Requests, NEW c, NEW q \in R, c \notin R,
         \A e \in D : e[1] \in R /\ e[2] \in R
  PROVE  Above(D \cup {<<c, q>>}, c) \subseteq {q} \cup Above(D, q)
<1> DEFINE S == {q} \cup Above(D, q)
<1>1. S \in SUBSET Requests
  BY DEF Above
<1>2. \A e \in D \cup {<<c, q>>} : (e[1] = c \/ e[1] \in S) => e[2] \in S
  <2> SUFFICES ASSUME NEW e \in D \cup {<<c, q>>}, e[1] = c \/ e[1] \in S
               PROVE  e[2] \in S
    OBVIOUS
  <2>1. CASE e = <<c, q>>
    BY <2>1
  <2>2. CASE e \in D
    <3>1. e[1] = q \/ e[1] \in Above(D, q)
      BY <2>2
    <3> QED BY <2>2, <3>1, AboveClosed
  <2> QED BY <2>1, <2>2
<1> HIDE DEF S
<1>3. Above(D \cup {<<c, q>>}, c) \subseteq S
  BY <1>1, <1>2 DEF Above
<1> QED BY <1>3 DEF S

-----------------------------------------------------------------------------
(* Descent leads from children to parents, and both have their rows.       *)
LEMMA DescentInRequests ==
  ASSUME RuntimeIInv, NeedsTypeOK, DecidedInv
  PROVE  /\ \A a \in DOMAIN artifacts : ParentOf(a) \in DOMAIN contextRequests
         /\ \A e \in Descent : /\ e[1] \in DOMAIN contextRequests
                               /\ e[2] \in DOMAIN contextRequests
<1>1. \A a \in DOMAIN artifacts : ParentOf(a) \in DOMAIN contextRequests
  BY DEF ParentOf, RuntimeIInv, RuntimeTypeOK, NeedsTypeOK
<1>2. \A d \in {e \in decisions : e.child # None} :
        d.child \in DOMAIN contextRequests /\ ParentOf(d.artifact) \in DOMAIN contextRequests
  BY <1>1 DEF DecidedInv
<1> QED BY <1>1, <1>2 DEF Descent

(* The lineage of an artifact is never changed.                            *)
LEMMA LineageKept ==
  ASSUME RuntimeIInv, RowsKept, RequestsKept, NEW a \in DOMAIN artifacts
  PROVE  /\ a \in DOMAIN artifacts' /\ artifacts'[a] = artifacts[a]
         /\ ParentOf(a)' = ParentOf(a)
         /\ Decidable(a) =>
              /\ Decidable(a)'
              /\ invocations'[artifacts[a].invocation] = invocations[artifacts[a].invocation]
<1>1. /\ artifacts[a].invocation \in DOMAIN invocations
      /\ artifacts[a].invocation \in DOMAIN cognitive
      /\ cognitive[artifacts[a].invocation] \in DOMAIN published
  BY DEF RuntimeIInv, RuntimeTypeOK
<1>2. a \in DOMAIN artifacts' /\ artifacts'[a] = artifacts[a]
  BY DEF RowsKept
<1>3. ParentOf(a)' = ParentOf(a)
  BY <1>1, <1>2 DEF ParentOf, RowsKept, RequestsKept
<1>4. Decidable(a) => invocations'[artifacts[a].invocation] = invocations[artifacts[a].invocation]
  BY <1>1 DEF RowsKept, Decidable, Succeeded
<1>5. Decidable(a) => Decidable(a)'
  BY <1>2, <1>4 DEF Decidable, Succeeded, Terminal
<1> QED BY <1>2, <1>3, <1>4, <1>5

(* A step that changes no decision leaves what was decided as it is.       *)
LEMMA DecisionsKept ==
  ASSUME RuntimeIInv, RowsKept, RequestsKept, DecidedInv, NeedsDecidedOnce, decisions' = decisions,
         \A r \in DOMAIN contextRequests : /\ r \in DOMAIN contextRequests'
                                           /\ contextRequests'[r] = contextRequests[r]
  PROVE  DecidedInv' /\ NeedsDecidedOnce' /\ Descent' = Descent
<1>1. \A d \in decisions : /\ d.artifact \in DOMAIN artifacts'
                           /\ artifacts'[d.artifact] = artifacts[d.artifact]
                           /\ Decidable(d.artifact)'
                           /\ invocations'[artifacts[d.artifact].invocation]
                                = invocations[artifacts[d.artifact].invocation]
                           /\ ParentOf(d.artifact)' = ParentOf(d.artifact)
  BY LineageKept DEF DecidedInv
<1>2. DecidedInv'
  BY <1>1 DEF DecidedInv
<1>3. NeedsDecidedOnce'
  BY DEF NeedsDecidedOnce
<1>4. Descent' = Descent
  BY <1>1 DEF Descent
<1> QED BY <1>2, <1>3, <1>4

LEMMA PreparedKept ==
  ASSUME RuntimeIInv, RowsKept, RequestsKept, PreparedInv, coordinators' = coordinators
  PROVE  PreparedInv'
<1>1. \A k \in Coordinators : coordinators[k] # None =>
        /\ coordinators[k].artifact \in DOMAIN artifacts'
        /\ Decidable(coordinators[k].artifact)'
  <2> SUFFICES ASSUME NEW k \in Coordinators, coordinators[k] # None
               PROVE  /\ coordinators[k].artifact \in DOMAIN artifacts'
                      /\ Decidable(coordinators[k].artifact)'
    OBVIOUS
  <2>1. PICK a \in DOMAIN artifacts : a = coordinators[k].artifact /\ Decidable(a)
    BY DEF PreparedInv
  <2>2. a \in DOMAIN artifacts' /\ Decidable(a)'
    BY <2>1, LineageKept
  <2> QED BY <2>1, <2>2 DEF Decidable
<1> QED BY <1>1 DEF PreparedInv, Decidable

(* The steps of the hosts and of the store.                                *)
LEMMA NeedsUntouched ==
  ASSUME NeedsIInv, RuntimeIInv', RowsKept, RequestsKept, UNCHANGED needVars,
         DOMAIN published' = DOMAIN published
  PROVE  NeedsIInv'
<1>1. UNCHANGED <<contextRequests, decisions, coordinators>>
  BY DEF needVars
<1>2. DecidedInv' /\ NeedsDecidedOnce' /\ Descent' = Descent /\ PreparedInv'
  BY <1>1, DecisionsKept, PreparedKept DEF NeedsIInv
<1>3. NeedsTypeOK'
  BY <1>1 DEF NeedsIInv, NeedsTypeOK, RequestsKept
<1>4. ChainsInv'
  BY <1>1, <1>2 DEF NeedsIInv, ChainsInv
<1> QED BY <1>2, <1>3, <1>4 DEF NeedsIInv

LEMMA PrepareStep ==
  ASSUME NeedsIInv, NEW k \in Coordinators, NEW a \in ArtifactIds, NEW t \in Times,
         NEW child \in Requests \cup {None}, NEW b \in Bounds \cup {None},
         PrepareDecision(k, a, t, child, b)
  PROVE  NeedsIInv'
<1> DEFINE d == [artifact |-> a, decidedAt |-> t, child |-> child, bounds |-> b]
<1>1. /\ clock' = t /\ UNCHANGED <<fenceVars, cognitive, invocations, artifacts, hosts>>
      /\ UNCHANGED <<contextRequests, decisions>>
      /\ a \in DOMAIN artifacts /\ Decidable(a) /\ (child = None <=> b = None)
      /\ coordinators' = [coordinators EXCEPT ![k] = d]
  BY DEF PrepareDecision
<1>2. RuntimeIInv
  BY DEF NeedsIInv
<1>3. FenceInv' /\ OutcomesInv' /\ OpenInv'
  BY <1>1, <1>2, FenceUntouched, OutcomesUntouched DEF RuntimeIInv
<1>4. RuntimeTypeOK' /\ StagesInv'
  BY <1>1, <1>2 DEF RuntimeIInv, RuntimeTypeOK, StagesInv, At, fenceVars
<1>5. RowsKept /\ RequestsKept
  BY <1>1 DEF RowsKept, RequestsKept, fenceVars
<1>6. DecidedInv' /\ NeedsDecidedOnce' /\ Descent' = Descent
  BY <1>1, <1>2, <1>5, DecisionsKept DEF NeedsIInv
<1>7. coordinators \in [Coordinators -> Decision \cup {None}] /\ d \in Decision
  BY <1>1 DEF NeedsIInv, NeedsTypeOK, Decision
<1>8. /\ d.artifact = a /\ d.child = child /\ d.bounds = b
  OBVIOUS
<1> HIDE DEF d
<1>9. /\ coordinators' \in [Coordinators -> Decision \cup {None}] /\ coordinators'[k] = d
      /\ \A g \in Coordinators \ {k} : coordinators'[g] = coordinators[g]
  BY <1>1, <1>7
<1>10. NeedsTypeOK'
  BY <1>1, <1>9 DEF NeedsIInv, NeedsTypeOK, fenceVars
<1>11. \A x \in DOMAIN artifacts : Decidable(x) => Decidable(x)'
  BY <1>2, <1>5, LineageKept
<1>12. PreparedInv'
  BY <1>1, <1>8, <1>9, <1>11 DEF NeedsIInv, PreparedInv, Decidable
<1>13. ChainsInv'
  BY <1>1, <1>6 DEF NeedsIInv, ChainsInv
<1> QED BY <1>3, <1>4, <1>6, <1>10, <1>12, <1>13 DEF NeedsIInv, RuntimeIInv

LEMMA DropStep ==
  ASSUME NeedsIInv, NEW k \in Coordinators, DropDecision(k)
  PROVE  NeedsIInv'
<1>1. /\ UNCHANGED cognitiveVars /\ UNCHANGED <<contextRequests, decisions>>
      /\ coordinators' = [coordinators EXCEPT ![k] = None]
  BY DEF DropDecision
<1>2. UNCHANGED <<fenceVars, answer, published, artifacts, invocations, runtimeVars>>
  BY <1>1 DEF cognitiveVars, fenceVars, runtimeVars
<1>3. RuntimeIInv' /\ RowsKept /\ RequestsKept
  <2>1. FenceInv'
    BY <1>2, FenceUntouched DEF NeedsIInv, RuntimeIInv
  <2>2. RuntimeIInv' /\ RowsKept
    BY <1>2, <2>1, FenceStep DEF NeedsIInv
  <2> QED BY <1>2, <2>2 DEF RequestsKept
<1>4. DecidedInv' /\ NeedsDecidedOnce' /\ Descent' = Descent
  BY <1>1, <1>3, DecisionsKept DEF NeedsIInv
<1>5. /\ coordinators' \in [Coordinators -> Decision \cup {None}] /\ coordinators'[k] = None
      /\ \A g \in Coordinators \ {k} : coordinators'[g] = coordinators[g]
  BY <1>1 DEF NeedsIInv, NeedsTypeOK
<1>6. NeedsTypeOK'
  BY <1>1, <1>2, <1>5 DEF NeedsIInv, NeedsTypeOK, fenceVars
<1>7. PreparedInv'
  BY <1>2, <1>5 DEF NeedsIInv, PreparedInv, Decidable, Succeeded, Terminal
<1>8. ChainsInv'
  BY <1>1, <1>4 DEF NeedsIInv, ChainsInv
<1> QED BY <1>3, <1>4, <1>6, <1>7, <1>8 DEF NeedsIInv

LEMMA PersistStep ==
  ASSUME NeedsIInv, NEW i \in ProjectionIds, NEW r \in Requests, NEW b \in Bounds,
         PersistRequest(i, r, b)
  PROVE  NeedsIInv'
<1>1. RegisterProjection(i, r) /\ UNCHANGED <<decisions, coordinators>>
  BY DEF PersistRequest
<1>2. /\ RuntimeIInv' /\ RowsKept /\ published'[i].request = r
      /\ DOMAIN published' = DOMAIN published \cup {i}
      /\ \A j \in DOMAIN published : published'[j] = published[j]
  BY <1>1, RegisterStep DEF NeedsIInv
<1>3. /\ DOMAIN contextRequests' = DOMAIN contextRequests \cup {r}
      /\ contextRequests'[r] = b
      /\ \A x \in DOMAIN contextRequests : contextRequests'[x] = contextRequests[x]
  BY DEF PersistRequest
<1>4. RequestsKept
  BY <1>2 DEF RequestsKept
<1>5. DecidedInv' /\ NeedsDecidedOnce' /\ Descent' = Descent /\ PreparedInv'
  BY <1>1, <1>2, <1>3, <1>4, DecisionsKept, PreparedKept DEF NeedsIInv
<1>6. \A j \in DOMAIN published : published'[j].request \in DOMAIN contextRequests
  BY <1>2 DEF NeedsIInv, NeedsTypeOK
<1>7. NeedsTypeOK'
  BY <1>1, <1>2, <1>3, <1>6 DEF NeedsIInv, NeedsTypeOK
<1>8. \A x \in DOMAIN contextRequests' : \A p \in Above(Descent, x) :
        p # x /\ Within(contextRequests'[x], contextRequests'[p])
  <2> SUFFICES ASSUME NEW x \in DOMAIN contextRequests', NEW p \in Above(Descent, x)
               PROVE  p # x /\ Within(contextRequests'[x], contextRequests'[p])
    OBVIOUS
  <2>1. p \in DOMAIN contextRequests
    <3>1. DOMAIN contextRequests \in SUBSET Requests
      BY DEF NeedsIInv, NeedsTypeOK
    <3>2. \A e \in Descent : e[2] \in DOMAIN contextRequests
      BY DescentInRequests DEF NeedsIInv
    <3>3. Above(Descent, x) \subseteq DOMAIN contextRequests
      BY <3>1, <3>2, AboveAreParents
    <3> QED BY <3>3
  <2>2. x \in DOMAIN contextRequests
    <3>1. CASE x \notin DOMAIN contextRequests
      <4>1. \A e \in Descent : e[1] # x
        BY <3>1, DescentInRequests DEF NeedsIInv
      <4> QED BY <4>1, NothingAbove
    <3> QED BY <3>1
  <2> QED BY <1>3, <2>1, <2>2 DEF NeedsIInv, ChainsInv
<1>9. ChainsInv'
  BY <1>5, <1>8 DEF ChainsInv
<1> QED BY <1>2, <1>5, <1>7, <1>9 DEF NeedsIInv

(* Bounds narrow along any number of steps.                                *)
LEMMA WithinTransitive ==
  ASSUME NEW x \in Bounds, NEW y \in Bounds, NEW z \in Bounds, Within(x, y), Within(y, z)
  PROVE  Within(x, z)
<1>1. x.tokens \in Nat /\ y.tokens \in Nat /\ z.tokens \in Nat
  BY BoundsAssumption DEF Bounds
<1>2. \A b \in {x, y, z} : b.latency # None => b.latency \in Nat
  BY BoundsAssumption DEF Bounds
<1>3. x.tokens <= z.tokens
  BY <1>1 DEF Within
<1>4. x.latency = None => z.latency = None
  BY DEF Within
<1>5. ASSUME x.latency # None, z.latency # None PROVE x.latency <= z.latency
  <2>1. y.latency # None
    BY <1>5 DEF Within
  <2>2. x.latency <= y.latency /\ y.latency <= z.latency
    BY <1>5, <2>1 DEF Within
  <2> QED BY <1>2, <1>5, <2>1, <2>2
<1> QED BY <1>3, <1>4, <1>5 DEF Within

(* The chains after an acceptance: a fresh child below a parent that has   *)
(* its row.                                                                *)
LEMMA ChainsGrow ==
  ASSUME NeedsIInv, NEW c \in Requests, c \notin DOMAIN contextRequests,
         NEW q \in DOMAIN contextRequests, NEW b \in Bounds, Within(b, contextRequests[q]),
         Descent' = Descent \cup {<<c, q>>},
         DOMAIN contextRequests' = DOMAIN contextRequests \cup {c}, contextRequests'[c] = b,
         \A x \in DOMAIN contextRequests : contextRequests'[x] = contextRequests[x]
  PROVE  ChainsInv'
<1> DEFINE R == DOMAIN contextRequests
<1>1. R \in SUBSET Requests /\ \A r \in R : contextRequests[r] \in Bounds
  BY DEF NeedsIInv, NeedsTypeOK
<1>2. \A e \in Descent : e[1] \in R /\ e[2] \in R
  BY DescentInRequests DEF NeedsIInv
<1>3. \A r \in R : Above(Descent, r) \subseteq R
  BY <1>1, <1>2, AboveAreParents
<1>4. ASSUME NEW r \in R, NEW p \in Above(Descent \cup {<<c, q>>}, r)
      PROVE  p # r /\ Within(contextRequests'[r], contextRequests'[p])
  <2>1. p \in Above(Descent, r)
    BY <1>1, <1>2, <1>4, OldAncestors
  <2> QED BY <1>3, <2>1 DEF NeedsIInv, ChainsInv
<1>5. ASSUME NEW p \in Above(Descent \cup {<<c, q>>}, c)
      PROVE  p # c /\ Within(contextRequests'[c], contextRequests'[p])
  <2>1. p = q \/ p \in Above(Descent, q)
    BY <1>1, <1>2, <1>5, NewAncestors
  <2>2. p \in R
    BY <1>3, <2>1
  <2>3. p # q => Within(contextRequests[q], contextRequests[p])
    BY <2>1 DEF NeedsIInv, ChainsInv
  <2>4. Within(b, contextRequests[p])
    BY <1>1, <2>2, <2>3, WithinTransitive
  <2> QED BY <2>2, <2>4
<1> QED BY <1>4, <1>5 DEF ChainsInv

LEMMA RegisterDecisionStep ==
  ASSUME NeedsIInv, NEW k \in Coordinators, RegisterDecision(k)
  PROVE  /\ NeedsIInv'
         /\ \A e \in decisions' \ decisions :
              LET p == published[cognitive[artifacts[e.artifact].invocation]]
              IN  e.child # None => p.content = answer[p.request]
<1>1. PICK d \in Decision : d = coordinators[k]
  BY DEF NeedsIInv, NeedsTypeOK, RegisterDecision
<1>2. /\ d # None /\ UNCHANGED cognitiveVars
      /\ decisions' = decisions \cup {d}
      /\ DOMAIN contextRequests' = DOMAIN contextRequests \cup ({d.child} \ {None})
      /\ \A r \in DOMAIN contextRequests' :
           contextRequests'[r] = IF r = d.child THEN d.bounds ELSE contextRequests[r]
      /\ coordinators' = [coordinators EXCEPT ![k] = None]
      /\ Undecided(d) /\ Decidable(d.artifact) /\ DecidedAfter(d)
      /\ d.child # None => /\ SourceFresh(d) /\ FreshChild(d)
                           /\ Narrows(contextRequests[ParentOf(d.artifact)], d.bounds)
  BY <1>1 DEF RegisterDecision, Registerable
<1>3. /\ d.artifact \in DOMAIN artifacts /\ d.child \in Requests \cup {None}
      /\ d.child = None <=> d.bounds = None
      /\ d.bounds \in Bounds \cup {None}
  BY <1>1, <1>2 DEF NeedsIInv, PreparedInv, Decision
<1>4. UNCHANGED <<fenceVars, answer, published, clock, cognitive, invocations, artifacts, runtimeVars>>
  BY <1>2 DEF cognitiveVars, fenceVars, runtimeVars
<1>5. RuntimeIInv'
  <2>1. FenceInv'
    BY <1>4, FenceUntouched DEF NeedsIInv, RuntimeIInv
  <2> QED BY <1>4, <2>1, FenceStep DEF NeedsIInv
<1>6. \A r \in DOMAIN contextRequests : r # d.child
  BY <1>2, BoundsAssumption DEF FreshChild, NeedsIInv, NeedsTypeOK
<1>7. \A r \in DOMAIN contextRequests : /\ r \in DOMAIN contextRequests'
                                        /\ contextRequests'[r] = contextRequests[r]
  BY <1>2, <1>6
<1>8. d.child # None => /\ d.child \in DOMAIN contextRequests'
                        /\ contextRequests'[d.child] = d.bounds
                        /\ d.child \in Requests /\ d.bounds \in Bounds
                        /\ d.child \notin DOMAIN contextRequests
  BY <1>2, <1>3 DEF FreshChild
<1>9. /\ coordinators' \in [Coordinators -> Decision \cup {None}] /\ coordinators'[k] = None
      /\ \A g \in Coordinators \ {k} : coordinators'[g] = coordinators[g]
  BY <1>2 DEF NeedsIInv, NeedsTypeOK
<1>10. NeedsTypeOK'
  <2>1. DOMAIN contextRequests' \subseteq Requests
    BY <1>2, <1>8 DEF NeedsIInv, NeedsTypeOK
  <2>2. \A r \in DOMAIN contextRequests' : contextRequests'[r] \in Bounds
    BY <1>2, <1>7, <1>8 DEF NeedsIInv, NeedsTypeOK
  <2> QED BY <1>2, <1>4, <1>9, <2>1, <2>2 DEF NeedsIInv, NeedsTypeOK
<1>11. PreparedInv'
  BY <1>4, <1>9 DEF NeedsIInv, PreparedInv, Decidable, Succeeded, Terminal
<1>12. DecidedInv'
  <2>1. invocations[artifacts[d.artifact].invocation].completed <= d.decidedAt
    <3> DEFINE v == artifacts[d.artifact].invocation
    <3>1. v \in DOMAIN invocations /\ invocations[v] \in InvocationRow
      BY <1>3 DEF NeedsIInv, RuntimeIInv, RuntimeTypeOK
    <3>2. invocations[v].completed \in Int /\ d.decidedAt \in Int
      BY <1>1, <1>2, <3>1, ClockAssumption DEF Decision, InvocationRow, Decidable, Succeeded, Terminal
    <3>3. d.decidedAt >= invocations[v].completed
      BY <1>2 DEF DecidedAfter
    <3> QED BY <3>2, <3>3
  <2> QED BY <1>2, <1>3, <1>4, <1>7, <1>8, <2>1
       DEF NeedsIInv, DecidedInv, Decidable, Succeeded, Terminal
<1>13. NeedsDecidedOnce'
  <2>1. \A e \in decisions : e.artifact # d.artifact /\ (d.child # None => e.child # d.child)
    BY <1>2, <1>8 DEF Undecided, NeedsIInv, DecidedInv
  <2> QED BY <1>2, <1>7, <1>8, <2>1 DEF NeedsIInv, NeedsDecidedOnce
<1>14. ChainsInv'
  <2>1. \A e \in decisions' : ParentOf(e.artifact)' = ParentOf(e.artifact)
    BY <1>4 DEF ParentOf
  <2>2. CASE d.child = None
    <3>1. Descent' = Descent
      BY <1>2, <2>1, <2>2 DEF Descent
    <3>2. DOMAIN contextRequests' = DOMAIN contextRequests
      BY <1>2, <2>2
    <3>3. \A r \in DOMAIN contextRequests : Above(Descent, r) \subseteq DOMAIN contextRequests
      BY AboveAreParents, DescentInRequests DEF NeedsIInv, NeedsTypeOK
    <3> QED BY <1>7, <3>1, <3>2, <3>3 DEF NeedsIInv, ChainsInv
  <2>3. CASE d.child # None
    <3>1. Descent' = Descent \cup {<<d.child, ParentOf(d.artifact)>>}
      BY <1>2, <2>1, <2>3 DEF Descent
    <3>2. ParentOf(d.artifact) \in DOMAIN contextRequests
      BY <1>3, DescentInRequests DEF NeedsIInv
    <3>3. Within(d.bounds, contextRequests[ParentOf(d.artifact)])
      BY <1>2, <2>3 DEF Narrows, Within
    <3>4. DOMAIN contextRequests' = DOMAIN contextRequests \cup {d.child}
      BY <1>2, <2>3
    <3> QED BY <1>7, <1>8, <2>3, <3>1, <3>2, <3>3, <3>4, ChainsGrow
  <2> QED BY <2>2, <2>3
<1>15. d.child # None =>
         LET p == published[cognitive[artifacts[d.artifact].invocation]]
         IN  p.content = answer[p.request]
  <2>1. /\ artifacts[d.artifact].invocation \in DOMAIN cognitive
        /\ cognitive[artifacts[d.artifact].invocation] \in DOMAIN published
    BY <1>3 DEF NeedsIInv, RuntimeIInv, RuntimeTypeOK
  <2>2. Accurate(cognitive[artifacts[d.artifact].invocation])
    BY <2>1 DEF NeedsIInv, RuntimeIInv, FenceInv
  <2> QED BY <1>2, <2>2 DEF SourceFresh, Fresh, Accurate
<1> QED BY <1>2, <1>5, <1>10, <1>11, <1>12, <1>13, <1>14, <1>15 DEF NeedsIInv

-----------------------------------------------------------------------------
LEMMA InitNeeds == NeedsInit => NeedsIInv
<1> SUFFICES ASSUME NeedsInit PROVE NeedsIInv
  OBVIOUS
<1>1. RuntimeIInv
  BY InitRuntime DEF NeedsInit
<1>2. NeedsTypeOK /\ PreparedInv /\ DecidedInv /\ NeedsDecidedOnce /\ ChainsInv
  BY DEF NeedsInit, CognitiveInit, FenceInit, NeedsTypeOK, PreparedInv, DecidedInv,
         NeedsDecidedOnce, ChainsInv
<1> QED BY <1>1, <1>2 DEF NeedsIInv

LEMMA HostsLeaveFence ==
  ASSUME NEW h \in Hosts, HostStep(h) \/ HostInterrupted(h)
  PROVE  UNCHANGED fenceVars
  BY DEF HostStep, HostInterrupted, HostDies, LockTimesOut, EscapeHandler,
         CreateCognitiveRequest, StartModelInvocation, RefuseModelInvocation,
         CompleteModelInvocation, AdapterFails, FailModelInvocation, RefuseFailure

LEMMA NeedsNextPreserves ==
  ASSUME NeedsIInv, [NeedsNext]_allVars
  PROVE  NeedsIInv'
<1> USE DEF NeedsIInv
<1>1. CASE ChangeState /\ UNCHANGED needVars
  <2>1. RuntimeIInv' /\ RowsKept /\ RequestsKept /\ DOMAIN published' = DOMAIN published
    BY <1>1, ChangeStep DEF RequestsKept
  <2> QED BY <1>1, <2>1, NeedsUntouched
<1>2. CASE (\E h \in Hosts : HostStep(h) \/ HostInterrupted(h)) /\ UNCHANGED needVars
  <2>1. RuntimeIInv' /\ RowsKept /\ UNCHANGED fenceVars
    BY <1>2, HostStepPreserves, HostsLeaveFence
  <2> QED BY <1>2, <2>1, NeedsUntouched DEF fenceVars, RequestsKept
<1>3. CASE \E k \in Coordinators, a \in ArtifactIds, t \in Times,
              child \in Requests \cup {None}, b \in Bounds \cup {None} :
             PrepareDecision(k, a, t, child, b)
  BY <1>3, PrepareStep
<1>4. CASE \E k \in Coordinators : RegisterDecision(k) \/ DropDecision(k)
  BY <1>4, RegisterDecisionStep, DropStep
<1>5. CASE \E i \in ProjectionIds, r \in Requests, b \in Bounds : PersistRequest(i, r, b)
  BY <1>5, PersistStep
<1>6. CASE UNCHANGED allVars
  <2>1. /\ UNCHANGED <<fenceVars, runtimeVars, needVars, cognitive, invocations, artifacts>>
        /\ RequestsKept /\ DOMAIN published' = DOMAIN published
    BY <1>6 DEF allVars, cognitiveVars, runtimeVars, fenceVars, RequestsKept
  <2>2. RuntimeIInv' /\ RowsKept
    BY <2>1, FenceUntouched, FenceStep DEF RuntimeIInv
  <2> QED BY <2>1, <2>2, NeedsUntouched
<1> QED BY <1>1, <1>2, <1>3, <1>4, <1>5, <1>6 DEF NeedsNext

LEMMA NeedsInvariant == NeedsSpec => []NeedsIInv
  BY InitNeeds, NeedsNextPreserves, PTL DEF NeedsSpec

-----------------------------------------------------------------------------
(* Requests, decisions and prepared decisions keep their types, and every  *)
(* projection has its request.                                             *)
THEOREM NeedsTyped == NeedsSpec => []NeedsTypeOK
<1>1. NeedsIInv => NeedsTypeOK
  BY DEF NeedsIInv
<1> QED BY <1>1, NeedsInvariant, PTL

(* However many coordinators race, a need is decided once, and an          *)
(* acceptance owns its child request alone.                                *)
THEOREM DecidedOnce == NeedsSpec => []NeedsDecidedOnce
<1>1. NeedsIInv => NeedsDecidedOnce
  BY DEF NeedsIInv
<1> QED BY <1>1, NeedsInvariant, PTL

(* Chains of accepted needs of any length are free of cycles and never     *)
(* widen a bound.                                                          *)
THEOREM NeverAmplified == NeedsSpec => []ChainsNeverAmplify
<1>1. NeedsIInv => ChainsNeverAmplify
  BY ChainsWithin DEF NeedsIInv
<1> QED BY <1>1, NeedsInvariant, PTL

(* Every decision follows the completion of what it decides, however the   *)
(* clock is set.                                                           *)
THEOREM DecisionsFollow == NeedsSpec => []DecisionsFollowNeeds
<1>1. NeedsIInv => DecisionsFollowNeeds
  <2> SUFFICES ASSUME NeedsIInv, NEW d \in decisions
               PROVE  LET a == artifacts[d.artifact]
                          i == invocations[a.invocation]
                      IN  /\ a.kind = "need" /\ ~i.failed
                          /\ i.started <= a.created /\ a.created <= i.completed
                          /\ i.completed <= d.decidedAt
    BY DEF DecisionsFollowNeeds
  <2>1. /\ d.artifact \in DOMAIN artifacts /\ Decidable(d.artifact)
        /\ invocations[artifacts[d.artifact].invocation].completed <= d.decidedAt
    BY DEF NeedsIInv, DecidedInv
  <2>2. /\ artifacts[d.artifact].invocation \in DOMAIN invocations
        /\ d.artifact \in Made(artifacts[d.artifact].invocation)
    BY <2>1 DEF NeedsIInv, RuntimeIInv, RuntimeTypeOK, Made
  <2> QED BY <2>1, <2>2 DEF NeedsIInv, RuntimeIInv, OutcomesInv, Decidable, Succeeded
<1> QED BY <1>1, NeedsInvariant, PTL

(* At the moment of an acceptance the projection behind the need is still  *)
(* the answer to its request.                                              *)
THEOREM AcceptancesCurrent == NeedsSpec => AcceptancesAreCurrent
<1>1. ASSUME NeedsIInv, [NeedsNext]_allVars
      PROVE  [\A d \in decisions' \ decisions :
                LET p == published[cognitive[artifacts[d.artifact].invocation]]
                IN  d.child # None => p.content = answer[p.request]]_allVars
  <2>1. CASE \E k \in Coordinators : RegisterDecision(k)
    BY <1>1, <2>1, RegisterDecisionStep
  <2>2. CASE ~\E k \in Coordinators : RegisterDecision(k)
    <3>1. decisions' = decisions
      BY <1>1, <2>2 DEF NeedsNext, needVars, allVars, PrepareDecision, DropDecision, PersistRequest
    <3> QED BY <3>1
  <2> QED BY <2>1, <2>2
<1> QED BY <1>1, NeedsInvariant, PTL DEF NeedsSpec, AcceptancesAreCurrent

-----------------------------------------------------------------------------
(* With coordinators beside them the hosts keep what they keep alone.      *)
THEOREM OutcomesMatchBesideNeeds == NeedsSpec => [](RuntimeTypeOK /\ OutcomesMatchArtifacts)
<1>1. NeedsIInv => RuntimeTypeOK /\ OutcomesMatchArtifacts
  BY OutcomesCounted DEF NeedsIInv, RuntimeIInv
<1> QED BY <1>1, NeedsInvariant, PTL

(* ... and so do the invocations they start.                               *)
THEOREM StartsCurrentBesideNeeds == NeedsSpec => InvocationsStartCurrent
<1>1. ASSUME NeedsIInv, [NeedsNext]_allVars
      PROVE  [\A v \in DOMAIN invocations' \ DOMAIN invocations :
                LET p == published[cognitive[v]]
                IN  p.content = answer[p.request]]_cognitiveVars
  <2>1. CASE \E h \in Hosts : HostStep(h) \/ HostInterrupted(h)
    BY <1>1, <2>1, StartsAreCurrent DEF NeedsIInv
  <2>2. CASE ~\E h \in Hosts : HostStep(h) \/ HostInterrupted(h)
    <3>1. CASE ChangeState
      BY <3>1 DEF ChangeState, runtimeVars
    <3>2. CASE \E i \in ProjectionIds, r \in Requests, b \in Bounds : PersistRequest(i, r, b)
      BY <3>2 DEF PersistRequest, RegisterProjection, runtimeVars
    <3>3. CASE \E k \in Coordinators : RegisterDecision(k) \/ DropDecision(k)
      BY <3>3 DEF RegisterDecision, DropDecision, cognitiveVars, runtimeVars
    <3>4. CASE \E k \in Coordinators, a \in ArtifactIds, t \in Times,
                  child \in Requests \cup {None}, b \in Bounds \cup {None} :
                 PrepareDecision(k, a, t, child, b)
      BY <3>4 DEF PrepareDecision
    <3>5. CASE UNCHANGED allVars
      BY <3>5 DEF allVars, cognitiveVars, runtimeVars
    <3> QED BY <1>1, <2>2, <3>1, <3>2, <3>3, <3>4, <3>5 DEF NeedsNext
  <2> QED BY <2>1, <2>2
<1> QED BY <1>1, NeedsInvariant, PTL DEF NeedsSpec, InvocationsStartCurrent
=============================================================================
