----------------------- MODULE ReasoningPoliciesProofs -----------------------
(***************************************************************************)
(* Proofs about ReasoningPolicies, for any number of hosts, policies and   *)
(* requests, whichever policies an older version left, and with damaged    *)
(* rows: what a request was admitted under is what its input is made of.   *)
(***************************************************************************)
EXTENDS ReasoningPolicies, TLAPS

Typed ==
  /\ DOMAIN policies \subseteq PolicyIds
  /\ \A i \in DOMAIN policies :
       /\ policies[i] \in PolicyRow
       /\ policies[i].fingerprint # None => policies[i].fingerprint.id = i

(* A host that supplied a policy keeps what is bound to its id, even when  *)
(* the row is damaged later; a request it admitted names that id.          *)
HostBound(h) ==
  LET s == hosts[h]
  IN  (s # None /\ s.stage # "refused") =>
        /\ s.policy # None => s.policy.id \in DOMAIN policies
        /\ s.supplied => /\ s.policy # None
                         /\ Canonical(s.policy) = Canonical(BoundTo(s.policy.id))
        /\ s.stage = "admitted" => s.request \in DOMAIN requests

Refusal(h) ==
  LET s == hosts[h]
  IN  (s # None /\ s.stage = "refused") =>
        /\ s.policy.id \in DOMAIN policies
        /\ s.policy.content # BoundTo(s.policy.id).content \/ ~Intact(s.policy.id)

PoliciesIInv ==
  /\ PoliciesTypeOK
  /\ InputsAreGoverned
  /\ \A h \in Hosts : HostBound(h) /\ Refusal(h)

(* What every step does to the rows there are: none goes, none is bound to *)
(* anything else, and none is repaired.                                    *)
RowsKept ==
  \A i \in DOMAIN policies :
    /\ i \in DOMAIN policies'
    /\ BoundTo(i)' = BoundTo(i)
    /\ ~Intact(i) => ~Intact(i)'

(* What a row binds its id to is a policy of that id ...                   *)
LEMMA BoundToPolicy ==
  ASSUME Typed, NEW i \in DOMAIN policies
  PROVE  /\ Stored(i) \in Policy /\ Stored(i).id = i
         /\ BoundTo(i) \in Policy /\ BoundTo(i).id = i
<1>1. Stored(i) \in Policy /\ Stored(i).id = i
  BY DEF Typed, PolicyRow, Stored, Policy
<1> QED
  BY <1>1 DEF Typed, PolicyRow, BoundTo

(* ... and the one an undamaged row says.                                  *)
LEMMA IntactIsBound ==
  ASSUME Typed, NEW i \in DOMAIN policies, Intact(i)
  PROVE  /\ BoundTo(i) = Stored(i) /\ BoundTo(i).content = policies[i].content
         /\ policies[i].fingerprint = Stored(i) /\ policies[i].fingerprint # None
<1>1. policies[i].fingerprint = Stored(i)
  BY DEF Intact, Fingerprint
<1>2. policies[i].fingerprint # None
  BY <1>1, BoundToPolicy, NoneAssumption
<1>3. Stored(i).content = policies[i].content
  BY DEF Stored
<1> QED
  BY <1>1, <1>2, <1>3 DEF BoundTo

LEMMA CanonicalFields ==
  ASSUME NEW p \in Policy
  PROVE  /\ Canonical(p) \in Policy /\ Canonical(p).id = p.id
         /\ Canonical(p).content = p.content /\ Canonical(Canonical(p)) = Canonical(p)
         /\ Canonical(p) = [id |-> p.id, content |-> p.content, spelling |-> "lower"]
<1>1. p = [id |-> p.id, content |-> p.content, spelling |-> p.spelling]
  BY DEF Policy
<1>2. Canonical(p) = [id |-> p.id, content |-> p.content, spelling |-> "lower"]
  BY <1>1 DEF Canonical
<1> QED
  BY <1>2 DEF Policy, Spellings, Canonical

LEMMA RowOfPolicy ==
  ASSUME NEW p \in Policy, NEW i, policies[i] = Row(p), p.id = i
  PROVE  /\ policies[i] \in PolicyRow /\ policies[i].fingerprint = p
         /\ Stored(i) = p /\ BoundTo(i) = p
<1>1. Row(p) = [content |-> p.content, spelling |-> p.spelling, fingerprint |-> p]
  BY DEF Row, Fingerprint
<1>2. policies[i].fingerprint = p /\ p # None
  BY <1>1, NoneAssumption
<1>3. p = [id |-> p.id, content |-> p.content, spelling |-> p.spelling]
  BY DEF Policy
<1>4. Stored(i) = p
  BY <1>1, <1>3 DEF Stored
<1> QED
  BY <1>1, <1>2, <1>4 DEF Policy, PolicyRow, BoundTo

(* What register_reasoning_policy does to the rows: none is changed, and   *)
(* the policy it was given is bound to its id, up to its spelling.         *)
LEMMA RegisteredIsBound ==
  ASSUME Typed, NEW p \in Policy, Acceptable(p), policies' = Registered(p)
  PROVE  /\ Typed' /\ RowsKept
         /\ p.id \in DOMAIN policies' /\ Canonical(p) = Canonical(BoundTo(p.id))'
<1>1. /\ DOMAIN policies' = DOMAIN policies \cup {p.id}
      /\ \A i \in DOMAIN policies : policies'[i] = policies[i]
      /\ p.id \notin DOMAIN policies => policies'[p.id] = Row(Canonical(p))
  BY DEF Registered
<1>2. RowsKept
  BY <1>1 DEF RowsKept, BoundTo, Intact, Stored
<1>3. p.id \in PolicyIds
  BY DEF Policy
<1>4. CASE p.id \in DOMAIN policies
  <2>1. Intact(p.id) /\ SameSemantics(p)
    BY <1>4 DEF Acceptable
  <2>2. BoundTo(p.id) = Stored(p.id)
    BY <1>4, <2>1, IntactIsBound
  <2>3. Canonical(p) = Canonical(BoundTo(p.id))
    BY <2>1, <2>2 DEF SameSemantics
  <2>4. BoundTo(p.id)' = BoundTo(p.id)
    BY <1>2, <1>4 DEF RowsKept
  <2>5. Canonical(p) = Canonical(BoundTo(p.id))'
    BY <2>3, <2>4 DEF Canonical
  <2>6. DOMAIN policies' = DOMAIN policies
    BY <1>1, <1>4
  <2> QED
    BY <1>1, <1>2, <1>4, <2>5, <2>6 DEF Typed
<1>5. CASE p.id \notin DOMAIN policies
  <2>1. /\ Canonical(p) \in Policy /\ Canonical(p).id = p.id
        /\ Canonical(Canonical(p)) = Canonical(p)
    BY CanonicalFields
  <2>2. policies'[p.id] = Row(Canonical(p))
    BY <1>1, <1>5
  <2>3. Row(Canonical(p)) = [content |-> Canonical(p).content, spelling |-> Canonical(p).spelling,
                             fingerprint |-> Canonical(p)]
    BY DEF Row, Fingerprint
  <2>4. /\ policies'[p.id] \in PolicyRow /\ policies'[p.id].fingerprint = Canonical(p)
    BY <2>1, <2>2, <2>3 DEF Policy, PolicyRow
  <2>5. BoundTo(p.id)' = Canonical(p)
    BY <2>1, <2>4, NoneAssumption DEF BoundTo
  <2>6. Canonical(BoundTo(p.id))' = Canonical(p)
    BY <2>1, <2>5 DEF Canonical
  <2> QED
    BY <1>1, <1>2, <1>3, <2>1, <2>4, <2>6 DEF Typed
<1> QED
  BY <1>4, <1>5

(* A policy is refused for another content, or because its row is damaged. *)
LEMMA RefusedIsRebound ==
  ASSUME Typed, NEW p \in Policy, ~Acceptable(p)
  PROVE  /\ p.id \in DOMAIN policies
         /\ p.content # BoundTo(p.id).content \/ ~Intact(p.id)
<1>1. p.id \in DOMAIN policies
  <2> SUFFICES ASSUME p.id \notin DOMAIN policies PROVE FALSE
    OBVIOUS
  <2>1. PICK i \in DOMAIN policies : policies[i].fingerprint = Canonical(p)
    BY DEF Acceptable, Fingerprint
  <2>2. Canonical(p).id = p.id /\ Canonical(p) # None
    BY CanonicalFields, NoneAssumption
  <2> QED
    BY <2>1, <2>2 DEF Typed
<1>2. ASSUME Intact(p.id) PROVE p.content # BoundTo(p.id).content
  <2>1. Canonical(Stored(p.id)) # Canonical(p)
    BY <1>1, <1>2 DEF Acceptable, SameSemantics
  <2>2. Stored(p.id) \in Policy /\ Stored(p.id).id = p.id /\ BoundTo(p.id) = Stored(p.id)
    BY <1>1, <1>2, BoundToPolicy, IntactIsBound
  <2>3. /\ Canonical(p) = [id |-> p.id, content |-> p.content, spelling |-> "lower"]
        /\ Canonical(Stored(p.id)) =
             [id |-> p.id, content |-> Stored(p.id).content, spelling |-> "lower"]
    BY <2>2, CanonicalFields
  <2> QED
    BY <2>1, <2>2, <2>3
<1> QED
  BY <1>1, <1>2

-----------------------------------------------------------------------------
(* A host that does not move, with rows kept and requests only added.      *)
LEMMA OthersUntouched ==
  ASSUME PoliciesIInv, RowsKept, DOMAIN requests \subseteq DOMAIN requests',
         NEW g \in Hosts, hosts'[g] = hosts[g]
  PROVE  HostBound(g)' /\ Refusal(g)'
<1>1. HostBound(g) /\ Refusal(g)
  BY DEF PoliciesIInv
<1>2. HostBound(g)'
  BY <1>1 DEF HostBound, RowsKept, Canonical
<1> QED
  BY <1>1, <1>2 DEF Refusal, RowsKept

(* Requests that stay as they are remain governed.                         *)
LEMMA RequestsUntouched ==
  ASSUME PoliciesIInv, RowsKept, requests' = requests
  PROVE  /\ InputsAreGoverned'
         /\ \A r \in DOMAIN requests' :
              /\ requests'[r] \in RequestRow
              /\ requests'[r].policy # None => requests'[r].policy \in DOMAIN policies'
<1>1. \A r \in DOMAIN requests :
        requests[r].policy # None => requests[r].policy \in DOMAIN policies
  BY DEF PoliciesIInv, PoliciesTypeOK
<1>2. \A r \in DOMAIN requests :
        /\ requests[r].supplied # None => requests[r].policy # None
        /\ requests[r].input # None => requests[r].policy # None
  BY DEF PoliciesIInv, InputsAreGoverned
<1>3. \A r \in DOMAIN requests : requests[r].policy # None =>
        BoundTo(requests[r].policy)' = BoundTo(requests[r].policy)
  BY <1>1 DEF RowsKept
<1>4. InputsAreGoverned'
  BY <1>2, <1>3 DEF PoliciesIInv, InputsAreGoverned, Canonical
<1> QED
  BY <1>1, <1>4 DEF PoliciesIInv, PoliciesTypeOK, RowsKept

(* A host that enters a stage without touching requests.                   *)
LEMMA HostMoves ==
  ASSUME PoliciesIInv, Typed', RowsKept, requests' = requests, NEW h \in Hosts,
         NEW s \in HostState \cup {None}, hosts' = [hosts EXCEPT ![h] = s],
         HostBound(h)' /\ Refusal(h)'
  PROVE  PoliciesIInv'
<1>1. hosts' \in [Hosts -> HostState \cup {None}] /\ \A g \in Hosts \ {h} : hosts'[g] = hosts[g]
  BY DEF PoliciesIInv, PoliciesTypeOK
<1>2. \A g \in Hosts : HostBound(g)' /\ Refusal(g)'
  BY <1>1, OthersUntouched
<1>3. PoliciesTypeOK' /\ InputsAreGoverned'
  BY <1>1, RequestsUntouched DEF PoliciesIInv, PoliciesTypeOK, Typed
<1> QED
  BY <1>2, <1>3 DEF PoliciesIInv

LEMMA SameRows ==
  ASSUME Typed, policies' = policies
  PROVE  Typed' /\ RowsKept
  BY DEF Typed, RowsKept, BoundTo, Intact, Stored

LEMMA TypesHold == PoliciesIInv => Typed
  BY DEF PoliciesIInv, PoliciesTypeOK, Typed

-----------------------------------------------------------------------------
(* The rows an older version left are bound to their ids.                  *)
LEMMA PoliciesInitially == PoliciesInit => PoliciesIInv
<1> SUFFICES ASSUME PoliciesInit PROVE PoliciesIInv
  OBVIOUS
<1>1. PICK old \in SUBSET Policy :
        /\ \A p, q \in old : p.id = q.id => p = q
        /\ policies = [i \in {p.id : p \in old} |-> Row(CHOOSE p \in old : p.id = i)]
  BY DEF PoliciesInit
<1>2. ASSUME NEW i \in DOMAIN policies
      PROVE  /\ i \in PolicyIds /\ policies[i] \in PolicyRow /\ policies[i].fingerprint.id = i
  <2>1. PICK p \in Policy : policies[i] = Row(p) /\ p.id = i
    BY <1>1, <1>2
  <2>2. p.id \in PolicyIds
    BY DEF Policy
  <2> QED
    BY <2>1, <2>2, RowOfPolicy
<1>3. DOMAIN policies \subseteq PolicyIds
  BY <1>2
<1>4. DOMAIN requests = {} /\ hosts = [h \in Hosts |-> None]
  BY DEF PoliciesInit
<1> QED
  BY <1>2, <1>3, <1>4 DEF PoliciesIInv, PoliciesTypeOK, InputsAreGoverned, HostBound, Refusal

(* Registering keeps what is bound, and binds the host to what it supplied. *)
LEMMA RegisterStep ==
  ASSUME PoliciesIInv, NEW h \in Hosts, NEW p \in Policy, RegisterPolicy(h, p)
  PROVE  PoliciesIInv' /\ RowsKept
<1> DEFINE s == [stage |-> "resolved", policy |-> p, supplied |-> TRUE, request |-> None]
<1>1. /\ Typed' /\ RowsKept
      /\ p.id \in DOMAIN policies' /\ Canonical(p) = Canonical(BoundTo(p.id))'
  BY TypesHold, RegisteredIsBound DEF RegisterPolicy
<1>2. hosts' = [hosts EXCEPT ![h] = s] /\ requests' = requests
  BY DEF RegisterPolicy, Enters
<1>3. /\ s \in HostState /\ s.stage = "resolved" /\ s.policy = p
      /\ p # None /\ hosts \in [Hosts -> HostState \cup {None}]
  BY NoneAssumption DEF HostState, PoliciesIInv, PoliciesTypeOK
<1> HIDE DEF s
<1>4. hosts'[h] = s
  BY <1>2, <1>3
<1>5. HostBound(h)' /\ Refusal(h)'
  BY <1>1, <1>3, <1>4 DEF HostBound, Refusal, Canonical
<1> QED
  BY <1>1, <1>2, <1>3, <1>5, HostMoves

(* A refusal changes nothing but its host.                                 *)
LEMMA RefuseStep ==
  ASSUME PoliciesIInv, NEW h \in Hosts, NEW p \in Policy, RefusePolicy(h, p)
  PROVE  PoliciesIInv'
<1> DEFINE s == [stage |-> "refused", policy |-> p, supplied |-> TRUE, request |-> None]
<1>1. /\ p.id \in DOMAIN policies
      /\ p.content # BoundTo(p.id).content \/ ~Intact(p.id)
  BY TypesHold, RefusedIsRebound DEF RefusePolicy
<1>2. hosts' = [hosts EXCEPT ![h] = s] /\ policies' = policies /\ requests' = requests
  BY DEF RefusePolicy, Enters
<1>3. /\ s \in HostState /\ s.stage = "refused" /\ s.policy = p
      /\ hosts \in [Hosts -> HostState \cup {None}]
  BY DEF HostState, PoliciesIInv, PoliciesTypeOK
<1> HIDE DEF s
<1>4. hosts'[h] = s /\ Typed' /\ RowsKept
  BY <1>2, <1>3, TypesHold, SameRows
<1>5. HostBound(h)' /\ Refusal(h)'
  BY <1>1, <1>2, <1>3, <1>4 DEF HostBound, Refusal, RowsKept
<1> QED
  BY <1>2, <1>3, <1>4, <1>5, HostMoves

(* A policy that is used by its id is not supplied, nor is none at all.    *)
LEMMA UseStep ==
  ASSUME PoliciesIInv, NEW h \in Hosts,
         UseNoPolicy(h) \/ \E i \in PolicyIds : UsePolicy(h, i)
  PROVE  PoliciesIInv'
<1>1. /\ requests' = requests /\ policies' = policies
      /\ \E p \in Policy \cup {None} :
           /\ hosts' = [hosts EXCEPT ![h] = [stage |-> "resolved", policy |-> p,
                                             supplied |-> FALSE, request |-> None]]
           /\ p # None => p.id \in DOMAIN policies
  <2>1. CASE UseNoPolicy(h)
    BY <2>1 DEF UseNoPolicy, Enters
  <2>2. ASSUME NEW i \in PolicyIds, UsePolicy(h, i)
        PROVE  /\ i \in DOMAIN policies /\ Stored(i) \in Policy /\ Stored(i).id = i
               /\ hosts' = [hosts EXCEPT ![h] = [stage |-> "resolved", policy |-> Stored(i),
                                                 supplied |-> FALSE, request |-> None]]
               /\ requests' = requests /\ policies' = policies
    BY <2>2, TypesHold, BoundToPolicy DEF UsePolicy, Readable, Enters
  <2> QED
    BY <2>1, <2>2
<1>2. PICK p \in Policy \cup {None} :
        /\ hosts' = [hosts EXCEPT ![h] = [stage |-> "resolved", policy |-> p,
                                          supplied |-> FALSE, request |-> None]]
        /\ p # None => p.id \in DOMAIN policies
  BY <1>1
<1> DEFINE s == [stage |-> "resolved", policy |-> p, supplied |-> FALSE, request |-> None]
<1>3. /\ s \in HostState /\ s.stage = "resolved" /\ s.policy = p /\ ~s.supplied
      /\ hosts \in [Hosts -> HostState \cup {None}]
  BY DEF HostState, PoliciesIInv, PoliciesTypeOK
<1> HIDE DEF s
<1>4. hosts' = [hosts EXCEPT ![h] = s] /\ hosts'[h] = s /\ Typed' /\ RowsKept
  BY <1>1, <1>2, <1>3, TypesHold, SameRows DEF s
<1>5. HostBound(h)' /\ Refusal(h)'
  BY <1>1, <1>2, <1>3, <1>4 DEF HostBound, Refusal
<1> QED
  BY <1>1, <1>3, <1>4, <1>5, HostMoves

(* A request names a policy that is registered and bound to what its host  *)
(* supplied, or none.                                                      *)
LEMMA AdmitStep ==
  ASSUME PoliciesIInv, NEW h \in Hosts, NEW r \in RequestIds, AdmitRequest(h, r)
  PROVE  PoliciesIInv'
<1> DEFINE s == hosts[h]
           t == [stage |-> "admitted", policy |-> s.policy, supplied |-> s.supplied, request |-> r]
           row == [policy |-> IF s.policy = None THEN None ELSE s.policy.id,
                   supplied |-> IF s.supplied THEN s.policy ELSE None,
                   input |-> None]
<1>1. s # None /\ s.stage = "resolved" /\ r \notin DOMAIN requests
  BY DEF AdmitRequest
<1>2. s \in HostState
  BY <1>1 DEF PoliciesIInv, PoliciesTypeOK
<1>3. /\ s.policy \in Policy \cup {None} /\ s.supplied \in BOOLEAN
      /\ s.policy # None => s.policy.id \in DOMAIN policies
      /\ s.supplied => s.policy # None /\ Canonical(s.policy) = Canonical(BoundTo(s.policy.id))
  BY <1>1, <1>2 DEF HostState, PoliciesIInv, HostBound
<1>4. /\ hosts' = [hosts EXCEPT ![h] = t] /\ policies' = policies
      /\ requests' = [x \in DOMAIN requests \cup {r} |-> IF x = r THEN row ELSE requests[x]]
  BY DEF AdmitRequest, Enters
<1>5. /\ t \in HostState /\ t.stage = "admitted" /\ t.policy = s.policy
      /\ t.supplied = s.supplied /\ t.request = r
  BY <1>3 DEF HostState
<1>6. s.policy # None => s.policy.id \in PolicyIds /\ s.policy.id # None
  BY <1>3, NoneAssumption DEF Policy
<1>7. /\ row \in RequestRow /\ row.input = None
      /\ s.policy = None => row.policy = None
      /\ s.policy # None => row.policy = s.policy.id
      /\ row.supplied # None => s.supplied /\ row.supplied = s.policy
  BY <1>3, <1>6 DEF RequestRow
<1> HIDE DEF s, t, row
<1>8. Typed' /\ RowsKept
  BY <1>4, TypesHold, SameRows
<1>9. /\ DOMAIN requests' = DOMAIN requests \cup {r} /\ requests'[r] = row
      /\ \A x \in DOMAIN requests : requests'[x] = requests[x]
  BY <1>1, <1>4
<1>10. /\ hosts' \in [Hosts -> HostState \cup {None}] /\ hosts'[h] = t
       /\ \A g \in Hosts \ {h} : hosts'[g] = hosts[g]
  BY <1>4, <1>5 DEF PoliciesIInv, PoliciesTypeOK
<1>11. PoliciesTypeOK'
  BY <1>3, <1>4, <1>7, <1>9, <1>10 DEF PoliciesIInv, PoliciesTypeOK
<1>12. InputsAreGoverned'
  <2>1. \A i : BoundTo(i)' = BoundTo(i)
    BY <1>4 DEF BoundTo, Stored
  <2>2. row.supplied # None =>
          row.policy # None /\ Canonical(row.supplied) = Canonical(BoundTo(row.policy))
    BY <1>3, <1>6, <1>7
  <2> QED
    BY <1>7, <1>9, <2>1, <2>2 DEF PoliciesIInv, InputsAreGoverned, Canonical
<1>13. HostBound(h)' /\ Refusal(h)'
  BY <1>3, <1>4, <1>5, <1>8, <1>9, <1>10 DEF HostBound, Refusal, RowsKept, Canonical
<1>14. \A g \in Hosts : HostBound(g)' /\ Refusal(g)'
  BY <1>8, <1>9, <1>10, <1>13, OthersUntouched
<1> QED
  BY <1>11, <1>12, <1>14 DEF PoliciesIInv

(* An input is made of what is bound to the id: a damaged row is not read. *)
LEMMA MaterializeStep ==
  ASSUME PoliciesIInv, NEW h \in Hosts, MaterializeInput(h)
  PROVE  PoliciesIInv'
<1> DEFINE r == hosts[h].request
           i == requests[r].policy
           input == IF i = None THEN None ELSE Stored(i)
<1>1. r \in DOMAIN requests
  BY DEF MaterializeInput, PoliciesIInv, HostBound
<1>2. i # None => i \in DOMAIN policies /\ Intact(i)
  BY DEF MaterializeInput, Readable
<1>3. input # None => i # None /\ input = BoundTo(i) /\ input \in Policy
  BY <1>2, TypesHold, IntactIsBound, BoundToPolicy
<1>4. /\ requests' = [requests EXCEPT ![r].input = input]
      /\ hosts' = [hosts EXCEPT ![h] = None] /\ policies' = policies
  BY DEF MaterializeInput
<1>5. requests[r] \in RequestRow
  BY <1>1 DEF PoliciesIInv, PoliciesTypeOK
<1> HIDE DEF r, input
<1>6. /\ DOMAIN requests' = DOMAIN requests
      /\ \A x \in DOMAIN requests \ {r} : requests'[x] = requests[x]
      /\ requests'[r] \in RequestRow /\ requests'[r].policy = i
      /\ requests'[r].supplied = requests[r].supplied /\ requests'[r].input = input
  BY <1>1, <1>3, <1>4, <1>5 DEF RequestRow
<1>7. PoliciesTypeOK'
  BY <1>2, <1>4, <1>6 DEF PoliciesIInv, PoliciesTypeOK
<1>8. InputsAreGoverned'
  <2>1. \A j : BoundTo(j)' = BoundTo(j)
    BY <1>4 DEF BoundTo, Stored
  <2> QED
    BY <1>1, <1>3, <1>6, <2>1 DEF PoliciesIInv, InputsAreGoverned, Canonical
<1>9. Typed' /\ RowsKept
  BY <1>4, TypesHold, SameRows
<1>10. hosts'[h] = None /\ \A g \in Hosts \ {h} : hosts'[g] = hosts[g]
  BY <1>4 DEF PoliciesIInv, PoliciesTypeOK
<1>11. \A g \in Hosts \ {h} : HostBound(g)' /\ Refusal(g)'
  BY <1>6, <1>9, <1>10, OthersUntouched
<1>12. HostBound(h)' /\ Refusal(h)'
  BY <1>10 DEF HostBound, Refusal
<1> QED
  BY <1>7, <1>8, <1>11, <1>12 DEF PoliciesIInv

(* A damaged row binds its id to what it did: what it lost the fingerprint *)
(* or, failing that, the other columns still say.                          *)
LEMMA DamageStep ==
  ASSUME PoliciesIInv, NEW i \in PolicyIds, NEW content \in Contents,
         NEW spelling \in Spellings, DamageRow(i, content, spelling)
  PROVE  PoliciesIInv' /\ RowsKept
<1>1. /\ i \in DOMAIN policies /\ Intact(i)
      /\ \/ policies' = [policies EXCEPT ![i].content = content]
         \/ policies' = [policies EXCEPT ![i].spelling = spelling]
         \/ policies' = [policies EXCEPT ![i].fingerprint = None]
      /\ requests' = requests /\ hosts' = hosts
  BY DEF DamageRow
<1>2. policies[i] \in PolicyRow
  BY <1>1 DEF PoliciesIInv, PoliciesTypeOK
<1>3. /\ DOMAIN policies' = DOMAIN policies
      /\ \A j \in DOMAIN policies \ {i} : policies'[j] = policies[j]
      /\ policies'[i] \in PolicyRow
      /\ \/ policies'[i].fingerprint = policies[i].fingerprint
         \/ /\ policies'[i].fingerprint = None
            /\ policies'[i].content = policies[i].content
            /\ policies'[i].spelling = policies[i].spelling
  BY <1>1, <1>2 DEF PolicyRow
<1>4. Typed'
  BY <1>1, <1>3 DEF PoliciesIInv, PoliciesTypeOK, Typed
<1>5. /\ BoundTo(i) = Stored(i)
      /\ policies[i].fingerprint = Stored(i) /\ policies[i].fingerprint # None
  BY <1>1, TypesHold, IntactIsBound
<1>6. BoundTo(i)' = BoundTo(i)
  BY <1>3, <1>5 DEF BoundTo, Stored
<1>7. \A j \in DOMAIN policies \ {i} : BoundTo(j)' = BoundTo(j) /\ (Intact(j)' <=> Intact(j))
  BY <1>3 DEF BoundTo, Intact, Stored
<1>8. RowsKept
  BY <1>1, <1>3, <1>6, <1>7 DEF RowsKept
<1>9. \A g \in Hosts : HostBound(g)' /\ Refusal(g)'
  BY <1>1, <1>8, OthersUntouched
<1>10. PoliciesTypeOK' /\ InputsAreGoverned'
  BY <1>1, <1>4, <1>8, RequestsUntouched DEF PoliciesIInv, PoliciesTypeOK, Typed
<1> QED
  BY <1>8, <1>9, <1>10 DEF PoliciesIInv

(* Leaving and stuttering change no row.                                   *)
LEMMA LeaveStep ==
  ASSUME PoliciesIInv, UNCHANGED policyVars \/ \E h \in Hosts : LeaveHost(h)
  PROVE  PoliciesIInv'
<1>1. policies' = policies /\ requests' = requests
  BY DEF policyVars, LeaveHost
<1>2. hosts' = hosts \/ \E h \in Hosts : hosts' = [hosts EXCEPT ![h] = None]
  BY DEF policyVars, LeaveHost
<1>3. Typed' /\ RowsKept
  BY <1>1, TypesHold, SameRows
<1>4. /\ hosts' \in [Hosts -> HostState \cup {None}]
      /\ \A g \in Hosts : hosts'[g] = hosts[g] \/ hosts'[g] = None
  BY <1>2 DEF PoliciesIInv, PoliciesTypeOK
<1>5. PoliciesTypeOK' /\ InputsAreGoverned'
  BY <1>1, <1>3, <1>4, RequestsUntouched DEF PoliciesIInv, PoliciesTypeOK
<1>6. \A g \in Hosts : HostBound(g)' /\ Refusal(g)'
  <2> SUFFICES ASSUME NEW g \in Hosts PROVE HostBound(g)' /\ Refusal(g)'
    OBVIOUS
  <2>1. CASE hosts'[g] = hosts[g]
    BY <1>1, <1>3, <2>1, OthersUntouched
  <2>2. CASE hosts'[g] = None
    BY <2>2 DEF HostBound, Refusal
  <2> QED
    BY <1>4, <2>1, <2>2
<1> QED
  BY <1>5, <1>6 DEF PoliciesIInv

(* The bindings hold at every step of every host.                          *)
LEMMA PoliciesInvariant == PoliciesSpec => []PoliciesIInv
<1>1. PoliciesIInv /\ [PoliciesNext]_policyVars => PoliciesIInv'
  BY RegisterStep, RefuseStep, UseStep, AdmitStep, MaterializeStep, DamageStep, LeaveStep
  DEF PoliciesNext
<1> QED
  BY <1>1, PoliciesInitially, PTL DEF PoliciesSpec

(* The tables hold rows of their types.                                    *)
THEOREM PoliciesTyped == PoliciesSpec => []PoliciesTypeOK
<1>1. PoliciesIInv => PoliciesTypeOK
  BY DEF PoliciesIInv
<1> QED
  BY <1>1, PoliciesInvariant, PTL

(* What governs an invocation is what its host supplied and what was first *)
(* bound to the id.                                                        *)
THEOREM InputsGoverned == PoliciesSpec => []InputsAreGoverned
<1>1. PoliciesIInv => InputsAreGoverned
  BY DEF PoliciesIInv
<1> QED
  BY <1>1, PoliciesInvariant, PTL

(* Only another content or a damaged row is refused.                       *)
THEOREM RefusalsAreRebindings == PoliciesSpec => []RefusedOnlyWhenRebound
<1>1. PoliciesIInv => RefusedOnlyWhenRebound
  BY DEF PoliciesIInv, Refusal, RefusedOnlyWhenRebound
<1> QED
  BY <1>1, PoliciesInvariant, PTL

(* No step binds a policy id or a request to anything else.                *)
THEOREM BindingsNeverChange == PoliciesSpec => BindingsAreFinal
<1> DEFINE RequestsKept == \A r \in DOMAIN requests :
                             r \in DOMAIN requests' /\ requests'[r].policy = requests[r].policy
           Final == /\ \A i \in DOMAIN policies :
                         i \in DOMAIN policies' /\ BoundTo(i)' = BoundTo(i)
                    /\ RequestsKept
<1>1. PoliciesIInv /\ [PoliciesNext]_policyVars => [Final]_policyVars
  <2> SUFFICES ASSUME PoliciesIInv, PoliciesNext PROVE RowsKept /\ RequestsKept
    BY DEF RowsKept
  <2>1. ASSUME NEW h \in Hosts, NEW p \in Policy, RegisterPolicy(h, p)
        PROVE  RowsKept /\ RequestsKept
    BY <2>1, RegisterStep DEF RegisterPolicy
  <2>2. ASSUME NEW i \in PolicyIds, NEW content \in Contents, NEW spelling \in Spellings,
               DamageRow(i, content, spelling)
        PROVE  RowsKept /\ RequestsKept
    BY <2>2, DamageStep DEF DamageRow
  <2>3. ASSUME policies' = policies PROVE RowsKept
    BY <2>3, TypesHold, SameRows
  <2>4. ASSUME NEW h \in Hosts,
               \/ UseNoPolicy(h) \/ LeaveHost(h)
               \/ \E p \in Policy : RefusePolicy(h, p)
               \/ \E i \in PolicyIds : UsePolicy(h, i)
        PROVE  RowsKept /\ RequestsKept
    BY <2>3, <2>4 DEF UseNoPolicy, LeaveHost, RefusePolicy, UsePolicy
  <2>5. ASSUME NEW h \in Hosts, NEW r \in RequestIds, AdmitRequest(h, r)
        PROVE  RowsKept /\ RequestsKept
    BY <2>3, <2>5 DEF AdmitRequest
  <2>6. ASSUME NEW h \in Hosts, MaterializeInput(h) PROVE RowsKept /\ RequestsKept
    <3>1. /\ policies' = policies
          /\ \E r, c : requests' = [requests EXCEPT ![r].input = c]
      BY <2>6 DEF MaterializeInput
    <3>2. \A x \in DOMAIN requests : requests[x] \in RequestRow
      BY DEF PoliciesIInv, PoliciesTypeOK
    <3>3. RequestsKept
      BY <3>1, <3>2 DEF RequestRow
    <3> QED
      BY <2>3, <3>1, <3>3
  <2> QED
    BY <2>1, <2>2, <2>4, <2>5, <2>6 DEF PoliciesNext
<1> QED
  BY <1>1, PoliciesInvariant, PTL DEF PoliciesSpec, BindingsAreFinal
=============================================================================
