-------------------------- MODULE ReasoningPolicies --------------------------
(***************************************************************************)
(* Reasoning policies and the invocations they govern: ReasoningPolicy     *)
(* (cognition/reasoning.py), register_reasoning_policy                     *)
(* (storage/sqlite/reasoning_store.py) and the part of                     *)
(* CognitiveRuntime._begin_invocation that concerns them                   *)
(* (runtime/model.py); the projection of the request is left to            *)
(* CognitiveRuntime.                                                       *)
(*                                                                         *)
(* A host registers the policy it supplies, admits a request that names it *)
(* by id only, and reads it again by that id for the model input: three    *)
(* steps, between which other hosts register.  A policy is its id and what *)
(* it says; of the latter only the spelling of the source digest counts,   *)
(* which older versions stored as it came.  Hash functions are injective.  *)
(* A host may also name a stored policy, or none.                          *)
(***************************************************************************)
CONSTANTS
  PolicyIds,   \* ids chosen by hosts
  Contents,    \* version, mode, stages, requirements and source
  Hosts,       \* processes running CognitiveRuntime
  RequestIds,  \* UUIDs of cognitive requests
  None

VARIABLES
  policies,  \* reasoning_policies: id -> row
  requests,  \* cognitive_requests: id -> policy id and the input made of it
  hosts      \* where each host stands in _begin_invocation

policyVars == <<policies, requests, hosts>>

Spellings == {"lower", "mixed"}
Policy == [id : PolicyIds, content : Contents, spelling : Spellings]

ASSUME NoneAssumption == None \notin PolicyIds \cup Contents \cup Policy

\* Mutant: one fingerprint for all the ids of a content.
FingerprintWithoutId(p) == [p EXCEPT !.id = None]

(* The fingerprint covers the id, the content and the digest as spelled.   *)
Fingerprint(p) == p

(* A fingerprint of no policy is None, and so is the policy of a call or a *)
(* request that names none.                                                *)
PolicyRow == [content : Contents, spelling : Spellings, fingerprint : Policy \cup {None}]
RequestRow == [policy : PolicyIds \cup {None}, supplied : Policy \cup {None},
               input : Policy \cup {None}]
HostState == [stage : {"resolved", "admitted", "refused"}, policy : Policy \cup {None},
              supplied : BOOLEAN, request : RequestIds \cup {None}]

Stored(i) == [id |-> i, content |-> policies[i].content, spelling |-> policies[i].spelling]

(* _reasoning_policy_from_row verifies the fingerprint on every read.      *)
Intact(i) == Fingerprint(Stored(i)) = policies[i].fingerprint

Readable(i) == i \in DOMAIN policies /\ Intact(i)

Row(p) == [content |-> p.content, spelling |-> p.spelling, fingerprint |-> Fingerprint(p)]

(* _canonical_policy_for_registration.                                     *)
Canonical(p) == [p EXCEPT !.spelling = "lower"]

-----------------------------------------------------------------------------
(* The store may hold policies of older versions, spelled as they came.    *)
PoliciesInit ==
  /\ \E old \in SUBSET Policy :
       /\ \A p, q \in old : p.id = q.id => p = q
       /\ policies = [i \in {p.id : p \in old} |-> Row(CHOOSE p \in old : p.id = i)]
  /\ requests = [r \in {} |-> None]
  /\ hosts = [h \in Hosts |-> None]

\* Mutant: a registered id is accepted whatever is registered under it.
SameSemanticsUnchecked(p) == TRUE

\* Mutant: the spelling of a stored digest counts as semantics.
SameSemanticsAsSpelled(p) == Stored(p.id) = Canonical(p)

(* exact_match or legacy_case_only_match: equal up to the spelling.        *)
SameSemantics(p) == Canonical(Stored(p.id)) = Canonical(p)

(* What the transaction of register_reasoning_policy accepts.              *)
Acceptable(p) ==
  IF p.id \in DOMAIN policies
    THEN Intact(p.id) /\ SameSemantics(p)
    ELSE \A i \in DOMAIN policies : policies[i].fingerprint # Fingerprint(Canonical(p))

Enters(h, stage, p, supplied, r) ==
  hosts' = [hosts EXCEPT ![h] =
              [stage |-> stage, policy |-> p, supplied |-> supplied, request |-> r]]

\* Mutant: a registration replaces the row it is equivalent to.
RegisteredAnew(p) == [i \in DOMAIN policies \cup {p.id} |->
                        IF i = p.id THEN Row(Canonical(p)) ELSE policies[i]]

(* A row that exists is left as it is, also when it is spelled otherwise.  *)
Registered(p) == [i \in DOMAIN policies \cup {p.id} |->
                    IF i \in DOMAIN policies THEN policies[i] ELSE Row(Canonical(p))]

RegisterPolicy(h, p) ==
  /\ hosts[h] = None
  /\ Acceptable(p)
  /\ policies' = Registered(p)
  /\ Enters(h, "resolved", p, TRUE, None)
  /\ UNCHANGED requests

RefusePolicy(h, p) ==
  /\ hosts[h] = None
  /\ ~Acceptable(p)
  /\ Enters(h, "refused", p, TRUE, None)
  /\ UNCHANGED <<policies, requests>>

(* The caller names a policy instead of supplying one.                     *)
UsePolicy(h, i) ==
  /\ hosts[h] = None
  /\ Readable(i)
  /\ Enters(h, "resolved", Stored(i), FALSE, None)
  /\ UNCHANGED <<policies, requests>>

(* The caller gives no policy at all.                                      *)
UseNoPolicy(h) ==
  /\ hosts[h] = None
  /\ Enters(h, "resolved", None, FALSE, None)
  /\ UNCHANGED <<policies, requests>>

(* create_cognitive_request: the row names the policy by its id, if any.   *)
AdmitRequest(h, r) ==
  LET s == hosts[h]
      row == [policy |-> IF s.policy = None THEN None ELSE s.policy.id,
              supplied |-> IF s.supplied THEN s.policy ELSE None,
              input |-> None]
  IN  /\ s # None
      /\ s.stage = "resolved"
      /\ r \notin DOMAIN requests
      /\ s.policy # None => Readable(s.policy.id)
      /\ requests' = [x \in DOMAIN requests \cup {r} |-> IF x = r THEN row ELSE requests[x]]
      /\ Enters(h, "admitted", s.policy, s.supplied, r)
      /\ UNCHANGED policies

(* _materialize_input reads the policy of the request, if it has one.      *)
MaterializeInput(h) ==
  LET s == hosts[h]
      i == requests[s.request].policy
  IN  /\ s # None
      /\ s.stage = "admitted"
      /\ i # None => Readable(i)
      /\ requests' = [requests EXCEPT ![s.request].input = IF i = None THEN None ELSE Stored(i)]
      /\ hosts' = [hosts EXCEPT ![h] = None]
      /\ UNCHANGED policies

(* The host raises to its caller or dies.                                  *)
LeaveHost(h) ==
  /\ hosts[h] # None
  /\ hosts' = [hosts EXCEPT ![h] = None]
  /\ UNCHANGED <<policies, requests>>

(* What the verification is there for: a column is not what was written.    *)
(* The fingerprint that replaces another is that of no policy, and a row is *)
(* damaged once.                                                            *)
DamageRow(i, content, spelling) ==
  /\ i \in DOMAIN policies
  /\ Intact(i)
  /\ policies' \in {[policies EXCEPT ![i].content = content],
                    [policies EXCEPT ![i].spelling = spelling],
                    [policies EXCEPT ![i].fingerprint = None]}
  /\ policies' # policies
  /\ UNCHANGED <<requests, hosts>>

PoliciesNext ==
  \/ \E h \in Hosts, p \in Policy : RegisterPolicy(h, p) \/ RefusePolicy(h, p)
  \/ \E h \in Hosts, i \in PolicyIds : UsePolicy(h, i)
  \/ \E h \in Hosts, r \in RequestIds : AdmitRequest(h, r)
  \/ \E h \in Hosts : UseNoPolicy(h) \/ MaterializeInput(h) \/ LeaveHost(h)
  \/ \E i \in PolicyIds, content \in Contents, spelling \in Spellings :
       DamageRow(i, content, spelling)

PoliciesSpec == PoliciesInit /\ [][PoliciesNext]_policyVars

-----------------------------------------------------------------------------
(* Rows have the columns of their tables, and requests name policies that  *)
(* are registered although no foreign key says so.                         *)
PoliciesTypeOK ==
  /\ DOMAIN policies \subseteq PolicyIds
  /\ \A i \in DOMAIN policies :
       /\ policies[i] \in PolicyRow
       /\ policies[i].fingerprint # None => policies[i].fingerprint.id = i
  /\ DOMAIN requests \subseteq RequestIds
  /\ \A r \in DOMAIN requests :
       /\ requests[r] \in RequestRow
       /\ requests[r].policy # None => requests[r].policy \in DOMAIN policies
  /\ hosts \in [Hosts -> HostState \cup {None}]

(* The policy an id was bound to: a row that lost its fingerprint lost     *)
(* nothing else.                                                           *)
BoundTo(i) == IF policies[i].fingerprint = None THEN Stored(i) ELSE policies[i].fingerprint

(* What governs an invocation is what its host supplied, and what was first *)
(* registered under the id, to the spelling: with hosts that race to        *)
(* register one id for different contents, and with rows any column of      *)
(* which was damaged in between.  Without a policy nothing governs it.      *)
InputsAreGoverned ==
  \A r \in DOMAIN requests :
    LET q == requests[r]
    IN  /\ q.supplied # None =>
             q.policy # None /\ Canonical(q.supplied) = Canonical(BoundTo(q.policy))
        /\ q.input # None => q.policy # None /\ q.input = BoundTo(q.policy)

(* Registering again what is registered is accepted, in either spelling and *)
(* after an upgrade: only another content or a damaged row is refused.      *)
RefusedOnlyWhenRebound ==
  \A h \in Hosts :
    (hosts[h] # None /\ hosts[h].stage = "refused") =>
      LET p == hosts[h].policy
      IN  /\ p.id \in DOMAIN policies
          /\ p.content # BoundTo(p.id).content \/ ~Intact(p.id)

(* A policy id is never bound to anything else than what it was first bound *)
(* to (docs/reasoning-policy.md:45), in whichever column it is damaged, nor *)
(* is a request moved to another id.                                        *)
BindingsAreFinal ==
  [][/\ \A i \in DOMAIN policies : i \in DOMAIN policies' /\ BoundTo(i)' = BoundTo(i)
     /\ \A r \in DOMAIN requests :
          r \in DOMAIN requests' /\ requests'[r].policy = requests[r].policy]_policyVars
=============================================================================
