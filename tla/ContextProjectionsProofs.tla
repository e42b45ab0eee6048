---------------------- MODULE ContextProjectionsProofs ----------------------
(***************************************************************************)
(* Proofs about ContextProjections, for any keys, claims, requests,        *)
(* writers, compilers and ways of compiling, and a log of any length, on   *)
(* top of what RecallProofs shows of a write.  So a capture that no change *)
(* concerns is still the answer when it is registered, and a projection    *)
(* that no write touches remains one.                                      *)
(***************************************************************************)
EXTENDS ContextProjections, RecallProofs

(* Every step writes, or changes nothing that is recalled.                 *)
LEMMA StepKinds ==
  ASSUME Core, [Next]_vars
  PROVE  \/ Quiet /\ [EpistemicNext]_epistemicVars
         \/ \E T : /\ Writes(T)
                   /\ projections' = Invalidated(T) /\ UNCHANGED <<captures, requests>>
<1>1. ASSUME NEW w \in Writers, NEW c \in ClaimIds, NEW b \in Bundles, AdmitClaim(w, c, b)
      PROVE  \E T : /\ Writes(T)
                    /\ projections' = Invalidated(T) /\ UNCHANGED <<captures, requests>>
  BY <1>1 DEF AdmitClaim, Writes
<1>2. ASSUME NEW m \in Targets, NEW kind \in EventKinds, ChangeMemory(m, kind)
      PROVE  \E T : /\ Writes(T)
                    /\ projections' = Invalidated(T) /\ UNCHANGED <<captures, requests>>
  BY <1>2 DEF ChangeMemory, Writes, TouchedBy, Touched
<1>3. CASE LogUnrelated
  BY <1>3 DEF LogUnrelated, Writes
<1>4. CASE RebuildLifecycleStates /\ UNCHANGED <<claimVars, drafts, contextVars>>
  BY <1>4, RebuildStep DEF Core, Quiet, claimVars, epistemicVars, RebuildLifecycleStates
<1>5. CASE RebuildClaimHeads /\ UNCHANGED <<memoryVars, contextVars>>
  BY <1>5 DEF RebuildClaimHeads, Quiet, memoryVars, EpistemicNext
<1>6. ASSUME NEW w \in Writers, ReadCurrent(w) \/ RejectClaimBundle(w),
             UNCHANGED <<memoryVars, contextVars>>
      PROVE  Quiet /\ [EpistemicNext]_epistemicVars
  BY <1>6 DEF ReadCurrent, RejectClaimBundle, claimVars, Quiet, memoryVars, EpistemicNext
<1>7. ASSUME UNCHANGED <<epistemicVars, memoryVars>>
      PROVE  Quiet /\ [EpistemicNext]_epistemicVars
  BY <1>7 DEF epistemicVars, claimVars, memoryVars, Quiet
<1>8. ASSUME NEW x \in Compilers, NEW id \in RequestIds, NEW r \in Requests, NEW mode \in Modes,
             Compile(x, id, r, mode)
      PROVE  UNCHANGED <<epistemicVars, memoryVars>>
  BY <1>8 DEF Compile
<1>9. ASSUME NEW x \in Compilers, NEW i \in ProjectionIds, RegisterContextProjection(x, i)
      PROVE  UNCHANGED <<epistemicVars, memoryVars>>
  BY <1>9 DEF RegisterContextProjection
<1>10. ASSUME NEW x \in Compilers, RefuseContextProjection(x)
       PROVE  UNCHANGED <<epistemicVars, memoryVars>>
  BY <1>10 DEF RefuseContextProjection
<1>11. CASE UNCHANGED vars
  BY <1>7, <1>11 DEF vars
<1> QED BY <1>1, <1>2, <1>3, <1>4, <1>5, <1>6, <1>7, <1>8, <1>9, <1>10, <1>11 DEF Next

-----------------------------------------------------------------------------
(* What is captured or registered, as far as it concerns the stores.       *)
CaptureRow == [id : RequestIds, asked : Requests, compiler : Modes,
               frontier : Nat, content : Answers]
ProjectionRow == [request : RequestIds, asked : Requests, compiler : Modes,
                  frontier : Nat, content : Answers,
                  coverage : {"INSUFFICIENT", "PARTIAL", "COMPLETE"},
                  deps : SUBSET (Keys \cup ClaimIds \cup {AnySemantics}), stale : BOOLEAN]

(* A capture is the current answer as long as nothing was logged, and, of  *)
(* named keys, as long as nothing that it depends on changed.              *)
CaptureOK(cap) ==
  /\ cap \in CaptureRow
  /\ cap.frontier <= frontier
  /\ cap.frontier = frontier => cap.content = Answer(cap.asked)
  /\ (~Scans(cap.asked) /\ CapturedKeys(cap.asked, cap.content) \cap ChangedSince(cap.frontier) = {})
       => cap.content = Answer(cap.asked)

Published(p) ==
  /\ p \in ProjectionRow
  /\ p.frontier <= frontier
  /\ p.coverage = Coverage(p.content)
  /\ p.deps = IF p.compiler = "plain" THEN {AnySemantics} ELSE CapturedKeys(p.asked, p.content)
  /\ ~p.stale => p.content = Answer(p.asked)
  /\ (p.stale /\ AnySemantics \notin p.deps) => p.deps \cap ChangedSince(p.frontier) # {}

Requested(p) ==
  p.request \in DOMAIN requests /\ requests[p.request] = Bound(p.asked, p.compiler)

ProjectionOK(p) == Published(p) /\ Requested(p)

CapturesOK ==
  /\ DOMAIN captures = Compilers
  /\ \A x \in Compilers : \A cap : (captures[x] = cap /\ cap # None) => CaptureOK(cap)

RequestsOK ==
  /\ DOMAIN requests \subseteq RequestIds
  /\ \A r \in DOMAIN requests : \E q \in Requests, mode \in Modes : requests[r] = Bound(q, mode)

ProjectionsOK ==
  /\ DOMAIN projections \subseteq ProjectionIds
  /\ \A i \in DOMAIN projections : \A p : projections[i] = p => ProjectionOK(p)

Rows == CapturesOK /\ RequestsOK /\ ProjectionsOK

-----------------------------------------------------------------------------
LEMMA RequestTyped ==
  ASSUME NEW r \in Requests
  PROVE  r.needs \subseteq Keys /\ r.known \in Instants /\ r.valid \in Instants
BY RequestsAssumption DEF Instants

(* An answer has the keys it needs, and is made of claims of the store.    *)
LEMMA AnswerTyped ==
  ASSUME Core, OperativeIsLast, NEW r \in Requests
  PROVE  Answer(r) \in Answers
<1>1. PICK needs : needs = NeededKeys(r)
  OBVIOUS
<1>2. needs \subseteq Keys
  BY <1>1, RequestTyped DEF NeededKeys
<1>3. \A k \in needs : Recalled(k, r.known, r.valid) \in Recollection
  BY <1>2, RequestTyped, RecalledTyped DEF Core
<1>4. Answer(r) \in [needs -> Recollection]
  BY <1>1, <1>3 DEF Answer
<1> QED BY <1>2, <1>4 DEF Answers

LEMMA CapturedParts ==
  ASSUME NEW r, NEW content, NEW n
  PROVE  n \in CapturedKeys(r, content) <=>
           \/ n \in DOMAIN content
           \/ \E k \in DOMAIN content : n \in content[k].items \cup content[k].omitted
           \/ r.needs = {} /\ n = AnySemantics
<1>1. CASE r.needs = {}
  BY <1>1 DEF CapturedKeys, Scans
<1>2. CASE r.needs # {}
  BY <1>2 DEF CapturedKeys, Scans
<1> QED BY <1>1, <1>2

(* The dependencies of an answer are names.                                *)
LEMMA CapturedTyped ==
  ASSUME NEW r, NEW content \in Answers
  PROVE  CapturedKeys(r, content) \subseteq Keys \cup ClaimIds \cup {AnySemantics}
<1>1. PICK needs \in SUBSET Keys : content \in [needs -> Recollection]
  BY DEF Answers
<1>2. \A k \in needs : content[k].items \subseteq ClaimIds /\ content[k].omitted \subseteq ClaimIds
  BY <1>1 DEF Recollection
<1>3. DOMAIN content = needs
  BY <1>1
<1> QED BY <1>2, <1>3, CapturedParts

(* An answer of named keys stays if the write touches none of its          *)
(* dependencies.                                                           *)
LEMMA AnswerStays ==
  ASSUME Core, OperativeIsLast, NEW T, Touches(T), NEW r \in Requests, ~Scans(r),
         CapturedKeys(r, Answer(r)) \cap T = {}
  PROVE  Answer(r)' = Answer(r)
<1>1. NeededKeys(r) = r.needs /\ NeededKeys(r)' = r.needs /\ r.needs \subseteq Keys
  BY RequestTyped DEF NeededKeys
<1>2. PICK a : a = Answer(r)
  OBVIOUS
<1>3. DOMAIN a = r.needs /\ \A k \in r.needs : a[k] = Recalled(k, r.known, r.valid)
  BY <1>1, <1>2 DEF Answer
<1>4. CapturedKeys(r, a) \cap T = {}
  BY <1>2
<1>5. ASSUME NEW k \in r.needs
      PROVE  Recalled(k, r.known, r.valid)' = Recalled(k, r.known, r.valid)
  <2>1. k \in CapturedKeys(r, a) /\ a[k].items \cup a[k].omitted \subseteq CapturedKeys(r, a)
    BY <1>3 DEF CapturedKeys
  <2>2. k \notin T /\ (a[k].items \cup a[k].omitted) \cap T = {}
    BY <1>4, <2>1
  <2> QED BY <1>1, <1>3, <2>2, RecalledStays, RequestTyped
<1>6. Answer(r) = [k \in r.needs |-> Recalled(k, r.known, r.valid)]
  BY <1>1 DEF Answer
<1>7. Answer(r)' = [k \in r.needs |-> Recalled(k, r.known, r.valid)']
  BY <1>1 DEF Answer
<1> QED BY <1>5, <1>6, <1>7

(* A quiet step leaves every answer, and what has changed.                 *)
LEMMA QuietAnswers ==
  ASSUME Core, OperativeIsLast, OperativeIsLast', Quiet, NEW r \in Requests
  PROVE  Answer(r)' = Answer(r)
<1>1. ASSUME NEW k \in Keys
      PROVE  Recalled(k, r.known, r.valid)' = Recalled(k, r.known, r.valid)
  BY QuietRecall, RequestTyped
<1>2. NeededKeys(r)' = NeededKeys(r)
  BY DEF NeededKeys, Visible, Quiet
<1>3. NeededKeys(r) \subseteq Keys
  BY RequestTyped DEF NeededKeys
<1>4. PICK needs : needs = NeededKeys(r)
  OBVIOUS
<1>5. Answer(r) = [k \in needs |-> Recalled(k, r.known, r.valid)]
  BY <1>4 DEF Answer
<1>6. Answer(r)' = [k \in needs |-> Recalled(k, r.known, r.valid)']
  BY <1>2, <1>4 DEF Answer
<1> QED BY <1>1, <1>3, <1>4, <1>5, <1>6

-----------------------------------------------------------------------------
(* A write leaves every capture right ...                                  *)
LEMMA WriteCapture ==
  ASSUME Core, OperativeIsLast, NEW T, Touches(T), frontier \in Nat, frontier' \in Nat, frontier < frontier',
         NEW cap, CaptureOK(cap)
  PROVE  CaptureOK(cap)'
<1>1. PICK f \in Nat, g \in Nat : f = frontier /\ g = frontier' /\ f < g
  OBVIOUS
<1>2. cap \in CaptureRow /\ cap.frontier \in Nat /\ cap.asked \in Requests
  BY DEF CaptureOK, CaptureRow
<1>3. cap.frontier <= f /\ cap.frontier <= g /\ cap.frontier # g
  BY <1>1, <1>2 DEF CaptureOK
<1>4. ASSUME ~Scans(cap.asked),
             CapturedKeys(cap.asked, cap.content) \cap ChangedSince(cap.frontier)' = {}
      PROVE  cap.content = Answer(cap.asked)'
  <2>1. ChangedSince(cap.frontier) \cup T \subseteq ChangedSince(cap.frontier)'
    BY <1>1, <1>2, <1>3 DEF Touches, ChangesSince
  <2>2. /\ CapturedKeys(cap.asked, cap.content) \cap ChangedSince(cap.frontier) = {}
        /\ CapturedKeys(cap.asked, cap.content) \cap T = {}
    BY <1>4, <2>1
  <2>3. cap.content = Answer(cap.asked)
    BY <1>4, <2>2 DEF CaptureOK
  <2> QED BY <1>2, <1>4, <2>2, <2>3, AnswerStays
<1> QED BY <1>1, <1>2, <1>3, <1>4 DEF CaptureOK

(* ... and every projection, staled or not touched.                        *)
Staled(T, p) ==
  IF p.deps \cap (T \cup {AnySemantics}) # {} THEN [p EXCEPT !.stale = TRUE] ELSE p

LEMMA WriteProjection ==
  ASSUME Core, OperativeIsLast, NEW T, Touches(T), frontier \in Nat, frontier' \in Nat, frontier < frontier',
         requests' = requests, NEW p, ProjectionOK(p), NEW q, q = Staled(T, p)
  PROVE  ProjectionOK(q)'
<1>1. PICK f \in Nat, g \in Nat : f = frontier /\ g = frontier' /\ f < g
  OBVIOUS
<1>2. /\ p \in ProjectionRow /\ p.frontier \in Nat /\ p.asked \in Requests
      /\ p.frontier <= f
  BY <1>1 DEF ProjectionOK, Published, Requested, ProjectionRow
<1>3. p.frontier <= g
  BY <1>1, <1>2
<1>4. /\ q \in ProjectionRow /\ q.request = p.request /\ q.asked = p.asked
      /\ q.compiler = p.compiler /\ q.frontier = p.frontier /\ q.content = p.content
      /\ q.coverage = p.coverage /\ q.deps = p.deps
      /\ q.stale <=> (p.stale \/ p.deps \cap (T \cup {AnySemantics}) # {})
  BY <1>2 DEF Staled, ProjectionRow
<1>5. ASSUME ~q.stale PROVE q.content = Answer(q.asked)'
  <2>1. ~p.stale /\ p.deps \cap T = {} /\ AnySemantics \notin p.deps
    BY <1>4, <1>5
  <2>2. p.deps = CapturedKeys(p.asked, p.content) /\ p.content = Answer(p.asked)
    BY <2>1 DEF ProjectionOK, Published, Requested
  <2>3. ~Scans(p.asked)
    BY <2>1, <2>2, CapturedParts DEF Scans
  <2>4. CapturedKeys(p.asked, Answer(p.asked)) \cap T = {}
    BY <2>1, <2>2
  <2> QED BY <1>2, <1>4, <2>2, <2>3, <2>4, AnswerStays
<1>6. ASSUME q.stale, AnySemantics \notin q.deps
      PROVE  q.deps \cap ChangedSince(q.frontier)' # {}
  <2>1. ChangedSince(p.frontier) \cup T \subseteq ChangedSince(p.frontier)'
    BY <1>1, <1>2 DEF Touches, ChangesSince
  <2>2. \/ p.stale /\ AnySemantics \notin p.deps
        \/ p.deps \cap T # {}
    BY <1>4, <1>6
  <2>3. p.deps \cap ChangedSince(p.frontier) # {} \/ p.deps \cap T # {}
    BY <2>2 DEF ProjectionOK, Published, Requested
  <2> QED BY <1>4, <2>1, <2>3
<1>7. /\ q.request \in DOMAIN requests' /\ requests'[q.request] = Bound(q.asked, q.compiler)
      /\ q.coverage = Coverage(q.content)
      /\ q.deps = IF q.compiler = "plain" THEN {AnySemantics} ELSE CapturedKeys(q.asked, q.content)
  BY <1>4 DEF ProjectionOK, Published, Requested
<1>8. q.frontier <= frontier'
  BY <1>1, <1>3, <1>4
<1> QED BY <1>4, <1>5, <1>6, <1>7, <1>8 DEF ProjectionOK, Published, Requested

(* A quiet step leaves both as they are.                                   *)
LEMMA QuietCapture ==
  ASSUME Core, OperativeIsLast, OperativeIsLast', Quiet, NEW cap, CaptureOK(cap)
  PROVE  CaptureOK(cap)'
<1>1. cap.asked \in Requests
  BY DEF CaptureOK, CaptureRow
<1>2. Answer(cap.asked)' = Answer(cap.asked)
  BY <1>1, QuietAnswers
<1>3. ChangedSince(cap.frontier)' = ChangedSince(cap.frontier) /\ frontier' = frontier
  BY QuietChanges DEF Quiet
<1> QED BY <1>2, <1>3 DEF CaptureOK

LEMMA QuietPublished ==
  ASSUME Core, OperativeIsLast, OperativeIsLast', Quiet, NEW p, Published(p)
  PROVE  Published(p)'
<1>1. p.asked \in Requests
  BY DEF Published, ProjectionRow
<1>2. Answer(p.asked)' = Answer(p.asked)
  BY <1>1, QuietAnswers
<1>3. ChangedSince(p.frontier)' = ChangedSince(p.frontier) /\ frontier' = frontier
  BY QuietChanges DEF Quiet
<1> QED BY <1>2, <1>3 DEF Published

LEMMA QuietProjection ==
  ASSUME Core, OperativeIsLast, OperativeIsLast', Quiet,
         \A r \in DOMAIN requests : r \in DOMAIN requests' /\ requests'[r] = requests[r],
         NEW p, ProjectionOK(p)
  PROVE  ProjectionOK(p)'
BY QuietPublished DEF ProjectionOK, Requested

-----------------------------------------------------------------------------
LEMMA RowsInit == Init => Rows
<1> SUFFICES ASSUME Init PROVE Rows
  OBVIOUS
<1>1. CapturesOK
  BY DEF Init, CapturesOK
<1>2. RequestsOK /\ ProjectionsOK
  BY DEF Init, RequestsOK, ProjectionsOK
<1> QED BY <1>1, <1>2 DEF Rows

(* A write stales what it touches, and no other table changes.             *)
LEMMA WriteRows ==
  ASSUME Core, Core', OperativeIsLast, OperativeIsLast', Rows, NEW T, Writes(T),
         projections' = Invalidated(T), UNCHANGED <<captures, requests>>
  PROVE  Rows'
<1>1. frontier \in Nat /\ frontier' \in Nat /\ frontier < frontier' /\ Touches(T)
  BY WriteGrows, WriteTouches DEF Core, IInv, TypeInv, EpistemicTypeOK
<1>2. CapturesOK'
  <2>1. ASSUME NEW x \in Compilers, NEW cap, captures'[x] = cap, cap # None
        PROVE  CaptureOK(cap)'
    <3>1. CaptureOK(cap)
      BY <2>1 DEF Rows, CapturesOK
    <3> QED BY <1>1, <3>1, WriteCapture
  <2> QED BY <2>1 DEF CapturesOK, Rows
<1>3. RequestsOK'
  BY DEF Rows, RequestsOK
<1>4. ProjectionsOK'
  <2>1. /\ DOMAIN projections' = DOMAIN projections
        /\ \A i \in DOMAIN projections : projections'[i] = Staled(T, projections[i])
    BY DEF Invalidated, Staled
  <2>2. ASSUME NEW i \in DOMAIN projections, NEW q, projections'[i] = q
        PROVE  ProjectionOK(q)'
    <3>1. PICK p : p = projections[i]
      OBVIOUS
    <3>2. ProjectionOK(p) /\ q = Staled(T, p)
      BY <2>1, <2>2, <3>1 DEF Rows, ProjectionsOK
    <3> QED BY <1>1, <3>2, WriteProjection
  <2> QED BY <2>1, <2>2 DEF ProjectionsOK, Rows
<1> QED BY <1>2, <1>3, <1>4 DEF Rows

(* What the rest of a quiet step leaves of the rows.                       *)
LEMMA QuietRows ==
  ASSUME Core, OperativeIsLast, OperativeIsLast', Rows, Quiet
  PROVE  /\ \A x \in Compilers : \A cap : (captures[x] = cap /\ cap # None) => CaptureOK(cap)'
         /\ (\A r \in DOMAIN requests : r \in DOMAIN requests' /\ requests'[r] = requests[r])
              => \A i \in DOMAIN projections : \A p : projections[i] = p => ProjectionOK(p)'
BY QuietCapture, QuietProjection DEF Rows, CapturesOK, ProjectionsOK

LEMMA UnchangedRows ==
  ASSUME Core, OperativeIsLast, OperativeIsLast', Rows, Quiet, UNCHANGED contextVars
  PROVE  Rows'
<1>1. CapturesOK'
  BY QuietRows DEF Rows, CapturesOK, contextVars
<1>2. RequestsOK'
  BY DEF Rows, RequestsOK, contextVars
<1>3. ProjectionsOK'
  BY QuietRows DEF Rows, ProjectionsOK, contextVars
<1> QED BY <1>1, <1>2, <1>3 DEF Rows

(* A compiler reads the current answer.                                    *)
LEMMA CompileRows ==
  ASSUME Core, OperativeIsLast, OperativeIsLast', Rows,
         NEW x \in Compilers, NEW id \in RequestIds, NEW r \in Requests, NEW mode \in Modes,
         Compile(x, id, r, mode)
  PROVE  Rows'
<1>1. Quiet /\ requests' = requests /\ projections' = projections
  BY DEF Compile, Quiet, epistemicVars, claimVars, memoryVars
<1>2. PICK f \in Nat : f = frontier
  BY DEF Core, IInv, TypeInv, EpistemicTypeOK
<1>3. PICK a : a = Answer(r)
  OBVIOUS
<1>4. PICK new : new = [id |-> id, asked |-> r, compiler |-> mode, frontier |-> f, content |-> a]
  OBVIOUS
<1>5. captures' = [captures EXCEPT ![x] = new]
  BY <1>2, <1>3, <1>4 DEF Compile
<1>6. a \in Answers
  BY <1>3, AnswerTyped
<1>7. new \in CaptureRow /\ new.frontier = f /\ new.asked = r /\ new.content = a
  BY <1>2, <1>4, <1>6 DEF CaptureRow
<1>8. CaptureOK(new)
  BY <1>2, <1>3, <1>7 DEF CaptureOK
<1>9. CaptureOK(new)'
  BY <1>1, <1>8, QuietCapture
<1>10. CapturesOK'
  BY <1>1, <1>5, <1>9, QuietRows DEF Rows, CapturesOK
<1>11. RequestsOK' /\ ProjectionsOK'
  BY <1>1, QuietRows DEF Rows, RequestsOK, ProjectionsOK
<1> QED BY <1>10, <1>11 DEF Rows

LEMMA RefuseRows ==
  ASSUME Core, OperativeIsLast, OperativeIsLast', Rows,
         NEW x \in Compilers, RefuseContextProjection(x)
  PROVE  Rows'
<1>1. /\ Quiet /\ requests' = requests /\ projections' = projections
      /\ captures' = [captures EXCEPT ![x] = None]
  BY DEF RefuseContextProjection, Quiet, epistemicVars, claimVars, memoryVars
<1>2. CapturesOK'
  BY <1>1, QuietRows DEF Rows, CapturesOK
<1>3. RequestsOK' /\ ProjectionsOK'
  BY <1>1, QuietRows DEF Rows, RequestsOK, ProjectionsOK
<1> QED BY <1>2, <1>3 DEF Rows

(* What is registered fresh is the answer: unproven lineage at the frontier *)
(* only, a scan if nothing was logged since, and named keys if nothing they *)
(* depend on changed.                                                       *)
LEMMA RegisteredOK ==
  ASSUME Core, NEW cap, CaptureOK(cap), NEW p,
         p = [request |-> cap.id, asked |-> cap.asked, compiler |-> cap.compiler,
              frontier |-> cap.frontier, content |-> cap.content,
              coverage |-> Coverage(cap.content), deps |-> Dependencies(cap),
              stale |-> StaleAtRegistration(cap)]
  PROVE  Published(p)
<1>1. /\ cap \in CaptureRow /\ cap.frontier \in Nat /\ cap.asked \in Requests
      /\ cap.content \in Answers /\ cap.frontier <= frontier /\ frontier \in Nat
  BY DEF CaptureOK, CaptureRow, Core, IInv, TypeInv, EpistemicTypeOK
<1>2. /\ p.request = cap.id /\ p.asked = cap.asked /\ p.compiler = cap.compiler
      /\ p.frontier = cap.frontier /\ p.content = cap.content
      /\ p.coverage = Coverage(cap.content) /\ p.deps = Dependencies(cap)
      /\ p.stale = StaleAtRegistration(cap)
  OBVIOUS
<1>3. StaleAtRegistration(cap) \in BOOLEAN
  BY DEF StaleAtRegistration
<1>4. Coverage(cap.content) \in {"INSUFFICIENT", "PARTIAL", "COMPLETE"}
  BY DEF Coverage
<1>5. Dependencies(cap) = IF cap.compiler = "plain" THEN {AnySemantics}
                          ELSE CapturedKeys(cap.asked, cap.content)
  BY DEF Dependencies, Captured
<1>6. Dependencies(cap) \subseteq Keys \cup ClaimIds \cup {AnySemantics}
  BY <1>1, <1>5, CapturedTyped
<1>7. p \in ProjectionRow
  BY <1>1, <1>3, <1>4, <1>6 DEF ProjectionRow, CaptureRow
<1>8. ASSUME ~StaleAtRegistration(cap) PROVE cap.content = Answer(cap.asked)
  <2>1. CASE AnySemantics \in Dependencies(cap)
    <3>1. cap.frontier = frontier
      BY <1>1, <1>8, <2>1 DEF StaleAtRegistration
    <3> QED BY <3>1 DEF CaptureOK
  <2>2. CASE AnySemantics \notin Dependencies(cap)
    <3>1. Dependencies(cap) = CapturedKeys(cap.asked, cap.content)
      BY <1>5, <2>2
    <3>2. ~Scans(cap.asked)
      BY <2>2, <3>1, CapturedParts DEF Scans
    <3>3. Dependencies(cap) \cap ChangedSince(cap.frontier) = {}
      BY <1>8 DEF StaleAtRegistration
    <3> QED BY <3>1, <3>2, <3>3 DEF CaptureOK
  <2> QED BY <2>1, <2>2
<1>9. ASSUME StaleAtRegistration(cap), AnySemantics \notin Dependencies(cap)
      PROVE  Dependencies(cap) \cap ChangedSince(cap.frontier) # {}
  BY <1>9 DEF StaleAtRegistration
<1> QED BY <1>1, <1>2, <1>5, <1>7, <1>8, <1>9 DEF Published

LEMMA RegisterRows ==
  ASSUME Core, OperativeIsLast, OperativeIsLast', Rows,
         NEW x \in Compilers, NEW i \in ProjectionIds, RegisterContextProjection(x, i)
  PROVE  Rows'
<1>1. Quiet
  BY DEF RegisterContextProjection, Quiet, epistemicVars, claimVars, memoryVars
<1>2. PICK cap : cap = captures[x]
  OBVIOUS
<1>3. cap # None /\ Registrable(cap) /\ CaptureOK(cap)
  BY <1>2 DEF RegisterContextProjection, Rows, CapturesOK
<1>4. PICK p : p = [request |-> cap.id, asked |-> cap.asked, compiler |-> cap.compiler,
                    frontier |-> cap.frontier, content |-> cap.content,
                    coverage |-> Coverage(cap.content), deps |-> Dependencies(cap),
                    stale |-> StaleAtRegistration(cap)]
  OBVIOUS
<1>5. Published(p)'
  <2>1. Published(p)
    BY <1>3, <1>4, RegisteredOK
  <2> QED BY <1>1, <2>1, QuietPublished
<1>6. /\ cap.id \in RequestIds /\ cap.asked \in Requests /\ cap.compiler \in Modes
      /\ p.request = cap.id /\ p.asked = cap.asked /\ p.compiler = cap.compiler
  BY <1>3, <1>4 DEF CaptureOK, CaptureRow
<1>7. /\ DOMAIN requests' = DOMAIN requests \cup {cap.id}
      /\ \A r \in DOMAIN requests : requests'[r] = requests[r]
      /\ requests'[cap.id] = Bound(cap.asked, cap.compiler)
  <2>1. requests' = Persisted(cap)
    BY <1>2 DEF RegisterContextProjection
  <2> QED BY <1>3, <2>1 DEF Persisted, Registrable
<1>8. /\ DOMAIN projections' = DOMAIN projections \cup {i}
      /\ \A j \in DOMAIN projections : projections'[j] = projections[j]
      /\ projections'[i] = p
  BY <1>2, <1>4 DEF RegisterContextProjection
<1>9. captures' = [captures EXCEPT ![x] = None]
  BY DEF RegisterContextProjection
<1>10. CapturesOK'
  BY <1>1, <1>9, QuietRows DEF Rows, CapturesOK
<1>11. RequestsOK'
  BY <1>6, <1>7 DEF Rows, RequestsOK
<1>12. ProjectionOK(p)'
  BY <1>5, <1>6, <1>7 DEF ProjectionOK, Requested
<1>13. \A j \in DOMAIN projections : \A q : projections[j] = q => ProjectionOK(q)'
  BY <1>1, <1>7, QuietRows
<1>14. ProjectionsOK'
  BY <1>8, <1>12, <1>13 DEF Rows, ProjectionsOK
<1> QED BY <1>10, <1>11, <1>14 DEF Rows

LEMMA RowsStep ==
  ASSUME Core, Core', OperativeIsLast, OperativeIsLast', Rows, [Next]_vars
  PROVE  Rows'
<1>1. ASSUME NEW T, Writes(T), projections' = Invalidated(T), UNCHANGED <<captures, requests>>
      PROVE  Rows'
  BY <1>1, WriteRows
<1>2. ASSUME Quiet, UNCHANGED contextVars PROVE Rows'
  BY <1>2, UnchangedRows
<1>3. ASSUME NEW w \in Writers, NEW c \in ClaimIds, NEW b \in Bundles, AdmitClaim(w, c, b)
      PROVE  Rows'
  BY <1>1, <1>3 DEF AdmitClaim, Writes
<1>4. ASSUME NEW m \in Targets, NEW kind \in EventKinds, ChangeMemory(m, kind)
      PROVE  Rows'
  BY <1>1, <1>4 DEF ChangeMemory, Writes, TouchedBy, Touched
<1>5. CASE LogUnrelated
  BY <1>1, <1>5 DEF LogUnrelated, Writes
<1>6. ASSUME (\E w \in Writers : ReadCurrent(w) \/ RejectClaimBundle(w)) \/ RebuildClaimHeads,
             UNCHANGED <<memoryVars, contextVars>>
      PROVE  Rows'
  <2>1. Quiet
    BY <1>6 DEF ReadCurrent, RejectClaimBundle, RebuildClaimHeads, claimVars, memoryVars, Quiet
  <2> QED BY <1>2, <1>6, <2>1
<1>7. CASE RebuildLifecycleStates /\ UNCHANGED <<claimVars, drafts, contextVars>>
  <2>1. Quiet
    BY <1>7, RebuildStep DEF Core, claimVars, Quiet
  <2> QED BY <1>2, <1>7, <2>1
<1>8. CASE UNCHANGED vars
  <2>1. Quiet /\ UNCHANGED contextVars
    BY <1>8 DEF vars, epistemicVars, claimVars, memoryVars, Quiet
  <2> QED BY <1>2, <2>1
<1> QED
  BY <1>3, <1>4, <1>5, <1>6, <1>7, <1>8, CompileRows, RegisterRows, RefuseRows DEF Next

-----------------------------------------------------------------------------
LEMMA ContextInvariant == Spec => [](Core /\ Rows)
<1>1. Init => Core /\ Rows
  BY RowsInit, CoreInit DEF Init
<1>2. Core => OperativeIsLast
  BY OperativeLast DEF Core
<1>3. Core /\ [Next]_vars => Core'
  BY StepKinds, QuietCore, WritesCore
<1>4. Core /\ Core' /\ OperativeIsLast /\ OperativeIsLast' /\ Rows /\ [Next]_vars => Rows'
  BY RowsStep
<1> QED BY <1>1, <1>2, <1>3, <1>4, PTL DEF Spec

(* Compilers and writers together leave every promise of the stores.       *)
THEOREM ContextKeepsPromises == Spec => StorePromises
<1>1. Init => Register!RegisterInit
  BY RegisterStarts DEF Init
<1>2. Core => OperativeIsLast
  BY OperativeLast DEF Core
<1>3. Core /\ [Next]_vars => StoreStep
  BY StepKinds DEF StoreStep
<1>4. Core /\ Core' /\ OperativeIsLast /\ OperativeIsLast' /\ StoreStep => [PastStays]_epistemicVars
  BY StorePast
<1>5. Core /\ Core' /\ StoreStep => [Register!RegisterNext]_(Register!registerVars)
  BY StoreRevisions
<1> QED
  BY <1>1, <1>2, <1>3, <1>4, <1>5, CorePromises, ContextInvariant, PTL
     DEF Spec, StorePromises, PastAnswersStable, PastStays, RefinesRegister, Register!RegisterSpec

(* For any keys, claims, requests and compilers, the tables hold rows of   *)
(* their types, and every claim has its memory entry.                      *)
THEOREM ContextTyped == Spec => []ContextTypeOK
<1>1. Core /\ Rows => ContextTypeOK
  <2> SUFFICES ASSUME Core, Rows PROVE ContextTypeOK
    OBVIOUS
  <2>1. ASSUME NEW i \in DOMAIN projections
        PROVE  /\ projections[i].request \in DOMAIN requests
               /\ projections[i].frontier \in 0..frontier
               /\ projections[i].deps \subseteq Keys \cup ClaimIds \cup {AnySemantics}
               /\ projections[i].stale \in BOOLEAN
    <3>1. PICK p : p = projections[i]
      OBVIOUS
    <3>2. p \in ProjectionRow /\ p.frontier <= frontier /\ p.request \in DOMAIN requests
      BY <3>1 DEF Rows, ProjectionsOK, ProjectionOK, Published, Requested
    <3>3. p.frontier \in 0..frontier
      BY <3>2 DEF ProjectionRow, Core, IInv, TypeInv, EpistemicTypeOK
    <3> QED BY <3>1, <3>2, <3>3 DEF ProjectionRow
  <2> QED BY <2>1 DEF ContextTypeOK, Core, Rows, RequestsOK, ProjectionsOK
<1> QED BY <1>1, ContextInvariant, PTL

(* A projection that is not marked stale is what compiling it again would  *)
(* give now, whatever writers commit while compilers read and register.    *)
THEOREM FreshIsCurrent == Spec => []FreshMeansCurrent
<1>1. Core /\ Rows => FreshMeansCurrent
  <2> SUFFICES ASSUME Core, Rows, NEW i \in DOMAIN projections, ~projections[i].stale
               PROVE  /\ projections[i].content = Answer(projections[i].asked)
                      /\ projections[i].coverage = Coverage(Answer(projections[i].asked))
                      /\ requests[projections[i].request]
                           = Bound(projections[i].asked, projections[i].compiler)
    BY DEF FreshMeansCurrent
  <2>1. PICK p : p = projections[i]
    OBVIOUS
  <2>2. /\ p.content = Answer(p.asked) /\ p.coverage = Coverage(p.content)
        /\ requests[p.request] = Bound(p.asked, p.compiler)
    BY <2>1 DEF Rows, ProjectionsOK, ProjectionOK, Published, Requested
  <2> QED BY <2>1, <2>2
<1> QED BY <1>1, ContextInvariant, PTL

(* A stale projection of proven lineage has a dependency that changed after *)
(* its frontier: unrelated writes stale nothing but scans.                  *)
THEOREM StaleIsTouched == Spec => []StaleOnlyWhenTouched
<1>1. Core /\ Rows => StaleOnlyWhenTouched
  BY DEF Rows, ProjectionsOK, ProjectionOK, Published, StaleOnlyWhenTouched
<1> QED BY <1>1, ContextInvariant, PTL

-----------------------------------------------------------------------------
(* The freshness promise: what the mapping shows of the rows.              *)
TypedAnswers == \A r \in Requests : Answer(r) \in Answers

LEMMA AnswersTyped == Core /\ OperativeIsLast => TypedAnswers
BY AnswerTyped DEF TypedAnswers

AccurateRows ==
  \A i \in DOMAIN projections : \A p : projections[i] = p =>
    p \in ProjectionRow /\ (~p.stale => p.content = Answer(p.asked))

LEMMA RowsAccurate == Rows => AccurateRows
BY DEF Rows, ProjectionsOK, ProjectionOK, Published, AccurateRows

(* In every state, what is shown fresh is the answer.                      *)
LEMMA ShownAccurate ==
  ASSUME AccurateRows', NEW i, i \in DOMAIN projections'
  PROVE  /\ Fence!Accurate(i)'
         /\ [request |-> projections'[i].asked, content |-> projections'[i].content,
             fresh |-> ~projections'[i].stale] \in Fence!Publication
<1>1. PICK p : p = projections'[i]
  OBVIOUS
<1>2. p \in ProjectionRow /\ (~p.stale => p.content = Answer(p.asked)')
  BY <1>1 DEF AccurateRows
<1>3. PICK r \in Requests : r = p.asked
  BY <1>2 DEF ProjectionRow
<1>4. p.content \in Answers
  BY <1>2 DEF ProjectionRow
<1>5. [request |-> p.asked, content |-> p.content, fresh |-> ~p.stale] \in Fence!Publication
  BY <1>3, <1>4 DEF Fence!Publication
<1>6. ([q \in Requests |-> Answer(q)]')[r] = Answer(r)'
  OBVIOUS
<1>7. Fence!Accurate(i)'
  BY <1>1, <1>2, <1>3, <1>6 DEF Fence!Accurate
<1> QED BY <1>1, <1>5, <1>7

(* A step that only stales projections is a change of the promise ...      *)
LEMMA MildIsChange ==
  ASSUME AccurateRows', TypedAnswers', DOMAIN projections' = DOMAIN projections,
         \A i \in DOMAIN projections :
           projections[i] \in ProjectionRow
             /\ projections'[i] \in {projections[i], [projections[i] EXCEPT !.stale = TRUE]}
  PROVE  Fence!Change
<1>1. [r \in Requests |-> Answer(r)]' \in [Requests -> Answers]
  BY DEF TypedAnswers
<1>2. ASSUME NEW i \in DOMAIN projections
      PROVE  LET shown(p) == [request |-> p.asked, content |-> p.content, fresh |-> ~p.stale]
             IN  shown(projections'[i]) \in
                   {shown(projections[i]), [shown(projections[i]) EXCEPT !.fresh = FALSE]}
  <2>1. PICK p \in ProjectionRow : p = projections[i]
    BY <1>2
  <2>2. CASE projections'[i] = p
    BY <2>1, <2>2
  <2>3. CASE projections'[i] = [p EXCEPT !.stale = TRUE]
    <3>1. PICK q : q = [p EXCEPT !.stale = TRUE]
      OBVIOUS
    <3>2. q.asked = p.asked /\ q.content = p.content /\ q.stale = TRUE
      BY <3>1 DEF ProjectionRow
    <3>3. [request |-> q.asked, content |-> q.content, fresh |-> ~q.stale]
            = [[request |-> p.asked, content |-> p.content, fresh |-> ~p.stale] EXCEPT !.fresh = FALSE]
      <4>1. (~q.stale) = FALSE
        BY <3>2, Zenon
      <4>2. [request |-> q.asked, content |-> q.content, fresh |-> ~q.stale]
              = [request |-> p.asked, content |-> p.content, fresh |-> FALSE]
        BY <3>2, <4>1, Zenon
      <4>3. [[request |-> p.asked, content |-> p.content, fresh |-> ~p.stale] EXCEPT !.fresh = FALSE]
              = [request |-> p.asked, content |-> p.content, fresh |-> FALSE]
        <5>1. \A a, b, c, d : [[request |-> a, content |-> b, fresh |-> c] EXCEPT !.fresh = d]
                                = [request |-> a, content |-> b, fresh |-> d]
          OBVIOUS
        <5>2. PICK z, no : z = (~p.stale) /\ no = FALSE
          OBVIOUS
        <5>3. [[request |-> p.asked, content |-> p.content, fresh |-> z] EXCEPT !.fresh = no]
                = [request |-> p.asked, content |-> p.content, fresh |-> no]
          BY <5>1
        <5> QED BY <5>2, <5>3
      <4> QED BY <4>2, <4>3
    <3>4. projections'[i] = q
      BY <2>3, <3>1
    <3> QED BY <2>1, <3>3, <3>4
  <2> QED BY <1>2, <2>1, <2>2, <2>3
<1>3. \A i \in DOMAIN projections : Fence!Accurate(i)'
  BY ShownAccurate
<1> QED BY <1>1, <1>2, <1>3 DEF Fence!Change

(* ... and a registration is a publication.                                *)
LEMMA RegisterIsPublish ==
  ASSUME Core, OperativeIsLast, OperativeIsLast', AccurateRows',
         NEW x \in Compilers, NEW i \in ProjectionIds, RegisterContextProjection(x, i)
  PROVE  Fence!Publish(i)
<1>1. Quiet
  BY DEF RegisterContextProjection, Quiet, epistemicVars, claimVars, memoryVars
<1>2. [r \in Requests |-> Answer(r)]' = [r \in Requests |-> Answer(r)]
  <2>1. \A r \in Requests : Answer(r)' = Answer(r)
    BY <1>1, QuietAnswers
  <2> QED BY <2>1
<1>3. /\ i \notin DOMAIN projections /\ DOMAIN projections' = DOMAIN projections \cup {i}
      /\ \A j \in DOMAIN projections : projections'[j] = projections[j]
  BY DEF RegisterContextProjection
<1>4. Fence!Accurate(i)' /\ [request |-> projections'[i].asked, content |-> projections'[i].content,
                             fresh |-> ~projections'[i].stale] \in Fence!Publication
  BY <1>3, ShownAccurate
<1> QED BY <1>2, <1>3, <1>4 DEF Fence!Publish

LEMMA FenceStep ==
  ASSUME Core, OperativeIsLast, OperativeIsLast', AccurateRows, AccurateRows', TypedAnswers',
         [Next]_vars
  PROVE  [Fence!FenceNext]_Fence!fenceVars
<1>1. \A i \in DOMAIN projections : projections[i] \in ProjectionRow
  BY DEF AccurateRows
<1>2. ASSUME projections' = projections PROVE Fence!FenceNext
  BY <1>1, <1>2, MildIsChange DEF Fence!FenceNext
<1>3. ASSUME NEW T, projections' = Invalidated(T) PROVE Fence!FenceNext
  BY <1>1, <1>3, MildIsChange DEF Invalidated, Fence!FenceNext
<1>4. ASSUME NEW x \in Compilers, NEW i \in ProjectionIds, RegisterContextProjection(x, i)
      PROVE  Fence!FenceNext
  BY <1>4, RegisterIsPublish DEF Fence!FenceNext
<1>5. \/ projections' = projections
      \/ \E T : projections' = Invalidated(T)
      \/ \E x \in Compilers, i \in ProjectionIds : RegisterContextProjection(x, i)
  BY DEF Next, Compile, RefuseContextProjection, AdmitClaim, ChangeMemory, LogUnrelated,
         contextVars, vars
<1> QED BY <1>2, <1>3, <1>4, <1>5

(* The projections implement the freshness promise.                        *)
THEOREM ProjectionsImplementFence == Spec => ImplementsFence
<1>1. Init /\ TypedAnswers => Fence!FenceInit
  <2> SUFFICES ASSUME Init, TypedAnswers PROVE Fence!FenceInit
    OBVIOUS
  <2>1. [r \in Requests |-> Answer(r)] \in [Requests -> Answers]
    BY DEF TypedAnswers
  <2>2. DOMAIN projections = {}
    BY DEF Init
  <2>3. [i \in DOMAIN projections |-> [request |-> projections[i].asked,
                                       content |-> projections[i].content,
                                       fresh   |-> ~projections[i].stale]] = [i \in {} |-> {}]
    BY <2>2
  <2> QED BY <2>1, <2>3 DEF Fence!FenceInit
<1>2. Core => OperativeIsLast
  BY OperativeLast DEF Core
<1>3. Core /\ OperativeIsLast /\ OperativeIsLast' /\ AccurateRows /\ AccurateRows' /\ TypedAnswers'
        /\ [Next]_vars => [Fence!FenceNext]_Fence!fenceVars
  BY FenceStep
<1> QED
  BY <1>1, <1>2, <1>3, AnswersTyped, RowsAccurate, ContextInvariant, PTL
     DEF Spec, ImplementsFence, Fence!FenceSpec
=============================================================================
