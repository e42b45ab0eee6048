------------------------ MODULE EpistemicStoreProofs ------------------------
(* Theorems about EpistemicStore, for all values of its constants.         *)
EXTENDS EpistemicStore, TLAPS

(* What a writer read is paired: it relates to a current claim exactly if  *)
(* it has one.                                                             *)
DraftsPaired ==
  \A w \in Writers : drafts[w] # None =>
    ((drafts[w].target = None) <=> (drafts[w].kind = None))

TypeInv == EpistemicTypeOK /\ DraftsPaired

USE NoneAssumption, TimesAssumption, ValiditiesAssumption, KindsAssumption, MaxFrontierAssumption

(* The row and the relation a bundle inserts have the columns of their     *)
(* tables.                                                                 *)
LEMMA BundleRowTypes ==
  ASSUME TypeInv, NEW w \in Writers, NEW c \in ClaimIds, NEW b \in Bundles,
         CommitClaimBundle(w, c, b)
  PROVE  /\ drafts[w] \in Draft
         /\ [key |-> drafts[w].key, recordedAt |-> b.recordedAt, valid |-> b.valid,
             capturedAt |-> b.capturedAt, refs |-> b.extra \cup {c},
             seq |-> frontier + 3] \in ClaimRow
         /\ drafts[w].kind # None =>
              [source |-> c, target |-> drafts[w].target, kind |-> drafts[w].kind,
               recordedAt |-> b.recordedAt, seq |-> frontier + 4] \in RelationRow
         /\ frontier' \in Nat /\ frontier + 3 <= frontier'
         /\ drafts[w].kind # None => frontier + 4 <= frontier'
<1>1. drafts[w] \in Draft
  BY DEF TypeInv, EpistemicTypeOK, CommitClaimBundle
<1>2. /\ b.recordedAt \in Times /\ b.capturedAt \in Times /\ b.valid \in Validities
      /\ b.extra \subseteq ClaimIds
  BY DEF TypeInv, EpistemicTypeOK, Bundles
<1>3. frontier \in Nat
  BY DEF TypeInv, EpistemicTypeOK
<1>4. [key |-> drafts[w].key, recordedAt |-> b.recordedAt, valid |-> b.valid,
       capturedAt |-> b.capturedAt, refs |-> b.extra \cup {c},
       seq |-> frontier + 3] \in ClaimRow
  BY <1>1, <1>2, <1>3 DEF ClaimRow, Draft
<1>5. ASSUME drafts[w].kind # None
      PROVE  [source |-> c, target |-> drafts[w].target, kind |-> drafts[w].kind,
              recordedAt |-> b.recordedAt, seq |-> frontier + 4] \in RelationRow
  <2>1. drafts[w].target \in ClaimIds
    BY <1>1, <1>5 DEF TypeInv, DraftsPaired, Draft, CommitClaimBundle
  <2> QED
    BY <2>1, <1>1, <1>2, <1>3, <1>5 DEF RelationRow, Draft
<1>6. frontier' = frontier + (IF drafts[w].kind = None THEN 5 ELSE 6)
  BY DEF CommitClaimBundle, Log, BundleRows
<1> QED
  BY <1>1, <1>3, <1>4, <1>5, <1>6

(* An empty database is well typed, and no writer has read anything yet.   *)
LEMMA TypeInvInit == EpistemicInit => TypeInv
BY DEF EpistemicInit, LogInit, TypeInv, EpistemicTypeOK, DraftsPaired

(* A committed bundle leaves every table well typed: its rows are of their *)
(* types and lie within the extended log.                                  *)
LEMMA TypeInvCommit ==
  ASSUME TypeInv, NEW w \in Writers, NEW c \in ClaimIds, NEW b \in Bundles,
         CommitClaimBundle(w, c, b)
  PROVE  TypeInv'
<1> DEFINE d == drafts[w]
           row == [key |-> d.key, recordedAt |-> b.recordedAt, valid |-> b.valid,
                   capturedAt |-> b.capturedAt, refs |-> b.extra \cup {c},
                   seq |-> frontier + 3]
           relation == [source |-> c, target |-> d.target, kind |-> d.kind,
                        recordedAt |-> b.recordedAt, seq |-> frontier + 4]
<1>0. /\ d \in Draft
      /\ row \in ClaimRow
      /\ d.kind # None => relation \in RelationRow
      /\ frontier' \in Nat /\ frontier + 3 <= frontier'
      /\ d.kind # None => frontier + 4 <= frontier'
  BY BundleRowTypes
<1>1. /\ claims' = [x \in DOMAIN claims \cup {c} |-> IF x = c THEN row ELSE claims[x]]
      /\ relations' = IF d.kind = None THEN relations ELSE relations \cup {relation}
      /\ heads' = IF MovesHead(d) THEN [heads EXCEPT ![d.key] = c] ELSE heads
      /\ drafts' = [drafts EXCEPT ![w] = None]
  BY DEF CommitClaimBundle
<1>a. row.seq = frontier + 3 /\ relation.seq = frontier + 4
  OBVIOUS
<1> HIDE DEF d, row, relation
<1>2. frontier \in Nat /\ frontier <= frontier'
  BY <1>0 DEF TypeInv, EpistemicTypeOK
<1>3. DOMAIN claims' \subseteq ClaimIds
  BY <1>1 DEF TypeInv, EpistemicTypeOK
<1>4. ASSUME NEW x \in DOMAIN claims' PROVE claims'[x] \in ClaimRow /\ claims'[x].seq <= frontier'
  <2>1. CASE x = c
    <3>1. claims'[x] = row
      BY <2>1, <1>1
    <3>2. claims'[x].seq = frontier + 3
      BY <3>1, <1>a
    <3> QED BY <3>1, <3>2, <1>0, <1>2
  <2>2. CASE x # c
    <3>1. x \in DOMAIN claims /\ claims'[x] = claims[x]
      BY <2>2, <1>1
    <3>2. claims[x] \in ClaimRow /\ claims[x].seq <= frontier /\ claims[x].seq \in Nat
      BY <3>1 DEF TypeInv, EpistemicTypeOK, ClaimRow
    <3> QED BY <3>1, <3>2, <1>2, <1>0
  <2> QED BY <2>1, <2>2
<1>5. ASSUME NEW r \in relations' PROVE r \in RelationRow /\ r.seq <= frontier'
  <2>1. CASE r \in relations
    <3>1. r \in RelationRow /\ r.seq <= frontier /\ r.seq \in Nat
      BY <2>1 DEF TypeInv, EpistemicTypeOK, RelationRow
    <3> QED BY <3>1, <1>2, <1>0
  <2>2. CASE d.kind # None /\ r = relation
    <3>1. r.seq = frontier + 4
      BY <2>2, <1>a
    <3> QED BY <3>1, <2>2, <1>0, <1>2
  <2> QED BY <2>1, <2>2, <1>1
<1>6. heads' \in [Keys -> ClaimIds \cup {None}]
  BY <1>0, <1>1 DEF TypeInv, EpistemicTypeOK, Draft
<1>7. drafts' \in [Writers -> Draft \cup {None}] /\ DraftsPaired'
  BY <1>1 DEF TypeInv, EpistemicTypeOK, DraftsPaired
<1> QED
  BY <1>0, <1>3, <1>4, <1>5, <1>6, <1>7 DEF TypeInv, EpistemicTypeOK

-----------------------------------------------------------------------------
(* The inductive invariant.  Log positions start with 1 and identify claims *)
(* and relations; a relation joins two claims of one key; a materialized    *)
(* head is a claim of its key, and is missing only while the key has no     *)
(* claim; the claims of a key have a first one.                             *)
ClaimsOf(k) == {c \in DOMAIN claims : claims[c].key = k}

PositionsUnique ==
  /\ \A c \in DOMAIN claims : 0 < claims[c].seq
  /\ \A c, d \in DOMAIN claims : claims[c].seq = claims[d].seq => c = d
  /\ \A r, q \in relations : r.seq = q.seq => r = q

RelationsWithinKey ==
  \A r \in relations : /\ r.source \in DOMAIN claims /\ r.target \in DOMAIN claims
                       /\ claims[r.source].key = claims[r.target].key

HeadsOfTheirKey ==
  \A k \in Keys : /\ heads[k] = None => ClaimsOf(k) = {}
                  /\ heads[k] # None => heads[k] \in ClaimsOf(k)

FirstOf(cl, cs, f) == f \in cs /\ \A c \in cs : cl[f].seq <= cl[c].seq

RootsExist == \A k \in Keys : ClaimsOf(k) # {} => \E f : FirstOf(claims, ClaimsOf(k), f)

IInv == /\ TypeInv
        /\ PositionsUnique
        /\ RelationsWithinKey
        /\ HeadsOfTheirKey
        /\ RootsExist
        /\ HeadsMatchHistory

(* The earliest of a set of rows is the one that no other precedes.        *)
LEMMA EarliestIs ==
  ASSUME NEW rows, NEW cs, NEW f,
         \A c \in cs : rows[c].seq \in Nat,
         \A c, d \in cs : rows[c].seq = rows[d].seq => c = d,
         FirstOf(rows, cs, f)
  PROVE  Earliest(rows, cs) = f
<1>1. f \in cs /\ \A d \in cs : rows[f].seq <= rows[d].seq
  BY DEF FirstOf
<1>2. Earliest(rows, cs) \in cs /\ \A d \in cs : rows[Earliest(rows, cs)].seq <= rows[d].seq
  BY <1>1 DEF Earliest
<1> DEFINE e == Earliest(rows, cs)
<1> HIDE DEF e
<1>3. e \in cs /\ rows[f].seq <= rows[e].seq /\ rows[e].seq <= rows[f].seq
  BY <1>1, <1>2 DEF e
<1>4. rows[f].seq \in Nat /\ rows[e].seq \in Nat
  BY <1>1, <1>3
<1>5. rows[f].seq = rows[e].seq
  BY <1>3, <1>4
<1> QED
  BY <1>1, <1>3, <1>5 DEF e

(* The latest of a set of rows that was just extended is the new row, when *)
(* it lies beyond all others.                                              *)
LEMMA LatestIs ==
  ASSUME NEW rows, NEW r,
         \A q \in rows : q.seq \in Nat,
         r.seq \in Nat,
         \A q \in rows : q.seq < r.seq
  PROVE  Latest(rows \cup {r}) = r
<1>1. \A q \in rows \cup {r} : q.seq <= r.seq
  OBVIOUS
<1>2. /\ Latest(rows \cup {r}) \in rows \cup {r}
      /\ \A q \in rows \cup {r} : q.seq <= Latest(rows \cup {r}).seq
  BY <1>1 DEF Latest
<1> DEFINE l == Latest(rows \cup {r})
<1> HIDE DEF l
<1>3. ASSUME l \in rows PROVE FALSE
  <2>1. l.seq < r.seq /\ r.seq <= l.seq
    BY <1>2, <1>3 DEF l
  <2>2. l.seq \in Nat /\ r.seq \in Nat
    BY <1>3
  <2> QED BY <2>1, <2>2
<1> QED
  BY <1>2, <1>3 DEF l

(* Without a known_at the replay of a key sees all its claims and all its  *)
(* head-moving relations.                                                  *)
RevisionsOf(k) == {r \in relations : r.kind \in HeadMoving /\ claims[r.source].key = k}

(* So a replay without known_at is a replay of RevisionsOf over ClaimsOf.  *)
LEMMA ReplayNow ==
  ASSUME RelationsWithinKey, NEW k \in Keys
  PROVE  Visible(k, None) = ClaimsOf(k) /\ Revisions(k, None) = RevisionsOf(k)
<1>1. Visible(k, None) = ClaimsOf(k)
  BY DEF Visible, KnownBy, ClaimsOf
<1>2. Revisions(k, None) = RevisionsOf(k)
  BY <1>1 DEF Revisions, RevisionsOf, KnownBy, ClaimsOf, RelationsWithinKey
<1> QED BY <1>1, <1>2

(* The head it finds before a position, in those terms.                    *)
LEMMA HeadNow ==
  ASSUME RelationsWithinKey, NEW k \in Keys, NEW n
  PROVE  HeadBefore(k, None, n) =
           IF {r \in RevisionsOf(k) : r.seq < n} # {}
             THEN Latest({r \in RevisionsOf(k) : r.seq < n}).source
           ELSE IF {c \in ClaimsOf(k) : claims[c].seq < n} # {}
             THEN Earliest(claims, {c \in ClaimsOf(k) : claims[c].seq < n})
           ELSE None
BY ReplayNow DEF HeadBefore, LoggedBefore, FirstClaim

-----------------------------------------------------------------------------
(* A bundle extends the tables beyond every position logged before.        *)
LEMMA CommitExtends ==
  ASSUME IInv, NEW w \in Writers, NEW c \in ClaimIds, NEW b \in Bundles,
         CommitClaimBundle(w, c, b)
  PROVE  LET d == drafts[w]
             relation == [source |-> c, target |-> d.target, kind |-> d.kind,
                          recordedAt |-> b.recordedAt, seq |-> frontier + 4]
         IN  /\ d.key \in Keys
             /\ c \notin DOMAIN claims
             /\ DOMAIN claims' = DOMAIN claims \cup {c}
             /\ \A x \in DOMAIN claims : claims'[x] = claims[x]
             /\ claims'[c].key = d.key
             /\ claims'[c].seq = frontier + 3
             /\ relations' = relations \cup (IF d.kind = None THEN {} ELSE {relation})
             /\ heads' = IF MovesHead(d) THEN [heads EXCEPT ![d.key] = c] ELSE heads
             /\ d.kind = None => ClaimsOf(d.key) = {}
             /\ d.kind # None => d.target = heads[d.key] /\ d.target \in ClaimsOf(d.key)
<1>1. drafts[w] \in Draft
  BY BundleRowTypes DEF IInv
<1>2. drafts[w].target = heads[drafts[w].key]
  BY DEF CommitClaimBundle, Admissible, TargetsLockedHead
<1>3. drafts[w].target = None <=> drafts[w].kind = None
  BY DEF CommitClaimBundle, IInv, TypeInv, DraftsPaired
<1>4. drafts[w].kind = None => ClaimsOf(drafts[w].key) = {}
  BY <1>1, <1>2, <1>3 DEF IInv, HeadsOfTheirKey, Draft
<1>5. drafts[w].kind # None => drafts[w].target \in ClaimsOf(drafts[w].key)
  BY <1>1, <1>2, <1>3 DEF IInv, HeadsOfTheirKey, Draft
<1> QED
  BY <1>1, <1>2, <1>4, <1>5 DEF CommitClaimBundle, Draft

(* A committed bundle keeps the inductive invariant: its claim and its     *)
(* revision lie beyond all others, so replays of older prefixes see the    *)
(* same rows as before, and the replay of its key ends at the new head.    *)
LEMMA CommitHistory ==
  ASSUME IInv, NEW w \in Writers, NEW c \in ClaimIds, NEW b \in Bundles,
         CommitClaimBundle(w, c, b)
  PROVE  IInv'
<1> DEFINE d == drafts[w]
           relation == [source |-> c, target |-> d.target, kind |-> d.kind,
                        recordedAt |-> b.recordedAt, seq |-> frontier + 4]
<1>0. TypeInv'
  BY TypeInvCommit DEF IInv
<1>1. /\ d.key \in Keys
      /\ c \notin DOMAIN claims
      /\ DOMAIN claims' = DOMAIN claims \cup {c}
      /\ \A x \in DOMAIN claims : claims'[x] = claims[x]
      /\ claims'[c].key = d.key
      /\ claims'[c].seq = frontier + 3
      /\ relations' = relations \cup (IF d.kind = None THEN {} ELSE {relation})
      /\ heads' = IF MovesHead(d) THEN [heads EXCEPT ![d.key] = c] ELSE heads
      /\ d.kind = None => ClaimsOf(d.key) = {}
      /\ d.kind # None => d.target = heads[d.key] /\ d.target \in ClaimsOf(d.key)
  BY CommitExtends
<1>2. relation.source = c /\ relation.target = d.target /\ relation.kind = d.kind
      /\ relation.seq = frontier + 4
  OBVIOUS
<1> HIDE DEF d, relation
<1>3. /\ frontier \in Nat
      /\ \A x \in DOMAIN claims : claims[x].seq \in Nat /\ claims[x].seq <= frontier
      /\ \A r \in relations : r.seq \in Nat /\ r.seq <= frontier
  BY DEF IInv, TypeInv, EpistemicTypeOK, ClaimRow, RelationRow
<1>4. /\ frontier' \in Nat
      /\ frontier + 3 <= frontier'
      /\ d.kind # None => frontier + 4 <= frontier'
  BY BundleRowTypes DEF IInv, d
<1>5. \A k \in Keys : ClaimsOf(k)' = IF k = d.key THEN ClaimsOf(k) \cup {c} ELSE ClaimsOf(k)
  BY <1>1 DEF ClaimsOf
<1>6. RelationsWithinKey'
  BY <1>1, <1>2 DEF IInv, RelationsWithinKey, ClaimsOf
<1>7. \A k \in Keys : RevisionsOf(k)' =
        IF k = d.key /\ d.kind # None /\ d.kind \in HeadMoving
          THEN RevisionsOf(k) \cup {relation} ELSE RevisionsOf(k)
  BY <1>1, <1>2 DEF IInv, RelationsWithinKey, RevisionsOf
<1>8. PositionsUnique'
  <2>1. ASSUME NEW x \in DOMAIN claims', NEW y \in DOMAIN claims', claims'[x].seq = claims'[y].seq
        PROVE  x = y
    <3>1. CASE x \in DOMAIN claims /\ y \in DOMAIN claims
      BY <2>1, <3>1, <1>1 DEF IInv, PositionsUnique
    <3>2. CASE x = c /\ y = c
      BY <3>2
    <3>3. CASE x = c /\ y \in DOMAIN claims
      <4>1. claims'[y].seq \in Nat /\ claims'[y].seq <= frontier
        BY <3>3, <1>1, <1>3
      <4>2. claims'[y].seq = frontier + 3
        BY <3>3, <2>1, <1>1
      <4> QED BY <4>1, <4>2, <1>3
    <3>4. CASE y = c /\ x \in DOMAIN claims
      <4>1. claims'[x].seq \in Nat /\ claims'[x].seq <= frontier
        BY <3>4, <1>1, <1>3
      <4>2. claims'[x].seq = frontier + 3
        BY <3>4, <2>1, <1>1
      <4> QED BY <4>1, <4>2, <1>3
    <3> QED BY <3>1, <3>2, <3>3, <3>4, <1>1
  <2>2. ASSUME NEW r \in relations', NEW q \in relations', r.seq = q.seq
        PROVE  r = q
    <3>1. CASE r \in relations /\ q \in relations
      BY <2>2, <3>1 DEF IInv, PositionsUnique
    <3>2. CASE r = relation /\ q \in relations
      <4>1. q.seq \in Nat /\ q.seq <= frontier
        BY <3>2, <1>3
      <4> QED BY <4>1, <3>2, <2>2, <1>2, <1>3
    <3>3. CASE q = relation /\ r \in relations
      <4>1. r.seq \in Nat /\ r.seq <= frontier
        BY <3>3, <1>3
      <4> QED BY <4>1, <3>3, <2>2, <1>2, <1>3
    <3> QED BY <3>1, <3>2, <3>3, <1>1
  <2>3. ASSUME NEW x \in DOMAIN claims' PROVE 0 < claims'[x].seq
    <3>1. CASE x \in DOMAIN claims
      BY <3>1, <1>1 DEF IInv, PositionsUnique
    <3>2. CASE x = c
      <4>1. 0 < frontier + 3
        BY <1>3
      <4> QED BY <4>1, <3>2, <1>1
    <3> QED BY <3>1, <3>2, <1>1
  <2> QED BY <2>1, <2>2, <2>3 DEF PositionsUnique
<1>9. HeadsOfTheirKey'
  BY <1>1, <1>5 DEF IInv, TypeInv, EpistemicTypeOK, HeadsOfTheirKey, MovesHead
(* The first claim of a key that has one stays the first.                  *)
<1>10. ASSUME NEW k \in Keys, NEW f, FirstOf(claims, ClaimsOf(k), f)
       PROVE  /\ FirstOf(claims', ClaimsOf(k), f)
              /\ FirstOf(claims', ClaimsOf(k) \cup {c}, f)
  <2>1. f \in ClaimsOf(k) /\ claims'[f].seq = claims[f].seq
    BY <1>10, <1>1 DEF FirstOf, ClaimsOf
  <2>2. ASSUME NEW x \in ClaimsOf(k) PROVE claims'[f].seq <= claims'[x].seq
    BY <2>1, <1>10, <1>1 DEF FirstOf, ClaimsOf
  <2>3. claims'[f].seq <= claims'[c].seq
    <3>1. claims'[f].seq \in Nat /\ claims'[f].seq <= frontier
      BY <2>1, <1>3 DEF ClaimsOf
    <3> QED BY <3>1, <1>1, <1>3
  <2> QED BY <2>1, <2>2, <2>3 DEF FirstOf
<1>11. RootsExist'
  <2>1. ASSUME NEW k \in Keys, ClaimsOf(k)' # {}
        PROVE  \E f : FirstOf(claims', ClaimsOf(k)', f)
    <3>1. CASE ClaimsOf(k) # {}
      <4>1. PICK f : FirstOf(claims, ClaimsOf(k), f)
        BY <3>1 DEF IInv, RootsExist
      <4> QED BY <4>1, <1>5, <1>10
    <3>2. CASE ClaimsOf(k) = {}
      <4>1. ClaimsOf(k)' = {c} /\ claims'[c].seq <= claims'[c].seq
        BY <3>2, <2>1, <1>5, <1>1, <1>3
      <4> QED BY <4>1 DEF FirstOf
    <3> QED BY <3>1, <3>2
  <2> QED BY <2>1 DEF RootsExist
<1>12. ASSUME NEW k \in Keys, NEW n
       PROVE  HeadBefore(k, None, n)' =
                IF {r \in RevisionsOf(k)' : r.seq < n} # {}
                  THEN Latest({r \in RevisionsOf(k)' : r.seq < n}).source
                ELSE IF {x \in ClaimsOf(k)' : claims'[x].seq < n} # {}
                  THEN Earliest(claims', {x \in ClaimsOf(k)' : claims'[x].seq < n})
                ELSE None
  <2>1. Visible(k, None)' = ClaimsOf(k)'
    BY DEF Visible, KnownBy, ClaimsOf
  <2>2. Revisions(k, None)' = RevisionsOf(k)'
    BY <2>1, <1>6 DEF Revisions, RevisionsOf, KnownBy, ClaimsOf, RelationsWithinKey
  <2> QED BY <2>1, <2>2 DEF HeadBefore, LoggedBefore, FirstClaim
(* The earliest claim of a set that holds the first claim of its key is    *)
(* that claim, before and after.                                           *)
<1>13. ASSUME NEW k \in Keys, NEW f, FirstOf(claims, ClaimsOf(k), f),
              NEW cs \in SUBSET ClaimsOf(k), f \in cs
       PROVE  /\ Earliest(claims, cs) = f
              /\ Earliest(claims', cs) = f
              /\ Earliest(claims', cs \cup {c}) = f
  <2>1. /\ FirstOf(claims, cs, f) /\ FirstOf(claims', cs, f)
        /\ FirstOf(claims', cs \cup {c}, f)
    BY <1>13, <1>10 DEF FirstOf
  <2>2. \A x \in cs \cup {c} : claims'[x].seq \in Nat
    BY <1>1, <1>3 DEF ClaimsOf
  <2>3. \A x, y \in cs \cup {c} : claims'[x].seq = claims'[y].seq => x = y
    BY <1>8, <1>1 DEF PositionsUnique, ClaimsOf
  <2>4. \A x \in cs : claims[x].seq \in Nat /\ claims'[x] = claims[x]
    BY <1>1, <1>3 DEF ClaimsOf
  <2>5. \A x, y \in cs : claims[x].seq = claims[y].seq => x = y
    BY <2>3, <2>4
  <2>6. Earliest(claims, cs) = f
    BY <2>1, <2>4, <2>5, EarliestIs
  <2>7. Earliest(claims', cs) = f
    BY <2>1, <2>2, <2>3, EarliestIs
  <2>8. Earliest(claims', cs \cup {c}) = f
    BY <2>1, <2>2, <2>3, EarliestIs
  <2> QED BY <2>6, <2>7, <2>8
(* A replay up to a position already logged does not change.               *)
<1>14. ASSUME NEW k \in Keys, NEW n \in Nat, n <= frontier + 1
       PROVE  HeadBefore(k, None, n)' = HeadBefore(k, None, n)
  <2> DEFINE moves == {r \in RevisionsOf(k) : r.seq < n}
             roots == {x \in ClaimsOf(k) : claims[x].seq < n}
  <2>1. {r \in RevisionsOf(k)' : r.seq < n} = moves
    BY <1>2, <1>3, <1>7, <1>14
  <2>2. {x \in ClaimsOf(k)' : claims'[x].seq < n} = roots
    <3>1. \A x \in ClaimsOf(k) : claims'[x] = claims[x]
      BY <1>1 DEF ClaimsOf
    <3>2. ~(claims'[c].seq < n)
      BY <1>1, <1>3, <1>14
    <3> QED BY <3>1, <3>2, <1>1, <1>5 DEF ClaimsOf
  <2>3. roots # {} => Earliest(claims', roots) = Earliest(claims, roots)
    <3>1. SUFFICES ASSUME NEW x \in roots
                   PROVE  Earliest(claims', roots) = Earliest(claims, roots)
      OBVIOUS
    <3>2. PICK f : FirstOf(claims, ClaimsOf(k), f)
      BY <3>1 DEF IInv, RootsExist
    <3>3. f \in ClaimsOf(k) /\ claims[f].seq <= claims[x].seq /\ claims[x].seq < n
      BY <3>1, <3>2 DEF FirstOf
    <3>4. claims[f].seq \in Nat /\ claims[x].seq \in Nat
      BY <3>1, <3>3, <1>3 DEF ClaimsOf
    <3>5. f \in roots
      BY <3>3, <3>4
    <3> QED BY <3>2, <3>5, <1>13
  <2>4. HeadBefore(k, None, n) = IF moves # {} THEN Latest(moves).source
                                 ELSE IF roots # {} THEN Earliest(claims, roots) ELSE None
    BY HeadNow DEF IInv
  <2>5. HeadBefore(k, None, n)' = IF moves # {} THEN Latest(moves).source
                                  ELSE IF roots # {} THEN Earliest(claims', roots) ELSE None
    BY <1>12, <2>1, <2>2
  <2> HIDE DEF moves, roots
  <2> QED BY <2>3, <2>4, <2>5
(* A replay of everything finds the materialized head.                     *)
<1>15. ASSUME NEW k \in Keys
       PROVE  heads[k] = IF RevisionsOf(k) # {} THEN Latest(RevisionsOf(k)).source
                         ELSE IF ClaimsOf(k) # {} THEN Earliest(claims, ClaimsOf(k)) ELSE None
  <2>1. {r \in RevisionsOf(k) : r.seq < frontier + 1} = RevisionsOf(k)
    <3>1. \A r \in RevisionsOf(k) : r.seq < frontier + 1
      BY <1>3 DEF RevisionsOf
    <3> QED BY <3>1
  <2>2. {x \in ClaimsOf(k) : claims[x].seq < frontier + 1} = ClaimsOf(k)
    <3>1. \A x \in ClaimsOf(k) : claims[x].seq < frontier + 1
      BY <1>3 DEF ClaimsOf
    <3> QED BY <3>1
  <2>3. heads[k] = HeadBefore(k, None, frontier + 1)
    BY DEF IInv, HeadsMatchHistory, HeadForKey
  <2> QED BY <2>1, <2>2, <2>3, HeadNow DEF IInv
(* So does a replay beyond the old end of the log, as long as it has not   *)
(* seen a new revision.                                                    *)
<1>16. ASSUME NEW k \in Keys, ClaimsOf(k) # {}, NEW n \in Nat, frontier + 3 < n,
              {r \in RevisionsOf(k)' : r.seq < n} = RevisionsOf(k)
       PROVE  HeadBefore(k, None, n)' = heads[k]
  <2>1. {x \in ClaimsOf(k)' : claims'[x].seq < n} = ClaimsOf(k)'
    <3>1. ASSUME NEW x \in ClaimsOf(k) PROVE claims'[x].seq < n
      <4>1. claims'[x] = claims[x] /\ claims[x].seq \in Nat /\ claims[x].seq <= frontier
        BY <3>1, <1>1, <1>3 DEF ClaimsOf
      <4>2. PICK f \in Nat, q \in Nat : f = frontier /\ q = claims[x].seq
        BY <4>1, <1>3
      <4>3. q <= f /\ f + 3 < n
        BY <4>1, <4>2, <1>16
      <4>4. q < n
        BY <4>3
      <4> QED BY <4>1, <4>2, <4>4
    <3>2. claims'[c].seq < n
      BY <1>1, <1>16
    <3> QED BY <3>1, <3>2, <1>5
  <2>2. PICK f : FirstOf(claims, ClaimsOf(k), f)
    BY <1>16 DEF IInv, RootsExist
  <2>3. f \in ClaimsOf(k)
    BY <2>2 DEF FirstOf
  <2>4. Earliest(claims', ClaimsOf(k)') = Earliest(claims, ClaimsOf(k))
    BY <2>2, <2>3, <1>5, <1>13
  <2>5. ClaimsOf(k)' # {}
    BY <2>3, <1>5
  <2>6. HeadBefore(k, None, n)' =
          IF RevisionsOf(k) # {} THEN Latest(RevisionsOf(k)).source
          ELSE IF ClaimsOf(k)' # {} THEN Earliest(claims', ClaimsOf(k)') ELSE None
    BY <2>1, <1>12, <1>16
  <2> QED BY <2>4, <2>5, <2>6, <1>15, <1>16
<1>17. ASSUME NEW k \in Keys
       PROVE  heads'[k] = HeadForKey(k, None)'
  <2>0. PICK last \in Nat : last = frontier'
    BY <1>4
  <2>1. PICK n \in Nat : n = last + 1
    OBVIOUS
  <2>2. HeadForKey(k, None)' = HeadBefore(k, None, n)'
    BY <2>0, <2>1 DEF HeadForKey, HeadBefore, LoggedBefore, FirstClaim
  <2>3. frontier + 3 < n
    BY <2>0, <2>1, <1>3, <1>4
  <2>4. \A r \in RevisionsOf(k) : r.seq < n
    BY <2>3, <1>3 DEF RevisionsOf
  <2>5. ASSUME RevisionsOf(k)' = RevisionsOf(k), ClaimsOf(k) # {}
        PROVE  HeadForKey(k, None)' = heads[k]
    <3>1. {r \in RevisionsOf(k)' : r.seq < n} = RevisionsOf(k)
      BY <2>4, <2>5
    <3> QED BY <3>1, <2>2, <2>3, <2>5, <1>16
  <2>6. ClaimsOf(k) = {} => RevisionsOf(k) = {}
    BY DEF ClaimsOf, RevisionsOf, IInv, RelationsWithinKey
  <2>7. CASE k # d.key
    <3>1. heads'[k] = heads[k] /\ ClaimsOf(k)' = ClaimsOf(k) /\ RevisionsOf(k)' = RevisionsOf(k)
      BY <2>7, <1>1, <1>5, <1>7 DEF IInv, TypeInv, EpistemicTypeOK
    <3>2. CASE ClaimsOf(k) = {}
      <4>1. heads[k] = None
        BY <3>2, <2>6, <1>15
      <4>2. {r \in RevisionsOf(k)' : r.seq < n} = {}
        BY <3>1, <3>2, <2>6
      <4>3. {x \in ClaimsOf(k)' : claims'[x].seq < n} = {}
        BY <3>1, <3>2
      <4>4. HeadBefore(k, None, n)' = None
        BY <4>2, <4>3, <1>12
      <4> QED BY <4>1, <4>4, <3>1, <2>2
    <3> QED BY <3>1, <3>2, <2>5
  <2>8. CASE k = d.key /\ d.kind = None
    <3>1. ClaimsOf(k)' = {c} /\ RevisionsOf(k)' = {}
      BY <2>8, <2>6, <1>1, <1>5, <1>7
    <3>2. heads'[k] = c
      BY <2>8, <1>1 DEF MovesHead, IInv, TypeInv, EpistemicTypeOK
    <3>3. claims'[c].seq \in Nat /\ claims'[c].seq < n
      BY <1>1, <1>3, <2>1, <2>3
    <3>4. {x \in ClaimsOf(k)' : claims'[x].seq < n} = {c}
      BY <3>1, <3>3
    <3>5. {r \in RevisionsOf(k)' : r.seq < n} = {}
      BY <3>1
    <3>6. Earliest(claims', {c}) = c
      <4>1. FirstOf(claims', {c}, c)
        BY <3>3 DEF FirstOf
      <4> QED BY <4>1, <3>3, EarliestIs
    <3>7. HeadBefore(k, None, n)' = c
      BY <3>4, <3>5, <3>6, <1>12
    <3> QED BY <3>2, <3>7, <2>2
  <2>9. CASE k = d.key /\ d.kind # None /\ d.kind \in HeadMoving
    <3>1. heads'[k] = c
      BY <2>9, <1>1 DEF MovesHead, IInv, TypeInv, EpistemicTypeOK
    <3>2. RevisionsOf(k)' = RevisionsOf(k) \cup {relation}
      BY <2>9, <1>7
    <3>3. /\ \A r \in RevisionsOf(k) : r.seq \in Nat /\ r.seq < relation.seq
          /\ relation.seq \in Nat
      BY <1>2, <1>3 DEF RevisionsOf
    <3>4. Latest(RevisionsOf(k) \cup {relation}) = relation
      BY <3>3, LatestIs
    <3>5. relation.seq < n
      <4>1. frontier + 4 <= last /\ frontier \in Nat
        BY <1>3, <1>4, <2>0, <2>9
      <4>2. relation.seq = frontier + 4
        BY <1>2
      <4> QED BY <4>1, <4>2, <2>1
    <3>6. {r \in RevisionsOf(k)' : r.seq < n} = RevisionsOf(k) \cup {relation}
      BY <3>2, <3>5, <2>4
    <3>7. HeadBefore(k, None, n)' = relation.source
      BY <3>4, <3>6, <1>12
    <3> QED BY <3>1, <3>7, <2>2, <1>2
  <2>10. CASE k = d.key /\ d.kind # None /\ d.kind \notin HeadMoving
    <3>1. heads'[k] = heads[k]
      BY <2>10, <1>1 DEF MovesHead
    <3>2. RevisionsOf(k)' = RevisionsOf(k) /\ ClaimsOf(k) # {}
      BY <2>10, <1>1, <1>7
    <3> QED BY <3>1, <3>2, <2>5
  <2> QED BY <2>7, <2>8, <2>9, <2>10
<1>18. ASSUME NEW k \in Keys
       PROVE  LineageIntact(k, None)'
  <2>1. Revisions(k, None)' = RevisionsOf(k)'
    <3>1. Visible(k, None)' = ClaimsOf(k)'
      BY DEF Visible, KnownBy, ClaimsOf
    <3> QED BY <3>1, <1>6 DEF Revisions, RevisionsOf, KnownBy, ClaimsOf, RelationsWithinKey
  <2>2. ASSUME NEW r \in RevisionsOf(k)'
        PROVE  r.target = HeadBefore(k, None, r.seq)'
    <3>1. CASE r \in RevisionsOf(k)
      <4>1. r.target = HeadBefore(k, None, r.seq)
        BY <3>1, ReplayNow DEF IInv, HeadsMatchHistory, LineageIntact
      <4>2. r.seq \in Nat /\ r.seq <= frontier + 1
        BY <3>1, <1>3 DEF RevisionsOf
      <4> QED BY <4>1, <4>2, <1>14
    <3>2. CASE k = d.key /\ d.kind # None /\ d.kind \in HeadMoving /\ r = relation
      <4>1. RevisionsOf(k)' = RevisionsOf(k) \cup {r}
        BY <3>2, <1>7
      <4>2. r.seq \in Nat /\ frontier + 3 < r.seq /\ ~(r.seq < r.seq)
        BY <3>2, <1>2, <1>3
      <4>3. \A q \in RevisionsOf(k) : q.seq < r.seq
        BY <4>2, <1>3 DEF RevisionsOf
      <4>4. {q \in RevisionsOf(k)' : q.seq < r.seq} = RevisionsOf(k)
        BY <4>1, <4>2, <4>3
      <4>5. ClaimsOf(k) # {} /\ r.target = heads[k]
        BY <3>2, <1>1, <1>2
      <4> QED BY <4>2, <4>4, <4>5, <1>16
    <3> QED BY <3>1, <3>2, <1>7
  <2> QED BY <2>1, <2>2 DEF LineageIntact
<1>19. HeadsMatchHistory'
  BY <1>17, <1>18 DEF HeadsMatchHistory
<1> QED
  BY <1>0, <1>6, <1>8, <1>9, <1>11, <1>19 DEF IInv

-----------------------------------------------------------------------------
(* The inductive invariant holds of an empty database ...                  *)
LEMMA IInvInit == EpistemicInit => IInv
<1> SUFFICES ASSUME EpistemicInit PROVE IInv
  OBVIOUS
<1>1. TypeInv
  BY TypeInvInit
<1>2. relations = {} /\ DOMAIN claims = {} /\ \A k \in Keys : heads[k] = None
  BY DEF EpistemicInit
<1>3. /\ PositionsUnique /\ RelationsWithinKey /\ HeadsOfTheirKey /\ RootsExist
  BY <1>2 DEF PositionsUnique, RelationsWithinKey, HeadsOfTheirKey, RootsExist, ClaimsOf
<1>4. ASSUME NEW k \in Keys
      PROVE  LineageIntact(k, None) /\ HeadForKey(k, None) = None
  <2>1. Visible(k, None) = {} /\ Revisions(k, None) = {}
    BY <1>2 DEF Visible, Revisions
  <2> QED BY <2>1 DEF LineageIntact, HeadForKey, HeadBefore, LoggedBefore
<1> QED
  BY <1>1, <1>2, <1>3, <1>4 DEF IInv, HeadsMatchHistory

(* Steps that leave the tables and the heads as they are, though they may  *)
(* log rows of other tables.                                               *)
LEMMA IInvUnchanged ==
  ASSUME IInv, TypeInv', UNCHANGED <<claims, relations, heads>>, frontier <= frontier'
  PROVE  IInv'
<1>1. claims' = claims /\ relations' = relations /\ heads' = heads
  OBVIOUS
<1>0. PICK f \in Nat, g \in Nat : f = frontier /\ g = frontier' /\ f <= g
  BY DEF IInv, TypeInv, EpistemicTypeOK
<1>a. /\ \A c \in DOMAIN claims : claims[c].seq \in Nat /\ claims[c].seq <= f
      /\ \A r \in relations : r.seq \in Nat /\ r.seq <= f
  BY <1>0 DEF IInv, TypeInv, EpistemicTypeOK, ClaimRow, RelationRow
<1>2. \A k \in Keys : ClaimsOf(k)' = ClaimsOf(k)
  BY <1>1 DEF ClaimsOf
<1>3. PositionsUnique' /\ RelationsWithinKey' /\ HeadsOfTheirKey' /\ RootsExist'
  BY <1>1, <1>2 DEF IInv, PositionsUnique, RelationsWithinKey, HeadsOfTheirKey, RootsExist
<1>4. ASSUME NEW k \in Keys
      PROVE  LineageIntact(k, None)' /\ heads'[k] = HeadForKey(k, None)'
  <2>1. Visible(k, None)' = Visible(k, None) /\ Revisions(k, None)' = Revisions(k, None)
    BY <1>1 DEF Visible, Revisions
  <2>2. ASSUME NEW n PROVE HeadBefore(k, None, n)' = HeadBefore(k, None, n)
    BY <1>1, <2>1 DEF HeadBefore, LoggedBefore, FirstClaim
  <2>3. HeadBefore(k, None, g + 1) = HeadBefore(k, None, f + 1)
    <3>1. LoggedBefore(Revisions(k, None), g + 1) = LoggedBefore(Revisions(k, None), f + 1)
      BY <1>0, <1>a DEF LoggedBefore, Revisions
    <3>2. {c \in Visible(k, None) : claims[c].seq < g + 1} = {c \in Visible(k, None) : claims[c].seq < f + 1}
      BY <1>0, <1>a DEF Visible
    <3> QED BY <3>1, <3>2 DEF HeadBefore
  <2>4. /\ HeadForKey(k, None) = HeadBefore(k, None, f + 1)
        /\ HeadForKey(k, None)' = HeadBefore(k, None, g + 1)'
    BY <1>0 DEF HeadForKey, HeadBefore, LoggedBefore, FirstClaim
  <2>5. \A r \in Revisions(k, None)' : r.target = HeadBefore(k, None, r.seq)'
    BY <2>1, <2>2 DEF IInv, HeadsMatchHistory, LineageIntact
  <2> QED BY <1>1, <2>2, <2>3, <2>4, <2>5 DEF IInv, HeadsMatchHistory, LineageIntact
<1> QED
  BY <1>3, <1>4 DEF IInv, HeadsMatchHistory

(* ... and every step keeps it.                                            *)
LEMMA IInvStep == IInv /\ [EpistemicNext]_epistemicVars => IInv'
<1> SUFFICES ASSUME IInv, [EpistemicNext]_epistemicVars PROVE IInv'
  OBVIOUS
<1>0. frontier \in Nat
  BY DEF IInv, TypeInv, EpistemicTypeOK
<1>1. ASSUME NEW w \in Writers, ReadCurrent(w) PROVE IInv'
  <2>1. TypeInv'
    BY <1>1 DEF IInv, TypeInv, EpistemicTypeOK, DraftsPaired, ReadCurrent, claimVars, Draft
  <2> QED BY <1>1, <2>1, <1>0, IInvUnchanged DEF ReadCurrent, claimVars
<1>2. ASSUME NEW w \in Writers, NEW c \in ClaimIds, NEW b \in Bundles, CommitClaimBundle(w, c, b)
      PROVE  IInv'
  BY <1>2, CommitHistory
<1>3. ASSUME NEW w \in Writers, RejectClaimBundle(w) PROVE IInv'
  <2>1. TypeInv'
    BY <1>3 DEF IInv, TypeInv, EpistemicTypeOK, DraftsPaired, RejectClaimBundle, claimVars
  <2> QED BY <1>3, <2>1, <1>0, IInvUnchanged DEF RejectClaimBundle, claimVars
<1>4. CASE RebuildClaimHeads
  <2>1. heads' = heads
    BY <1>4 DEF RebuildClaimHeads, IInv, HeadsMatchHistory, TypeInv, EpistemicTypeOK
  <2>2. TypeInv'
    BY <1>4, <2>1 DEF RebuildClaimHeads, IInv, TypeInv, EpistemicTypeOK, DraftsPaired
  <2> QED BY <1>4, <2>1, <2>2, <1>0, IInvUnchanged DEF RebuildClaimHeads
<1>5. CASE UNCHANGED epistemicVars
  <2>1. TypeInv'
    BY <1>5 DEF IInv, TypeInv, EpistemicTypeOK, DraftsPaired, epistemicVars, claimVars
  <2> QED BY <1>5, <2>1, <1>0, IInvUnchanged DEF epistemicVars, claimVars
<1> QED
  BY <1>1, <1>2, <1>3, <1>4, <1>5 DEF EpistemicNext

(* Every table of the store keeps its type.                                *)
THEOREM TypeCorrect == EpistemicSpec => []EpistemicTypeOK
<1>1. IInv => EpistemicTypeOK
  BY DEF IInv, TypeInv
<1> QED
  BY <1>1, IInvInit, IInvStep, PTL DEF EpistemicSpec

(* For any number of writers, keys, claims and instants, the materialized  *)
(* heads are what a replay of the history finds, and no replay raises:     *)
(* commit_claim_bundle lets no stale writer revise a superseded head.      *)
THEOREM HeadsCorrect == EpistemicSpec => []HeadsMatchHistory
<1>1. IInv => HeadsMatchHistory
  BY DEF IInv
<1> QED
  BY <1>1, IInvInit, IInvStep, PTL DEF EpistemicSpec

-----------------------------------------------------------------------------
(* What is answered as known at an instant.  Knowledge time is monotonic   *)
(* along a lineage, so that a query about the past replays a prefix of it; *)
(* the second invariant, KInv, says so, and is inductive beside IInv.      *)

(* The claims of a key that were ever its head.                            *)
LineageOf(k) ==
  {c \in ClaimsOf(k) : \/ FirstOf(claims, ClaimsOf(k), c)
                       \/ \E r \in RevisionsOf(k) : r.source = c}

(* Every set of rows has one that was logged last.                         *)
ClaimsHaveLast ==
  \A S \in SUBSET DOMAIN claims :
    S # {} => \E m \in S : \A x \in S : claims[x].seq <= claims[m].seq
RelationsHaveLast ==
  \A S \in SUBSET relations : S # {} => \E m \in S : \A x \in S : x.seq <= m.seq

(* A relation is logged with its source, and leads to an earlier claim that *)
(* was head.                                                                *)
RelationsFollow ==
  \A r \in relations :
    /\ r.recordedAt = claims[r.source].recordedAt
    /\ r.seq = claims[r.source].seq + 1
    /\ claims[r.target].seq < claims[r.source].seq
    /\ \E k \in Keys : claims[r.source].key = k /\ r.target \in LineageOf(k)

(* The head is the last of its lineage.                                    *)
HeadIsLast ==
  \A k \in Keys : heads[k] # None =>
    /\ heads[k] \in LineageOf(k)
    /\ \A m \in LineageOf(k) : claims[m].seq <= claims[heads[k]].seq

(* No claim of a key is recorded before a head that precedes it.           *)
TimesOrdered ==
  \A k \in Keys : \A m \in LineageOf(k), c \in ClaimsOf(k) :
    claims[m].seq <= claims[c].seq => claims[m].recordedAt <= claims[c].recordedAt

RefsKnown ==
  \A c \in DOMAIN claims : \A e \in claims[c].refs :
    /\ e \in DOMAIN claims
    /\ claims[e].recordedAt <= claims[c].recordedAt
    /\ claims[e].capturedAt <= claims[c].recordedAt

KInv == /\ ClaimsHaveLast /\ RelationsHaveLast /\ RelationsFollow
        /\ HeadIsLast /\ TimesOrdered /\ RefsKnown

-----------------------------------------------------------------------------
LEMMA KInvInit == EpistemicInit => KInv
<1> SUFFICES ASSUME EpistemicInit PROVE KInv
  OBVIOUS
<1>1. relations = {} /\ DOMAIN claims = {} /\ \A k \in Keys : heads[k] = None
  BY DEF EpistemicInit
<1>2. \A k : ClaimsOf(k) = {}
  BY <1>1 DEF ClaimsOf
<1> QED BY <1>1, <1>2 DEF KInv, ClaimsHaveLast, RelationsHaveLast, RelationsFollow, HeadIsLast,
                          TimesOrdered, RefsKnown, LineageOf

LEMMA KInvUnchanged ==
  ASSUME KInv, UNCHANGED <<claims, relations, heads>>
  PROVE  KInv'
<1>1. \A k : ClaimsOf(k)' = ClaimsOf(k) /\ RevisionsOf(k)' = RevisionsOf(k)
  BY DEF ClaimsOf, RevisionsOf
<1>2. \A k : LineageOf(k)' = LineageOf(k)
  BY <1>1 DEF LineageOf
<1> QED BY <1>1, <1>2 DEF KInv, ClaimsHaveLast, RelationsHaveLast, RelationsFollow, HeadIsLast,
                          TimesOrdered, RefsKnown

(* What a bundle does to the tables, on top of CommitExtends.              *)
LEMMA CommitRecords ==
  ASSUME IInv, NEW w \in Writers, NEW c \in ClaimIds, NEW b \in Bundles,
         CommitClaimBundle(w, c, b)
  PROVE  /\ claims'[c].recordedAt = b.recordedAt
         /\ claims'[c].capturedAt = b.capturedAt
         /\ claims'[c].refs = b.extra \cup {c}
         /\ b.recordedAt \in Times /\ b.capturedAt <= b.recordedAt
         /\ \A e \in b.extra : /\ e \in DOMAIN claims
                               /\ claims[e].capturedAt <= b.recordedAt
                               /\ claims[e].recordedAt <= b.recordedAt
         /\ heads[drafts[w].key] # None =>
              claims[heads[drafts[w].key]].recordedAt <= b.recordedAt
<1>1. /\ b.recordedAt \in Times /\ b.extra \subseteq DOMAIN claims
  BY DEF Bundles
<1>2. claims'[c].recordedAt = b.recordedAt /\ claims'[c].capturedAt = b.capturedAt
      /\ claims'[c].refs = b.extra \cup {c}
  BY DEF CommitClaimBundle
<1>3. ASSUME heads[drafts[w].key] # None
      PROVE  claims[heads[drafts[w].key]].recordedAt <= b.recordedAt
  <2>1. drafts[w].key \in Keys
    BY BundleRowTypes DEF IInv, Draft
  <2>2. heads[drafts[w].key] \in DOMAIN claims
    BY <1>3, <2>1 DEF IInv, HeadsOfTheirKey, ClaimsOf
  <2>3. claims[heads[drafts[w].key]].recordedAt \in Int /\ b.recordedAt \in Int
    BY <1>1, <2>2 DEF IInv, TypeInv, EpistemicTypeOK, ClaimRow
  <2>4. b.recordedAt >= claims[heads[drafts[w].key]].recordedAt
    BY <1>3 DEF CommitClaimBundle, Admissible, NotBackdated
  <2> QED BY <2>3, <2>4
<1> QED BY <1>1, <1>2, <1>3 DEF CommitClaimBundle, Admissible, WellFormed, EvidenceKnown

(* A committed bundle extends the lineage of its key by its claim, if it   *)
(* moves the head.                                                         *)
LEMMA CommitLineage ==
  ASSUME IInv, NEW w \in Writers, NEW c \in ClaimIds, NEW b \in Bundles,
         CommitClaimBundle(w, c, b)
  PROVE  \A k \in Keys : LineageOf(k)' = IF k = drafts[w].key /\ MovesHead(drafts[w])
                                          THEN LineageOf(k) \cup {c} ELSE LineageOf(k)
<1> DEFINE d == drafts[w]
           relation == [source |-> c, target |-> d.target, kind |-> d.kind,
                        recordedAt |-> b.recordedAt, seq |-> frontier + 4]
<1>1. /\ d.key \in Keys
      /\ c \notin DOMAIN claims
      /\ DOMAIN claims' = DOMAIN claims \cup {c}
      /\ \A x \in DOMAIN claims : claims'[x] = claims[x]
      /\ claims'[c].key = d.key
      /\ claims'[c].seq = frontier + 3
      /\ relations' = relations \cup (IF d.kind = None THEN {} ELSE {relation})
      /\ heads' = IF MovesHead(d) THEN [heads EXCEPT ![d.key] = c] ELSE heads
      /\ d.kind = None => ClaimsOf(d.key) = {}
      /\ d.kind # None => d.target = heads[d.key] /\ d.target \in ClaimsOf(d.key)
  BY CommitExtends
<1>2. /\ relation.source = c /\ relation.target = d.target /\ relation.kind = d.kind
      /\ relation.recordedAt = b.recordedAt /\ relation.seq = frontier + 4
  OBVIOUS
<1> HIDE DEF d, relation
<1>4. /\ frontier \in Nat
      /\ \A x \in DOMAIN claims : /\ claims[x].seq \in Nat /\ claims[x].seq <= frontier
                                 /\ claims[x].recordedAt \in Int
      /\ \A r \in relations : r.seq \in Nat /\ r.seq <= frontier
  BY DEF IInv, TypeInv, EpistemicTypeOK, ClaimRow, RelationRow
<1> DEFINE cl == claims'
<1>5. /\ \A x \in DOMAIN claims : cl[x].seq < cl[c].seq
      /\ \A r \in relations : r.seq < relation.seq
      /\ cl[c].seq \in Nat /\ relation.seq = cl[c].seq + 1
  <2>1. PICK n \in Nat : n = cl[c].seq
    BY <1>1, <1>4
  <2>2. n = frontier + 3 /\ relation.seq = frontier + 4
    BY <2>1, <1>1, <1>2
  <2>3. \A x \in DOMAIN claims : claims[x].seq < n
    BY <2>2, <1>4
  <2>4. \A r \in relations : r.seq < relation.seq
    BY <2>2, <1>4
  <2>5. \A x \in DOMAIN claims : cl[x] = claims[x]
    BY <1>1
  <2>6. n + 1 = relation.seq
    BY <2>2, <1>4
  <2> HIDE DEF cl
  <2> QED BY <2>1, <2>3, <2>4, <2>5, <2>6
<1>6. \A k \in Keys : ClaimsOf(k)' = IF k = d.key THEN ClaimsOf(k) \cup {c} ELSE ClaimsOf(k)
  BY <1>1 DEF ClaimsOf
<1>7. \A k \in Keys : RevisionsOf(k)' =
        IF k = d.key /\ d.kind # None /\ d.kind \in HeadMoving
          THEN RevisionsOf(k) \cup {relation} ELSE RevisionsOf(k)
  BY <1>1, <1>2 DEF IInv, RelationsWithinKey, RevisionsOf
<1> HIDE DEF cl
<1>c. cl = claims'
  BY DEF cl
<1>8. \A k \in Keys : LineageOf(k)' =
        IF k = d.key /\ MovesHead(d) THEN LineageOf(k) \cup {c} ELSE LineageOf(k)
  <2> SUFFICES ASSUME NEW k \in Keys
               PROVE  LineageOf(k)' = IF k = d.key /\ MovesHead(d)
                                        THEN LineageOf(k) \cup {c} ELSE LineageOf(k)
    OBVIOUS
  <2> DEFINE cs == ClaimsOf(k)'
             rs == RevisionsOf(k)'
  <2>1. ASSUME NEW x \in ClaimsOf(k) PROVE x \in LineageOf(k)' <=> x \in LineageOf(k)
    <3>1. x \in DOMAIN claims /\ x # c /\ cl[x] = claims[x] /\ ClaimsOf(k) \subseteq DOMAIN claims
      BY <1>1, <1>c DEF ClaimsOf
    <3>2. FirstOf(cl, cs, x) <=> FirstOf(claims, ClaimsOf(k), x)
      <4>1. cs = ClaimsOf(k) \/ cs = ClaimsOf(k) \cup {c}
        BY <1>6
      <4>2. \A y \in ClaimsOf(k) : cl[y] = claims[y]
        BY <3>1, <1>1, <1>c
      <4>3. cl[x].seq <= cl[c].seq
        BY <3>1, <1>4, <1>5
      <4> HIDE DEF cs
      <4> QED BY <3>1, <4>1, <4>2, <4>3 DEF FirstOf
    <3>3. (\E r \in rs : r.source = x) <=> (\E r \in RevisionsOf(k) : r.source = x)
      BY <3>1, <1>7, <1>2
    <3>4. x \in cs
      BY <1>6
    <3> QED BY <3>2, <3>3, <3>4, <1>c DEF LineageOf
  <2>2. c \in LineageOf(k)' <=> (k = d.key /\ MovesHead(d))
    <3>1. c \in cs <=> k = d.key
      BY <1>1, <1>6 DEF ClaimsOf
    <3>2. CASE d.kind = None /\ k = d.key
      <4>1. cs = {c} /\ cl[c].seq <= cl[c].seq
        BY <3>2, <1>1, <1>5, <1>6
      <4>2. FirstOf(cl, cs, c)
        BY <4>1 DEF FirstOf
      <4> QED BY <3>1, <3>2, <4>2, <1>c DEF LineageOf, MovesHead
    <3>3. CASE d.kind # None /\ d.kind \in HeadMoving /\ k = d.key
      <4>1. relation \in rs
        BY <3>3, <1>7
      <4> QED BY <3>1, <3>3, <4>1, <1>2 DEF LineageOf, MovesHead
    <3>4. CASE d.kind # None /\ d.kind \notin HeadMoving /\ k = d.key
      <4>1. d.target \in DOMAIN claims /\ d.target \in cs
        BY <3>4, <1>1, <1>6 DEF ClaimsOf
      <4>2. cl[d.target].seq \in Nat /\ cl[d.target].seq < cl[c].seq
        BY <4>1, <1>1, <1>4, <1>5, <1>c
      <4>3. ~(cl[c].seq <= cl[d.target].seq)
        BY <4>2, <1>5
      <4>4. ~FirstOf(cl, cs, c)
        BY <4>1, <4>3 DEF FirstOf
      <4>5. \A r \in rs : r.source # c
        BY <3>4, <1>1, <1>7 DEF IInv, RelationsWithinKey, RevisionsOf
      <4> QED BY <3>4, <4>4, <4>5, <1>c DEF LineageOf, MovesHead
    <3> QED BY <3>1, <3>2, <3>3, <3>4 DEF LineageOf
  <2>3. LineageOf(k) \subseteq ClaimsOf(k) /\ LineageOf(k)' \subseteq ClaimsOf(k) \cup {c}
    BY <1>6 DEF LineageOf
  <2>4. c \notin ClaimsOf(k)
    BY <1>1 DEF ClaimsOf
  <2> QED BY <2>1, <2>2, <2>3, <2>4
<1> QED BY <1>8 DEF d

(* A committed bundle keeps it: the new claim is later than all others, and *)
(* recorded no earlier than the head that it finds, hence than the lineage. *)
LEMMA KInvCommit ==
  ASSUME IInv, KInv, NEW w \in Writers, NEW c \in ClaimIds, NEW b \in Bundles,
         CommitClaimBundle(w, c, b)
  PROVE  KInv'
<1> DEFINE d == drafts[w]
           relation == [source |-> c, target |-> d.target, kind |-> d.kind,
                        recordedAt |-> b.recordedAt, seq |-> frontier + 4]
<1>1. /\ d.key \in Keys
      /\ c \notin DOMAIN claims
      /\ DOMAIN claims' = DOMAIN claims \cup {c}
      /\ \A x \in DOMAIN claims : claims'[x] = claims[x]
      /\ claims'[c].key = d.key
      /\ claims'[c].seq = frontier + 3
      /\ relations' = relations \cup (IF d.kind = None THEN {} ELSE {relation})
      /\ heads' = IF MovesHead(d) THEN [heads EXCEPT ![d.key] = c] ELSE heads
      /\ d.kind = None => ClaimsOf(d.key) = {}
      /\ d.kind # None => d.target = heads[d.key] /\ d.target \in ClaimsOf(d.key)
  BY CommitExtends
<1>2. /\ relation.source = c /\ relation.target = d.target /\ relation.kind = d.kind
      /\ relation.recordedAt = b.recordedAt /\ relation.seq = frontier + 4
  OBVIOUS
<1>3. /\ claims'[c].recordedAt = b.recordedAt
      /\ claims'[c].capturedAt = b.capturedAt
      /\ claims'[c].refs = b.extra \cup {c}
      /\ b.recordedAt \in Times /\ b.capturedAt <= b.recordedAt
      /\ \A e \in b.extra : /\ e \in DOMAIN claims
                            /\ claims[e].capturedAt <= b.recordedAt
                            /\ claims[e].recordedAt <= b.recordedAt
      /\ heads[d.key] # None => claims[heads[d.key]].recordedAt <= b.recordedAt
  BY CommitRecords
<1> HIDE DEF d, relation
<1>t. b.recordedAt \in Int
  BY <1>3
<1>4. /\ frontier \in Nat
      /\ \A x \in DOMAIN claims : /\ claims[x].seq \in Nat /\ claims[x].seq <= frontier
                                 /\ claims[x].recordedAt \in Int
      /\ \A r \in relations : r.seq \in Nat /\ r.seq <= frontier
  BY DEF IInv, TypeInv, EpistemicTypeOK, ClaimRow, RelationRow
<1> DEFINE cl == claims'
<1>5. /\ \A x \in DOMAIN claims : cl[x].seq < cl[c].seq
      /\ \A r \in relations : r.seq < relation.seq
      /\ cl[c].seq \in Nat /\ relation.seq = cl[c].seq + 1
  <2>1. PICK n \in Nat : n = cl[c].seq
    BY <1>1, <1>4
  <2>2. n = frontier + 3 /\ relation.seq = frontier + 4
    BY <2>1, <1>1, <1>2
  <2>3. \A x \in DOMAIN claims : claims[x].seq < n
    BY <2>2, <1>4
  <2>4. \A r \in relations : r.seq < relation.seq
    BY <2>2, <1>4
  <2>5. \A x \in DOMAIN claims : cl[x] = claims[x]
    BY <1>1
  <2>6. n + 1 = relation.seq
    BY <2>2, <1>4
  <2> HIDE DEF cl
  <2> QED BY <2>1, <2>3, <2>4, <2>5, <2>6
<1>6. \A k \in Keys : ClaimsOf(k)' = IF k = d.key THEN ClaimsOf(k) \cup {c} ELSE ClaimsOf(k)
  BY <1>1 DEF ClaimsOf
<1> HIDE DEF cl
<1>c. cl = claims'
  BY DEF cl
<1>8. \A k \in Keys : LineageOf(k)' =
        IF k = d.key /\ MovesHead(d) THEN LineageOf(k) \cup {c} ELSE LineageOf(k)
  BY CommitLineage DEF d
<1>9. ClaimsHaveLast'
  <2> SUFFICES ASSUME NEW S \in SUBSET (DOMAIN claims \cup {c}), S # {}
               PROVE  \E m \in S : \A x \in S : cl[x].seq <= cl[m].seq
    BY <1>1, <1>c DEF ClaimsHaveLast
  <2>1. CASE c \in S
    <3>1. \A x \in S : cl[x].seq <= cl[c].seq
      BY <1>1, <1>4, <1>5, <1>c
    <3> QED BY <2>1, <3>1
  <2>2. CASE c \notin S
    <3>1. S \subseteq DOMAIN claims
      BY <2>2
    <3>2. PICK m \in S : \A x \in S : claims[x].seq <= claims[m].seq
      BY <3>1 DEF KInv, ClaimsHaveLast
    <3> QED BY <3>1, <3>2, <1>1, <1>c
  <2> QED BY <2>1, <2>2
<1>10. RelationsHaveLast'
  <2> SUFFICES ASSUME NEW S \in SUBSET (relations \cup {relation}), S # {}
               PROVE  \E m \in S : \A x \in S : x.seq <= m.seq
    BY <1>1 DEF RelationsHaveLast
  <2>1. CASE relation \in S
    <3>1. \A x \in S : x.seq <= relation.seq
      BY <1>4, <1>5
    <3> QED BY <2>1, <3>1
  <2>2. CASE relation \notin S
    BY <2>2 DEF KInv, RelationsHaveLast
  <2> QED BY <2>1, <2>2
<1>11. ASSUME d.kind # None
       PROVE  /\ heads[d.key] # None /\ d.target = heads[d.key] /\ d.target \in ClaimsOf(d.key)
              /\ d.target \in DOMAIN claims
              /\ d.target \in LineageOf(d.key)
              /\ \A m \in LineageOf(d.key) : claims[m].seq <= claims[d.target].seq
  <2>1. heads[d.key] # None
    BY <1>11, <1>1 DEF IInv, HeadsOfTheirKey
  <2> QED BY <2>1, <1>1, <1>11 DEF KInv, HeadIsLast, ClaimsOf
<1>12. RelationsFollow'
  <2> SUFFICES ASSUME NEW r \in relations'
               PROVE  /\ r.recordedAt = cl[r.source].recordedAt
                      /\ r.seq = cl[r.source].seq + 1
                      /\ cl[r.target].seq < cl[r.source].seq
                      /\ \E k \in Keys : cl[r.source].key = k /\ r.target \in LineageOf(k)'
    BY <1>c DEF RelationsFollow
  <2>1. CASE r \in relations
    <3>1. r.source \in DOMAIN claims /\ r.target \in DOMAIN claims
      BY <2>1 DEF IInv, RelationsWithinKey
    <3>2. cl[r.source] = claims[r.source] /\ cl[r.target] = claims[r.target]
      BY <3>1, <1>1, <1>c
    <3>3. PICK k \in Keys : claims[r.source].key = k /\ r.target \in LineageOf(k)
      BY <2>1 DEF KInv, RelationsFollow
    <3>4. r.target \in LineageOf(k)'
      BY <3>3, <1>8
    <3>5. cl[r.source].key = k
      BY <3>2, <3>3
    <3> QED BY <2>1, <3>2, <3>4, <3>5 DEF KInv, RelationsFollow
  <2>2. CASE r = relation /\ d.kind # None
    <3>1. cl[r.target] = claims[r.target] /\ cl[r.target].seq < cl[r.source].seq
      BY <2>2, <1>1, <1>2, <1>5, <1>11, <1>c
    <3>2. PICK k \in Keys : k = d.key
      BY <1>1
    <3>3. r.target \in LineageOf(k)'
      BY <2>2, <3>2, <1>2, <1>8, <1>11
    <3>4. k = cl[r.source].key
      BY <2>2, <3>2, <1>1, <1>2, <1>c
    <3> QED BY <2>2, <3>1, <3>3, <3>4, <1>2, <1>3, <1>5, <1>c
  <2> QED BY <2>1, <2>2, <1>1
<1>13. HeadIsLast'
  <2> SUFFICES ASSUME NEW k \in Keys, heads'[k] # None
               PROVE  /\ heads'[k] \in LineageOf(k)'
                      /\ \A m \in LineageOf(k)' : cl[m].seq <= cl[heads'[k]].seq
    BY <1>c DEF HeadIsLast
  <2>1. LineageOf(k) \subseteq DOMAIN claims
    BY DEF LineageOf, ClaimsOf
  <2>2. CASE k = d.key /\ MovesHead(d)
    <3>1. heads'[k] = c
      BY <2>2, <1>1 DEF IInv, TypeInv, EpistemicTypeOK
    <3>2. LineageOf(k)' = LineageOf(k) \cup {c}
      BY <2>2, <1>8
    <3>3. \A m \in LineageOf(k) \cup {c} : cl[m].seq <= cl[c].seq
      BY <2>1, <1>1, <1>4, <1>5, <1>c
    <3> QED BY <3>1, <3>2, <3>3
  <2>3. CASE ~(k = d.key /\ MovesHead(d))
    <3>1. heads'[k] = heads[k]
      BY <2>3, <1>1 DEF IInv, TypeInv, EpistemicTypeOK
    <3>2. LineageOf(k)' = LineageOf(k)
      BY <2>3, <1>8
    <3>3. \A m \in LineageOf(k) : cl[m] = claims[m]
      BY <2>1, <1>1, <1>c
    <3>4. /\ heads[k] \in LineageOf(k)
          /\ \A m \in LineageOf(k) : claims[m].seq <= claims[heads[k]].seq
      BY <3>1 DEF KInv, HeadIsLast
    <3> QED BY <3>1, <3>2, <3>3, <3>4
  <2> QED BY <2>2, <2>3
<1>14. TimesOrdered'
  <2> SUFFICES ASSUME NEW k \in Keys, NEW m \in LineageOf(k)', NEW x \in ClaimsOf(k)',
                      cl[m].seq <= cl[x].seq
               PROVE  cl[m].recordedAt <= cl[x].recordedAt
    BY <1>c DEF TimesOrdered
  <2>1. LineageOf(k) \subseteq ClaimsOf(k) /\ ClaimsOf(k) \subseteq DOMAIN claims
    BY DEF LineageOf, ClaimsOf
  <2>2. CASE m \in LineageOf(k) /\ x \in ClaimsOf(k)
    <3>1. cl[m] = claims[m] /\ cl[x] = claims[x]
      BY <2>1, <2>2, <1>1, <1>c
    <3> QED BY <2>2, <3>1 DEF KInv, TimesOrdered
  <2>3. CASE m = c /\ x \in ClaimsOf(k)
    <3>1. cl[x].seq < cl[c].seq /\ cl[x].seq \in Nat /\ cl[c].seq \in Nat
      BY <2>1, <2>3, <1>1, <1>4, <1>5, <1>c
    <3>2. ~(cl[c].seq <= cl[x].seq)
      BY <3>1
    <3> QED BY <2>3, <3>2
  <2>4. CASE m = c /\ x = c
    <3>1. cl[c].recordedAt \in Int
      BY <1>3, <1>t, <1>c
    <3> QED BY <2>4, <3>1
  <2>5. CASE m \in LineageOf(k) /\ x = c
    <3>1. k = d.key /\ d.kind # None
      BY <2>1, <2>5, <1>1, <1>6 DEF ClaimsOf
    <3>2. claims[m].seq <= claims[d.target].seq /\ d.target \in ClaimsOf(k)
      BY <2>5, <3>1, <1>11
    <3>3. claims[m].recordedAt <= claims[d.target].recordedAt
      BY <2>5, <3>2 DEF KInv, TimesOrdered
    <3>4. claims[d.target].recordedAt <= b.recordedAt
      BY <3>1, <1>3, <1>11
    <3>5. claims[m].recordedAt \in Int /\ claims[d.target].recordedAt \in Int
      BY <2>1, <2>5, <3>2, <1>4
    <3>6. cl[m] = claims[m] /\ cl[x].recordedAt = b.recordedAt
      BY <2>1, <2>5, <1>1, <1>3, <1>c
    <3> QED BY <3>3, <3>4, <3>5, <3>6, <1>t
  <2> QED BY <2>2, <2>3, <2>4, <2>5, <1>6, <1>8
<1>15. RefsKnown'
  <2> SUFFICES ASSUME NEW x \in DOMAIN claims \cup {c}, NEW e \in cl[x].refs
               PROVE  /\ e \in DOMAIN claims \cup {c}
                      /\ cl[e].recordedAt <= cl[x].recordedAt
                      /\ cl[e].capturedAt <= cl[x].recordedAt
    BY <1>1, <1>c DEF RefsKnown
  <2>1. CASE x \in DOMAIN claims
    <3>1. cl[x] = claims[x]
      BY <2>1, <1>1, <1>c
    <3>2. /\ e \in DOMAIN claims
          /\ claims[e].recordedAt <= claims[x].recordedAt
          /\ claims[e].capturedAt <= claims[x].recordedAt
      BY <2>1, <3>1 DEF KInv, RefsKnown
    <3> QED BY <3>1, <3>2, <1>1, <1>c
  <2>2. CASE x = c /\ e = c
    BY <2>2, <1>3, <1>t, <1>c
  <2>3. CASE x = c /\ e \in b.extra
    BY <2>3, <1>1, <1>3, <1>t, <1>c
  <2> QED BY <2>1, <2>2, <2>3, <1>3, <1>c
<1> QED BY <1>9, <1>10, <1>12, <1>13, <1>14, <1>15 DEF KInv

LEMMA KInvStep == IInv /\ KInv /\ [EpistemicNext]_epistemicVars => KInv'
<1> SUFFICES ASSUME IInv, KInv, [EpistemicNext]_epistemicVars PROVE KInv'
  OBVIOUS
<1>1. ASSUME NEW w \in Writers, ReadCurrent(w) PROVE KInv'
  BY <1>1, KInvUnchanged DEF ReadCurrent, claimVars
<1>2. ASSUME NEW w \in Writers, NEW c \in ClaimIds, NEW b \in Bundles, CommitClaimBundle(w, c, b)
      PROVE  KInv'
  BY <1>2, KInvCommit
<1>3. ASSUME NEW w \in Writers, RejectClaimBundle(w) PROVE KInv'
  BY <1>3, KInvUnchanged DEF RejectClaimBundle, claimVars
<1>4. ASSUME RebuildClaimHeads PROVE KInv'
  <2>1. \A k \in Keys : HeadForKey(k, None) = heads[k]
    BY DEF IInv, HeadsMatchHistory
  <2>2. heads' = heads
    BY <1>4, <2>1 DEF RebuildClaimHeads, IInv, TypeInv, EpistemicTypeOK
  <2> QED BY <1>4, <2>2, KInvUnchanged DEF RebuildClaimHeads
<1>5. CASE UNCHANGED epistemicVars
  BY <1>5, KInvUnchanged DEF epistemicVars, claimVars
<1> QED BY <1>1, <1>2, <1>3, <1>4, <1>5 DEF EpistemicNext

LEMMA KnowledgeInvariant == EpistemicSpec => [](IInv /\ KInv)
  BY IInvInit, KInvInit, IInvStep, KInvStep, PTL DEF EpistemicSpec

-----------------------------------------------------------------------------
(* What the rows of the two invariants are, for arithmetic.                *)
LEMMA Positions ==
  ASSUME IInv
  PROVE  /\ frontier \in Nat
         /\ \A c \in DOMAIN claims :
              /\ claims[c].seq \in Nat /\ claims[c].seq <= frontier
              /\ claims[c].recordedAt \in Int /\ claims[c].capturedAt \in Int
         /\ \A r \in relations : r.seq \in Nat /\ r.seq <= frontier
BY DEF IInv, TypeInv, EpistemicTypeOK, ClaimRow, RelationRow

(* A relation that moves no head keeps its source off every lineage: the   *)
(* source has no other relation and is not the first of its key.           *)
LEMMA OthersOffLineage ==
  ASSUME IInv, KInv, NEW r \in relations, r.kind \notin HeadMoving, NEW k \in Keys
  PROVE  r.source \notin LineageOf(k)
<1> SUFFICES ASSUME r.source \in LineageOf(k) PROVE FALSE
  OBVIOUS
<1>1. /\ r.source \in ClaimsOf(k) /\ r.target \in ClaimsOf(k)
      /\ claims[r.target].seq < claims[r.source].seq
      /\ claims[r.target].seq \in Nat /\ claims[r.source].seq \in Nat
  BY Positions DEF IInv, RelationsWithinKey, KInv, RelationsFollow, LineageOf, ClaimsOf
<1>2. CASE FirstOf(claims, ClaimsOf(k), r.source)
  <2>1. claims[r.source].seq <= claims[r.target].seq
    BY <1>1, <1>2 DEF FirstOf
  <2> QED BY <1>1, <2>1
<1>3. ASSUME NEW q \in RevisionsOf(k), q.source = r.source PROVE FALSE
  <2>1. q \in relations /\ q.kind \in HeadMoving
    BY DEF RevisionsOf
  <2>2. q.seq = r.seq
    BY <1>3, <2>1 DEF KInv, RelationsFollow
  <2> QED BY <2>1, <2>2 DEF IInv, PositionsUnique
<1> QED BY <1>2, <1>3 DEF LineageOf

(* The first claim of a key with claims is known whenever any of them is.  *)
LEMMA FirstKnown ==
  ASSUME IInv, KInv, NEW k \in Keys, NEW K \in Times \cup {None}, Visible(k, K) # {}
  PROVE  \E f : /\ FirstOf(claims, ClaimsOf(k), f)
                /\ FirstOf(claims, Visible(k, K), f)
                /\ FirstClaim(Visible(k, K)) = f
                /\ f \in LineageOf(k)
<1>1. Visible(k, K) \subseteq ClaimsOf(k)
  BY DEF Visible, ClaimsOf
<1>2. PICK f : FirstOf(claims, ClaimsOf(k), f)
  BY <1>1 DEF IInv, RootsExist
<1>3. f \in ClaimsOf(k) /\ f \in LineageOf(k)
  BY <1>2 DEF FirstOf, LineageOf
<1>4. f \in Visible(k, K)
  <2>1. PICK v \in Visible(k, K) : TRUE
    OBVIOUS
  <2>2. claims[f].seq <= claims[v].seq /\ v \in ClaimsOf(k)
    BY <1>1, <1>2 DEF FirstOf
  <2>3. claims[f].recordedAt <= claims[v].recordedAt
    BY <1>3, <2>2 DEF KInv, TimesOrdered
  <2>4. claims[f].recordedAt \in Int /\ claims[v].recordedAt \in Int
    BY <1>3, <2>2, Positions DEF ClaimsOf
  <2>5. KnownBy(claims[v].recordedAt, K)
    BY DEF Visible
  <2>6. KnownBy(claims[f].recordedAt, K)
    BY <2>3, <2>4, <2>5 DEF KnownBy
  <2> QED BY <1>3, <2>6 DEF Visible, ClaimsOf
<1>5. FirstOf(claims, Visible(k, K), f)
  BY <1>1, <1>2, <1>4 DEF FirstOf
<1>6. FirstClaim(Visible(k, K)) = f
  BY <1>1, <1>5, EarliestIs, Positions DEF FirstClaim, IInv, PositionsUnique, ClaimsOf
<1> QED BY <1>2, <1>3, <1>5, <1>6

(* A revision is known exactly if its source is.                           *)
LEMMA RevisionsKnown ==
  ASSUME IInv, KInv, NEW k \in Keys, NEW K \in Times \cup {None}
  PROVE  Revisions(k, K) = {r \in RevisionsOf(k) : KnownBy(claims[r.source].recordedAt, K)}
<1>1. ASSUME NEW r \in RevisionsOf(k), KnownBy(claims[r.source].recordedAt, K)
      PROVE  r \in Revisions(k, K)
  <2>1. /\ r \in relations /\ r.kind \in HeadMoving
        /\ r.source \in ClaimsOf(k) /\ r.target \in LineageOf(k)
        /\ claims[r.target].seq < claims[r.source].seq
        /\ r.recordedAt = claims[r.source].recordedAt
    BY DEF RevisionsOf, KInv, RelationsFollow, IInv, RelationsWithinKey, ClaimsOf
  <2>2. r.target \in ClaimsOf(k)
    BY <2>1 DEF LineageOf
  <2>3. claims[r.target].seq <= claims[r.source].seq
    BY <2>1, <2>2, Positions DEF ClaimsOf
  <2>4. claims[r.target].recordedAt <= claims[r.source].recordedAt
    BY <2>1, <2>3 DEF KInv, TimesOrdered
  <2>5. KnownBy(claims[r.target].recordedAt, K)
    BY <1>1, <2>1, <2>2, <2>4, Positions DEF KnownBy, ClaimsOf
  <2> QED BY <1>1, <2>1, <2>2, <2>5 DEF Revisions, Visible, ClaimsOf
<1>2. ASSUME NEW r \in Revisions(k, K)
      PROVE  r \in RevisionsOf(k) /\ KnownBy(claims[r.source].recordedAt, K)
  BY DEF Revisions, Visible, RevisionsOf
<1> QED BY <1>1, <1>2

(* What a replay visits as known at K: the adopted claims recorded by then. *)
LEMMA LineageKnown ==
  ASSUME IInv, KInv, NEW k \in Keys, NEW K \in Times \cup {None}
  PROVE  Lineage(k, K) = {c \in LineageOf(k) : KnownBy(claims[c].recordedAt, K)}
<1>1. ASSUME NEW c \in Lineage(k, K)
      PROVE  c \in LineageOf(k) /\ KnownBy(claims[c].recordedAt, K)
  <2>1. CASE \E r \in Revisions(k, K) : c = r.source
    <3>1. PICK r \in RevisionsOf(k) : c = r.source /\ KnownBy(claims[c].recordedAt, K)
      BY <2>1, RevisionsKnown
    <3> QED BY <3>1 DEF LineageOf, RevisionsOf, IInv, RelationsWithinKey, ClaimsOf
  <2>2. CASE Visible(k, K) # {} /\ c = FirstClaim(Visible(k, K))
    <3>1. PICK f : FirstOf(claims, Visible(k, K), f) /\ f = c /\ f \in LineageOf(k)
      BY <2>2, FirstKnown
    <3> QED BY <3>1 DEF FirstOf, Visible
  <2> QED BY <2>1, <2>2 DEF Lineage
<1>2. ASSUME NEW c \in LineageOf(k), KnownBy(claims[c].recordedAt, K)
      PROVE  c \in Lineage(k, K)
  <2>1. c \in ClaimsOf(k)
    BY DEF LineageOf
  <2>2. CASE \E r \in RevisionsOf(k) : r.source = c
    BY <1>2, <2>2, RevisionsKnown DEF Lineage
  <2>3. CASE FirstOf(claims, ClaimsOf(k), c)
    <3>1. c \in Visible(k, K)
      BY <1>2, <2>1 DEF Visible, ClaimsOf
    <3>2. PICK f : FirstOf(claims, ClaimsOf(k), f) /\ FirstClaim(Visible(k, K)) = f
      BY <3>1, FirstKnown
    <3>3. f \in ClaimsOf(k) /\ claims[f].seq <= claims[c].seq /\ claims[c].seq <= claims[f].seq
      BY <2>1, <2>3, <3>2 DEF FirstOf
    <3>4. claims[f].seq = claims[c].seq
      BY <2>1, <3>3, Positions DEF ClaimsOf
    <3>5. f = c
      BY <2>1, <3>3, <3>4 DEF IInv, PositionsUnique, ClaimsOf
    <3> QED BY <3>1, <3>2, <3>5 DEF Lineage
  <2> QED BY <2>2, <2>3 DEF LineageOf
<1> QED BY <1>1, <1>2

(* ... and it ends at the last of them.                                    *)
LEMMA HeadKnown ==
  ASSUME IInv, KInv, NEW k \in Keys, NEW K \in Times \cup {None}
  PROVE  /\ Lineage(k, K) = {} => HeadForKey(k, K) = None
         /\ Lineage(k, K) # {} =>
              /\ HeadForKey(k, K) \in Lineage(k, K)
              /\ \A c \in Lineage(k, K) : claims[c].seq <= claims[HeadForKey(k, K)].seq
<1> DEFINE rs == Revisions(k, K)
           vs == Visible(k, K)
<1>0. rs \subseteq RevisionsOf(k) /\ rs \subseteq relations /\ vs \subseteq ClaimsOf(k) /\ vs \subseteq DOMAIN claims
  BY RevisionsKnown DEF RevisionsOf, Visible, ClaimsOf
<1>1. LoggedBefore(rs, frontier + 1) = rs /\ {c \in vs : claims[c].seq < frontier + 1} = vs
  BY <1>0, Positions DEF LoggedBefore
<1>2. HeadForKey(k, K) = IF rs # {} THEN Latest(rs).source
                         ELSE IF vs # {} THEN FirstClaim(vs) ELSE None
  BY <1>1 DEF HeadForKey, HeadBefore
<1>3. Lineage(k, K) = {r.source : r \in rs} \cup (IF vs = {} THEN {} ELSE {FirstClaim(vs)})
  BY DEF Lineage
<1> HIDE DEF rs, vs
<1>4. CASE rs = {} /\ vs = {}
  BY <1>2, <1>3, <1>4
<1>5. CASE rs = {} /\ vs # {}
  <2>1. Lineage(k, K) = {FirstClaim(vs)} /\ HeadForKey(k, K) = FirstClaim(vs)
    BY <1>2, <1>3, <1>5
  <2>2. FirstClaim(vs) \in DOMAIN claims
    BY <1>0, <1>5, FirstKnown DEF vs, FirstOf
  <2> QED BY <2>1, <2>2, Positions
<1>6. CASE rs # {}
  <2> DEFINE q == Latest(rs)
  <2>1. q \in rs /\ \A x \in rs : x.seq <= q.seq
    <3>1. \E m \in rs : \A x \in rs : x.seq <= m.seq
      BY <1>0, <1>6 DEF KInv, RelationsHaveLast
    <3> QED BY <3>1 DEF Latest
  <2>2. HeadForKey(k, K) = q.source
    BY <1>2, <1>6
  <2> HIDE DEF q
  <2>3. \A x \in rs : /\ x \in relations /\ x.source \in ClaimsOf(k) /\ x.source \in DOMAIN claims
                       /\ x.seq = claims[x.source].seq + 1
    BY <1>0 DEF RevisionsOf, KInv, RelationsFollow, IInv, RelationsWithinKey, ClaimsOf
  <2>4. \A x \in rs : claims[x.source].seq <= claims[q.source].seq
    <3> SUFFICES ASSUME NEW x \in rs PROVE claims[x.source].seq <= claims[q.source].seq
      OBVIOUS
    <3>1. /\ x.seq <= q.seq /\ x.seq = claims[x.source].seq + 1 /\ q.seq = claims[q.source].seq + 1
          /\ claims[x.source].seq \in Nat /\ claims[q.source].seq \in Nat
      BY <2>1, <2>3, Positions
    <3> QED BY <3>1
  <2>5. ASSUME vs # {} PROVE claims[FirstClaim(vs)].seq <= claims[q.source].seq
    <3>1. PICK f : FirstOf(claims, ClaimsOf(k), f) /\ FirstClaim(vs) = f
      BY <2>5, FirstKnown DEF vs
    <3> QED BY <2>1, <2>3, <3>1 DEF FirstOf
  <2> QED BY <1>3, <2>1, <2>2, <2>4, <2>5
<1> QED BY <1>4, <1>5, <1>6

(* No replay of a known past raises: each revision known at K finds the    *)
(* head that it found when all was replayed, whose revision is known too.  *)
LEMMA IntactKnown ==
  ASSUME IInv, KInv, NEW k \in Keys, NEW K \in Times \cup {None}
  PROVE  LineageIntact(k, K)
<1> SUFFICES ASSUME NEW r \in Revisions(k, K) PROVE r.target = HeadBefore(k, K, r.seq)
  BY DEF LineageIntact
<1>1. r \in RevisionsOf(k) /\ KnownBy(claims[r.source].recordedAt, K)
  BY RevisionsKnown
<1>2. r.target = HeadBefore(k, None, r.seq)
  BY <1>1, ReplayNow DEF IInv, HeadsMatchHistory, LineageIntact
<1>3. /\ r \in relations /\ r.source \in ClaimsOf(k) /\ r.source \in DOMAIN claims
      /\ r.seq = claims[r.source].seq + 1
      /\ r.seq \in Nat /\ claims[r.source].seq \in Nat
  BY <1>1, Positions DEF RevisionsOf, KInv, RelationsFollow, IInv, RelationsWithinKey, ClaimsOf
<1>4. LoggedBefore(Revisions(k, K), r.seq) = LoggedBefore(Revisions(k, None), r.seq)
  <2>1. Revisions(k, None) = RevisionsOf(k)
    BY ReplayNow DEF IInv
  <2>2. Revisions(k, K) \subseteq RevisionsOf(k)
    BY RevisionsKnown
  <2>3. ASSUME NEW q \in RevisionsOf(k), q.seq < r.seq PROVE q \in Revisions(k, K)
    <3>1. /\ q.source \in LineageOf(k) /\ q.source \in DOMAIN claims
          /\ q.seq = claims[q.source].seq + 1
          /\ claims[q.source].seq \in Nat
      BY Positions DEF LineageOf, RevisionsOf, KInv, RelationsFollow, IInv, RelationsWithinKey, ClaimsOf
    <3>2. claims[q.source].seq <= claims[r.source].seq
      BY <1>3, <2>3, <3>1
    <3>3. claims[q.source].recordedAt <= claims[r.source].recordedAt
      BY <1>3, <3>1, <3>2 DEF KInv, TimesOrdered
    <3>4. claims[q.source].recordedAt \in Int /\ claims[r.source].recordedAt \in Int
      BY <1>3, <3>1, Positions
    <3>5. KnownBy(claims[q.source].recordedAt, K)
      BY <1>1, <3>3, <3>4 DEF KnownBy
    <3> QED BY <3>5, RevisionsKnown
  <2> QED BY <2>1, <2>2, <2>3 DEF LoggedBefore
<1>5. /\ Visible(k, K) # {} /\ Visible(k, None) # {}
      /\ r.source \in Visible(k, K) /\ r.source \in Visible(k, None)
  BY <1>1, <1>3 DEF Visible, ClaimsOf, KnownBy
<1> DEFINE roots(J) == {c \in Visible(k, J) : claims[c].seq < r.seq}
<1>6. PICK f : FirstOf(claims, ClaimsOf(k), f) /\ FirstOf(claims, Visible(k, K), f)
  BY <1>5, FirstKnown
<1>7. ASSUME NEW J \in {K, None} PROVE roots(J) # {} /\ FirstClaim(roots(J)) = f
  <2>1. J \in Times \cup {None} /\ r.source \in Visible(k, J) /\ Visible(k, J) # {}
    BY <1>5
  <2>2. Visible(k, J) \subseteq ClaimsOf(k) /\ Visible(k, J) \subseteq DOMAIN claims
    BY DEF Visible, ClaimsOf
  <2>3. f \in ClaimsOf(k) /\ f \in DOMAIN claims /\ f \in Visible(k, J)
    BY <1>6 DEF FirstOf, Visible, ClaimsOf, KnownBy
  <2>4. claims[f].seq <= claims[r.source].seq /\ claims[f].seq \in Nat
    BY <1>3, <1>6, <2>3, Positions DEF FirstOf
  <2>5. claims[f].seq < r.seq
    BY <1>3, <2>4
  <2>6. f \in roots(J) /\ roots(J) \subseteq ClaimsOf(k) /\ roots(J) \subseteq DOMAIN claims
    BY <2>2, <2>3, <2>5
  <2> HIDE DEF roots
  <2>7. FirstOf(claims, roots(J), f)
    BY <1>6, <2>6 DEF FirstOf
  <2>8. FirstClaim(roots(J)) = f
    BY <2>6, <2>7, EarliestIs, Positions DEF FirstClaim, IInv, PositionsUnique
  <2> QED BY <2>6, <2>8
<1>8. HeadBefore(k, K, r.seq) = HeadBefore(k, None, r.seq)
  <2>1. roots(K) # {} /\ roots(None) # {} /\ FirstClaim(roots(K)) = FirstClaim(roots(None))
    BY <1>7
  <2> QED BY <1>4, <2>1 DEF HeadBefore
<1> QED BY <1>2, <1>8

(* The operative claim at K and p is the last claim of the lineage that was *)
(* recorded by K and is valid at p, if there is one.                        *)
Adopted(k, K, p) ==
  {c \in LineageOf(k) : KnownBy(claims[c].recordedAt, K) /\ ClaimValidAt(c, p)}

LastIn(S, c) == c \in S /\ \A d \in S : claims[d].seq <= claims[c].seq

OperativeIsLast ==
  \A k \in Keys, K \in Times \cup {None}, p \in Times \cup {None} :
    IF Adopted(k, K, p) = {} THEN Operative(k, K, p) = None
    ELSE LastIn(Adopted(k, K, p), Operative(k, K, p))

LEMMA OperativeLast == IInv /\ KInv => OperativeIsLast
<1> SUFFICES ASSUME IInv, KInv, NEW k \in Keys, NEW K \in Times \cup {None},
                    NEW p \in Times \cup {None}
             PROVE  IF Adopted(k, K, p) = {} THEN Operative(k, K, p) = None
                    ELSE LastIn(Adopted(k, K, p), Operative(k, K, p))
  BY DEF OperativeIsLast
<1> DEFINE valid == {c \in Lineage(k, K) : ClaimValidAt(c, p)}
<1>1. valid = Adopted(k, K, p)
  BY LineageKnown DEF Adopted
<1>2. CASE p = None
  <2>1. valid = Lineage(k, K)
    BY <1>2 DEF ClaimValidAt
  <2>2. Operative(k, K, p) = HeadForKey(k, K)
    BY <1>2 DEF Operative
  <2> QED BY <1>1, <2>1, <2>2, HeadKnown DEF LastIn
<1>3. CASE p # None /\ valid = {}
  <2>1. Operative(k, K, p) = None
    BY <1>3 DEF Operative
  <2> QED BY <1>1, <1>3, <2>1
<1>4. CASE p # None /\ valid # {}
  <2>1. Operative(k, K, p) = CHOOSE c \in valid : \A d \in valid : claims[d].seq <= claims[c].seq
    BY <1>4 DEF Operative
  <2>2. valid \subseteq DOMAIN claims
    BY <1>1 DEF Adopted, LineageOf, ClaimsOf
  <2> HIDE DEF valid
  <2>3. \E c \in valid : \A d \in valid : claims[d].seq <= claims[c].seq
    BY <1>4, <2>2 DEF KInv, ClaimsHaveLast
  <2>4. LastIn(valid, Operative(k, K, p))
    BY <2>1, <2>3 DEF LastIn
  <2> QED BY <1>1, <1>4, <2>4
<1> QED BY <1>2, <1>3, <1>4

-----------------------------------------------------------------------------
LEMMA AllKnown ==
  ASSUME IInv, KInv, NEW k \in Keys
  PROVE  Lineage(k, None) = LineageOf(k)
<1>1. Lineage(k, None) = {c \in LineageOf(k) : KnownBy(claims[c].recordedAt, None)}
  BY LineageKnown
<1>2. \A t : KnownBy(t, None)
  BY DEF KnownBy
<1> QED BY <1>1, <1>2

LEMMA PrefixKnown == IInv /\ KInv => AsKnownAtIsPrefix
<1>1. ASSUME IInv, KInv PROVE AsKnownAtIsPrefix
  <2> SUFFICES ASSUME NEW k \in Keys, NEW K \in Times
               PROVE  LET known == {c \in Lineage(k, None) : claims[c].recordedAt <= K}
                      IN  /\ LineageIntact(k, K)
                          /\ Lineage(k, K) = known
                          /\ known # {} =>
                               /\ HeadForKey(k, K) \in known
                               /\ \A c \in known : claims[c].seq <= claims[HeadForKey(k, K)].seq
    BY DEF AsKnownAtIsPrefix
  <2>1. Lineage(k, None) = LineageOf(k)
    BY <1>1, AllKnown
  <2>2. Lineage(k, K) = {c \in LineageOf(k) : claims[c].recordedAt <= K}
    <3>1. Lineage(k, K) = {c \in LineageOf(k) : KnownBy(claims[c].recordedAt, K)}
      BY <1>1, LineageKnown
    <3>2. \A t : KnownBy(t, K) <=> t <= K
      BY NoneAssumption DEF KnownBy
    <3> QED BY <3>1, <3>2
  <2> QED BY <1>1, <2>1, <2>2, IntactKnown, HeadKnown
<1> QED BY <1>1

(* Queries by known_at see a prefix of the lineage, for any history that   *)
(* any number of writers can commit.                                       *)
THEOREM PastIsPrefix == EpistemicSpec => []AsKnownAtIsPrefix
BY PrefixKnown, KnowledgeInvariant, PTL

LEMMA CompetitorsOff == IInv /\ KInv => CompetingStayOffLineage
<1>1. ASSUME IInv, KInv PROVE CompetingStayOffLineage
  <2> SUFFICES ASSUME NEW k \in Keys, NEW K \in Times \cup {None}, NEW p \in Times \cup {None},
                      ResolveState(k, K, p).status = "CONTESTED",
                      NEW r \in ResolveState(k, K, p).conflicts
               PROVE  Other(r, ResolveState(k, K, p).operative) \notin Lineage(k, None)
    BY DEF CompetingStayOffLineage, ResolveState
  <2> DEFINE c == Operative(k, K, p)
  <2>1. /\ c # None /\ r \in Conflicts(c, K, p) /\ ResolveState(k, K, p).operative = c
    BY DEF ResolveState
  <2> HIDE DEF c
  <2>2. /\ r \in relations /\ r.kind \notin HeadMoving /\ c \in {r.source, r.target}
    BY <2>1 DEF Conflicts, HeadMoving
  <2>3. c \in LineageOf(k)
    BY <1>1, <2>1, OperativeLast DEF OperativeIsLast, LastIn, Adopted, c
  <2>4. r.source \notin LineageOf(k)
    BY <1>1, <2>2, OthersOffLineage
  <2>5. Other(r, c) = r.source
    BY <2>2, <2>3, <2>4 DEF Other
  <2>6. Lineage(k, None) = LineageOf(k)
    BY <1>1, AllKnown
  <2> QED BY <2>1, <2>4, <2>5, <2>6
<1> QED BY <1>1

(* Who contests the operative claim was never adopted, at any time.        *)
THEOREM CompetingOffLineage == EpistemicSpec => []CompetingStayOffLineage
BY CompetitorsOff, KnowledgeInvariant, PTL

LEMMA RestOnKnown == IInv /\ KInv => AnswersRestOnKnowledge
<1>1. ASSUME IInv, KInv PROVE AnswersRestOnKnowledge
  <2> SUFFICES ASSUME NEW k \in Keys, NEW K \in Times, NEW p \in Times \cup {None},
                      ResolveState(k, K, p).status # "MISSING",
                      NEW c \in ResolveState(k, K, p).competing \cup {ResolveState(k, K, p).operative},
                      NEW e \in claims[c].refs
               PROVE  /\ claims[c].recordedAt <= K
                      /\ claims[e].recordedAt <= K /\ claims[e].capturedAt <= K
    BY DEF AnswersRestOnKnowledge
  <2> DEFINE o == Operative(k, K, p)
  <2>1. /\ o # None /\ ResolveState(k, K, p).operative = o
        /\ ResolveState(k, K, p).competing = {Other(r, o) : r \in Conflicts(o, K, p)}
    BY DEF ResolveState
  <2> HIDE DEF o
  <2>2. c \in DOMAIN claims /\ claims[c].recordedAt <= K
    <3>1. CASE c = o
      <4>1. c \in Adopted(k, K, p)
        BY <1>1, <2>1, <3>1, OperativeLast DEF OperativeIsLast, LastIn, o
      <4> QED BY <4>1 DEF Adopted, KnownBy, LineageOf, ClaimsOf
    <3>2. ASSUME NEW r \in Conflicts(o, K, p), c = Other(r, o)
          PROVE  c \in DOMAIN claims /\ claims[c].recordedAt <= K
      BY <1>1, <3>2 DEF Conflicts, Other, KnownBy, IInv, RelationsWithinKey
    <3> QED BY <2>1, <3>1, <3>2
  <2>3. /\ e \in DOMAIN claims
        /\ claims[e].recordedAt <= claims[c].recordedAt
        /\ claims[e].capturedAt <= claims[c].recordedAt
    BY <1>1, <2>2 DEF KInv, RefsKnown
  <2>4. /\ claims[c].recordedAt \in Int /\ claims[e].recordedAt \in Int
        /\ claims[e].capturedAt \in Int /\ K \in Int
    BY <1>1, <2>2, <2>3, Positions
  <2> QED BY <2>2, <2>3, <2>4
<1> QED BY <1>1

(* Answers as known at K rest on what was recorded and captured by K.      *)
THEOREM AnswersRest == EpistemicSpec => []AnswersRestOnKnowledge
BY RestOnKnown, KnowledgeInvariant, PTL

(* A bundle recorded after K adds nothing that is known at K.              *)
LEMMA CommitUnknown ==
  ASSUME IInv, NEW w \in Writers, NEW c \in ClaimIds, NEW b \in Bundles,
         CommitClaimBundle(w, c, b)
  PROVE  /\ c \notin DOMAIN claims /\ DOMAIN claims' = DOMAIN claims \cup {c}
         /\ \A x \in DOMAIN claims : claims'[x] = claims[x]
         /\ relations \subseteq relations'
         /\ \A r \in relations' \ relations : r.recordedAt = claims'[c].recordedAt
         /\ \A k \in Keys : LineageOf(k) \subseteq LineageOf(k)'
                           /\ LineageOf(k)' \subseteq LineageOf(k) \cup {c}
<1> DEFINE d == drafts[w]
           relation == [source |-> c, target |-> d.target, kind |-> d.kind,
                        recordedAt |-> b.recordedAt, seq |-> frontier + 4]
<1>1. /\ c \notin DOMAIN claims /\ DOMAIN claims' = DOMAIN claims \cup {c}
      /\ \A x \in DOMAIN claims : claims'[x] = claims[x]
      /\ relations' = relations \cup (IF d.kind = None THEN {} ELSE {relation})
  BY CommitExtends
<1>2. claims'[c].recordedAt = b.recordedAt
  BY CommitRecords
<1>3. relation.recordedAt = b.recordedAt
  OBVIOUS
<1> HIDE DEF relation, d
<1> QED BY <1>1, <1>2, <1>3, CommitLineage

(* A step that learns nothing by K: the known rows stay what they are, and *)
(* no row is added to them.                                                *)
LearnsLater(k, K) ==
  /\ DOMAIN claims \subseteq DOMAIN claims' /\ relations \subseteq relations'
  /\ \A x \in DOMAIN claims : claims'[x] = claims[x]
  /\ \A x \in DOMAIN claims' \ DOMAIN claims : ~KnownBy(claims'[x].recordedAt, K)
  /\ \A r \in relations' \ relations : ~KnownBy(r.recordedAt, K)
  /\ LineageOf(k) \subseteq LineageOf(k)'
  /\ LineageOf(k)' \subseteq LineageOf(k) \cup (DOMAIN claims' \ DOMAIN claims)

LEMMA LaterStep ==
  ASSUME IInv, KInv, IInv', [EpistemicNext]_epistemicVars, NEW k \in Keys, NEW K \in Times,
         \A c \in DOMAIN claims' \ DOMAIN claims : claims'[c].recordedAt > K
  PROVE  LearnsLater(k, K)
<1>1. ASSUME NEW w \in Writers, NEW c \in ClaimIds, NEW b \in Bundles, CommitClaimBundle(w, c, b)
      PROVE  LearnsLater(k, K)
  <2>1. /\ c \notin DOMAIN claims /\ DOMAIN claims' = DOMAIN claims \cup {c}
        /\ \A x \in DOMAIN claims : claims'[x] = claims[x]
        /\ relations \subseteq relations'
        /\ \A r \in relations' \ relations : r.recordedAt = claims'[c].recordedAt
        /\ \A j \in Keys : LineageOf(j) \subseteq LineageOf(j)'
                          /\ LineageOf(j)' \subseteq LineageOf(j) \cup {c}
    BY <1>1, CommitUnknown
  <2>2. PICK t \in Int : t = claims'[c].recordedAt
    BY <1>1, CommitRecords
  <2>3. t > K /\ K \in Int
    BY <2>1, <2>2
  <2>4. K # None /\ ~(t <= K)
    BY <2>3
  <2>5. ~KnownBy(t, K)
    BY <2>4 DEF KnownBy
  <2> QED BY <2>1, <2>2, <2>5 DEF LearnsLater
<1>2. ASSUME UNCHANGED <<claims, relations>> PROVE LearnsLater(k, K)
  BY <1>2 DEF LearnsLater, LineageOf, ClaimsOf, RevisionsOf
<1> QED BY <1>1, <1>2 DEF EpistemicNext, ReadCurrent, RejectClaimBundle, RebuildClaimHeads,
                          claimVars, epistemicVars

(* An answer stays if the claims it may choose from stay, and no new       *)
(* relation is known that concerns the chosen one.                         *)
LEMMA AnswerSame ==
  ASSUME IInv, OperativeIsLast, OperativeIsLast',
         NEW k \in Keys, NEW K \in Times \cup {None}, NEW p \in Times \cup {None},
         DOMAIN claims \subseteq DOMAIN claims', \A x \in DOMAIN claims : claims'[x] = claims[x],
         relations \subseteq relations', Adopted(k, K, p)' = Adopted(k, K, p),
         \A r \in relations' \ relations :
           \/ ~KnownBy(r.recordedAt, K)
           \/ Operative(k, K, p) \notin {r.source, r.target}
  PROVE  ResolveState(k, K, p)' = ResolveState(k, K, p)
<1>1. Operative(k, K, p)' = Operative(k, K, p)
  <2> DEFINE now == Operative(k, K, p)
             then == Operative(k, K, p)'
  <2>1. CASE Adopted(k, K, p) = {}
    BY <2>1 DEF OperativeIsLast
  <2>2. CASE Adopted(k, K, p) # {}
    <3>1. LastIn(Adopted(k, K, p), now)
      BY <2>2 DEF OperativeIsLast
    <3>2. then \in Adopted(k, K, p)' /\ \A d \in Adopted(k, K, p)' : claims'[d].seq <= claims'[then].seq
      BY <2>2 DEF OperativeIsLast, LastIn
    <3> HIDE DEF now, then
    <3>3. /\ now \in DOMAIN claims /\ then \in DOMAIN claims
          /\ claims'[now] = claims[now] /\ claims'[then] = claims[then]
      BY <3>1, <3>2 DEF LastIn, Adopted, LineageOf, ClaimsOf
    <3>4. claims[now].seq <= claims[then].seq /\ claims[then].seq <= claims[now].seq
      BY <3>1, <3>2, <3>3 DEF LastIn
    <3>5. claims[now].seq = claims[then].seq
      BY <3>3, <3>4, Positions
    <3>6. now = then
      BY <3>3, <3>5 DEF IInv, PositionsUnique
    <3> QED BY <3>6 DEF now, then
  <2> QED BY <2>1, <2>2
<1>2. PICK o : o = Operative(k, K, p)
  OBVIOUS
<1>3. Conflicts(o, K, p)' = Conflicts(o, K, p)
  <2>1. \A r \in relations : /\ r.source \in DOMAIN claims /\ r.target \in DOMAIN claims
                            /\ Other(r, o) \in DOMAIN claims
    BY DEF IInv, RelationsWithinKey, Other
  <2>2. \A r \in relations :
          /\ claims'[Other(r, o)] = claims[Other(r, o)]
          /\ ClaimValidAt(Other(r, o), p)' <=> ClaimValidAt(Other(r, o), p)
    BY <2>1 DEF ClaimValidAt
  <2>3. \A r \in relations : r \in Conflicts(o, K, p)' <=> r \in Conflicts(o, K, p)
    BY <2>2 DEF Conflicts
  <2>4. \A r \in relations' \ relations : r \notin Conflicts(o, K, p)'
    BY <1>2 DEF Conflicts
  <2>5. Conflicts(o, K, p) \subseteq relations /\ Conflicts(o, K, p)' \subseteq relations'
    BY DEF Conflicts
  <2> QED BY <2>3, <2>4, <2>5
<1>4. ResolveState(k, K, p) =
        [status |-> IF o = None THEN "MISSING"
                    ELSE IF Conflicts(o, K, p) # {} THEN "CONTESTED" ELSE "RESOLVED",
         operative |-> o, competing |-> {Other(r, o) : r \in Conflicts(o, K, p)},
         conflicts |-> Conflicts(o, K, p)]
  BY <1>2 DEF ResolveState
<1>5. Operative(k, K, p)' = o
  BY <1>1, <1>2
<1>6. ResolveState(k, K, p)' =
        [status |-> IF o = None THEN "MISSING"
                    ELSE IF Conflicts(o, K, p)' # {} THEN "CONTESTED" ELSE "RESOLVED",
         operative |-> o, competing |-> {Other(r, o) : r \in Conflicts(o, K, p)'},
         conflicts |-> Conflicts(o, K, p)']
  BY <1>5 DEF ResolveState, Conflicts
<1> QED BY <1>3, <1>4, <1>6

LEMMA LaterAnswers ==
  ASSUME IInv, OperativeIsLast, OperativeIsLast',
         NEW k \in Keys, NEW K \in Times, NEW p \in Times \cup {None}, LearnsLater(k, K)
  PROVE  ResolveState(k, K, p)' = ResolveState(k, K, p)
<1>1. LineageOf(k) \subseteq DOMAIN claims
  BY DEF LineageOf, ClaimsOf
<1>2. \A x \in DOMAIN claims : ClaimValidAt(x, p)' <=> ClaimValidAt(x, p)
  BY DEF LearnsLater, ClaimValidAt
<1>3. Adopted(k, K, p)' = Adopted(k, K, p)
  BY <1>1, <1>2 DEF LearnsLater, Adopted
<1> QED BY <1>3, AnswerSame DEF LearnsLater

(* What is learned later changes no answer about what was known before.    *)
THEOREM PastStable == EpistemicSpec => PastAnswersStable
<1>1. ASSUME IInv, KInv, OperativeIsLast, IInv', OperativeIsLast', [EpistemicNext]_epistemicVars
      PROVE  [\A k \in Keys, K \in Times, p \in Times \cup {None} :
                (\A c \in DOMAIN claims' \ DOMAIN claims : claims'[c].recordedAt > K)
                  => ResolveState(k, K, p)' = ResolveState(k, K, p)]_epistemicVars
  <2> SUFFICES ASSUME NEW k \in Keys, NEW K \in Times, NEW p \in Times \cup {None},
                      \A c \in DOMAIN claims' \ DOMAIN claims : claims'[c].recordedAt > K
               PROVE  ResolveState(k, K, p)' = ResolveState(k, K, p)
    OBVIOUS
  <2>1. LearnsLater(k, K)
    BY <1>1, LaterStep
  <2> QED BY <1>1, <2>1, LaterAnswers
<1> QED BY <1>1, KnowledgeInvariant, OperativeLast, PTL DEF EpistemicSpec, PastAnswersStable

-----------------------------------------------------------------------------
(* The first claim of a key stays the first; a bundle that finds none makes *)
(* its claim the first.                                                     *)
LEMMA FirstStays ==
  ASSUME IInv, IInv', NEW w \in Writers, NEW c \in ClaimIds, NEW b \in Bundles,
         CommitClaimBundle(w, c, b), NEW k \in Keys
  PROVE  /\ ClaimsOf(k) # {} => FirstClaim(Visible(k, None))' = FirstClaim(Visible(k, None))
         /\ ClaimsOf(k) = {} /\ k = drafts[w].key => FirstClaim(Visible(k, None))' = c
<1> DEFINE cl == claims'
           cs == ClaimsOf(k)'
<1>1. /\ c \notin DOMAIN claims /\ DOMAIN cl = DOMAIN claims \cup {c}
      /\ \A x \in DOMAIN claims : cl[x] = claims[x]
      /\ cl[c].key = drafts[w].key /\ cl[c].seq = frontier + 3
  BY CommitExtends
<1>2. /\ cs \subseteq DOMAIN cl
      /\ \A x \in DOMAIN cl : cl[x].seq \in Nat
      /\ \A x, y \in DOMAIN cl : cl[x].seq = cl[y].seq => x = y
  BY DEF IInv, TypeInv, EpistemicTypeOK, ClaimRow, PositionsUnique, ClaimsOf
<1>3. /\ cs \subseteq ClaimsOf(k) \cup {c} /\ ClaimsOf(k) \subseteq cs
      /\ k = drafts[w].key => c \in cs
  BY <1>1 DEF ClaimsOf
<1>4. FirstClaim(Visible(k, None)) = Earliest(claims, ClaimsOf(k))
  BY DEF FirstClaim, Visible, KnownBy, ClaimsOf
<1>5. FirstClaim(Visible(k, None))' = Earliest(cl, cs)
  BY DEF FirstClaim, Visible, KnownBy, ClaimsOf
<1>6. \A x \in DOMAIN claims : cl[x].seq <= cl[c].seq
  <2>1. PICK n \in Nat : n = cl[c].seq
    BY <1>1, <1>2
  <2>2. \A x \in DOMAIN claims : claims[x].seq <= n
    BY <1>1, <2>1, Positions
  <2> HIDE DEF cl
  <2> QED BY <1>1, <2>1, <2>2
<1> HIDE DEF cl, cs
<1>7. ASSUME ClaimsOf(k) # {} PROVE Earliest(cl, cs) = Earliest(claims, ClaimsOf(k))
  <2>1. PICK f : FirstOf(claims, ClaimsOf(k), f)
    BY <1>7 DEF IInv, RootsExist
  <2>2. f \in ClaimsOf(k) /\ ClaimsOf(k) \subseteq DOMAIN claims
    BY <2>1 DEF FirstOf, ClaimsOf
  <2>3. Earliest(claims, ClaimsOf(k)) = f
    BY <2>1, <2>2, EarliestIs, Positions DEF IInv, PositionsUnique
  <2>4. FirstOf(cl, cs, f)
    BY <2>1, <2>2, <1>1, <1>3, <1>6 DEF FirstOf
  <2>5. Earliest(cl, cs) = f
    BY <2>4, <1>2, EarliestIs
  <2> QED BY <2>3, <2>5
<1>8. ASSUME ClaimsOf(k) = {}, k = drafts[w].key PROVE Earliest(cl, cs) = c
  <2>1. cs = {c} /\ cl[c].seq <= cl[c].seq
    BY <1>1, <1>2, <1>3, <1>8
  <2>2. FirstOf(cl, cs, c)
    BY <2>1 DEF FirstOf
  <2> QED BY <2>2, <1>2, EarliestIs
<1> QED BY <1>4, <1>5, <1>7, <1>8

(* An adopted claim is one of the store, so that no new claim was adopted. *)
LEMMA AdoptedAreClaims ==
  ASSUME IInv, NEW e \in Edges \cup Roots
  PROVE  e.new \in DOMAIN claims
<1>1. CASE e \in Edges
  BY <1>1 DEF Edges, IInv, RelationsWithinKey
<1>2. CASE e \in Roots
  <2>1. PICK k \in Keys : Visible(k, None) # {} /\ e.new = FirstClaim(Visible(k, None))
    BY <1>2 DEF Roots
  <2>2. PICK f : FirstOf(claims, ClaimsOf(k), f)
    BY <2>1 DEF IInv, RootsExist, Visible, ClaimsOf
  <2>3. ClaimsOf(k) \subseteq DOMAIN claims /\ f \in ClaimsOf(k)
    BY <2>2 DEF FirstOf, ClaimsOf
  <2>4. Earliest(claims, ClaimsOf(k)) = f
    BY <2>2, <2>3, EarliestIs, Positions DEF IInv, PositionsUnique
  <2>5. Visible(k, None) = ClaimsOf(k)
    BY DEF Visible, KnownBy, ClaimsOf
  <2> QED BY <2>1, <2>3, <2>4, <2>5 DEF FirstClaim
<1> QED BY <1>1, <1>2

(* Every bundle adopts its claim over the value it finds, or adopts nothing. *)
LEMMA CommitAdopts ==
  ASSUME IInv, IInv', NEW w \in Writers, NEW c \in ClaimIds, NEW b \in Bundles,
         CommitClaimBundle(w, c, b)
  PROVE  \/ \E k \in Keys : Register!Adopt(k, c)
         \/ UNCHANGED <<heads, Edges \cup Roots>>
<1> DEFINE d == drafts[w]
           relation == [source |-> c, target |-> d.target, kind |-> d.kind,
                        recordedAt |-> b.recordedAt, seq |-> frontier + 4]
<1>1. /\ d.key \in Keys
      /\ c \notin DOMAIN claims
      /\ \A x \in DOMAIN claims : claims'[x] = claims[x]
      /\ claims'[c].key = d.key
      /\ relations' = relations \cup (IF d.kind = None THEN {} ELSE {relation})
      /\ heads' = IF MovesHead(d) THEN [heads EXCEPT ![d.key] = c] ELSE heads
      /\ d.kind = None => ClaimsOf(d.key) = {}
      /\ d.kind # None => d.target = heads[d.key] /\ d.target \in ClaimsOf(d.key)
  BY CommitExtends
<1>2. relation.source = c /\ relation.target = d.target /\ relation.kind = d.kind
  OBVIOUS
<1> HIDE DEF d, relation
<1>3. \A r \in relations : claims'[r.source] = claims[r.source]
  BY <1>1 DEF IInv, RelationsWithinKey
<1> DEFINE edge == [key |-> d.key, old |-> d.target, new |-> c]
           root == [key |-> d.key, old |-> None, new |-> c]
<1>4. Edges' = Edges \cup (IF d.kind # None /\ d.kind \in HeadMoving THEN {edge} ELSE {})
  BY <1>1, <1>2, <1>3 DEF Edges
<1>5. \A k \in Keys : /\ Visible(k, None) = ClaimsOf(k) /\ Visible(k, None)' = ClaimsOf(k)'
                      /\ ClaimsOf(k)' = IF k = d.key THEN ClaimsOf(k) \cup {c} ELSE ClaimsOf(k)
  <2>1. DOMAIN claims' = DOMAIN claims \cup {c}
    BY CommitExtends
  <2> QED BY <2>1, <1>1 DEF Visible, KnownBy, ClaimsOf
<1>6. \A k \in Keys :
        /\ ClaimsOf(k) # {} => FirstClaim(Visible(k, None))' = FirstClaim(Visible(k, None))
        /\ ClaimsOf(k) = {} /\ k = d.key => FirstClaim(Visible(k, None))' = c
  BY FirstStays DEF d
<1>7. Roots' = Roots \cup (IF d.kind = None THEN {root} ELSE {})
  <2>1. PICK j \in Keys : j = d.key
    BY <1>1
  <2>2. PICK f : f = [k \in Keys |-> FirstClaim(Visible(k, None))]
    OBVIOUS
  <2>3. PICK g : g = [k \in Keys |-> FirstClaim(Visible(k, None))']
    OBVIOUS
  <2>4. PICK S \in SUBSET Keys : S = {k \in Keys : ClaimsOf(k) # {}}
    OBVIOUS
  <2>5. Roots = {[key |-> k, old |-> None, new |-> f[k]] : k \in S}
    BY <1>5, <2>2, <2>4 DEF Roots
  <2>6. S \cup {j} = {k \in Keys : ClaimsOf(k)' # {}}
    BY <1>5, <2>1, <2>4
  <2>7. Roots' = {[key |-> k, old |-> None, new |-> g[k]] : k \in S \cup {j}}
    <3>1. Roots' = {[key |-> k, old |-> None, new |-> FirstClaim(Visible(k, None))'] :
                       k \in {i \in Keys : ClaimsOf(i)' # {}}}
      BY <1>5 DEF Roots
    <3> QED BY <2>3, <2>6, <3>1
  <2>8. /\ \A k \in S : g[k] = f[k]
        /\ j \notin S => g[j] = c
    BY <1>6, <2>1, <2>2, <2>3, <2>4
  <2>9. d.kind = None <=> j \notin S
    BY <1>1, <2>1, <2>4
  <2>10. root = [key |-> j, old |-> None, new |-> c]
    BY <2>1
  <2> HIDE DEF root
  <2> QED BY <2>5, <2>7, <2>8, <2>9, <2>10
<1>8. \A e \in Edges \cup Roots : e.new # c
  BY <1>1, AdoptedAreClaims
<1>9. CASE d.kind # None /\ d.kind \in HeadMoving
  <2>1. heads' = [heads EXCEPT ![d.key] = c]
    BY <1>1, <1>9 DEF MovesHead
  <2>2. (Edges \cup Roots)' = (Edges \cup Roots) \cup {[key |-> d.key, old |-> heads[d.key], new |-> c]}
    BY <1>1, <1>4, <1>7, <1>9
  <2>3. PICK k \in Keys : k = d.key
    BY <1>1
  <2> QED BY <1>8, <2>1, <2>2, <2>3 DEF Register!Adopt
<1>10. CASE d.kind = None
  <2>1. heads' = [heads EXCEPT ![d.key] = c] /\ heads[d.key] = None
    BY <1>1, <1>10 DEF MovesHead, IInv, HeadsOfTheirKey
  <2>2. (Edges \cup Roots)' = (Edges \cup Roots) \cup {[key |-> d.key, old |-> heads[d.key], new |-> c]}
    BY <1>4, <1>7, <1>10, <2>1
  <2>3. PICK k \in Keys : k = d.key
    BY <1>1
  <2> QED BY <1>8, <2>1, <2>2, <2>3 DEF Register!Adopt
<1>11. CASE d.kind # None /\ d.kind \notin HeadMoving
  BY <1>1, <1>4, <1>7, <1>11 DEF MovesHead
<1> QED BY <1>9, <1>10, <1>11

(* A step of the store is a step of the register, and so is any that leaves *)
(* the tables alone.                                                        *)
LEMMA RegisterStep ==
  ASSUME IInv, IInv', [EpistemicNext]_epistemicVars \/ UNCHANGED <<claims, relations, heads>>
  PROVE  [Register!RegisterNext]_(Register!registerVars)
<1>1. ASSUME NEW w \in Writers, NEW c \in ClaimIds, NEW b \in Bundles, CommitClaimBundle(w, c, b)
      PROVE  [Register!RegisterNext]_(Register!registerVars)
  BY <1>1, CommitAdopts DEF Register!RegisterNext, Register!registerVars
<1>2. ASSUME UNCHANGED <<claims, relations, heads>>
      PROVE  UNCHANGED Register!registerVars
  BY <1>2 DEF Register!registerVars, Edges, Roots, Visible, KnownBy, FirstClaim, Earliest
<1>3. ASSUME RebuildClaimHeads PROVE heads' = heads
  BY <1>3 DEF RebuildClaimHeads, IInv, HeadsMatchHistory, TypeInv, EpistemicTypeOK
<1> QED BY <1>1, <1>2, <1>3 DEF EpistemicNext, ReadCurrent, RejectClaimBundle,
                          RebuildClaimHeads, claimVars, epistemicVars

LEMMA RegisterStarts == EpistemicInit => Register!RegisterInit
BY DEF EpistemicInit, Register!RegisterInit, Edges, Roots, Visible

(* The store implements the register: however writers race, the head of a  *)
(* key changes only by an adoption over the value it replaces.             *)
THEOREM ImplementsRegister == EpistemicSpec => RefinesRegister
<1>1. IInv /\ IInv' /\ [EpistemicNext]_epistemicVars
        => [Register!RegisterNext]_(Register!registerVars)
  BY RegisterStep
<1> QED BY <1>1, RegisterStarts, KnowledgeInvariant, PTL
        DEF EpistemicSpec, RefinesRegister, Register!RegisterSpec
=============================================================================
