----------------------------- MODULE RecallProofs -----------------------------
(****************************************************************************)
(* Proofs about the two stores and about Recall, for any keys, claims and   *)
(* writers and a log of any length.                                         *)
(*                                                                          *)
(* First the loops of HeadReplay and LifecycleReplay: what each holds after *)
(* a position has a closed form, by induction over positions, and the walk  *)
(* along revision_parent by descent along them.  Induction is stated about  *)
(* sets of numbers, from the well-foundedness of "<".                       *)
(*                                                                          *)
(* Then what is recalled.  A write touches a set of names: what is recalled *)
(* under other names stays, and whatever it touches has changed since every *)
(* earlier position of the log.  The readers, ContextProjectionsProofs and  *)
(* RequirementPlanningProofs, rest on this alone.                           *)
(****************************************************************************)
EXTENDS Recall, HeadReplay, LifecycleReplay, EpistemicStoreProofs, MemoryLifecycleProofs,
        WellFoundedInduction

Instants == Times \cup {None}

-----------------------------------------------------------------------------
(* Induction over positions, as facts about sets of them.                  *)
Less == {ss \in Nat \X Nat : ss[1] < ss[2]}

LEMMA LessWellFounded == IsWellFoundedOn(Less, Nat)
BY NatLessThanWellFounded DEF OpToRel, Less

LEMMA LeastNatural ==
  ASSUME NEW S \in SUBSET Nat, S # {}
  PROVE  \E m \in S : \A n \in S : m <= n
<1>1. PICK m \in S : \A n \in S : ~(<<n, m>> \in Less)
  BY LessWellFounded, WFMin
<1>2. \A n \in S : ~(n < m)
  BY <1>1 DEF Less
<1> QED BY <1>1, <1>2

LEMMA SetInduction ==
  ASSUME NEW S \in SUBSET Nat, 0 \in S, \A n \in S : n + 1 \in S
  PROVE  S = Nat
<1> SUFFICES ASSUME Nat \ S # {} PROVE FALSE
  OBVIOUS
<1>1. PICK m \in Nat \ S : \A n \in Nat \ S : m <= n
  BY LeastNatural
<1>2. m - 1 \in Nat /\ m - 1 \in S
  BY <1>1
<1>3. m - 1 + 1 = m
  BY <1>1
<1> QED BY <1>1, <1>2, <1>3

(* A function on the positions of the log that is computed position by     *)
(* position is what satisfies the equations of the computation.            *)
LEMMA Computed ==
  ASSUME NEW N \in Nat, NEW f, NEW g,
         f[0] = g[0],
         \A n \in 0..N : n # 0 /\ f[n - 1] = g[n - 1] => f[n] = g[n]
  PROVE  \A n \in 0..N : f[n] = g[n]
<1> DEFINE S == {n \in Nat : n <= N => f[n] = g[n]}
<1>1. 0 \in S
  OBVIOUS
<1>2. ASSUME NEW n \in S PROVE n + 1 \in S
  <2>1. CASE n + 1 <= N
    <3>1. n + 1 \in 0..N /\ n + 1 # 0 /\ (n + 1) - 1 = n /\ f[n] = g[n]
      BY <1>2, <2>1
    <3> QED BY <3>1
  <2>2. CASE ~(n + 1 <= N)
    BY <2>2
  <2> QED BY <2>1, <2>2
<1> HIDE DEF S
<1>3. S = Nat
  BY <1>1, <1>2, SetInduction DEF S
<1> QED BY <1>3 DEF S

-----------------------------------------------------------------------------
Own(m) == {e \in memoryEvents : e.entry = m}

(* What the loop over the events of m holds after position n.              *)
ReadUpTo(m, n) ==
  IF {e \in Own(m) : e.seq <= n} = {} THEN "UNREAD" ELSE StateBefore(m, n + 1)

LEMMA ReadUpToStep ==
  ASSUME MemoryIInv, NEW m \in DOMAIN lifecycle, NEW n \in Nat, n # 0
  PROVE  ReadUpTo(m, n) = ReadEvent(m, n, ReadUpTo(m, n - 1))
<1> DEFINE here == {e \in memoryEvents : e.entry = m /\ e.seq = n}
           past == {e \in Own(m) : e.seq <= n - 1}
<1>1. /\ \A e \in memoryEvents : e.seq \in Nat
      /\ \A e, o \in memoryEvents : e.seq = o.seq => e = o
      /\ HistoryIntact(m)
      /\ n - 1 \in Nat /\ n - 1 + 1 = n
  BY DEF MemoryIInv, MemoryTypeOK, EventRow, EventsDistinct, LifecycleMatchesEvents
<1>2. {e \in Own(m) : e.seq <= n} = past \cup here
  BY <1>1 DEF Own
<1>3. ReadUpTo(m, n - 1) = IF past = {} THEN "UNREAD" ELSE StateBefore(m, n)
  BY <1>1 DEF ReadUpTo
<1>5. CASE here = {}
  <2>1. {e \in Changes(m) : e.seq < n + 1} = {e \in Changes(m) : e.seq < n}
    BY <1>1, <1>5 DEF Changes
  <2>2. StateBefore(m, n + 1) = StateBefore(m, n)
    BY <2>1, StateBeforeIs
  <2> QED BY <1>2, <1>3, <1>5, <2>2 DEF ReadEvent, ReadUpTo
<1>6. CASE here # {}
  <2>1. PICK e : e \in memoryEvents /\ e.entry = m /\ e.seq = n
    BY <1>6
  <2>2. here = {e} /\ (CHOOSE x \in here : TRUE) = e
    BY <1>1, <2>1
  <2>3. StateBefore(m, n) \in AllowedFrom(e.kind)
    BY <1>1, <2>1 DEF HistoryIntact
  <2>4. StateBefore(m, n + 1) =
          IF e.kind \in DOMAIN Outcome THEN Outcome[e.kind] ELSE StateBefore(m, n)
    <3> DEFINE before == {o \in Changes(m) : o.seq < n}
               now == {o \in Changes(m) : o.seq < n + 1}
    <3>1. now = before \cup (IF e.kind \in DOMAIN Outcome THEN {e} ELSE {})
      BY <1>1, <2>1 DEF Changes
    <3>2. \A o \in before : o.seq \in Nat /\ o.seq < n
      BY <1>1 DEF Changes
    <3> HIDE DEF before, now
    <3>3. ASSUME e.kind \in DOMAIN Outcome PROVE now # {} /\ Latest(now) = e
      <4>1. now = before \cup {e} /\ \A o \in now : o.seq <= e.seq
        BY <2>1, <3>1, <3>2, <3>3
      <4>2. Latest(now) \in now /\ e.seq <= Latest(now).seq
        BY <4>1 DEF Latest
      <4> QED BY <2>1, <3>2, <4>1, <4>2
    <3>4. StateBefore(m, n + 1) = Replay(now) /\ StateBefore(m, n) = Replay(before)
      BY StateBeforeIs DEF before, now
    <3>5. CASE e.kind \in DOMAIN Outcome
      BY <3>3, <3>4, <3>5 DEF Replay
    <3>6. CASE e.kind \notin DOMAIN Outcome
      BY <3>1, <3>4, <3>6
    <3> QED BY <3>5, <3>6
  <2>5. ASSUME past = {} PROVE e.kind = "CREATED" /\ StateBefore(m, n) = "ACTIVE"
    <3>1. PICK c \in memoryEvents : /\ c.entry = m /\ c.kind = "CREATED"
                                    /\ \A o \in memoryEvents : o.entry = m => c.seq <= o.seq
      BY <1>1 DEF HistoryIntact
    <3>2. c.seq \in Nat /\ c.seq <= n /\ ~(c.seq <= n - 1)
      BY <1>1, <2>1, <2>5, <3>1 DEF Own
    <3>3. c = e
      BY <1>1, <2>1, <3>1, <3>2
    <3>4. {o \in Changes(m) : o.seq < n} = {}
      BY <1>1, <2>5 DEF Changes, Own
    <3> QED BY <3>1, <3>3, <3>4, StateBeforeIs DEF Replay
  <2>6. StateBefore(m, n) \notin {"UNREAD", "RAISED"}
    BY <2>3 DEF AllowedFrom, Lifecycles, Archivable, Restorable
  <2>7. ReadEvent(m, n, ReadUpTo(m, n - 1)) =
          IF past = {} THEN "ACTIVE" ELSE NextState(StateBefore(m, n), e.kind)
    BY <1>3, <1>6, <2>2, <2>3, <2>5, <2>6 DEF ReadEvent
  <2> QED BY <1>2, <2>2, <2>4, <2>5, <2>7 DEF ReadUpTo, NextState, Outcome
<1> QED BY <1>5, <1>6

(* So the loop computes it, position by position.                          *)
LEMMA EventReplayIs ==
  ASSUME MemoryIInv, NEW m \in DOMAIN lifecycle
  PROVE  \A n \in 0..frontier : EventReplay(m)[n] = ReadUpTo(m, n)
<1> DEFINE closed == [n \in 0..frontier |-> ReadUpTo(m, n)]
           computes(f) == f = [n \in 0..frontier |->
                                 IF n = 0 THEN "UNREAD" ELSE ReadEvent(m, n, f[n - 1])]
<1>1. frontier \in Nat
  BY DEF MemoryIInv, MemoryTypeOK
<1>2. ReadUpTo(m, 0) = "UNREAD"
  <2>1. {e \in Own(m) : e.seq <= 0} = {}
    BY DEF Own, MemoryIInv, MemoryTypeOK, EventRow, EventsDistinct
  <2> QED BY <2>1 DEF ReadUpTo
<1>3. computes(closed)
  <2>1. ASSUME NEW n \in 0..frontier
        PROVE  closed[n] = IF n = 0 THEN "UNREAD" ELSE ReadEvent(m, n, closed[n - 1])
    <3>1. CASE n = 0
      BY <1>2, <3>1
    <3>2. CASE n # 0
      <4>1. n \in Nat /\ n - 1 \in 0..frontier
        BY <1>1, <3>2
      <4> QED BY <3>2, <4>1, ReadUpToStep
    <3> QED BY <3>1, <3>2
  <2> QED BY <2>1
<1>4. EventReplay(m) = CHOOSE f : computes(f)
  BY DEF EventReplay
<1>5. computes(EventReplay(m))
  BY <1>3, <1>4
<1>6. PICK f : f = EventReplay(m) /\ computes(f)
  BY <1>5
<1>7. f[0] = ReadUpTo(m, 0)
  BY <1>1, <1>2, <1>6
<1>8. ASSUME NEW n \in 0..frontier, n # 0, f[n - 1] = ReadUpTo(m, n - 1)
      PROVE  f[n] = ReadUpTo(m, n)
  BY <1>1, <1>6, <1>8, ReadUpToStep
<1>9. \A n \in 0..frontier : f[n] = ReadUpTo(m, n)
  <2> DEFINE g == [n \in 0..frontier |-> ReadUpTo(m, n)]
  <2>1. \A n \in 0..frontier : g[n] = ReadUpTo(m, n)
    OBVIOUS
  <2>2. f[0] = g[0]
    BY <1>1, <1>7, <2>1
  <2>3. \A n \in 0..frontier : n # 0 /\ f[n - 1] = g[n - 1] => f[n] = g[n]
    BY <1>1, <1>8, <2>1
  <2> HIDE DEF g
  <2>4. \A n \in 0..frontier : f[n] = g[n]
    BY <1>1, <2>2, <2>3, Computed
  <2> QED BY <2>1, <2>4
<1> QED BY <1>6, <1>9

LEMMA RebuildIdle == MemoryIInv => RebuildChangesNothing
<1> SUFFICES ASSUME MemoryIInv, NEW m \in DOMAIN lifecycle
             PROVE  EventReplay(m)[frontier] = lifecycle[m]
  BY DEF RebuildChangesNothing
<1>1. frontier \in Nat /\ frontier \in 0..frontier
  BY DEF MemoryIInv, MemoryTypeOK
<1>2. {e \in Own(m) : e.seq <= frontier} # {}
  BY DEF MemoryIInv, MemoryTypeOK, LifecycleMatchesEvents, HistoryIntact, Own
<1> QED BY <1>1, <1>2, EventReplayIs DEF ReadUpTo, MemoryIInv, LifecycleMatchesEvents

(* Rebuilding the lifecycle column raises for no entry and changes none.   *)
THEOREM RebuildIsIdle == LifecycleSpec => []RebuildChangesNothing
BY RebuildIdle, MemoryInvariant, PTL

-----------------------------------------------------------------------------
(* The claims that a replay of k at K has read before position n, and the  *)
(* revisions it has followed.                                              *)
RootsBefore(k, K, n) == {c \in Visible(k, K) : claims[c].seq < n}
MovesBefore(k, K, n) == {r \in Revisions(k, K) : r.seq < n}

LEMMA RevisionRows ==
  ASSUME IInv, KInv, NEW k \in Keys, NEW K \in Instants, NEW r \in Revisions(k, K)
  PROVE  /\ r \in relations /\ r.source \in DOMAIN claims /\ r.target \in DOMAIN claims
         /\ r.source \in Lineage(k, K) /\ r.target \in Lineage(k, K)
         /\ r.seq \in Nat /\ claims[r.source].seq \in Nat /\ claims[r.target].seq \in Nat
         /\ r.seq = claims[r.source].seq + 1
         /\ claims[r.target].seq < claims[r.source].seq
         /\ \A q \in Revisions(k, K) : q.source = r.source \/ q.seq = r.seq => q = r
<1>1. /\ r \in relations /\ r.kind \in HeadMoving
      /\ r.source \in Visible(k, K) /\ r.target \in Visible(k, K)
  BY DEF Revisions
<1>2. /\ r.source \in DOMAIN claims /\ r.target \in DOMAIN claims
      /\ KnownBy(claims[r.target].recordedAt, K) /\ claims[r.source].key = k
  BY <1>1 DEF Visible
<1>3. /\ r.seq = claims[r.source].seq + 1
      /\ claims[r.target].seq < claims[r.source].seq
      /\ r.target \in LineageOf(k)
  BY <1>1, <1>2 DEF KInv, RelationsFollow
<1>4. r.target \in Lineage(k, K)
  BY <1>2, <1>3, LineageKnown DEF Instants
<1>5. ASSUME NEW q \in Revisions(k, K), q.source = r.source \/ q.seq = r.seq
      PROVE  q = r
  <2>1. q \in relations
    BY DEF Revisions
  <2>2. q.seq = r.seq
    BY <1>1, <1>5, <2>1 DEF KInv, RelationsFollow
  <2> QED BY <1>1, <2>1, <2>2 DEF IInv, PositionsUnique
<1>6. r.source \in Lineage(k, K)
  BY DEF Lineage
<1> QED BY <1>1, <1>2, <1>3, <1>4, <1>5, <1>6, Positions

(* The head before n, by the one first claim of the key.                   *)
LEMMA HeadBeforeIs ==
  ASSUME IInv, KInv, NEW k \in Keys, NEW K \in Instants, NEW n \in Nat
  PROVE  /\ HeadBefore(k, K, n) =
              IF MovesBefore(k, K, n) # {} THEN Latest(MovesBefore(k, K, n)).source
              ELSE IF RootsBefore(k, K, n) # {} THEN FirstClaim(Visible(k, K)) ELSE None
         /\ RootsBefore(k, K, n) # {} => FirstClaim(Visible(k, K)) \in RootsBefore(k, K, n)
         /\ MovesBefore(k, K, n) # {} =>
              /\ Latest(MovesBefore(k, K, n)) \in MovesBefore(k, K, n)
              /\ \A q \in MovesBefore(k, K, n) : q.seq <= Latest(MovesBefore(k, K, n)).seq
<1> DEFINE rs == RootsBefore(k, K, n)
<1>1. ASSUME rs # {}
      PROVE  FirstClaim(rs) = FirstClaim(Visible(k, K)) /\ FirstClaim(Visible(k, K)) \in rs
  <2>1. PICK v : v \in rs
    BY <1>1
  <2>2. PICK f : FirstOf(claims, Visible(k, K), f) /\ FirstClaim(Visible(k, K)) = f
    BY <2>1, FirstKnown DEF RootsBefore, Instants
  <2>3. rs \subseteq DOMAIN claims /\ rs \subseteq Visible(k, K) /\ Visible(k, K) \subseteq DOMAIN claims
    BY DEF RootsBefore, Visible
  <2>4. f \in DOMAIN claims /\ v \in DOMAIN claims /\ claims[f].seq <= claims[v].seq /\ claims[v].seq < n
    BY <2>1, <2>2, <2>3 DEF FirstOf, RootsBefore
  <2>5. claims[f].seq < n
    BY <2>4, Positions
  <2>6. f \in rs
    BY <2>2, <2>5 DEF FirstOf, RootsBefore
  <2>7. FirstOf(claims, rs, f)
    BY <2>2, <2>3, <2>6 DEF FirstOf
  <2> HIDE DEF rs
  <2>8. FirstClaim(rs) = f
    BY <2>3, <2>7, EarliestIs, Positions DEF FirstClaim, IInv, PositionsUnique
  <2> QED BY <2>2, <2>6, <2>8
<1>2. ASSUME MovesBefore(k, K, n) # {}
      PROVE  /\ Latest(MovesBefore(k, K, n)) \in MovesBefore(k, K, n)
             /\ \A q \in MovesBefore(k, K, n) : q.seq <= Latest(MovesBefore(k, K, n)).seq
  <2>1. PICK S : S = MovesBefore(k, K, n)
    OBVIOUS
  <2>2. S # {} /\ S \in SUBSET relations
    BY <1>2, <2>1 DEF MovesBefore, Revisions
  <2>3. \E q \in S : \A x \in S : x.seq <= q.seq
    BY <2>2 DEF KInv, RelationsHaveLast
  <2>4. Latest(S) \in S /\ \A x \in S : x.seq <= Latest(S).seq
    BY <2>3 DEF Latest
  <2> QED BY <2>1, <2>4
<1>3. HeadBefore(k, K, n) = IF MovesBefore(k, K, n) # {} THEN Latest(MovesBefore(k, K, n)).source
                            ELSE IF rs # {} THEN FirstClaim(rs) ELSE None
  BY DEF HeadBefore, LoggedBefore, MovesBefore, RootsBefore
<1> QED BY <1>1, <1>2, <1>3

(* Between the two claims of a revision lies no other claim that was head. *)
LEMMA NothingBetween ==
  ASSUME IInv, KInv, NEW k \in Keys, NEW K \in Instants, NEW r \in Revisions(k, K),
         NEW d \in Lineage(k, K), claims[d].seq < claims[r.source].seq
  PROVE  claims[d].seq <= claims[r.target].seq
<1> DEFINE first == FirstClaim(Visible(k, K))
<1>1. /\ r.seq \in Nat /\ r.seq = claims[r.source].seq + 1 /\ claims[r.source].seq \in Nat
      /\ r.target = HeadBefore(k, K, r.seq)
  BY RevisionRows, IntactKnown DEF LineageIntact, Instants
<1>2. d \in DOMAIN claims /\ claims[d].seq \in Nat
  BY LineageKnown, Positions DEF LineageOf, ClaimsOf, Instants
<1>3. \/ \E q \in Revisions(k, K) : q.source = d
      \/ Visible(k, K) # {} /\ d = first
  BY DEF Lineage
<1>4. r.source \in Visible(k, K)
  BY DEF Revisions
<1>5. PICK f : f = first /\ FirstOf(claims, Visible(k, K), f)
  BY <1>4, FirstKnown DEF Instants
<1>6. r.source \in RootsBefore(k, K, r.seq)
  BY <1>1, <1>4 DEF RootsBefore
<1>7. ASSUME NEW q \in Revisions(k, K), q.source = d
      PROVE  q \in MovesBefore(k, K, r.seq) /\ q.seq = claims[d].seq + 1
  <2>1. q.seq = claims[d].seq + 1
    BY <1>7, RevisionRows
  <2> QED BY <1>1, <1>2, <2>1 DEF MovesBefore
<1>8. r.target \in Visible(k, K)
  BY DEF Revisions
<1>9. CASE d = first
  BY <1>5, <1>8, <1>9 DEF FirstOf
<1>10. ASSUME NEW q \in Revisions(k, K), q.source = d
       PROVE  claims[d].seq <= claims[r.target].seq
  <2>1. PICK l : l = Latest(MovesBefore(k, K, r.seq))
    OBVIOUS
  <2>2. l \in Revisions(k, K) /\ q.seq <= l.seq /\ r.target = l.source
    BY <1>1, <1>7, <1>10, <2>1, HeadBeforeIs DEF MovesBefore
  <2>3. l.seq = claims[l.source].seq + 1 /\ claims[l.source].seq \in Nat
    BY <2>2, RevisionRows
  <2> QED BY <1>2, <1>7, <1>10, <2>2, <2>3
<1> QED BY <1>3, <1>9, <1>10

(* What the loop of head_for_key holds after position n.                   *)
ParentUpTo(k, K, n) ==
  [c \in ClaimIds |->
     IF \E r \in Revisions(k, K) : r.source = c /\ r.seq <= n
       THEN (CHOOSE r \in Revisions(k, K) : r.source = c).target ELSE None]

HeadReadUpTo(k, K, n) ==
  [head |-> HeadBefore(k, K, n + 1), parent |-> ParentUpTo(k, K, n), raised |-> FALSE]

LEMMA ParentIs ==
  ASSUME IInv, KInv, NEW k \in Keys, NEW K \in Instants, NEW n, NEW c \in ClaimIds
  PROVE  /\ \A r \in Revisions(k, K) :
              r.source = c /\ r.seq <= n => ParentUpTo(k, K, n)[c] = r.target
         /\ (~\E r \in Revisions(k, K) : r.source = c /\ r.seq <= n)
              => ParentUpTo(k, K, n)[c] = None
<1>1. ASSUME NEW r \in Revisions(k, K), r.source = c, r.seq <= n
      PROVE  ParentUpTo(k, K, n)[c] = r.target
  <2>1. PICK q : q = CHOOSE x \in Revisions(k, K) : x.source = c
    OBVIOUS
  <2>2. q \in Revisions(k, K) /\ q.source = c
    BY <1>1, <2>1
  <2>3. q = r
    BY <1>1, <2>2, RevisionRows
  <2> QED BY <1>1, <2>1, <2>3 DEF ParentUpTo
<1> QED BY <1>1 DEF ParentUpTo

LEMMA HeadReadStep ==
  ASSUME IInv, KInv, NEW k \in Keys, NEW K \in Instants, NEW n \in Nat, n # 0
  PROVE  HeadReadUpTo(k, K, n) = ReadEntry(k, K, n, HeadReadUpTo(k, K, n - 1))
<1> DEFINE added == {c \in Visible(k, K) : claims[c].seq = n}
           moves == {r \in Revisions(k, K) : r.seq = n}
           was == HeadReadUpTo(k, K, n - 1)
           first == FirstClaim(Visible(k, K))
<1>0. n - 1 \in Nat /\ n - 1 + 1 = n /\ n + 1 \in Nat
  OBVIOUS
<1>1. was = [head |-> HeadBefore(k, K, n), parent |-> ParentUpTo(k, K, n - 1), raised |-> FALSE]
  BY <1>0 DEF HeadReadUpTo
<1>2. /\ \A c \in Visible(k, K) : c \in DOMAIN claims /\ c \in ClaimIds /\ claims[c].seq \in Nat
      /\ \A r \in Revisions(k, K) : r.seq \in Nat /\ r.source \in ClaimIds
  BY Positions DEF Visible, Revisions, IInv, TypeInv, EpistemicTypeOK
<1>3. /\ RootsBefore(k, K, n + 1) = RootsBefore(k, K, n) \cup added
      /\ MovesBefore(k, K, n + 1) = MovesBefore(k, K, n) \cup moves
  BY <1>2 DEF RootsBefore, MovesBefore
<1>4. ASSUME moves = {} PROVE ParentUpTo(k, K, n) = ParentUpTo(k, K, n - 1)
  <2>1. \A r \in Revisions(k, K) : r.seq <= n <=> r.seq <= n - 1
    BY <1>2, <1>4
  <2> QED BY <2>1 DEF ParentUpTo
<1>5. CASE moves # {}
  <2>1. PICK r \in Revisions(k, K) : r.seq = n
    BY <1>5
  <2>2. moves = {r} /\ (CHOOSE x \in moves : TRUE) = r
    BY <2>1, RevisionRows
  <2>3. r.target = HeadBefore(k, K, n)
    BY <2>1, IntactKnown DEF LineageIntact, Instants
  <2>4. HeadBefore(k, K, n + 1) = r.source
    <3>1. PICK l : l = Latest(MovesBefore(k, K, n + 1))
      OBVIOUS
    <3>2. r \in MovesBefore(k, K, n + 1)
      BY <1>3, <2>2
    <3>3. l \in MovesBefore(k, K, n + 1) /\ n <= l.seq /\ HeadBefore(k, K, n + 1) = l.source
      BY <1>0, <2>1, <3>1, <3>2, HeadBeforeIs
    <3>4. l \in Revisions(k, K) /\ l.seq = n
      BY <1>2, <3>3 DEF MovesBefore
    <3> QED BY <2>2, <3>3, <3>4
  <2>5. ParentUpTo(k, K, n) = [ParentUpTo(k, K, n - 1) EXCEPT ![r.source] = r.target]
    <3>1. ASSUME NEW c \in ClaimIds, c # r.source
          PROVE  ParentUpTo(k, K, n)[c] = ParentUpTo(k, K, n - 1)[c]
      <4>1. \A q \in Revisions(k, K) : q.source = c => (q.seq <= n <=> q.seq <= n - 1)
        BY <1>2, <2>2, <3>1
      <4> QED BY <4>1 DEF ParentUpTo
    <3>2. ParentUpTo(k, K, n)[r.source] = r.target
      BY <1>2, <2>1, ParentIs
    <3>3. r.source \in ClaimIds
      BY <1>2
    <3>4. PICK now, before : now = ParentUpTo(k, K, n) /\ before = ParentUpTo(k, K, n - 1)
      OBVIOUS
    <3>5. /\ now = [c \in ClaimIds |-> now[c]]
          /\ before = [c \in ClaimIds |-> before[c]]
      BY <3>4 DEF ParentUpTo
    <3> QED BY <3>1, <3>2, <3>3, <3>4, <3>5
  <2>6. Revised(was, r) = [head |-> r.source,
                           parent |-> [was.parent EXCEPT ![r.source] = r.target],
                           raised |-> FALSE]
    BY <1>1, <2>3 DEF Revised
  <2>7. ReadEntry(k, K, n, was) = Revised(was, r)
    BY <1>1, <1>5, <2>2 DEF ReadEntry
  <2> QED BY <1>1, <2>4, <2>5, <2>6, <2>7 DEF HeadReadUpTo
<1>6. CASE moves = {} /\ added # {} /\ HeadBefore(k, K, n) = None
  <2>1. PICK c \in Visible(k, K) : claims[c].seq = n
    BY <1>6
  <2>2. added = {c} /\ (CHOOSE x \in added : TRUE) = c
    BY <1>2, <2>1 DEF IInv, PositionsUnique
  <2>3. MovesBefore(k, K, n) = {}
    <3> SUFFICES ASSUME MovesBefore(k, K, n) # {} PROVE FALSE
      OBVIOUS
    <3>1. PICK l : l = Latest(MovesBefore(k, K, n))
      OBVIOUS
    <3>2. l \in Revisions(k, K) /\ HeadBefore(k, K, n) = l.source
      BY <3>1, HeadBeforeIs DEF MovesBefore
    <3> QED BY <1>2, <1>6, <3>2, NoneAssumption
  <2>4. RootsBefore(k, K, n) = {}
    <3> SUFFICES ASSUME RootsBefore(k, K, n) # {} PROVE FALSE
      OBVIOUS
    <3>1. first \in Visible(k, K) /\ HeadBefore(k, K, n) = first
      BY <2>3, HeadBeforeIs DEF RootsBefore
    <3> QED BY <1>2, <1>6, <3>1, NoneAssumption
  <2>5. RootsBefore(k, K, n + 1) = {c} /\ MovesBefore(k, K, n + 1) = {}
    BY <1>3, <1>6, <2>2, <2>3, <2>4
  <2>6. HeadBefore(k, K, n + 1) = c
    BY <1>0, <2>5, HeadBeforeIs
  <2>7. ReadEntry(k, K, n, was) = [was EXCEPT !.head = c]
    BY <1>1, <1>6, <2>2 DEF ReadEntry
  <2> QED BY <1>1, <1>4, <1>6, <2>6, <2>7 DEF HeadReadUpTo
<1>7. CASE moves = {} /\ (added = {} \/ HeadBefore(k, K, n) # None)
  <2>1. MovesBefore(k, K, n + 1) = MovesBefore(k, K, n)
    BY <1>3, <1>7
  <2>2. \/ MovesBefore(k, K, n) # {}
        \/ RootsBefore(k, K, n) = {} <=> RootsBefore(k, K, n + 1) = {}
    BY <1>3, <1>7, HeadBeforeIs
  <2>3. HeadBefore(k, K, n + 1) = HeadBefore(k, K, n)
    BY <1>0, <2>1, <2>2, HeadBeforeIs
  <2>4. ReadEntry(k, K, n, was) = was
    BY <1>1, <1>7 DEF ReadEntry
  <2> QED BY <1>1, <1>4, <1>7, <2>3, <2>4 DEF HeadReadUpTo
<1> QED BY <1>5, <1>6, <1>7

LEMMA HeadReplayIs ==
  ASSUME IInv, KInv, NEW k \in Keys, NEW K \in Instants
  PROVE  \A n \in 0..frontier : HeadReplay(k, K)[n] = HeadReadUpTo(k, K, n)
<1> DEFINE closed == [n \in 0..frontier |-> HeadReadUpTo(k, K, n)]
           computes(f) == f = [n \in 0..frontier |->
                                 IF n = 0 THEN Unread ELSE ReadEntry(k, K, n, f[n - 1])]
<1>1. frontier \in Nat
  BY Positions
<1>2. HeadReadUpTo(k, K, 0) = Unread
  <2>1. RootsBefore(k, K, 1) = {}
    <3> SUFFICES ASSUME NEW c \in Visible(k, K), claims[c].seq < 1 PROVE FALSE
      BY DEF RootsBefore
    <3>1. c \in DOMAIN claims /\ claims[c].seq \in Nat /\ 0 < claims[c].seq
      BY Positions DEF Visible, IInv, PositionsUnique
    <3> QED BY <3>1
  <2>2. \A r \in Revisions(k, K) : r.seq \in Nat /\ 0 < r.seq
    <3> SUFFICES ASSUME NEW r \in Revisions(k, K) PROVE r.seq \in Nat /\ 0 < r.seq
      OBVIOUS
    <3>1. r.seq = claims[r.source].seq + 1 /\ claims[r.source].seq \in Nat
      BY RevisionRows
    <3> QED BY <3>1
  <2>3. MovesBefore(k, K, 1) = {}
    BY <2>2 DEF MovesBefore
  <2>4. HeadBefore(k, K, 0 + 1) = None
    BY <2>1, <2>3, HeadBeforeIs
  <2>5. ParentUpTo(k, K, 0) = [c \in ClaimIds |-> None]
    BY <2>2 DEF ParentUpTo
  <2> QED BY <2>4, <2>5 DEF HeadReadUpTo, Unread
<1>3. computes(closed)
  <2>1. ASSUME NEW n \in 0..frontier
        PROVE  closed[n] = IF n = 0 THEN Unread ELSE ReadEntry(k, K, n, closed[n - 1])
    <3>1. CASE n = 0
      BY <1>2, <3>1
    <3>2. CASE n # 0
      <4>1. n \in Nat /\ n - 1 \in 0..frontier
        BY <1>1, <3>2
      <4> QED BY <3>2, <4>1, HeadReadStep
    <3> QED BY <3>1, <3>2
  <2> QED BY <2>1
<1>4. HeadReplay(k, K) = CHOOSE f : computes(f)
  BY DEF HeadReplay
<1>5. computes(HeadReplay(k, K))
  BY <1>3, <1>4
<1>6. PICK f : f = HeadReplay(k, K) /\ computes(f)
  BY <1>5
<1>7. f[0] = HeadReadUpTo(k, K, 0)
  BY <1>1, <1>2, <1>6
<1>8. ASSUME NEW n \in 0..frontier, n # 0, f[n - 1] = HeadReadUpTo(k, K, n - 1)
      PROVE  f[n] = HeadReadUpTo(k, K, n)
  BY <1>1, <1>6, <1>8, HeadReadStep
<1>9. \A n \in 0..frontier : f[n] = HeadReadUpTo(k, K, n)
  <2> DEFINE g == [n \in 0..frontier |-> HeadReadUpTo(k, K, n)]
  <2>1. \A n \in 0..frontier : g[n] = HeadReadUpTo(k, K, n)
    OBVIOUS
  <2>2. f[0] = g[0]
    BY <1>1, <1>7, <2>1
  <2>3. \A n \in 0..frontier : n # 0 /\ f[n - 1] = g[n - 1] => f[n] = g[n]
    BY <1>1, <1>8, <2>1
  <2> HIDE DEF g
  <2>4. \A n \in 0..frontier : f[n] = g[n]
    <3>1. PICK N \in Nat : N = frontier
      BY <1>1
    <3>2. \A n \in 0..N : n # 0 /\ f[n - 1] = g[n - 1] => f[n] = g[n]
      BY <2>3, <3>1
    <3>3. \A n \in 0..N : f[n] = g[n]
      BY <2>2, <3>2, Computed
    <3> QED BY <3>1, <3>3
  <2> QED BY <2>1, <2>4
<1> QED BY <1>6, <1>9

-----------------------------------------------------------------------------
(* What the walk finds from a claim on: of a claim of the lineage, the last *)
(* one up to it that is valid.                                              *)
ValidUpTo(k, K, p, c) ==
  {d \in Lineage(k, K) : ClaimValidAt(d, p) /\ claims[d].seq <= claims[c].seq}

LastValidFrom(k, K, p) ==
  [c \in DOMAIN claims \cup {None} |->
     IF c = None THEN None
     ELSE IF ClaimValidAt(c, p) THEN c
     ELSE IF c \in Lineage(k, K) /\ ValidUpTo(k, K, p, c) # {}
       THEN CHOOSE d \in ValidUpTo(k, K, p, c) :
              \A o \in ValidUpTo(k, K, p, c) : claims[o].seq <= claims[d].seq
     ELSE None]

Parents(k, K) == ParentUpTo(k, K, frontier)

(* A parent is an earlier claim of the lineage; off the lineage there is   *)
(* none.                                                                   *)
LEMMA ParentsLead ==
  ASSUME IInv, KInv, NEW k \in Keys, NEW K \in Instants, NEW c \in DOMAIN claims
  PROVE  \/ \E r \in Revisions(k, K) : r.source = c /\ Parents(k, K)[c] = r.target
         \/ /\ Parents(k, K)[c] = None
            /\ \A r \in Revisions(k, K) : r.source # c
<1>1. c \in ClaimIds
  BY DEF IInv, TypeInv, EpistemicTypeOK
<1>2. \A r \in Revisions(k, K) : r.seq <= frontier
  BY Positions DEF Revisions
<1> QED BY <1>1, <1>2, ParentIs DEF Parents

LEMMA LastValidFromStep ==
  ASSUME IInv, KInv, NEW k \in Keys, NEW K \in Instants, NEW p,
         NEW c \in DOMAIN claims, ~ClaimValidAt(c, p)
  PROVE  /\ Parents(k, K)[c] \in DOMAIN claims \cup {None}
         /\ LastValidFrom(k, K, p)[c] = LastValidFrom(k, K, p)[Parents(k, K)[c]]
         /\ Parents(k, K)[c] # None => claims[Parents(k, K)[c]].seq < claims[c].seq
<1>0. c # None
  BY NoneAssumption DEF IInv, TypeInv, EpistemicTypeOK
<1>a. \A d \in Lineage(k, K) : d \in DOMAIN claims /\ claims[d].seq \in Nat
  <2>1. Lineage(k, K) \subseteq LineageOf(k)
    BY LineageKnown DEF Instants
  <2> QED BY <2>1, Positions DEF LineageOf, ClaimsOf
<1>1. ASSUME NEW r \in Revisions(k, K), r.source = c, Parents(k, K)[c] = r.target
      PROVE  /\ Parents(k, K)[c] \in DOMAIN claims \cup {None}
             /\ LastValidFrom(k, K, p)[c] = LastValidFrom(k, K, p)[Parents(k, K)[c]]
             /\ claims[Parents(k, K)[c]].seq < claims[c].seq
  <2>1. PICK t : t = r.target
    OBVIOUS
  <2>2. /\ t \in DOMAIN claims /\ t # None /\ claims[t].seq < claims[c].seq
        /\ c \in Lineage(k, K) /\ t \in Lineage(k, K)
        /\ claims[t].seq \in Nat /\ claims[c].seq \in Nat
    BY <1>1, <2>1, RevisionRows, NoneAssumption DEF IInv, TypeInv, EpistemicTypeOK
  <2>3. ValidUpTo(k, K, p, c) = ValidUpTo(k, K, p, t)
    <3>1. ASSUME NEW d \in Lineage(k, K), ClaimValidAt(d, p), claims[d].seq <= claims[c].seq
          PROVE  claims[d].seq <= claims[t].seq
      <4>1. d # c
        BY <3>1
      <4>2. claims[d].seq # claims[c].seq
        BY <4>1, <1>a DEF IInv, PositionsUnique
      <4>3. claims[d].seq < claims[r.source].seq
        BY <1>1, <1>a, <2>2, <3>1, <4>2
      <4> QED BY <2>1, <4>3, NothingBetween
    <3>2. \A d \in Lineage(k, K) : claims[d].seq <= claims[t].seq => claims[d].seq <= claims[c].seq
      BY <1>a, <2>2
    <3> QED BY <3>1, <3>2 DEF ValidUpTo
  <2>4. PICK V : V = ValidUpTo(k, K, p, t)
    OBVIOUS
  <2>5. PICK last : last = CHOOSE d \in V : \A o \in V : claims[o].seq <= claims[d].seq
    OBVIOUS
  <2>6. LastValidFrom(k, K, p)[c] = IF V # {} THEN last ELSE None
    BY <1>0, <2>2, <2>3, <2>4, <2>5 DEF LastValidFrom
  <2>7. LastValidFrom(k, K, p)[t] = IF V # {} THEN last ELSE None
    <3>1. CASE ~ClaimValidAt(t, p)
      BY <2>2, <2>4, <2>5, <3>1 DEF LastValidFrom
    <3>2. CASE ClaimValidAt(t, p)
      <4>1. t \in V /\ \A o \in V : claims[o].seq <= claims[t].seq /\ o \in DOMAIN claims
        BY <1>a, <2>2, <2>4, <3>2 DEF ValidUpTo
      <4>2. last \in V /\ claims[t].seq <= claims[last].seq
        BY <2>5, <4>1
      <4>3. last = t
        BY <4>1, <4>2, Positions DEF IInv, PositionsUnique
      <4>4. LastValidFrom(k, K, p)[t] = t
        BY <2>2, <3>2 DEF LastValidFrom
      <4> QED BY <4>1, <4>3, <4>4
    <3> QED BY <3>1, <3>2
  <2> QED BY <1>1, <2>1, <2>2, <2>6, <2>7
<1>2. ASSUME Parents(k, K)[c] = None, \A r \in Revisions(k, K) : r.source # c
      PROVE  LastValidFrom(k, K, p)[c] = None /\ LastValidFrom(k, K, p)[None] = None
  <2>1. ASSUME c \in Lineage(k, K) PROVE ValidUpTo(k, K, p, c) = {}
    <3>1. Visible(k, K) # {} /\ c = FirstClaim(Visible(k, K))
      BY <1>2, <2>1 DEF Lineage
    <3>2. FirstOf(claims, ClaimsOf(k), c)
      BY <3>1, FirstKnown DEF Instants
    <3>3. ASSUME NEW d \in Lineage(k, K), claims[d].seq <= claims[c].seq PROVE d = c
      <4>1. d \in ClaimsOf(k)
        BY LineageKnown DEF LineageOf, Instants
      <4>2. claims[c].seq = claims[d].seq
        BY <1>a, <2>1, <3>2, <3>3, <4>1 DEF FirstOf
      <4> QED BY <1>a, <2>1, <4>2 DEF IInv, PositionsUnique
    <3> QED BY <3>3 DEF ValidUpTo
  <2> QED BY <1>0, <2>1 DEF LastValidFrom
<1> QED BY <1>1, <1>2, ParentsLead

(* So the walk finds it, whatever claim it starts from.                    *)
LEMMA WalkIs ==
  ASSUME IInv, KInv, NEW k \in Keys, NEW K \in Instants, NEW p
  PROVE  \A c \in DOMAIN claims \cup {None} : Walk(Parents(k, K), p)[c] = LastValidFrom(k, K, p)[c]
<1> DEFINE computes(f) ==
             f = [c \in DOMAIN claims \cup {None} |->
                    IF c = None THEN None
                    ELSE IF ClaimValidAt(c, p) THEN c ELSE f[Parents(k, K)[c]]]
<1>0. None \notin DOMAIN claims
  BY NoneAssumption DEF IInv, TypeInv, EpistemicTypeOK
<1>1. computes(LastValidFrom(k, K, p))
  <2>1. PICK g : g = LastValidFrom(k, K, p)
    OBVIOUS
  <2>2. g = [c \in DOMAIN claims \cup {None} |-> g[c]]
    BY <2>1 DEF LastValidFrom
  <2>3. ASSUME NEW c \in DOMAIN claims \cup {None}
        PROVE  g[c] = IF c = None THEN None
                      ELSE IF ClaimValidAt(c, p) THEN c ELSE g[Parents(k, K)[c]]
    <3>1. CASE c = None \/ ClaimValidAt(c, p)
      BY <2>1, <3>1 DEF LastValidFrom
    <3>2. CASE c # None /\ ~ClaimValidAt(c, p)
      BY <2>1, <3>2, LastValidFromStep
    <3> QED BY <3>1, <3>2
  <2> QED BY <2>1, <2>2, <2>3
<1>2. Walk(Parents(k, K), p) = CHOOSE f : computes(f)
  BY DEF Walk
<1>3. computes(Walk(Parents(k, K), p))
  BY <1>1, <1>2
<1>4. PICK f : f = Walk(Parents(k, K), p) /\ computes(f)
  BY <1>3
<1>5. PICK g : g = LastValidFrom(k, K, p) /\ computes(g)
  BY <1>1
<1>6. /\ \A c \in DOMAIN claims : ~ClaimValidAt(c, p) => /\ f[c] = f[Parents(k, K)[c]]
                                                       /\ g[c] = g[Parents(k, K)[c]]
      /\ \A c \in DOMAIN claims : ClaimValidAt(c, p) => f[c] = g[c]
      /\ f[None] = g[None]
  BY <1>0, <1>4, <1>5
<1> HIDE DEF computes
<1>7. ASSUME {c \in DOMAIN claims : f[c] # g[c]} # {} PROVE FALSE
  <2> DEFINE odd == {c \in DOMAIN claims : f[c] # g[c]}
  <2>1. {claims[c].seq : c \in odd} \in SUBSET Nat /\ {claims[c].seq : c \in odd} # {}
    BY <1>7, Positions
  <2>2. PICK c \in odd : \A d \in odd : claims[c].seq <= claims[d].seq
    <3>1. PICK n \in {claims[c].seq : c \in odd} : \A o \in {claims[c].seq : c \in odd} : n <= o
      BY ONLY <2>1, LeastNatural
    <3> QED BY <3>1
  <2>3. ~ClaimValidAt(c, p)
    BY <1>6, <2>2
  <2>4. PICK t : t = Parents(k, K)[c]
    OBVIOUS
  <2>5. t \in DOMAIN claims \cup {None} /\ (t # None => claims[t].seq < claims[c].seq)
    BY <2>2, <2>3, <2>4, LastValidFromStep
  <2>6. f[t] # g[t]
    BY <1>6, <2>2, <2>3, <2>4
  <2>7. t # None /\ t \in odd
    BY <1>6, <2>5, <2>6
  <2>8. claims[c].seq <= claims[t].seq /\ claims[t].seq < claims[c].seq
    BY <2>2, <2>5, <2>7
  <2> QED BY <2>2, <2>7, <2>8, Positions
<1> QED BY <1>4, <1>5, <1>6, <1>7

LEMMA QueriesAnswered == IInv /\ KInv => ReplayAnswersQueries
<1> SUFFICES ASSUME IInv, KInv, NEW k \in Keys, NEW K \in Instants
             PROVE  LET run == HeadReplay(k, K)[frontier]
                    IN  /\ ~run.raised /\ run.head = HeadForKey(k, K)
                        /\ \A c \in DOMAIN claims :
                             run.parent[c] # None =>
                               /\ run.parent[c] \in DOMAIN claims
                               /\ claims[run.parent[c]].seq < claims[c].seq
                        /\ \A p \in Times : Walk(run.parent, p)[run.head] = Operative(k, K, p)
  BY DEF ReplayAnswersQueries, Instants
<1>1. frontier \in Nat /\ frontier \in 0..frontier
  BY Positions
<1>2. HeadReplay(k, K)[frontier] =
        [head |-> HeadForKey(k, K), parent |-> Parents(k, K), raised |-> FALSE]
  BY <1>1, HeadReplayIs DEF HeadReadUpTo, HeadForKey, Parents
<1>3. ASSUME NEW c \in DOMAIN claims, Parents(k, K)[c] # None
      PROVE  /\ Parents(k, K)[c] \in DOMAIN claims
             /\ claims[Parents(k, K)[c]].seq < claims[c].seq
  BY <1>3, ParentsLead, RevisionRows
<1>4. ASSUME NEW p \in Times
      PROVE  Walk(Parents(k, K), p)[HeadForKey(k, K)] = Operative(k, K, p)
  <2>1. PICK h : h = HeadForKey(k, K)
    OBVIOUS
  <2>2. p # None
    BY NoneAssumption
  <2>3. Lineage(k, K) \subseteq DOMAIN claims
    <3>1. Lineage(k, K) \subseteq LineageOf(k)
      BY LineageKnown DEF Instants
    <3>2. LineageOf(k) \subseteq DOMAIN claims
      BY DEF LineageOf, ClaimsOf
    <3> QED BY <3>1, <3>2
  <2>4. CASE Lineage(k, K) = {}
    <3>1. h = None
      BY <2>1, <2>4, HeadKnown DEF Instants
    <3>2. Operative(k, K, p) = None
      BY <2>2, <2>4, SMTT(30) DEF Operative
    <3>3. LastValidFrom(k, K, p)[None] = None
      BY DEF LastValidFrom
    <3> QED BY <2>1, <3>1, <3>2, <3>3, WalkIs
  <2>5. CASE Lineage(k, K) # {}
    <3>1. h \in Lineage(k, K) /\ \A c \in Lineage(k, K) : claims[c].seq <= claims[h].seq
      BY <2>1, <2>5, HeadKnown DEF Instants
    <3>2. PICK V : V = {c \in Lineage(k, K) : ClaimValidAt(c, p)}
      OBVIOUS
    <3>3. ValidUpTo(k, K, p, h) = V
      BY <3>1, <3>2 DEF ValidUpTo
    <3>4. PICK last : last = CHOOSE c \in V : \A d \in V : claims[d].seq <= claims[c].seq
      OBVIOUS
    <3>5. Operative(k, K, p) = IF V = {} THEN None ELSE last
      BY <2>2, <3>2, <3>4 DEF Operative
    <3>6. h \in DOMAIN claims /\ h # None
      BY <2>3, <3>1, NoneAssumption DEF IInv, TypeInv, EpistemicTypeOK
    <3>7. LastValidFrom(k, K, p)[h] = IF V = {} THEN None ELSE last
      <4>1. CASE ~ClaimValidAt(h, p)
        BY <3>1, <3>3, <3>4, <3>6, <4>1 DEF LastValidFrom
      <4>2. CASE ClaimValidAt(h, p)
        <5>1. h \in V /\ \A d \in V : claims[d].seq <= claims[h].seq /\ d \in DOMAIN claims
          BY <2>3, <3>1, <3>2, <4>2
        <5>2. last \in V /\ claims[h].seq <= claims[last].seq
          BY <3>4, <5>1
        <5>3. last = h
          BY <5>1, <5>2, Positions DEF IInv, PositionsUnique
        <5> QED BY <3>6, <4>2, <5>1, <5>3 DEF LastValidFrom
      <4> QED BY <4>1, <4>2
    <3> QED BY <2>1, <3>5, <3>6, <3>7, WalkIs
  <2> QED BY <2>4, <2>5
<1> QED BY <1>2, <1>3, <1>4

(* However the store came about, the loops of resolution.py raise for no   *)
(* query, the walk along revision_parent ends, and it answers the closed   *)
(* form that the other theorems are about.                                 *)
THEOREM QueriesRaiseNothing == EpistemicSpec => []ReplayAnswersQueries
BY QueriesAnswered, KnowledgeInvariant, PTL

-----------------------------------------------------------------------------
(* The invariants of the two stores, which share the log and the ids.      *)
Core == /\ IInv /\ KInv /\ MemoryIInv /\ EventIInv
        /\ DOMAIN lifecycle = DOMAIN claims

-----------------------------------------------------------------------------
(* What is recalled is made of claims of the store.                        *)
LEMMA RecalledTyped ==
  ASSUME IInv, OperativeIsLast, NEW k \in Keys, NEW K \in Instants, NEW p \in Instants
  PROVE  /\ Operative(k, K, p) \in ClaimsOf(k) \cup {None}
         /\ Recalled(k, K, p).items \cup Recalled(k, K, p).omitted \subseteq DOMAIN claims
         /\ Recalled(k, K, p) \in Recollection
<1>1. PICK o : o = Operative(k, K, p)
  OBVIOUS
<1>2. o \in ClaimsOf(k) \cup {None}
  <2>1. CASE Adopted(k, K, p) = {}
    BY <1>1, <2>1 DEF OperativeIsLast, Instants
  <2>2. CASE Adopted(k, K, p) # {}
    BY <1>1, <2>2 DEF OperativeIsLast, Instants, LastIn, Adopted, LineageOf
  <2> QED BY <2>1, <2>2
<1>3. DOMAIN claims \subseteq ClaimIds /\ ClaimsOf(k) \subseteq DOMAIN claims
  BY DEF IInv, TypeInv, EpistemicTypeOK, ClaimsOf
<1>4. PICK q : q = {Other(r, o) : r \in Conflicts(o, K, p)}
  OBVIOUS
<1>5. q \subseteq DOMAIN claims
  BY <1>4 DEF Conflicts, IInv, RelationsWithinKey, Other
<1>6. PICK s : s = ResolveState(k, K, p)
  OBVIOUS
<1>7. s.operative = o /\ s.competing = q /\ (s.status = "MISSING" <=> o = None)
  BY <1>1, <1>4, <1>6 DEF ResolveState
<1>8. PICK found : found = IF s.status = "MISSING" THEN {} ELSE s.competing \cup {s.operative}
  OBVIOUS
<1>9. found \subseteq DOMAIN claims
  BY <1>2, <1>3, <1>5, <1>7, <1>8
<1>10. PICK active : active = {c \in found : lifecycle[c] = "ACTIVE"}
  OBVIOUS
<1>11. Recalled(k, K, p) = [operative |-> o, competing |-> q,
                            items |-> active, omitted |-> found \ active]
  BY <1>6, <1>7, <1>8, <1>10 DEF Recalled, Included
<1> QED
  BY <1>1, <1>2, <1>3, <1>5, <1>9, <1>10, <1>11 DEF Recollection

(* It stays if the resolved state does and no entry it found changes.      *)
LEMMA RecalledSame ==
  ASSUME NEW k, NEW K, NEW p, ResolveState(k, K, p)' = ResolveState(k, K, p),
         \A c \in Recalled(k, K, p).items \cup Recalled(k, K, p).omitted :
           lifecycle'[c] = lifecycle[c]
  PROVE  Recalled(k, K, p)' = Recalled(k, K, p)
<1>1. PICK s : s = ResolveState(k, K, p)
  OBVIOUS
<1>2. PICK found : found = IF s.status = "MISSING" THEN {} ELSE s.competing \cup {s.operative}
  OBVIOUS
<1>3. PICK active : active = {c \in found : lifecycle[c] = "ACTIVE"}
  OBVIOUS
<1>4. Recalled(k, K, p) = [operative |-> s.operative, competing |-> s.competing,
                           items |-> active, omitted |-> found \ active]
  BY <1>1, <1>2, <1>3 DEF Recalled, Included
<1>5. \A c \in found : lifecycle'[c] = lifecycle[c]
  BY <1>3, <1>4
<1>6. active = {c \in found : lifecycle'[c] = "ACTIVE"}
  BY <1>3, <1>5
<1>7. s = ResolveState(k, K, p)'
  BY <1>1
<1>8. Recalled(k, K, p)' = [operative |-> s.operative, competing |-> s.competing,
                            items |-> active, omitted |-> found \ active]
  BY <1>2, <1>6, <1>7 DEF Recalled, Included
<1> QED BY <1>4, <1>8

LEMMA ResolvedSame ==
  ASSUME IInv, OperativeIsLast, OperativeIsLast', claims' = claims, relations' = relations,
         NEW k \in Keys, NEW K \in Instants, NEW p \in Instants
  PROVE  ResolveState(k, K, p)' = ResolveState(k, K, p)
<1>1. Adopted(k, K, p)' = Adopted(k, K, p)
  BY DEF Adopted, LineageOf, ClaimsOf, RevisionsOf, ClaimValidAt
<1> QED BY <1>1, AnswerSame DEF Instants

(* A bundle changes no resolved state but those of its key.                *)
LEMMA ResolvedElsewhere ==
  ASSUME IInv, OperativeIsLast, OperativeIsLast',
         NEW w \in Writers, NEW c \in ClaimIds, NEW b \in Bundles, CommitClaimBundle(w, c, b),
         NEW k \in Keys, k # drafts[w].key, NEW K \in Instants, NEW p \in Instants
  PROVE  ResolveState(k, K, p)' = ResolveState(k, K, p)
<1>1. /\ c \notin DOMAIN claims /\ DOMAIN claims' = DOMAIN claims \cup {c}
      /\ \A x \in DOMAIN claims : claims'[x] = claims[x]
      /\ relations \subseteq relations'
  BY CommitUnknown
<1>2. LineageOf(k)' = LineageOf(k)
  BY CommitLineage
<1>3. LineageOf(k) \subseteq DOMAIN claims
  BY DEF LineageOf, ClaimsOf
<1>4. \A x \in DOMAIN claims : ClaimValidAt(x, p)' <=> ClaimValidAt(x, p)
  BY <1>1 DEF ClaimValidAt
<1>5. Adopted(k, K, p)' = Adopted(k, K, p)
  BY <1>1, <1>2, <1>3, <1>4 DEF Adopted
<1>6. \A r \in relations' \ relations : r.source = c /\ r.target \in ClaimsOf(drafts[w].key)
  <2> DEFINE d == drafts[w]
             relation == [source |-> c, target |-> d.target, kind |-> d.kind,
                          recordedAt |-> b.recordedAt, seq |-> frontier + 4]
  <2>1. /\ relations' = relations \cup (IF d.kind = None THEN {} ELSE {relation})
        /\ d.kind # None => d.target \in ClaimsOf(d.key)
    BY CommitExtends
  <2>2. relation.source = c /\ relation.target = d.target
    OBVIOUS
  <2> HIDE DEF relation
  <2> QED BY <2>1, <2>2
<1>7. Operative(k, K, p) \in ClaimsOf(k) \cup {None}
  BY RecalledTyped
<1>8. \A r \in relations' \ relations : Operative(k, K, p) \notin {r.source, r.target}
  <2>1. None \notin DOMAIN claims /\ c # None
    BY NoneAssumption DEF IInv, TypeInv, EpistemicTypeOK
  <2>2. PICK o : o = Operative(k, K, p)
    OBVIOUS
  <2>3. ClaimsOf(k) \cap ClaimsOf(drafts[w].key) = {}
    BY DEF ClaimsOf
  <2>4. ClaimsOf(k) \subseteq DOMAIN claims /\ ClaimsOf(drafts[w].key) \subseteq DOMAIN claims
    BY DEF ClaimsOf
  <2>5. \A r \in relations' \ relations : o # r.source /\ o # r.target
    BY <1>1, <1>6, <1>7, <2>1, <2>2, <2>3, <2>4
  <2> QED BY <2>2, <2>5
<1> QED BY <1>1, <1>5, <1>8, AnswerSame DEF Instants

-----------------------------------------------------------------------------
(* The two stores keep their invariants in every step of the composition.  *)
Quiet ==
  /\ frontier' = frontier /\ claims' = claims /\ relations' = relations
  /\ memoryEvents' = memoryEvents /\ DOMAIN lifecycle' = DOMAIN lifecycle
  /\ \A m \in DOMAIN lifecycle : lifecycle'[m] = lifecycle[m]

(* What an event touches, and a write of one of the three kinds with the   *)
(* set of names it touches.                                                *)
Touched(m, kind) == IF ChangesState(m, kind) THEN {m} ELSE {}

Writes(T) ==
  \/ \E w \in Writers, c \in ClaimIds, b \in Bundles :
       CommitAndAdmit(w, c, b) /\ T = {drafts[w].key}
  \/ \E m \in Targets, kind \in EventKinds :
       /\ RecordMemoryEvent(m, kind) /\ T = Touched(m, kind)
       /\ UNCHANGED <<claimVars, drafts>>
  \/ Log(1) /\ T = {} /\ UNCHANGED <<claimVars, drafts, memoryVars>>

(* A write appends to the log, and keeps what was logged.                  *)
LEMMA WriteGrows ==
  ASSUME Core, NEW T, Writes(T)
  PROVE  frontier' \in Nat /\ frontier < frontier'
<1>0. PICK f \in Nat : f = frontier
  BY DEF Core, IInv, TypeInv, EpistemicTypeOK
<1>1. ASSUME NEW n \in {1, 5, 6}, Log(n) PROVE frontier' \in Nat /\ frontier < frontier'
  <2>1. frontier' = f + n
    BY <1>0, <1>1 DEF Log
  <2> QED BY <1>0, <2>1
<1>2. ASSUME NEW w \in Writers, NEW c \in ClaimIds, NEW b \in Bundles, CommitAndAdmit(w, c, b)
      PROVE  \E n \in {1, 5, 6} : Log(n)
  <2>1. Log(BundleRows(drafts[w]))
    BY <1>2 DEF CommitAndAdmit, CommitClaimBundle
  <2> QED BY <2>1 DEF BundleRows
<1>3. ASSUME NEW m, NEW kind, RecordMemoryEvent(m, kind) PROVE Log(1)
  BY <1>3 DEF RecordMemoryEvent
<1> QED BY <1>1, <1>2, <1>3 DEF Writes

LEMMA CoreInit ==
  ASSUME EpistemicInit, MemoryInit
  PROVE  Core
<1>1. IInv /\ KInv
  BY IInvInit, KInvInit
<1>2. MemoryIInv
  BY DEF EpistemicInit, LogInit, MemoryInit, MemoryIInv, MemoryTypeOK, EventsDistinct,
         LifecycleMatchesEvents
<1>3. DOMAIN lifecycle = DOMAIN claims /\ EventIInv
  BY DEF EpistemicInit, MemoryInit, EventIInv
<1> QED BY <1>1, <1>2, <1>3 DEF Core

LEMMA QuietCore ==
  ASSUME Core, Quiet, [EpistemicNext]_epistemicVars
  PROVE  Core'
<1>1. PICK f \in Nat : f = frontier
  BY DEF Core, IInv, TypeInv, EpistemicTypeOK
<1>2. IInv' /\ KInv'
  BY IInvStep, KInvStep DEF Core
<1>3. MemoryIInv'
  BY <1>1, UnchangedStep DEF Core, Quiet
<1>4. EventIInv'
  BY UnchangedEvents DEF Core, Quiet
<1> QED BY <1>2, <1>3, <1>4 DEF Core, Quiet

LEMMA WritesCore ==
  ASSUME Core, NEW S, Writes(S)
  PROVE  Core'
<1>0. PICK f \in Nat : f = frontier
  BY DEF Core, IInv, TypeInv, EpistemicTypeOK
<1>2. ASSUME NEW w \in Writers, NEW c \in ClaimIds, NEW b \in Bundles, CommitAndAdmit(w, c, b)
      PROVE  Core'
  <2>1. CommitClaimBundle(w, c, b) /\ AdmitMemory(c)
    BY <1>2 DEF CommitAndAdmit
  <2>2. IInv' /\ KInv'
    BY <2>1, CommitHistory, KInvCommit DEF Core
  <2>3. Log(BundleRows(drafts[w])) /\ BundleRows(drafts[w]) \in Nat \ {0}
    BY <2>1 DEF CommitClaimBundle, BundleRows
  <2>4. PICK n \in Nat \ {0} : Log(n)
    BY <2>3
  <2>5. MemoryIInv'
    BY <2>1, <2>4, AdmitLogged, TargetsAssumption DEF Core
  <2>6. DOMAIN lifecycle' = DOMAIN claims'
    BY <2>1 DEF CommitClaimBundle, AdmitMemory, Core
  <2>7. EventIInv'
    BY <2>1, AdmitKeepsEvents, TargetsAssumption DEF Core, MemoryIInv
  <2> QED BY <2>2, <2>5, <2>6, <2>7 DEF Core
<1>3. ASSUME NEW T, Writes(T), UNCHANGED <<claimVars, drafts>>, MemoryIInv', EventIInv',
             DOMAIN lifecycle' = DOMAIN lifecycle
      PROVE  Core'
  <2>1. PICK g \in Nat : g = frontier' /\ f < g
    BY <1>0, <1>3, WriteGrows
  <2>2. \A n : n \in Nat /\ n <= f => n <= g
    BY <1>0, <2>1
  <2>3. TypeInv'
    <3>1. \A c \in DOMAIN claims : claims[c].seq \in Nat /\ claims[c].seq <= f
      BY <1>0 DEF Core, IInv, TypeInv, EpistemicTypeOK, ClaimRow
    <3>2. \A r \in relations : r.seq \in Nat /\ r.seq <= f
      BY <1>0 DEF Core, IInv, TypeInv, EpistemicTypeOK, RelationRow
    <3>3. EpistemicTypeOK'
      BY <1>3, <2>1, <2>2, <3>1, <3>2 DEF Core, IInv, TypeInv, EpistemicTypeOK, claimVars
    <3>4. DraftsPaired'
      BY <1>3 DEF Core, IInv, TypeInv, DraftsPaired
    <3> QED BY <3>3, <3>4 DEF TypeInv
  <2>4. IInv'
    BY <1>0, <1>3, <2>1, <2>3, IInvUnchanged DEF Core, claimVars
  <2>5. KInv'
    BY <1>3, KInvUnchanged DEF Core, claimVars
  <2> QED BY <1>3, <2>4, <2>5 DEF Core, claimVars
<1>4. ASSUME NEW m \in Targets, NEW kind \in EventKinds, RecordMemoryEvent(m, kind),
             UNCHANGED <<claimVars, drafts>>
      PROVE  Core'
  <2>1. MemoryIInv' /\ EventIInv'
    BY <1>4, RecordStep, RecordKeepsEvents DEF Core, MemoryIInv
  <2>2. DOMAIN lifecycle' = DOMAIN lifecycle
    BY <1>4 DEF RecordMemoryEvent
  <2>3. Writes(Touched(m, kind))
    BY <1>4 DEF Writes
  <2> QED BY <1>3, <1>4, <2>1, <2>2, <2>3
<1>5. CASE Log(1) /\ UNCHANGED <<claimVars, drafts, memoryVars>>
  <2>1. Writes({})
    BY <1>5 DEF Writes
  <2>2. frontier' \in Nat /\ frontier <= frontier'
    <3>1. PICK g \in Nat : g = frontier' /\ f < g
      BY <1>0, <2>1, WriteGrows
    <3> QED BY <1>0, <3>1
  <2>3. MemoryIInv' /\ EventIInv'
    BY <1>5, <2>2, UnchangedStep, UnchangedEvents DEF Core, memoryVars
  <2> QED BY <1>3, <1>5, <2>1, <2>3 DEF memoryVars
<1> QED BY <1>2, <1>4, <1>5 DEF Writes

-----------------------------------------------------------------------------
(* The components promise as much together as alone: a bundle that is      *)
(* committed with the CREATED event of its entry, an event between two     *)
(* bundles and the rows of other components break none of it.              *)
StoreInvariants ==
  /\ EpistemicTypeOK /\ HeadsMatchHistory /\ ReplayAnswersQueries
  /\ AsKnownAtIsPrefix /\ CompetingStayOffLineage /\ AnswersRestOnKnowledge
  /\ MemoryTypeOK /\ LifecycleMatchesEvents /\ RebuildChangesNothing
  /\ ForgottenStaysForgotten /\ ArchivedOncePerRestore

StorePromises == []StoreInvariants /\ PastAnswersStable /\ RefinesRegister

LEMMA CorePromises == Core => StoreInvariants
<1> SUFFICES ASSUME Core PROVE StoreInvariants
  OBVIOUS
<1>1. EpistemicTypeOK /\ HeadsMatchHistory /\ MemoryTypeOK /\ LifecycleMatchesEvents
  BY DEF Core, IInv, TypeInv, MemoryIInv
<1>2. AsKnownAtIsPrefix /\ CompetingStayOffLineage /\ AnswersRestOnKnowledge
  BY PrefixKnown, CompetitorsOff, RestOnKnown DEF Core
<1>3. ReplayAnswersQueries /\ RebuildChangesNothing
  BY QueriesAnswered, RebuildIdle DEF Core
<1>4. ForgottenStaysForgotten /\ ArchivedOncePerRestore
  BY Forgotten, Archived DEF Core
<1> QED BY <1>1, <1>2, <1>3, <1>4 DEF StoreInvariants

(* What a step of a composition does to the stores.                        *)
StoreStep == (Quiet /\ [EpistemicNext]_epistemicVars) \/ \E T : Writes(T)

LEMMA StoreClaims ==
  ASSUME StoreStep
  PROVE  [EpistemicNext]_epistemicVars \/ UNCHANGED <<claims, relations, heads>>
<1>1. ASSUME NEW w \in Writers, NEW c \in ClaimIds, NEW b \in Bundles, CommitAndAdmit(w, c, b)
      PROVE  EpistemicNext
  BY <1>1 DEF CommitAndAdmit, EpistemicNext
<1> QED BY <1>1 DEF StoreStep, Writes, claimVars

(* The step of PastAnswersStable.                                          *)
PastStays ==
  \A k \in Keys, K \in Times, p \in Times \cup {None} :
    (\A c \in DOMAIN claims' \ DOMAIN claims : claims'[c].recordedAt > K)
      => ResolveState(k, K, p)' = ResolveState(k, K, p)

LEMMA StorePast ==
  ASSUME Core, Core', OperativeIsLast, OperativeIsLast', StoreStep
  PROVE  PastStays
<1> SUFFICES ASSUME NEW k \in Keys, NEW K \in Times, NEW p \in Times \cup {None},
                    \A c \in DOMAIN claims' \ DOMAIN claims : claims'[c].recordedAt > K
             PROVE  ResolveState(k, K, p)' = ResolveState(k, K, p)
  BY DEF PastStays
<1>1. LearnsLater(k, K)
  <2>1. CASE [EpistemicNext]_epistemicVars
    BY <2>1, LaterStep DEF Core
  <2>2. CASE UNCHANGED <<claims, relations, heads>>
    BY <2>2 DEF LearnsLater, LineageOf, ClaimsOf, RevisionsOf
  <2> QED BY <2>1, <2>2, StoreClaims
<1> QED BY <1>1, LaterAnswers DEF Core

LEMMA StoreRevisions ==
  ASSUME Core, Core', StoreStep
  PROVE  [Register!RegisterNext]_(Register!registerVars)
BY StoreClaims, RegisterStep DEF Core

-----------------------------------------------------------------------------
(* A write leaves the states of keys and the memory of claims that it does *)
(* not touch, and what it touches has changed since every position before. *)
Untouched(T) ==
  /\ \A k \in Keys \ T, K \in Instants, p \in Instants :
       ResolveState(k, K, p)' = ResolveState(k, K, p)
  /\ \A c \in DOMAIN claims \ T : lifecycle'[c] = lifecycle[c]

ChangesSince(T) ==
  \A f \in Nat : f <= frontier => ChangedSince(f) \cup T \subseteq ChangedSince(f)'

Touches(T) == Untouched(T) /\ ChangesSince(T)

(* The names that changed since a position are never taken back.           *)
LEMMA ChangesRemain ==
  ASSUME Core, NEW f,
         \A x \in DOMAIN claims : x \in DOMAIN claims' /\ claims'[x] = claims[x],
         relations \subseteq relations', memoryEvents \subseteq memoryEvents'
  PROVE  ChangedSince(f) \subseteq ChangedSince(f)'
<1>1. \A r \in relations : r.source \in DOMAIN claims
  BY DEF Core, IInv, RelationsWithinKey
<1>2. ASSUME NEW n, n \in {claims[c].key : c \in {x \in DOMAIN claims : claims[x].seq > f}}
      PROVE  n \in {claims'[c].key : c \in {x \in DOMAIN claims' : claims'[x].seq > f}}
  BY <1>2
<1>3. ASSUME NEW n, n \in {claims[r.source].key : r \in {x \in relations : x.seq > f}}
      PROVE  n \in {claims'[r.source].key : r \in {x \in relations' : x.seq > f}}
  BY <1>1, <1>3
<1>4. ASSUME NEW n, n \in {e.entry : e \in {x \in memoryEvents : x.seq > f /\ x.kind \notin Telemetry}}
      PROVE  n \in {e.entry : e \in {x \in memoryEvents' : x.seq > f /\ x.kind \notin Telemetry}}
  BY <1>4
<1> QED BY <1>2, <1>3, <1>4 DEF ChangedSince

LEMMA WriteTouches ==
  ASSUME Core, Core', OperativeIsLast, OperativeIsLast', NEW T, Writes(T)
  PROVE  Touches(T)
<1>0. PICK g \in Nat : g = frontier
  BY DEF Core, IInv, TypeInv, EpistemicTypeOK
<1>1. ASSUME NEW w \in Writers, NEW c \in ClaimIds, NEW b \in Bundles, CommitAndAdmit(w, c, b),
             T = {drafts[w].key}
      PROVE  Touches(T)
  <2>1. /\ CommitClaimBundle(w, c, b) /\ AdmitMemory(c) /\ IInv
    BY <1>1 DEF CommitAndAdmit, Core
  <2>2. /\ DOMAIN claims' = DOMAIN claims \cup {c}
        /\ \A x \in DOMAIN claims : claims'[x] = claims[x]
        /\ relations \subseteq relations'
    BY <2>1, CommitUnknown
  <2>3. claims'[c].key = drafts[w].key /\ claims'[c].seq = g + 3
    BY <1>0, <2>1, CommitExtends
  <2>4. /\ \A m \in DOMAIN claims : lifecycle'[m] = lifecycle[m]
        /\ memoryEvents \subseteq memoryEvents'
    BY <2>1 DEF AdmitMemory, Core
  <2>5. ASSUME NEW k \in Keys \ T, NEW K \in Instants, NEW p \in Instants
        PROVE  ResolveState(k, K, p)' = ResolveState(k, K, p)
    BY <1>1, <2>1, <2>5, ResolvedElsewhere
  <2>6. ASSUME NEW f \in Nat, f <= frontier
        PROVE  ChangedSince(f) \cup T \subseteq ChangedSince(f)'
    <3>1. ChangedSince(f) \subseteq ChangedSince(f)'
      BY <2>2, <2>4, ChangesRemain
    <3>2. g + 3 > f
      BY <1>0, <2>6
    <3>3. c \in DOMAIN claims' /\ claims'[c].seq > f
      BY <2>2, <2>3, <3>2
    <3>4. claims'[c].key \in ChangedSince(f)'
      BY <3>3 DEF ChangedSince
    <3> QED BY <1>1, <2>3, <3>1, <3>4
  <2>7. Untouched(T)
    BY <2>4, <2>5 DEF Untouched
  <2> QED BY <2>6, <2>7 DEF Touches, ChangesSince
<1>2. ASSUME NEW m \in Targets, NEW kind \in EventKinds, RecordMemoryEvent(m, kind),
             T = Touched(m, kind), UNCHANGED <<claimVars, drafts>>
      PROVE  Touches(T)
  <2>1. PICK n \in Nat : n = frontier' /\ n > g
    <3>1. frontier' = g + 1
      BY <1>0, <1>2 DEF RecordMemoryEvent, Log
    <3> QED BY <1>0, <3>1
  <2>2. /\ claims' = claims /\ relations' = relations
        /\ memoryEvents' = memoryEvents \cup {[entry |-> m, kind |-> kind, seq |-> n]}
    BY <1>2, <2>1 DEF RecordMemoryEvent, claimVars
  <2>3. \A x \in DOMAIN claims : x \notin T => lifecycle'[x] = lifecycle[x]
    BY <1>2 DEF RecordMemoryEvent, Touched, ChangesState, Core
  <2>4. ASSUME NEW k \in Keys, NEW K \in Instants, NEW p \in Instants
        PROVE  ResolveState(k, K, p)' = ResolveState(k, K, p)
    BY <2>2, ResolvedSame DEF Core
  <2>5. T # {} => T = {m} /\ kind \notin Telemetry
    BY <1>2 DEF Touched, ChangesState, NextState, Outcome, Telemetry
  <2>6. ASSUME NEW f \in Nat, f <= frontier
        PROVE  ChangedSince(f) \cup T \subseteq ChangedSince(f)'
    <3>1. ChangedSince(f) \subseteq ChangedSince(f)'
      BY <2>2, ChangesRemain
    <3>2. n > f
      BY <1>0, <2>1, <2>6
    <3>3. PICK e : e = [entry |-> m, kind |-> kind, seq |-> n]
      OBVIOUS
    <3>4. e \in memoryEvents' /\ e.entry = m /\ e.kind = kind /\ e.seq > f
      BY <2>2, <3>2, <3>3
    <3>5. T # {} => m \in ChangedSince(f)'
      BY <2>5, <3>4 DEF ChangedSince
    <3> QED BY <2>5, <3>1, <3>5
  <2>7. Untouched(T)
    BY <2>3, <2>4 DEF Untouched
  <2> QED BY <2>6, <2>7 DEF Touches, ChangesSince
<1>3. CASE Log(1) /\ T = {} /\ UNCHANGED <<claimVars, drafts, memoryVars>>
  <2>1. claims' = claims /\ relations' = relations /\ lifecycle' = lifecycle
        /\ memoryEvents' = memoryEvents
    BY <1>3 DEF claimVars, memoryVars
  <2>2. ASSUME NEW k \in Keys, NEW K \in Instants, NEW p \in Instants
        PROVE  ResolveState(k, K, p)' = ResolveState(k, K, p)
    BY <2>1, ResolvedSame DEF Core
  <2>3. ASSUME NEW f \in Nat PROVE ChangedSince(f) \cup T \subseteq ChangedSince(f)'
    BY <1>3, <2>1, ChangesRemain
  <2>4. Untouched(T)
    BY <2>1, <2>2 DEF Untouched
  <2> QED BY <2>3, <2>4 DEF Touches, ChangesSince
<1> QED BY <1>1, <1>2, <1>3 DEF Writes

(* What is recalled without the names that a write touches stays ...       *)
LEMMA RecalledStays ==
  ASSUME Core, OperativeIsLast, NEW T, Touches(T),
         NEW k \in Keys \ T, NEW K \in Instants, NEW p \in Instants,
         (Recalled(k, K, p).items \cup Recalled(k, K, p).omitted) \cap T = {}
  PROVE  Recalled(k, K, p)' = Recalled(k, K, p)
<1>1. ResolveState(k, K, p)' = ResolveState(k, K, p)
  BY DEF Touches, Untouched
<1>2. Recalled(k, K, p).items \cup Recalled(k, K, p).omitted \subseteq DOMAIN claims
  BY RecalledTyped DEF Core
<1> QED BY <1>1, <1>2, RecalledSame DEF Touches, Untouched

(* ... and of a key that it does not touch, so does an operative claim     *)
(* whose memory it leaves alone, whatever becomes of its competitors.      *)
LEMMA OperativeStays ==
  ASSUME Core, OperativeIsLast, NEW T, Touches(T),
         NEW k \in Keys \ T, NEW K \in Instants, NEW p \in Instants, NEW c, c \notin T,
         Recalled(k, K, p).operative = c, c \in Recalled(k, K, p).items
  PROVE  Recalled(k, K, p)'.operative = c /\ c \in Recalled(k, K, p)'.items
<1>1. PICK s : s = ResolveState(k, K, p)
  OBVIOUS
<1>2. PICK found : found = IF s.status = "MISSING" THEN {} ELSE s.competing \cup {s.operative}
  OBVIOUS
<1>3. /\ Recalled(k, K, p).operative = s.operative
      /\ Recalled(k, K, p).items = {x \in found : lifecycle[x] = "ACTIVE"}
  BY <1>1, <1>2 DEF Recalled, Included
<1>4. s = ResolveState(k, K, p)'
  BY <1>1 DEF Touches, Untouched
<1>5. /\ Recalled(k, K, p)'.operative = s.operative
      /\ Recalled(k, K, p)'.items = {x \in found : lifecycle'[x] = "ACTIVE"}
  BY <1>2, <1>4 DEF Recalled, Included
<1>6. c \in DOMAIN claims
  BY RecalledTyped DEF Core
<1>7. lifecycle'[c] = lifecycle[c]
  BY <1>6 DEF Touches, Untouched
<1> QED BY <1>3, <1>5, <1>7

(* A step without a write leaves all of it, and what has changed.          *)
LEMMA QuietRecall ==
  ASSUME Core, OperativeIsLast, OperativeIsLast', Quiet,
         NEW k \in Keys, NEW K \in Instants, NEW p \in Instants
  PROVE  Recalled(k, K, p)' = Recalled(k, K, p)
<1>1. ResolveState(k, K, p)' = ResolveState(k, K, p)
  BY ResolvedSame DEF Core, Quiet
<1>2. Recalled(k, K, p).items \cup Recalled(k, K, p).omitted \subseteq DOMAIN lifecycle
  BY RecalledTyped DEF Core
<1> QED BY <1>1, <1>2, RecalledSame DEF Quiet

LEMMA QuietChanges ==
  ASSUME Quiet, NEW f
  PROVE  ChangedSince(f)' = ChangedSince(f)
BY DEF Quiet, ChangedSince
=============================================================================
