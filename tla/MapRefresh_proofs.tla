-------------------------- MODULE MapRefresh_proofs --------------------------
(***************************************************************************)
(* Proofs about MapRefresh, for any repository, any number of referents,    *)
(* extractors, files, edits, upgrades, runs and faults: what is dead was    *)
(* removed and what is stale is explained, with any number of operators;    *)
(* what is judged changed was edited, an alias leads somewhere and a second *)
(* refresh is clean, with one.                                              *)
(***************************************************************************)
EXTENDS MapRefresh, FiniteSetTheorems, TLAPS

-----------------------------------------------------------------------------
(* The kept sighting exists.                                                *)

\* A finite set ordered by a total and transitive relation has a greatest member.
LEMMA Topmost ==
    ASSUME NEW S, IsFiniteSet(S), S # {}, NEW R,
           \A x, y \in S : <<x, y>> \in R \/ <<y, x>> \in R,
           \A x, y, z \in S : <<x, y>> \in R /\ <<y, z>> \in R => <<x, z>> \in R
    PROVE  \E x \in S : \A y \in S : <<y, x>> \in R
<1> DEFINE Top(A) == \E x \in A : \A y \in A : <<y, x>> \in R
           Bad    == {A \in SUBSET S : A # {} /\ ~Top(A)}
<1>1. SUFFICES ASSUME ~Top(S) PROVE FALSE
  OBVIOUS
<1>2. IsWellFoundedOn(StrictSubsetOrdering(S), SUBSET S)
  BY FS_StrictSubsetOrderingWellFounded, FS_FiniteSubsetsOfFinite
<1>3. S \in Bad /\ Bad \subseteq SUBSET S
  BY <1>1
<1> HIDE DEF Bad
<1>4. PICK A \in Bad : \A B \in Bad : <<B, A>> \notin StrictSubsetOrdering(S)
  BY <1>2, <1>3, WFMin
<1> USE DEF Bad
<1>5. PICK x \in A : TRUE
  OBVIOUS
<1>6. A \ {x} \notin Bad
  <2> DEFINE B == A \ {x}
  <2>1. B \in SUBSET S /\ A \in SUBSET S /\ B \subseteq A /\ B # A
    BY <1>5
  <2> HIDE DEF Bad, B
  <2>2. <<B, A>> \in StrictSubsetOrdering(S)
    BY <2>1 DEF StrictSubsetOrdering
  <2>3. B \notin Bad
    BY <1>4, <2>2
  <2> QED
    BY <2>3 DEF B
<1>7. CASE A \ {x} = {}
  BY <1>5, <1>7
<1>8. CASE Top(A \ {x})
  <2>1. PICK m \in A \ {x} : \A y \in A \ {x} : <<y, m>> \in R
    BY <1>8
  <2>2. CASE <<x, m>> \in R
    BY <2>1, <2>2
  <2>3. CASE <<m, x>> \in R
    <3>1. \A y \in A : <<y, x>> \in R
      BY <2>1, <2>3, <1>5
    <3> QED
      BY <3>1, <1>5
  <2> QED
    BY <2>1, <2>2, <2>3, <1>5
<1> QED
  BY <1>6, <1>7, <1>8

Ordered(S) == IsFiniteSet(S) /\ \A s \in S : s.ext \in Nat /\ s.path \in Nat

LEMMA LastKept ==
    ASSUME NEW S, Ordered(S), S # {}
    PROVE  Last(S) \in S
<1> DEFINE R == {w \in S \X S : Before(w[1], w[2])}
<1>1. \A x, y \in S : <<x, y>> \in R <=> Before(x, y)
  OBVIOUS
<1>2. \A x, y \in S : Before(x, y) \/ Before(y, x)
  BY DEF Ordered, Before
<1>3. \A x, y, z \in S : Before(x, y) /\ Before(y, z) => Before(x, z)
  BY DEF Ordered, Before
<1> HIDE DEF R
<1>4. \E x \in S : \A y \in S : <<y, x>> \in R
  BY <1>1, <1>2, <1>3, Topmost DEF Ordered
<1>5. \E x \in S : \A y \in S : Before(y, x)
  BY <1>1, <1>4
<1> QED
  BY <1>5 DEF Last

LEMMA FirstKept ==
    ASSUME NEW S, Ordered(S), S # {}
    PROVE  First(S) \in S
<1> DEFINE R == {w \in S \X S : Before(w[2], w[1])}
<1>1. \A x, y \in S : <<x, y>> \in R <=> Before(y, x)
  OBVIOUS
<1>2. \A x, y \in S : Before(x, y) \/ Before(y, x)
  BY DEF Ordered, Before
<1>3. \A x, y, z \in S : Before(y, x) /\ Before(z, y) => Before(z, x)
  BY DEF Ordered, Before
<1> HIDE DEF R
<1>4. \E x \in S : \A y \in S : <<y, x>> \in R
  BY <1>1, <1>2, <1>3, Topmost DEF Ordered
<1>5. \E x \in S : \A y \in S : Before(x, y)
  BY <1>1, <1>4
<1> QED
  BY <1>5 DEF First

\* The only sighting is the last one.
LEMMA LastOfOne ==
    ASSUME NEW s, s.ext \in Nat, s.path \in Nat
    PROVE  Last({s}) = s
BY DEF Last, Before

-----------------------------------------------------------------------------
(* Types, and what a step does to the row of the operator that takes it.    *)

Stage     == {"idle", "extract", "observe", "moves", "conclude", "snapshot"}
Working   == {"extract", "observe", "moves", "conclude"}
Extracted == {"observe", "moves", "conclude", "snapshot"}

JobRow == [verb : {"none", "map", "refresh"}, at : Stage, before : [Uri -> IdentRow],
         prev : [File -> Nat], hashed : [File -> Nat], seen : SUBSET Sighting,
         ran : SUBSET Extractor, todo : SUBSET Extractor, failed : SUBSET Extractor,
         oversized : SUBSET File]

Typed ==
    /\ tree \in [Place -> Attr \cup {0}]
    /\ version \in 1 .. MaxVersion
    /\ stamp \in [File -> Nat] /\ snapshot \in [File -> Nat]
    /\ ident \in [Uri -> IdentRow]
    /\ link \in [LoadBearing -> {"active", "stale"}]
    /\ job \in [Operator -> JobRow]
    /\ \A o \in Operator : IsFiniteSet(job[o].seen)

LEMMA Places ==
    /\ \A p \in Place : /\ p = <<p[1], p[2], p[3]>>
                        /\ p[1] \in Uri /\ p[2] \in Extractor /\ p[3] \in File
    /\ Extractor \subseteq Nat \ {0} /\ File \subseteq Nat \ {0}
    /\ Attr \subseteq Nat \ {0} /\ 0 \notin Extractor
BY MapRefreshAssumption DEF Extractor, File

LEMMA RowTypes ==
    /\ NoIdent \in IdentRow
    /\ NoSnapshot \in [File -> Nat]
    /\ Idle \in JobRow
    /\ IsFiniteSet(Idle.seen)
<1>1. NoIdent \in IdentRow
  BY DEF NoIdent, IdentRow
<1>2. NoSnapshot \in [File -> Nat]
  BY MapRefreshAssumption DEF NoSnapshot
<1>3. [u \in Uri |-> NoIdent] \in [Uri -> IdentRow]
  BY <1>1
<1>4. Idle \in JobRow
  BY <1>2, <1>3 DEF Idle, JobRow, Stage
<1>5. IsFiniteSet(Idle.seen)
  BY FS_EmptySet DEF Idle
<1> QED
  BY <1>1, <1>2, <1>4, <1>5

\* What a run saw is finitely many sightings of what is declared.
LEMMA SightingsOf ==
    ASSUME Typed, NEW ran, NEW oversized
    PROVE  /\ Sightings(ran, oversized) \subseteq Sighting
           /\ IsFiniteSet(Sightings(ran, oversized))
           /\ \A s \in Sightings(ran, oversized) :
                 \E p \in Place : /\ p = <<s.uri, s.ext, s.path>>
                                  /\ tree[p] # 0 /\ s.ext \in ran
                                  /\ s.digest = [ext |-> s.ext, ver |-> version, attr |-> tree[p]]
           /\ \A p \in Place : tree[p] # 0 /\ p[2] \in ran /\ p[3] \notin oversized =>
                 [uri |-> p[1], ext |-> p[2], path |-> p[3],
                  digest |-> [ext |-> p[2], ver |-> version, attr |-> tree[p]]]
                     \in Sightings(ran, oversized)
<1> DEFINE A == {q \in Place : tree[q] # 0 /\ q[2] \in ran /\ q[3] \notin oversized}
           Of(p) == [uri |-> p[1], ext |-> p[2], path |-> p[3],
                     digest |-> [ext |-> p[2], ver |-> version, attr |-> tree[p]]]
           T == Sightings(ran, oversized)
<1>1. T = {Of(p) : p \in A}
  BY DEF Sightings
<1>2. \A p \in A : Of(p) \in Sighting
  BY Places DEF Typed, Sighting, Digest
<1>3. IsFiniteSet(T)
  <2> DEFINE f == [p \in A |-> Of(p)]
  <2>1. IsFiniteSet(A)
    BY MapRefreshAssumption, FS_Subset
  <2> HIDE DEF A, T, Of
  <2>2. f \in Surjection(A, T)
    BY <1>1 DEF Surjection
  <2> QED
    BY <2>1, <2>2, FS_Surjection
<1>4. ASSUME NEW s \in T
      PROVE  \E p \in Place : /\ p = <<s.uri, s.ext, s.path>>
                              /\ tree[p] # 0 /\ s.ext \in ran
                              /\ s.digest = [ext |-> s.ext, ver |-> version, attr |-> tree[p]]
  <2>1. PICK p \in A : s = Of(p)
    BY <1>1
  <2> QED
    BY <2>1, Places
<1>5. \A p \in A : Of(p) \in T
  BY <1>1
<1> QED
  BY <1>1, <1>2, <1>3, <1>4, <1>5

Others(o) == \A p \in Operator \ {o} : job'[p] = job[p]

\* Of what a run read and saw, nothing changes.
SameRun(r, s) ==
    /\ r.before = s.before /\ r.prev = s.prev /\ r.hashed = s.hashed
    /\ r.seen = s.seen /\ r.ran = s.ran
    /\ r.failed = s.failed /\ r.oversized = s.oversized

LEMMA Turn ==
    ASSUME Typed, NEW o \in Operator, NEW j \in JobRow, IsFiniteSet(j.seen),
           job' = [job EXCEPT ![o] = j]
    PROVE  /\ job' \in [Operator -> JobRow]
           /\ \A p \in Operator : IsFiniteSet(job'[p].seen)
           /\ job'[o] = j /\ Others(o)
<1> HIDE DEF JobRow
<1> QED
  BY DEF Typed, Others

LEMMA BeginStep ==
    ASSUME Typed, NEW o \in Operator, NEW verb \in {"map", "refresh"},
           NEW ran \in SUBSET Extractor, Begin(o, verb, ran)
    PROVE  /\ Typed'
           /\ UNCHANGED <<tree, stamp, version, snapshot, settled, store, history>>
           /\ Others(o)
           /\ job[o].at = "idle" /\ job'[o].at = "extract"
           /\ job'[o].ran = ran /\ job'[o].todo = ran /\ job'[o].before = ident
           /\ job'[o].prev = snapshot /\ job'[o].hashed = stamp
           /\ job'[o].seen = {} /\ job'[o].failed = {} /\ job'[o].oversized = {}
<1> DEFINE j == [Idle EXCEPT !.verb = verb, !.at = "extract", !.ran = ran, !.todo = ran,
                             !.before = ident, !.prev = snapshot, !.hashed = stamp]
<1>1. job' = [job EXCEPT ![o] = j]
  BY DEF Begin
<1>2. Idle \in JobRow /\ Idle.seen = {} /\ Idle.failed = {} /\ Idle.oversized = {}
  <2>1. Idle.seen = {} /\ Idle.failed = {} /\ Idle.oversized = {}
    BY DEF Idle
  <2> QED
    BY <2>1, RowTypes
<1>3. j \in JobRow
  BY <1>2 DEF JobRow, Stage, Typed
<1>4. j.at = "extract" /\ j.ran = ran /\ j.todo = ran /\ j.before = ident /\ j.prev = snapshot
      /\ j.hashed = stamp /\ j.seen = {} /\ j.failed = {} /\ j.oversized = {}
  BY <1>2 DEF JobRow
<1> HIDE DEF j
<1>5. /\ job' \in [Operator -> JobRow]
      /\ \A p \in Operator : IsFiniteSet(job'[p].seen)
      /\ job'[o] = j /\ Others(o)
  <2>1. IsFiniteSet(j.seen)
    BY <1>4, FS_EmptySet
  <2> QED
    BY <1>1, <1>3, <2>1, Turn
<1>6. UNCHANGED <<tree, stamp, version, snapshot, settled, store, history>> /\ job[o].at = "idle"
  BY DEF Begin
<1>7. Typed'
  BY <1>5, <1>6 DEF Typed, store
<1> QED
  BY <1>4, <1>5, <1>6, <1>7

LEMMA ExtractStep ==
    ASSUME Typed, NEW o \in Operator, NEW failed \in SUBSET Extractor,
           NEW oversized \in SUBSET File, Extract(o, failed, oversized)
    PROVE  /\ Typed'
           /\ UNCHANGED <<tree, stamp, version, snapshot, settled, store, history>>
           /\ Others(o)
           /\ job[o].at = "extract" /\ job'[o].at = "observe"
           /\ job'[o].ran = job[o].ran /\ job'[o].todo = job[o].todo
           /\ job'[o].before = job[o].before
           /\ job'[o].prev = job[o].prev /\ job'[o].hashed = job[o].hashed
           /\ job'[o].seen = Sightings(job[o].ran \ failed, oversized)
           /\ job'[o].failed = failed /\ job'[o].oversized = oversized
<1> DEFINE S == Sightings(job[o].ran \ failed, oversized)
           j == [job[o] EXCEPT !.at = "observe", !.failed = failed,
                               !.oversized = oversized, !.seen = S]
<1>1. S \subseteq Sighting /\ IsFiniteSet(S)
  BY SightingsOf
<1>2. job' = [job EXCEPT ![o] = j]
  <2> HIDE DEF S
  <2> QED
    BY DEF Extract, S, Typed, JobRow
<1> HIDE DEF S
<1>3. job[o] \in JobRow
  BY DEF Typed
<1>4. j \in JobRow /\ j.seen = S
  BY <1>1, <1>3 DEF JobRow, Stage
<1>5. /\ j.at = "observe" /\ j.ran = job[o].ran /\ j.todo = job[o].todo
      /\ j.before = job[o].before /\ j.prev = job[o].prev /\ j.hashed = job[o].hashed
      /\ j.failed = failed /\ j.oversized = oversized
  BY <1>3 DEF JobRow
<1> HIDE DEF j
<1>6. /\ job' \in [Operator -> JobRow]
      /\ \A p \in Operator : IsFiniteSet(job'[p].seen)
      /\ job'[o] = j /\ Others(o)
  BY <1>1, <1>2, <1>4, Turn
<1>7. /\ UNCHANGED <<tree, stamp, version, snapshot, settled, store, history>>
      /\ job[o].at = "extract"
  BY DEF Extract
<1>8. Typed'
  BY <1>6, <1>7 DEF Typed, store
<1> QED
  BY <1>4, <1>5, <1>6, <1>7, <1>8 DEF S

\* A run that ends forgets what it read.
LEMMA EndStep ==
    ASSUME Typed, NEW o \in Operator,
           ConclusionRefused(o) \/ SaveSnapshot(o) \/ Kill(o)
    PROVE  /\ Typed'
           /\ UNCHANGED <<tree, stamp, version, store, history>>
           /\ Others(o)
           /\ job'[o] = Idle
<1>1. job' = [job EXCEPT ![o] = Idle] /\ UNCHANGED <<tree, stamp, version, store, history>>
  BY DEF ConclusionRefused, SaveSnapshot, Kill
<1>2. /\ job' \in [Operator -> JobRow]
      /\ \A p \in Operator : IsFiniteSet(job'[p].seen)
      /\ job'[o] = Idle /\ Others(o)
  BY <1>1, RowTypes, Turn
<1>3. snapshot' \in [File -> Nat]
  <2>1. job[o].hashed \in [File -> Nat]
    BY DEF Typed, JobRow
  <2> QED
    BY <2>1 DEF ConclusionRefused, SaveSnapshot, Kill, Typed
<1>4. Typed'
  BY <1>1, <1>2, <1>3 DEF Typed, store
<1> QED
  BY <1>1, <1>2, <1>4

\* Any part of what a run saw can be put in the order of the packs.
LEMMA SeenOrdered ==
    ASSUME Typed, NEW o \in Operator, NEW S \in SUBSET job[o].seen
    PROVE  Ordered(S) /\ S \subseteq Sighting
<1>1. S \subseteq Sighting
  BY DEF Typed, JobRow
<1>2. \A s \in S : s.ext \in Nat /\ s.path \in Nat
  BY <1>1, Places DEF Sighting
<1>3. IsFiniteSet(S)
  BY FS_Subset DEF Typed
<1> QED
  BY <1>1, <1>2, <1>3 DEF Ordered

Created(u, s) ==
    [NoIdent EXCEPT !.status = "active", !.digest = s.digest, !.path = s.path]

LEMMA CreatedRow ==
    ASSUME NEW u \in Uri, NEW s \in Sighting
    PROVE  /\ Created(u, s) \in IdentRow
           /\ Created(u, s).status = "active"
           /\ Created(u, s).digest = s.digest /\ Created(u, s).path = s.path
BY DEF Created, NoIdent, IdentRow, Sighting

\* A pack creates the rows of the referents it is the first to see.
LEMMA ObserveStep ==
    ASSUME Typed, NEW o \in Operator, NEW x \in Extractor, ObservePack(o, x)
    PROVE  /\ Typed'
           /\ UNCHANGED <<tree, stamp, version, snapshot, settled, link, queue, lost>>
           /\ edited' = {e \in edited : ident'[e[1]] = ident[e[1]]}
           /\ Others(o) /\ SameRun(job'[o], job[o])
           /\ job[o].at = "observe" /\ x \in job[o].todo
           /\ job'[o].todo = job[o].todo \ {x}
           /\ \/ job'[o].at = "observe"
              \/ job'[o].at = "moves" /\ job[o].todo = {x}
           /\ \A u \in Uri :
                 \/ /\ ident'[u] = ident[u]
                    /\ Known(ident[u]) \/ \A s \in job[o].seen : s.uri = u => s.ext # x
                 \/ /\ ~Known(ident[u])
                    /\ \E s \in job[o].seen : /\ s.uri = u /\ s.ext = x
                                              /\ ident'[u] = Created(u, s)
<1> DEFINE j == [job[o] EXCEPT !.at = IF job[o].todo = {x} THEN "moves" ELSE "observe",
                               !.todo = job[o].todo \ {x}]
           pack == {s \in job[o].seen : s.ext = x}
<1>1. job[o] \in JobRow /\ IsFiniteSet(job[o].seen)
  BY DEF Typed
<1>2. job' = [job EXCEPT ![o] = j]
  BY DEF ObservePack, Typed, JobRow
<1>3. /\ j \in JobRow /\ SameRun(j, job[o]) /\ j.todo = job[o].todo \ {x}
      /\ j.at = IF job[o].todo = {x} THEN "moves" ELSE "observe"
  BY <1>1 DEF JobRow, Stage, SameRun
<1> HIDE DEF j
<1>4. /\ job' \in [Operator -> JobRow]
      /\ \A p \in Operator : IsFiniteSet(job'[p].seen)
      /\ job'[o] = j /\ Others(o)
  <2>1. IsFiniteSet(j.seen)
    BY <1>1, <1>3 DEF SameRun
  <2> QED
    BY <1>2, <1>3, <2>1, Turn
<1>5. /\ UNCHANGED <<tree, stamp, version, snapshot, settled, link, queue, lost>>
      /\ edited' = {e \in edited : ident'[e[1]] = ident[e[1]]}
      /\ job[o].at = "observe" /\ x \in job[o].todo
      /\ ident' = [u \in Uri |-> Observed(u, pack)]
  BY DEF ObservePack
<1>6. ASSUME NEW u \in Uri
      PROVE  \/ /\ Observed(u, pack) = ident[u]
                /\ Known(ident[u]) \/ \A s \in job[o].seen : s.uri = u => s.ext # x
             \/ /\ ~Known(ident[u])
                /\ \E s \in job[o].seen : /\ s.uri = u /\ s.ext = x
                                          /\ Observed(u, pack) = Created(u, s)
  <2> DEFINE mine == {s \in pack : s.uri = u}
  <2>1. CASE Known(ident[u])
    BY <2>1 DEF Observed
  <2>2. CASE ~Known(ident[u]) /\ mine = {}
    <3>1. Observed(u, pack) = ident[u]
      BY <2>2 DEF Observed
    <3> QED
      BY <2>2, <3>1
  <2>3. CASE ~Known(ident[u]) /\ mine # {}
    <3>1. mine \in SUBSET job[o].seen
      OBVIOUS
    <3>2. Ordered(mine)
      BY <3>1, SeenOrdered
    <3>3. First(mine) \in mine
      BY <2>3, <3>2, FirstKept
    <3>4. Observed(u, pack) = Created(u, First(mine))
      BY <2>3 DEF Observed, Created
    <3> QED
      BY <2>3, <3>3, <3>4
  <2> QED
    BY <2>1, <2>2, <2>3
<1>7. \A u \in Uri : ident'[u] = Observed(u, pack)
  BY <1>5
<1>8. ident' \in [Uri -> IdentRow]
  <2>1. ASSUME NEW u \in Uri PROVE Observed(u, pack) \in IdentRow
    <3>1. CASE Observed(u, pack) = ident[u]
      BY <3>1 DEF Typed
    <3>2. ASSUME NEW s \in job[o].seen, Observed(u, pack) = Created(u, s)
          PROVE  Observed(u, pack) \in IdentRow
      BY <1>1, <3>2, CreatedRow DEF JobRow
    <3> QED
      BY <1>6, <3>1, <3>2
  <2> QED
    BY <1>5, <2>1
<1>9. Typed'
  BY <1>4, <1>5, <1>8 DEF Typed
<1> QED
  <2> HIDE DEF pack
  <2> QED
    BY <1>3, <1>4, <1>5, <1>6, <1>7, <1>9

\* Moves pair a live referent that was not seen with one that was unknown.
LEMMA MovePairs ==
    ASSUME NEW r, NEW m \in Moves(r)
    PROVE  /\ m = <<m[1], m[2]>>
           /\ m[1] \in Uri \ Seen(r) /\ Live(r.before[m[1]])
           /\ m[2] \in Seen(r) /\ ~Known(r.before[m[2]])
           /\ Gone(r, r.before[m[1]].digest) = {m[1]}
           /\ Arrived(r, r.before[m[1]].digest) = {m[2]}
BY DEF Moves, Disappeared, Appeared

LEMMA MovesStep ==
    ASSUME Typed, NEW o \in Operator, RecordMoves(o)
    PROVE  /\ Typed'
           /\ UNCHANGED <<tree, stamp, version, snapshot, settled, link, queue, history>>
           /\ Others(o)
           /\ job[o].at = "moves"
           /\ \/ job'[o] = Idle
              \/ /\ SameRun(job'[o], job[o])
                 /\ job'[o].todo = job[o].todo /\ job'[o].at = "conclude"
           /\ \A u \in Uri :
                 \/ u \notin MovedFrom(job[o]) /\ ident'[u] = ident[u]
                 \/ \E m \in Moves(job[o]) :
                       /\ m[1] = u
                       /\ ident'[u] = [ident[u] EXCEPT !.status = "moved", !.alias = m[2]]
<1> DEFINE j == IF job[o].verb = "map" THEN Idle ELSE [job[o] EXCEPT !.at = "conclude"]
<1>1. job[o] \in JobRow /\ IsFiniteSet(job[o].seen)
  BY DEF Typed
<1>2. job' = [job EXCEPT ![o] = j]
  BY DEF RecordMoves
<1>3. /\ j \in JobRow
      /\ \/ j = Idle
         \/ SameRun(j, job[o]) /\ j.todo = job[o].todo /\ j.at = "conclude"
  BY <1>1, RowTypes DEF JobRow, Stage, SameRun
<1> HIDE DEF j
<1>4. /\ job' \in [Operator -> JobRow]
      /\ \A p \in Operator : IsFiniteSet(job'[p].seen)
      /\ job'[o] = j /\ Others(o)
  <2>1. IsFiniteSet(j.seen)
    BY <1>1, <1>3, RowTypes DEF SameRun
  <2> QED
    BY <1>2, <1>3, <2>1, Turn
<1>5. /\ UNCHANGED <<tree, stamp, version, snapshot, settled, link, queue, history>>
      /\ job[o].at = "moves"
      /\ \A u \in Uri : ident'[u] =
            IF u \in MovedFrom(job[o])
            THEN [ident[u] EXCEPT !.status = "moved", !.alias = MoveOf(job[o], u)[2]]
            ELSE ident[u]
      /\ ident' = [u \in Uri |-> ident'[u]]
  BY DEF RecordMoves
<1>6. ASSUME NEW u \in MovedFrom(job[o])
      PROVE  MoveOf(job[o], u) \in Moves(job[o]) /\ MoveOf(job[o], u)[1] = u
  BY DEF MovedFrom, MoveOf
<1>7. \A u \in Uri :
         \/ u \notin MovedFrom(job[o]) /\ ident'[u] = ident[u]
         \/ \E m \in Moves(job[o]) :
               /\ m[1] = u
               /\ ident'[u] = [ident[u] EXCEPT !.status = "moved", !.alias = m[2]]
  BY <1>5, <1>6
<1>8. ident' \in [Uri -> IdentRow]
  <2>1. ASSUME NEW u \in Uri PROVE ident'[u] \in IdentRow
    <3>1. ident[u] \in IdentRow
      BY DEF Typed
    <3>2. CASE ident'[u] = ident[u]
      BY <3>1, <3>2
    <3>3. ASSUME NEW m \in Moves(job[o]),
                 ident'[u] = [ident[u] EXCEPT !.status = "moved", !.alias = m[2]]
          PROVE  ident'[u] \in IdentRow
      <4>1. m[2] \in Uri
        BY <1>1, MovePairs DEF Seen, JobRow, Sighting
      <4> QED
        BY <3>1, <3>3, <4>1 DEF IdentRow
    <3> QED
      BY <1>7, <3>2, <3>3
  <2> QED
    BY <1>5, <2>1
<1>9. Typed'
  BY <1>4, <1>5, <1>8 DEF Typed
<1> QED
  BY <1>3, <1>4, <1>5, <1>7, <1>9

\* What is dead was not seen, what is re-recorded was.
LEMMA ConclusionsApart ==
    ASSUME NEW r
    PROVE  /\ DeadOf(r) \cap Rerecorded(r) = {}
           /\ DeadOf(r) \subseteq Uri \ Seen(r)
           /\ Rerecorded(r) \subseteq StoredLive(r) \cap Seen(r)
           /\ SemanticOf(r) \subseteq Rerecorded(r)
BY DEF DeadOf, Rerecorded, SemanticOf, Rebaselined, StoredLive

LEMMA ConcludeStep ==
    ASSUME Typed, NEW o \in Operator, NEW drifted, Conclude(o, drifted)
    PROVE  /\ Typed'
           /\ UNCHANGED <<tree, stamp, version, snapshot, lost>>
           /\ Others(o) /\ SameRun(job'[o], job[o])
           /\ job[o].at = "conclude" /\ job'[o].at = "snapshot"
           /\ job'[o].todo = job[o].todo
           /\ ~settled'
           /\ edited' = {e \in edited : e[1] \notin Rerecorded(job[o])}
           /\ \A u \in Uri :
                 \/ u \in DeadOf(job[o]) /\ ident'[u] = Retired(ident[u])
                 \/ /\ u \in Rerecorded(job[o])
                    /\ Last(At(job[o], u)) \in At(job[o], u)
                    /\ ident'[u] = Redigested(ident[u], Last(At(job[o], u)))
                 \/ /\ u \notin DeadOf(job[o]) \cup Rerecorded(job[o])
                    /\ ident'[u] = ident[u]
<1> DEFINE r == job[o]
           j == [job[o] EXCEPT !.at = "snapshot"]
<1>1. job[o] \in JobRow /\ IsFiniteSet(job[o].seen)
  BY DEF Typed
<1>2. job' = [job EXCEPT ![o] = j]
  BY DEF Conclude
<1>3. j \in JobRow /\ SameRun(j, job[o]) /\ j.todo = job[o].todo /\ j.at = "snapshot"
  BY <1>1 DEF JobRow, Stage, SameRun
<1> HIDE DEF j
<1>4. /\ job' \in [Operator -> JobRow]
      /\ \A p \in Operator : IsFiniteSet(job'[p].seen)
      /\ job'[o] = j /\ Others(o)
  <2>1. IsFiniteSet(j.seen)
    BY <1>1, <1>3 DEF SameRun
  <2> QED
    BY <1>2, <1>3, <2>1, Turn
<1>5. /\ UNCHANGED <<tree, stamp, version, snapshot, lost>>
      /\ job[o].at = "conclude" /\ ~settled'
      /\ edited' = {e \in edited : e[1] \notin Rerecorded(job[o])}
      /\ ident' = [u \in Uri |->
                      CASE u \in DeadOf(r) -> Retired(ident[u])
                        [] u \in Rerecorded(r) -> Redigested(ident[u], Last(At(r, u)))
                        [] OTHER -> ident[u]]
      /\ link' \in [LoadBearing -> {"active", "stale"}]
  BY DEF Conclude, Typed
<1>6. ASSUME NEW u \in Rerecorded(r) PROVE Last(At(r, u)) \in At(r, u) /\ u \in Uri
  <2>1. u \in Seen(r) /\ u \in Uri
    BY ConclusionsApart DEF StoredLive
  <2>2. At(r, u) \in SUBSET job[o].seen /\ At(r, u) # {}
    BY <2>1 DEF Seen, At
  <2>3. Ordered(At(r, u))
    BY <2>2, SeenOrdered
  <2> QED
    BY <2>1, <2>2, <2>3, LastKept
<1>7. ASSUME NEW u \in Uri
      PROVE  \/ u \in DeadOf(r) /\ ident'[u] = Retired(ident[u])
             \/ /\ u \in Rerecorded(r)
                /\ Last(At(r, u)) \in At(r, u)
                /\ ident'[u] = Redigested(ident[u], Last(At(r, u)))
             \/ u \notin DeadOf(r) \cup Rerecorded(r) /\ ident'[u] = ident[u]
  <2> HIDE DEF r
  <2>1. ident'[u] = CASE u \in DeadOf(r) -> Retired(ident[u])
                      [] u \in Rerecorded(r) -> Redigested(ident[u], Last(At(r, u)))
                      [] OTHER -> ident[u]
    BY <1>5
  <2>2. ~(u \in DeadOf(r) /\ u \in Rerecorded(r))
    BY ConclusionsApart
  <2>3. CASE u \in DeadOf(r)
    BY <2>1, <2>2, <2>3
  <2>4. CASE u \in Rerecorded(r)
    BY <2>1, <2>2, <2>4, <1>6
  <2>5. CASE u \notin DeadOf(r) \cup Rerecorded(r)
    BY <2>1, <2>5
  <2> QED
    BY <2>3, <2>4, <2>5
<1>8. ident' \in [Uri -> IdentRow]
  <2>1. ASSUME NEW u \in Uri PROVE ident'[u] \in IdentRow
    <3>1. ident[u] \in IdentRow
      BY DEF Typed
    <3>2. Retired(ident[u]) \in IdentRow
      BY <3>1 DEF IdentRow, Retired
    <3>3. ASSUME NEW s \in At(r, u) PROVE Redigested(ident[u], s) \in IdentRow
      <4>1. s \in Sighting
        BY <1>1 DEF At, JobRow
      <4> QED
        BY <3>1, <4>1 DEF IdentRow, Redigested, Sighting
    <3> HIDE DEF r
    <3> QED
      BY <1>7, <3>1, <3>2, <3>3
  <2> QED
    BY <1>5, <2>1
<1>9. Typed'
  BY <1>4, <1>5, <1>8 DEF Typed
<1> QED
  BY <1>3, <1>4, <1>5, <1>7, <1>9

\* The repository changes only while nothing that was read is being written.
LEMMA RepositoryStep ==
    ASSUME Typed,
           \/ \E p \in Place, attr \in Attr \cup {0} : Edit(p, attr)
           \/ \E f \in File : Reformat(f)
           \/ Upgrade
    PROVE  /\ Typed'
           /\ UNCHANGED <<job, store, snapshot>> /\ ~settled'
           /\ \A o \in Operator : job[o].at \in {"idle", "extract"}
           /\ lost \subseteq lost' /\ edited \subseteq edited'
           /\ \A p \in Place :
                 \/ tree'[p] = tree[p]
                 \/ /\ <<p[1], p[2]>> \in edited'
                    /\ tree'[p] = 0 => p[1] \in lost'
<1>1. CASE \E p \in Place, attr \in Attr \cup {0} : Edit(p, attr)
  <2>1. PICK p \in Place, attr \in Attr \cup {0} : Edit(p, attr)
    BY <1>1
  <2>2. /\ UNCHANGED <<job, store, snapshot, version>> /\ ~settled'
        /\ Readable
        /\ tree' = [tree EXCEPT ![p] = attr]
        /\ stamp' = [stamp EXCEPT ![p[3]] = @ + 1]
        /\ lost' = IF attr = 0 THEN lost \cup {p[1]} ELSE lost
        /\ edited' = edited \cup {<<p[1], p[2]>>}
    BY <2>1 DEF Edit
  <2>3. tree' \in [Place -> Attr \cup {0}] /\ stamp' \in [File -> Nat]
    <3>1. tree' \in [Place -> Attr \cup {0}]
      BY <2>2 DEF Typed
    <3>2. stamp' \in [File -> Nat]
      BY <2>2, Places DEF Typed
    <3> QED
      BY <3>1, <3>2
  <2>4. Typed'
    BY <2>2, <2>3 DEF Typed, store
  <2>5. \A q \in Place : tree'[q] = tree[q] \/ (q = p /\ tree'[q] = attr)
    BY <2>2 DEF Typed
  <2> QED
    BY <2>2, <2>4, <2>5 DEF Readable
<1>2. CASE \E f \in File : Reformat(f)
  BY <1>2 DEF Reformat, Readable, Typed, store, history
<1>3. CASE Upgrade
  BY <1>3, MapRefreshAssumption DEF Upgrade, Readable, Typed, store, history
<1> QED
  BY <1>1, <1>2, <1>3

\* Every step is one of these.
LEMMA StepKinds ==
    ASSUME Next
    PROVE  \/ /\ \/ \E p \in Place, attr \in Attr \cup {0} : Edit(p, attr)
                 \/ \E f \in File : Reformat(f)
                 \/ Upgrade
           \/ \E o \in Operator :
                 \/ \E verb \in {"map", "refresh"}, ran \in SUBSET Extractor : Begin(o, verb, ran)
                 \/ \E failed \in SUBSET Extractor, oversized \in SUBSET File :
                       Extract(o, failed, oversized)
                 \/ \E x \in Extractor : ObservePack(o, x)
                 \/ RecordMoves(o)
                 \/ \E drifted \in BOOLEAN : Conclude(o, drifted)
                 \/ ConclusionRefused(o) \/ SaveSnapshot(o) \/ Kill(o)
<1>1. Selections \subseteq SUBSET Extractor
  BY DEF Selections
<1>2. \A m \in Mishaps : m[1] \in SUBSET Extractor /\ m[2] \in SUBSET File
  BY DEF Mishaps
<1>3. ASSUME NEW o \in Operator, Run(o)
      PROVE  \/ \E verb \in {"map", "refresh"}, ran \in SUBSET Extractor : Begin(o, verb, ran)
             \/ \E failed \in SUBSET Extractor, oversized \in SUBSET File :
                   Extract(o, failed, oversized)
             \/ \E x \in Extractor : ObservePack(o, x)
             \/ RecordMoves(o)
             \/ \E drifted \in BOOLEAN : Conclude(o, drifted)
             \/ ConclusionRefused(o) \/ SaveSnapshot(o) \/ Kill(o)
  BY <1>1, <1>2, <1>3 DEF Run
<1> QED
  BY <1>3 DEF Next

LEMMA TypedInit == Init => Typed
<1> SUFFICES ASSUME Init PROVE Typed
  OBVIOUS
<1>1. tree \in [Place -> Attr \cup {0}]
  BY MapRefreshAssumption DEF Init
<1>2. job \in [Operator -> JobRow] /\ \A o \in Operator : job[o] = Idle
  BY RowTypes DEF Init
<1>3. version \in 1 .. MaxVersion /\ stamp \in [File -> Nat] /\ snapshot \in [File -> Nat]
  BY MapRefreshAssumption, RowTypes DEF Init
<1>4. ident \in [Uri -> IdentRow] /\ link \in [LoadBearing -> {"active", "stale"}]
  BY RowTypes DEF Init
<1> QED
  BY <1>1, <1>2, <1>3, <1>4, RowTypes DEF Typed

LEMMA TypedStep == ASSUME Typed, [Next]_vars PROVE Typed'
<1>1. CASE Next
  BY <1>1, StepKinds, RepositoryStep, BeginStep, ExtractStep, ObserveStep, MovesStep,
     ConcludeStep, EndStep
<1>2. CASE UNCHANGED vars
  BY <1>2 DEF vars, Typed, store
<1> QED
  BY <1>1, <1>2

-----------------------------------------------------------------------------
(* What is stale is explained: the links and the queue are written together. *)

\* StaleIsExplained, with any number of operators: a link the refresh staled is
\* in front of a reviewer (_queue_entries takes both halves).
THEOREM StaleExplained == Spec => []StaleIsExplained
<1>1. Init => StaleIsExplained
  BY DEF Init, StaleIsExplained
<1>2. ASSUME StaleIsExplained, Next PROVE StaleIsExplained'
  <2>1. ASSUME NEW o \in Operator, NEW drifted \in BOOLEAN, Conclude(o, drifted)
        PROVE  StaleIsExplained'
    <3> DEFINE r == job[o]
               entries == ProbeEntries(r, drifted)
    <3>1. /\ link' = [u \in LoadBearing |->
                        IF u \in SemanticOf(r) \cup entries THEN "stale" ELSE link[u]]
          /\ queue' = queue \cup Queued(r, entries)
      BY <2>1 DEF Conclude
    <3> HIDE DEF r, entries
    <3>2. \A u \in LoadBearing : u \in SemanticOf(r) \cup entries =>
             <<u, Semantics>> \in Queued(r, entries)
      BY DEF Queued, Changes, Semantics
    <3> QED
      BY <1>2, <3>1, <3>2 DEF StaleIsExplained
  <2>2. CASE UNCHANGED <<link, queue>>
    BY <1>2, <2>2 DEF StaleIsExplained
  <2>3. \/ UNCHANGED <<link, queue>>
        \/ \E o \in Operator, drifted \in BOOLEAN : Conclude(o, drifted)
    <3>1. /\ \A p \in Place, attr \in Attr \cup {0} : Edit(p, attr) => UNCHANGED <<link, queue>>
          /\ \A f \in File : Reformat(f) => UNCHANGED <<link, queue>>
          /\ Upgrade => UNCHANGED <<link, queue>>
      BY DEF Edit, Reformat, Upgrade, store
    <3>2. ASSUME NEW o \in Operator
          PROVE  /\ \A verb \in {"map", "refresh"}, ran \in SUBSET Extractor :
                       Begin(o, verb, ran) => UNCHANGED <<link, queue>>
                 /\ \A failed \in SUBSET Extractor, oversized \in SUBSET File :
                       Extract(o, failed, oversized) => UNCHANGED <<link, queue>>
                 /\ \A x \in Extractor : ObservePack(o, x) => UNCHANGED <<link, queue>>
                 /\ RecordMoves(o) \/ ConclusionRefused(o) \/ SaveSnapshot(o) \/ Kill(o) =>
                       UNCHANGED <<link, queue>>
      BY DEF Begin, Extract, ObservePack, RecordMoves, ConclusionRefused, SaveSnapshot, Kill, store
    <3> QED
      BY <1>2, <3>1, <3>2, StepKinds
  <2> QED
    BY <2>1, <2>2, <2>3
<1>3. StaleIsExplained /\ UNCHANGED vars => StaleIsExplained'
  BY DEF StaleIsExplained, vars, store
<1> QED
  BY <1>1, <1>2, <1>3, PTL DEF Spec

-----------------------------------------------------------------------------
(* What is dead was removed.  A stored digest stands for a declaration: while *)
(* nobody removes it, a run that examines its extractor and its file sees it. *)

Stands(t, gone, u, x, f) ==
    <<u, x, f>> \in Place /\ (t[<<u, x, f>>] # 0 \/ u \in gone)

Backed(t, gone, u, row) ==
    /\ row.digest.ext # 0 => Stands(t, gone, u, row.digest.ext, row.path)
    /\ row.status = "dead" => u \in gone

Witnessed(t, gone, s) ==
    Stands(t, gone, s.uri, s.ext, s.path) /\ s.digest.ext = s.ext

\* Absent, and examined.
Missing(r) == {u \in Uri : Live(r.before[u]) /\ u \notin Seen(r) /\ ~Exempt(r, u)}

RunBacked(t, gone, r) ==
    /\ \A u \in Uri : Backed(t, gone, u, r.before[u])
    /\ \A s \in r.seen : Witnessed(t, gone, s)
    /\ r.at \in {"observe", "moves", "conclude"} => Missing(r) \subseteq gone

DeadInv ==
    /\ \A u \in Uri : Backed(tree, lost, u, ident[u])
    /\ \A o \in Operator : RunBacked(tree, lost, job[o])

\* An edit removes a declaration or leaves one there.
LEMMA StandsOn ==
    ASSUME NEW t1, NEW g1, NEW t2, NEW g2, g1 \subseteq g2,
           \A p \in Place : t2[p] = t1[p] \/ (t2[p] = 0 => p[1] \in g2)
    PROVE  /\ \A u, row : Backed(t1, g1, u, row) => Backed(t2, g2, u, row)
           /\ \A s : Witnessed(t1, g1, s) => Witnessed(t2, g2, s)
           /\ \A r : RunBacked(t1, g1, r) => RunBacked(t2, g2, r)
<1>1. \A u, x, f : Stands(t1, g1, u, x, f) => Stands(t2, g2, u, x, f)
  BY DEF Stands
<1>2. \A u, row : Backed(t1, g1, u, row) => Backed(t2, g2, u, row)
  BY <1>1 DEF Backed
<1>3. \A s : Witnessed(t1, g1, s) => Witnessed(t2, g2, s)
  BY <1>1 DEF Witnessed
<1>4. \A r : RunBacked(t1, g1, r) => RunBacked(t2, g2, r)
  BY <1>2, <1>3 DEF RunBacked
<1> QED
  BY <1>2, <1>3, <1>4

LEMMA MissingSame ==
    ASSUME NEW r, NEW s, SameRun(r, s)
    PROVE  Missing(r) = Missing(s)
BY DEF SameRun, Missing, Seen, Exempt

LEMMA IdleBacked == \A t, gone : RunBacked(t, gone, Idle)
BY DEF RunBacked, Idle, NoIdent, NoDigest, Backed

LEMMA DeadIsMissing == \A r : DeadOf(r) \subseteq Missing(r)
BY DEF DeadOf, StoredLive, Missing

\* What an examination misses was removed.
LEMMA ExaminedThenGone ==
    ASSUME Typed, NEW o \in Operator, NEW failed \in SUBSET Extractor,
           NEW oversized \in SUBSET File, Extract(o, failed, oversized),
           RunBacked(tree, lost, job[o])
    PROVE  RunBacked(tree, lost, job'[o])
<1> DEFINE r == job'[o]
           ran == job[o].ran \ failed
<1>1. /\ r.before = job[o].before /\ r.seen = Sightings(ran, oversized)
      /\ r.failed = failed /\ r.oversized = oversized /\ r.ran = job[o].ran
  BY ExtractStep, ZenonT(60)
<1>2. job[o].ran \subseteq Extractor /\ job[o].before \in [Uri -> IdentRow]
  BY DEF Typed, JobRow
<1>3. \A u \in Uri : Backed(tree, lost, u, r.before[u])
  BY <1>1 DEF RunBacked
<1>4. \A s \in r.seen : Witnessed(tree, lost, s)
  <2>1. ASSUME NEW s \in r.seen PROVE Witnessed(tree, lost, s)
    <3>1. PICK p \in Place : /\ p = <<s.uri, s.ext, s.path>>
                             /\ tree[p] # 0 /\ s.ext \in ran
                             /\ s.digest = [ext |-> s.ext, ver |-> version, attr |-> tree[p]]
      BY <1>1, SightingsOf
    <3> QED
      BY <3>1 DEF Witnessed, Stands
  <2> QED
    BY <2>1
<1>5. ASSUME NEW u \in Missing(r) PROVE u \in lost
  <2> DEFINE x == r.before[u].digest.ext
             f == r.before[u].path
             p == <<u, x, f>>
  <2>1. u \in Uri /\ u \notin Seen(r) /\ x \notin failed /\ x \in job[o].ran /\ f \notin oversized
    BY <1>1 DEF Missing, Exempt
  <2>2. x # 0
    BY <1>2, <2>1, Places
  <2>3. p \in Place /\ (tree[p] # 0 \/ u \in lost)
    BY <1>3, <2>1, <2>2 DEF Backed, Stands
  <2>4. p[1] = u /\ p[2] = x /\ p[3] = f
    OBVIOUS
  <2> HIDE DEF x, f, p
  <2>5. ASSUME tree[p] # 0 PROVE FALSE
    <3>1. [uri |-> p[1], ext |-> p[2], path |-> p[3],
           digest |-> [ext |-> p[2], ver |-> version, attr |-> tree[p]]] \in r.seen
      BY <1>1, <2>1, <2>3, <2>4, <2>5, SightingsOf
    <3>2. p[1] \in Seen(r)
      BY <3>1 DEF Seen
    <3> QED
      BY <2>1, <2>4, <3>2
  <2> QED
    BY <2>3, <2>5
<1> QED
  BY <1>3, <1>4, <1>5 DEF RunBacked

LEMMA DeadInvStep == ASSUME Typed, DeadInv, Next PROVE DeadInv'
<1>1. CASE \/ \E p \in Place, attr \in Attr \cup {0} : Edit(p, attr)
           \/ \E f \in File : Reformat(f)
           \/ Upgrade
  <2>1. /\ UNCHANGED <<job, ident>> /\ lost \subseteq lost'
        /\ \A p \in Place : tree'[p] = tree[p] \/ (tree'[p] = 0 => p[1] \in lost')
    BY <1>1, RepositoryStep DEF store
  <2>2. /\ \A u, row : Backed(tree, lost, u, row) => Backed(tree', lost', u, row)
        /\ \A r : RunBacked(tree, lost, r) => RunBacked(tree', lost', r)
    BY <2>1, StandsOn
  <2> QED
    BY <2>1, <2>2 DEF DeadInv
<1>2. SUFFICES ASSUME NEW o \in Operator,
                      \/ \E verb \in {"map", "refresh"}, ran \in SUBSET Extractor :
                            Begin(o, verb, ran)
                      \/ \E failed \in SUBSET Extractor, oversized \in SUBSET File :
                            Extract(o, failed, oversized)
                      \/ \E x \in Extractor : ObservePack(o, x)
                      \/ RecordMoves(o)
                      \/ \E drifted \in BOOLEAN : Conclude(o, drifted)
                      \/ ConclusionRefused(o) \/ SaveSnapshot(o) \/ Kill(o)
               PROVE  DeadInv'
  BY <1>1, StepKinds
<1>3. ASSUME UNCHANGED <<tree, lost>>, Others(o),
             RunBacked(tree, lost, job'[o]),
             \A u \in Uri : Backed(tree, lost, u, ident'[u])
      PROVE  DeadInv'
  BY <1>3 DEF DeadInv, Others
<1>4. /\ \A u \in Uri : Backed(tree, lost, u, ident[u])
      /\ RunBacked(tree, lost, job[o])
  BY DEF DeadInv
<1>5. ASSUME NEW verb \in {"map", "refresh"}, NEW ran \in SUBSET Extractor,
             Begin(o, verb, ran)
      PROVE  DeadInv'
  <2>1. /\ job'[o].at = "extract" /\ job'[o].before = ident /\ job'[o].seen = {}
        /\ UNCHANGED <<tree, lost, ident>> /\ Others(o)
    BY <1>5, BeginStep DEF store, history
  <2>2. RunBacked(tree, lost, job'[o])
    BY <1>4, <2>1 DEF RunBacked
  <2> QED
    BY <1>3, <1>4, <2>1, <2>2
<1>6. ASSUME NEW failed \in SUBSET Extractor, NEW oversized \in SUBSET File,
             Extract(o, failed, oversized)
      PROVE  DeadInv'
  <2>1. UNCHANGED <<tree, lost, ident>> /\ Others(o)
    BY <1>6, ExtractStep DEF store, history
  <2>2. RunBacked(tree, lost, job'[o])
    BY <1>4, <1>6, ExaminedThenGone
  <2> QED
    BY <1>3, <1>4, <2>1, <2>2
<1>7. ASSUME SameRun(job'[o], job[o]), job[o].at \in {"observe", "moves", "conclude"}
      PROVE  RunBacked(tree, lost, job'[o])
  BY <1>4, <1>7, MissingSame DEF RunBacked, SameRun
<1>8. ASSUME NEW x \in Extractor, ObservePack(o, x) PROVE DeadInv'
  <2>1. /\ UNCHANGED <<tree, lost>> /\ Others(o)
        /\ SameRun(job'[o], job[o]) /\ job[o].at = "observe"
        /\ \A u \in Uri : \/ ident'[u] = ident[u]
                          \/ \E s \in job[o].seen : s.uri = u /\ ident'[u] = Created(u, s)
    BY <1>8, ObserveStep
  <2>2. ASSUME NEW u \in Uri PROVE Backed(tree, lost, u, ident'[u])
    <3>1. ASSUME NEW s \in job[o].seen, s.uri = u, ident'[u] = Created(u, s)
          PROVE  Backed(tree, lost, u, ident'[u])
      <4>1. Witnessed(tree, lost, s) /\ s \in Sighting
        BY <1>4 DEF RunBacked, Typed, JobRow
      <4>2. /\ ident'[u].status = "active" /\ ident'[u].digest = s.digest
            /\ ident'[u].path = s.path
        BY <3>1, <4>1, CreatedRow
      <4> QED
        BY <3>1, <4>1, <4>2 DEF Witnessed, Backed
    <3> QED
      BY <1>4, <2>1, <3>1
  <2> QED
    BY <1>3, <1>7, <2>1, <2>2
<1>9. CASE RecordMoves(o)
  <2>1. /\ UNCHANGED <<tree, lost>> /\ Others(o) /\ job[o].at = "moves"
        /\ job'[o] = Idle \/ SameRun(job'[o], job[o])
    BY <1>9, MovesStep DEF history
  <2>4. \A u \in Uri :
           \/ u \notin MovedFrom(job[o]) /\ ident'[u] = ident[u]
           \/ \E m \in Moves(job[o]) :
                 /\ m[1] = u
                 /\ ident'[u] = [ident[u] EXCEPT !.status = "moved", !.alias = m[2]]
    BY <1>9, MovesStep
  <2>2. ASSUME NEW u \in Uri PROVE Backed(tree, lost, u, ident'[u])
    <3>1. ASSUME NEW m \in Moves(job[o]),
                 ident'[u] = [ident[u] EXCEPT !.status = "moved", !.alias = m[2]]
          PROVE  Backed(tree, lost, u, ident'[u])
      <4>1. ident[u] \in IdentRow
        BY DEF Typed
      <4>2. /\ ident'[u].digest = ident[u].digest /\ ident'[u].path = ident[u].path
            /\ ident'[u].status = "moved"
        BY <3>1, <4>1 DEF IdentRow
      <4> QED
        BY <1>4, <4>2 DEF Backed
    <3> QED
      BY <1>4, <2>4, <3>1
  <2>3. RunBacked(tree, lost, job'[o])
    <3>1. CASE job'[o] = Idle
      BY <3>1, IdleBacked
    <3>2. CASE SameRun(job'[o], job[o])
      BY <1>7, <2>1, <3>2
    <3> QED
      BY <2>1, <3>1, <3>2
  <2> QED
    BY <1>3, <2>1, <2>2, <2>3
<1>10. ASSUME NEW drifted \in BOOLEAN, Conclude(o, drifted) PROVE DeadInv'
  <2>1. /\ UNCHANGED <<tree, lost>> /\ Others(o) /\ job[o].at = "conclude"
        /\ SameRun(job'[o], job[o])
        /\ \A u \in Uri :
              \/ u \in DeadOf(job[o]) /\ ident'[u] = Retired(ident[u])
              \/ \E s \in At(job[o], u) : ident'[u] = Redigested(ident[u], s)
              \/ ident'[u] = ident[u]
    BY <1>10, ConcludeStep
  <2>2. ASSUME NEW u \in Uri PROVE Backed(tree, lost, u, ident'[u])
    <3>1. ident[u] \in IdentRow
      BY DEF Typed
    <3>2. CASE u \in DeadOf(job[o]) /\ ident'[u] = Retired(ident[u])
      <4>1. u \in lost
        BY <1>4, <2>1, <3>2, DeadIsMissing DEF RunBacked
      <4>2. ident'[u].digest.ext = 0
        BY <3>1, <3>2 DEF Retired, Reason, IdentRow
      <4> QED
        BY <4>1, <4>2 DEF Backed
    <3>3. ASSUME NEW s \in At(job[o], u), ident'[u] = Redigested(ident[u], s)
          PROVE  Backed(tree, lost, u, ident'[u])
      <4>1. s.uri = u /\ Witnessed(tree, lost, s)
        BY <1>4 DEF RunBacked, At
      <4>2. /\ ident'[u].status = "active" /\ ident'[u].digest = s.digest
            /\ ident'[u].path = s.path
        BY <3>1, <3>3 DEF Redigested, IdentRow
      <4> QED
        BY <4>1, <4>2 DEF Witnessed, Backed
    <3> QED
      BY <1>4, <2>1, <3>2, <3>3
  <2> QED
    BY <1>3, <1>7, <2>1, <2>2
<1>11. CASE ConclusionRefused(o) \/ SaveSnapshot(o) \/ Kill(o)
  <2>1. UNCHANGED <<tree, lost, ident>> /\ Others(o) /\ job'[o] = Idle
    BY <1>11, EndStep DEF store, history
  <2> QED
    BY <1>3, <1>4, <2>1, IdleBacked
<1> QED
  BY <1>2, <1>5, <1>6, <1>8, <1>9, <1>10, <1>11

\* DeadWasGone, with any number of operators: absence is not death, whatever
\* crashes, is not selected, is too large to read or was upgraded (_exemption_for).
THEOREM NoDeathByAbsence == Spec => []DeadWasGone
<1>1. Init => Typed /\ DeadInv
  <2> SUFFICES ASSUME Init PROVE Typed /\ DeadInv
    OBVIOUS
  <2>1. \A u \in Uri : ident[u] = NoIdent
    BY DEF Init
  <2>2. \A o \in Operator : job[o] = Idle
    BY DEF Init
  <2>3. \A u \in Uri : Backed(tree, lost, u, ident[u])
    BY <2>1 DEF Backed, NoIdent, NoDigest
  <2> QED
    BY <2>2, <2>3, TypedInit, IdleBacked DEF DeadInv
<1>2. Typed /\ DeadInv /\ [Next]_vars => (Typed /\ DeadInv)'
  <2>1. Typed /\ DeadInv /\ UNCHANGED vars => DeadInv'
    BY DEF vars, store, history, DeadInv
  <2> QED
    BY <2>1, TypedStep, DeadInvStep
<1>3. DeadInv => DeadWasGone
  BY DEF DeadInv, Backed, DeadWasGone
<1> QED
  BY <1>1, <1>2, <1>3, PTL DEF Spec

-----------------------------------------------------------------------------
(* What a run holds, whatever other runs do: rows are never taken away, what  *)
(* was seen is what is declared until the run ends, and the packs still to be *)
(* written are the ones whose referents may be unknown.                       *)

RowOK(row) ==
    /\ ~Known(row) => row = NoIdent
    /\ Live(row) => row.digest.ext \in Extractor

Reads(t, v, r) ==
    /\ r.at \notin Extracted => r.seen = {}
    /\ r.at \in Extracted =>
          /\ \A s \in r.seen :
                \E p \in Place : /\ p = <<s.uri, s.ext, s.path>>
                                 /\ t[p] # 0 /\ s.ext \in r.ran
                                 /\ s.digest = [ext |-> s.ext, ver |-> v, attr |-> t[p]]
          /\ Whole(r) => \A p \in Place : t[p] # 0 => p[1] \in Seen(r)

Writes(rows, r) ==
    /\ r.at = "extract" => r.todo = r.ran
    /\ r.at \in {"moves", "conclude", "snapshot"} => r.todo = {}
    /\ r.at \in Extracted => \A s \in r.seen : s.ext \in r.todo \/ Known(rows[s.uri])

RunOK(t, v, rows, r) ==
    /\ \A u \in Uri : RowOK(r.before[u])
    /\ \A u \in Uri : Known(r.before[u]) => Known(rows[u])
    /\ Reads(t, v, r)
    /\ Writes(rows, r)

BaseInv ==
    /\ \A u \in Uri : RowOK(ident[u])
    /\ \A o \in Operator : RunOK(tree, version, ident, job[o])

LEMMA IdleOK == \A t, v, rows : RunOK(t, v, rows, Idle)
<1>1. /\ \A u \in Uri : Idle.before[u] = NoIdent
      /\ Idle.at = "idle" /\ Idle.seen = {}
  BY DEF Idle
<1>2. RowOK(NoIdent) /\ ~Known(NoIdent)
  BY DEF RowOK, NoIdent, Known, Live
<1> QED
  BY <1>1, <1>2 DEF RunOK, Reads, Writes, Extracted

LEMMA LiveRow ==
    ASSUME NEW row \in IdentRow, row.status = "active", row.digest \in Digest
    PROVE  RowOK(row) /\ Known(row)
BY DEF RowOK, Known, Live, Digest

\* Nothing a run holds is lost when other rows become known.
LEMMA RowsGrow ==
    ASSUME NEW t, NEW v, NEW a, NEW b, NEW r,
           \A s \in r.seen : s.uri \in Uri,
           \A u \in Uri : Known(a[u]) => Known(b[u]),
           RunOK(t, v, a, r)
    PROVE  RunOK(t, v, b, r)
BY DEF RunOK, Writes

LEMMA SeenUri ==
    ASSUME Typed, NEW o \in Operator
    PROVE  /\ job[o].seen \subseteq Sighting
           /\ \A s \in job[o].seen : s.uri \in Uri /\ s.digest \in Digest
BY DEF Typed, JobRow, Sighting

LEMMA BaseInvStep == ASSUME Typed, BaseInv, Next PROVE BaseInv'
<1>1. CASE \/ \E p \in Place, attr \in Attr \cup {0} : Edit(p, attr)
           \/ \E f \in File : Reformat(f)
           \/ Upgrade
  <2>1. UNCHANGED <<job, ident>> /\ \A o \in Operator : job[o].at \in {"idle", "extract"}
    BY <1>1, RepositoryStep DEF store
  <2>2. ASSUME NEW o \in Operator PROVE RunOK(tree', version', ident, job[o])
    BY <2>1 DEF BaseInv, RunOK, Reads, Extracted
  <2> QED
    BY <2>1, <2>2 DEF BaseInv
<1>2. SUFFICES ASSUME NEW o \in Operator,
                      \/ \E verb \in {"map", "refresh"}, ran \in SUBSET Extractor :
                            Begin(o, verb, ran)
                      \/ \E failed \in SUBSET Extractor, oversized \in SUBSET File :
                            Extract(o, failed, oversized)
                      \/ \E x \in Extractor : ObservePack(o, x)
                      \/ RecordMoves(o)
                      \/ \E drifted \in BOOLEAN : Conclude(o, drifted)
                      \/ ConclusionRefused(o) \/ SaveSnapshot(o) \/ Kill(o)
               PROVE  BaseInv'
  BY <1>1, StepKinds
<1>3. ASSUME UNCHANGED <<tree, version>>, Others(o),
             RunOK(tree, version, ident', job'[o]),
             \A u \in Uri : RowOK(ident'[u]),
             \A u \in Uri : Known(ident[u]) => Known(ident'[u])
      PROVE  BaseInv'
  <2>1. ASSUME NEW p \in Operator \ {o} PROVE RunOK(tree, version, ident', job[p])
    <3>1. RunOK(tree, version, ident, job[p])
      BY DEF BaseInv
    <3>2. \A s \in job[p].seen : s.uri \in Uri
      BY SeenUri
    <3> QED
      BY <1>3, <3>1, <3>2, RowsGrow
  <2> QED
    BY <1>3, <2>1 DEF BaseInv, Others
<1>4. /\ \A u \in Uri : RowOK(ident[u])
      /\ RunOK(tree, version, ident, job[o])
  BY DEF BaseInv
<1>5. ASSUME NEW verb \in {"map", "refresh"}, NEW ran \in SUBSET Extractor,
             Begin(o, verb, ran)
      PROVE  BaseInv'
  <2>1. /\ job'[o].at = "extract" /\ job'[o].before = ident /\ job'[o].seen = {}
        /\ job'[o].ran = ran /\ job'[o].todo = ran
        /\ UNCHANGED <<tree, version, ident>> /\ Others(o)
    BY <1>5, BeginStep DEF store
  <2>2. RunOK(tree, version, ident, job'[o])
    BY <1>4, <2>1 DEF RunOK, Reads, Writes, Extracted
  <2> QED
    BY <1>3, <1>4, <2>1, <2>2
<1>6. ASSUME NEW failed \in SUBSET Extractor, NEW oversized \in SUBSET File,
             Extract(o, failed, oversized)
      PROVE  BaseInv'
  <2> DEFINE r == job'[o]
             ran == job[o].ran \ failed
  <2>1. /\ UNCHANGED <<tree, version, ident>> /\ Others(o)
        /\ job[o].at = "extract" /\ r.at = "observe"
        /\ r.ran = job[o].ran /\ r.todo = job[o].todo /\ r.before = job[o].before
        /\ r.seen = Sightings(ran, oversized)
        /\ r.failed = failed /\ r.oversized = oversized
    BY <1>6, ExtractStep, ZenonT(60) DEF store
  <2>2. \A s \in r.seen :
           \E p \in Place : /\ p = <<s.uri, s.ext, s.path>>
                            /\ tree[p] # 0 /\ s.ext \in r.ran
                            /\ s.digest = [ext |-> s.ext, ver |-> version, attr |-> tree[p]]
    BY <2>1, SightingsOf
  <2>3. ASSUME Whole(r), NEW p \in Place, tree[p] # 0 PROVE p[1] \in Seen(r)
    <3>1. p[2] \in ran /\ p[3] \notin oversized
      BY <2>1, <2>3, Places DEF Whole
    <3>2. [uri |-> p[1], ext |-> p[2], path |-> p[3],
           digest |-> [ext |-> p[2], ver |-> version, attr |-> tree[p]]] \in r.seen
      BY <2>1, <2>3, <3>1, SightingsOf
    <3> QED
      BY <3>2 DEF Seen
  <2>4. Reads(tree, version, r)
    BY <2>1, <2>2, <2>3 DEF Reads, Extracted
  <2>5. \A s \in r.seen : s.ext \in r.todo
    BY <1>4, <2>1, <2>2 DEF RunOK, Writes
  <2>6. RunOK(tree, version, ident, r)
    BY <1>4, <2>1, <2>4, <2>5 DEF RunOK, Writes
  <2> QED
    BY <1>3, <1>4, <2>1, <2>6
<1>7. ASSUME SameRun(job'[o], job[o]), job[o].at \in Extracted, job'[o].at \in Extracted
      PROVE  Reads(tree, version, job'[o])
  BY <1>4, <1>7 DEF RunOK, Reads, SameRun, Whole, Seen
<1>8. ASSUME NEW x \in Extractor, ObservePack(o, x) PROVE BaseInv'
  <2> DEFINE r == job'[o]
  <2>1. /\ UNCHANGED <<tree, version>> /\ Others(o)
        /\ SameRun(r, job[o]) /\ job[o].at = "observe" /\ r.todo = job[o].todo \ {x}
        /\ r.at = "observe" \/ (r.at = "moves" /\ job[o].todo = {x})
    BY <1>8, ObserveStep
  <2>2. \A u \in Uri :
           \/ /\ ident'[u] = ident[u]
              /\ Known(ident[u]) \/ \A s \in job[o].seen : s.uri = u => s.ext # x
           \/ /\ ~Known(ident[u])
              /\ \E s \in job[o].seen : s.uri = u /\ s.ext = x /\ ident'[u] = Created(u, s)
    BY <1>8, ObserveStep
  <2>3. ASSUME NEW u \in Uri, NEW s \in job[o].seen, ident'[u] = Created(u, s)
        PROVE  RowOK(ident'[u]) /\ Known(ident'[u])
    BY <2>3, SeenUri, CreatedRow, LiveRow
  <2>4. \A u \in Uri : RowOK(ident'[u]) /\ (Known(ident[u]) => Known(ident'[u]))
    BY <1>4, <2>2, <2>3
  <2>5. ASSUME NEW s \in job[o].seen PROVE s.ext \in r.todo \/ Known(ident'[s.uri])
    <3>1. s.uri \in Uri /\ (s.ext \in job[o].todo \/ Known(ident[s.uri]))
      BY <1>4, <2>1, SeenUri DEF RunOK, Writes, Extracted
    <3>2. CASE s.ext = x
      <4>1. ident'[s.uri] = ident[s.uri] => Known(ident[s.uri])
        BY <2>2, <2>3, <3>1, <3>2
      <4> QED
        BY <2>2, <2>3, <3>1, <4>1
    <3>3. CASE s.ext # x
      BY <2>1, <2>4, <3>1, <3>3
    <3> QED
      BY <3>2, <3>3
  <2>6. RunOK(tree, version, ident', r)
    <3>1. Reads(tree, version, r)
      BY <1>7, <2>1 DEF Extracted
    <3>2. Writes(ident', r)
      BY <2>1, <2>5 DEF Writes, SameRun
    <3> QED
      BY <1>4, <2>1, <2>4, <3>1, <3>2 DEF RunOK, SameRun
  <2> QED
    BY <1>3, <2>1, <2>4, <2>6
<1>9. CASE RecordMoves(o)
  <2> DEFINE r == job'[o]
  <2>1. /\ UNCHANGED <<tree, version>> /\ Others(o) /\ job[o].at = "moves"
        /\ r = Idle \/ (SameRun(r, job[o]) /\ r.todo = job[o].todo /\ r.at = "conclude")
    BY <1>9, MovesStep
  <2>2. \A u \in Uri :
           \/ u \notin MovedFrom(job[o]) /\ ident'[u] = ident[u]
           \/ \E m \in Moves(job[o]) :
                 /\ m[1] = u
                 /\ ident'[u] = [ident[u] EXCEPT !.status = "moved", !.alias = m[2]]
    BY <1>9, MovesStep
  <2>3. ASSUME NEW u \in Uri, NEW m \in Moves(job[o]),
               ident'[u] = [ident[u] EXCEPT !.status = "moved", !.alias = m[2]]
        PROVE  RowOK(ident'[u]) /\ Known(ident'[u])
    <3>1. ident[u] \in IdentRow
      BY DEF Typed
    <3>2. ident'[u].status = "moved"
      BY <2>3, <3>1 DEF IdentRow
    <3> QED
      BY <3>2 DEF RowOK, Known, Live
  <2>4. \A u \in Uri : RowOK(ident'[u]) /\ (Known(ident[u]) => Known(ident'[u]))
    BY <1>4, <2>2, <2>3
  <2>5. CASE r = Idle
    <3>1. RunOK(tree, version, ident', r)
      BY <2>5, IdleOK
    <3> QED
      BY <1>3, <2>1, <2>4, <3>1
  <2>6. CASE SameRun(r, job[o]) /\ r.todo = job[o].todo /\ r.at = "conclude"
    <3>1. Reads(tree, version, r)
      BY <1>7, <2>1, <2>6 DEF Extracted
    <3>2. \A s \in job[o].seen : s.uri \in Uri /\ Known(ident[s.uri])
      BY <1>4, <2>1, SeenUri DEF RunOK, Writes, Extracted
    <3>3. Writes(ident', r)
      BY <1>4, <2>1, <2>4, <2>6, <3>2 DEF RunOK, Writes, SameRun
    <3>4. RunOK(tree, version, ident', r)
      BY <1>4, <2>4, <2>6, <3>1, <3>3 DEF RunOK, SameRun
    <3> QED
      BY <1>3, <2>1, <2>4, <3>4
  <2> QED
    BY <2>1, <2>5, <2>6
<1>10. ASSUME NEW drifted \in BOOLEAN, Conclude(o, drifted) PROVE BaseInv'
  <2> DEFINE r == job'[o]
  <2>1. /\ UNCHANGED <<tree, version>> /\ Others(o) /\ job[o].at = "conclude"
        /\ SameRun(r, job[o]) /\ r.at = "snapshot" /\ r.todo = job[o].todo
    BY <1>10, ConcludeStep
  <2>2. \A u \in Uri :
           \/ ident'[u] = Retired(ident[u])
           \/ \E s \in At(job[o], u) : ident'[u] = Redigested(ident[u], s)
           \/ ident'[u] = ident[u]
    BY <1>10, ConcludeStep
  <2>3. ASSUME NEW u \in Uri PROVE RowOK(ident'[u]) /\ (Known(ident[u]) => Known(ident'[u]))
    <3>1. ident[u] \in IdentRow
      BY DEF Typed
    <3>2. CASE ident'[u] = Retired(ident[u])
      <4>1. ident'[u].status = "dead"
        BY <3>1, <3>2 DEF Retired, IdentRow
      <4> QED
        BY <4>1 DEF RowOK, Known, Live
    <3>3. ASSUME NEW s \in At(job[o], u), ident'[u] = Redigested(ident[u], s)
          PROVE  RowOK(ident'[u]) /\ Known(ident'[u])
      <4>1. s \in Sighting
        BY SeenUri DEF At
      <4>2. /\ ident'[u] \in IdentRow
            /\ ident'[u].status = "active" /\ ident'[u].digest = s.digest
        BY <3>1, <3>3, <4>1 DEF Redigested, IdentRow, Sighting
      <4> QED
        BY <4>1, <4>2, LiveRow DEF Sighting
    <3> QED
      BY <1>4, <2>2, <3>2, <3>3
  <2>4. RunOK(tree, version, ident', r)
    <3>1. Reads(tree, version, r)
      BY <1>7, <2>1 DEF Extracted
    <3>2. \A s \in job[o].seen : s.uri \in Uri /\ Known(ident[s.uri])
      BY <1>4, <2>1, SeenUri DEF RunOK, Writes, Extracted
    <3>3. Writes(ident', r)
      BY <1>4, <2>1, <2>3, <3>2 DEF RunOK, Writes, SameRun
    <3> QED
      BY <1>4, <2>1, <2>3, <3>1, <3>3 DEF RunOK, SameRun
  <2> QED
    BY <1>3, <2>1, <2>3, <2>4
<1>11. CASE ConclusionRefused(o) \/ SaveSnapshot(o) \/ Kill(o)
  <2>1. UNCHANGED <<tree, version, ident>> /\ Others(o) /\ job'[o] = Idle
    BY <1>11, EndStep DEF store
  <2>2. RunOK(tree, version, ident, job'[o])
    BY <2>1, IdleOK
  <2> QED
    BY <1>3, <1>4, <2>1, <2>2
<1> QED
  BY <1>2, <1>5, <1>6, <1>8, <1>9, <1>10, <1>11

-----------------------------------------------------------------------------
(* With one operator, what was read before the run still describes the store  *)
(* until the run itself writes it.  An alias then leads from a referent the    *)
(* run knew to one it did not, so no chain of aliases closes.                *)

\* adopt refresh is run by one person at a time.
OneOperator == \A o, p \in Operator : o = p

Since(rows, r) ==
    /\ r.at \in {"extract", "observe", "moves"} =>
          \A u \in Uri : Known(r.before[u]) => rows[u] = r.before[u]
    /\ r.at = "conclude" =>
          \A u \in Uri : Known(r.before[u]) =>
             \/ u \in MovedFrom(r) /\ rows[u].status = "moved"
             \/ u \notin MovedFrom(r) /\ rows[u] = r.before[u]
    /\ r.at \in Working =>
          \A u \in Uri : ~Known(r.before[u]) =>
             \/ rows[u] = NoIdent
             \/ Live(rows[u]) /\ \E s \in At(r, u) : rows[u].digest = s.digest

SinceInv == \A o \in Operator : Since(ident, job[o])

LEMMA MovesSame ==
    ASSUME NEW r, NEW s, SameRun(r, s)
    PROVE  Moves(r) = Moves(s) /\ MovedFrom(r) = MovedFrom(s) /\ \A u : At(r, u) = At(s, u)
<1>1. \A u : At(r, u) = At(s, u)
  BY DEF SameRun, At
<1>2. Disappeared(r) = Disappeared(s) /\ Appeared(r) = Appeared(s)
  BY DEF SameRun, Disappeared, Appeared, Seen
<1>3. \A d : Gone(r, d) = Gone(s, d)
  BY <1>2 DEF SameRun, Gone
<1>4. \A d : Arrived(r, d) = Arrived(s, d)
  BY <1>1, <1>2 DEF Arrived
<1>5. Moves(r) = Moves(s)
  <2>1. r.before = s.before
    BY DEF SameRun
  <2>2. \A m : m \in Moves(r) <=> m \in Moves(s)
    BY <1>2, <1>3, <1>4, <2>1 DEF Moves
  <2> QED
    BY <2>2
<1> QED
  BY <1>1, <1>5 DEF MovedFrom

LEMMA SinceStep ==
    ASSUME OneOperator, Typed, BaseInv, SinceInv, Next PROVE SinceInv'
<1>1. CASE \/ \E p \in Place, attr \in Attr \cup {0} : Edit(p, attr)
           \/ \E f \in File : Reformat(f)
           \/ Upgrade
  BY <1>1, RepositoryStep DEF store, SinceInv
<1>2. SUFFICES ASSUME NEW o \in Operator,
                      \/ \E verb \in {"map", "refresh"}, ran \in SUBSET Extractor :
                            Begin(o, verb, ran)
                      \/ \E failed \in SUBSET Extractor, oversized \in SUBSET File :
                            Extract(o, failed, oversized)
                      \/ \E x \in Extractor : ObservePack(o, x)
                      \/ RecordMoves(o)
                      \/ \E drifted \in BOOLEAN : Conclude(o, drifted)
                      \/ ConclusionRefused(o) \/ SaveSnapshot(o) \/ Kill(o)
               PROVE  Since(ident', job'[o])
  BY <1>1, StepKinds DEF OneOperator, SinceInv
<1>3. Since(ident, job[o]) /\ RunOK(tree, version, ident, job[o])
  BY DEF SinceInv, BaseInv
<1>4. ASSUME NEW verb \in {"map", "refresh"}, NEW ran \in SUBSET Extractor,
             Begin(o, verb, ran)
      PROVE  Since(ident', job'[o])
  <2>1. job'[o].at = "extract" /\ job'[o].before = ident /\ UNCHANGED ident
    BY <1>4, BeginStep DEF store
  <2>2. \A u \in Uri : ~Known(ident[u]) => ident[u] = NoIdent
    BY DEF BaseInv, RowOK
  <2> QED
    BY <2>1, <2>2 DEF Since
<1>5. ASSUME NEW failed \in SUBSET Extractor, NEW oversized \in SUBSET File,
             Extract(o, failed, oversized)
      PROVE  Since(ident', job'[o])
  <2>1. /\ job[o].at = "extract" /\ job'[o].at = "observe"
        /\ job'[o].before = job[o].before /\ UNCHANGED ident
    BY <1>5, ExtractStep DEF store
  <2>2. job[o].seen = {}
    BY <1>3, <2>1 DEF RunOK, Reads, Extracted
  <2>3. \A u \in Uri : ~Known(job[o].before[u]) => ident[u] = NoIdent
    BY <1>3, <2>1, <2>2 DEF Since, Working, At
  <2> QED
    BY <1>3, <2>1, <2>3 DEF Since
<1>6. ASSUME NEW x \in Extractor, ObservePack(o, x) PROVE Since(ident', job'[o])
  <2> DEFINE r == job'[o]
  <2>1. /\ SameRun(r, job[o]) /\ job[o].at = "observe" /\ r.at \in {"observe", "moves"}
    BY <1>6, ObserveStep
  <2>2. \A u \in Uri :
           \/ ident'[u] = ident[u]
           \/ /\ ~Known(ident[u])
              /\ \E s \in job[o].seen : s.uri = u /\ s.ext = x /\ ident'[u] = Created(u, s)
    BY <1>6, ObserveStep
  <2>3. ASSUME NEW u \in Uri, Known(job[o].before[u]) PROVE ident'[u] = job[o].before[u]
    BY <1>3, <2>1, <2>2, <2>3 DEF Since, RunOK
  <2>4. ASSUME NEW u \in Uri, ~Known(job[o].before[u])
        PROVE  \/ ident'[u] = NoIdent
               \/ Live(ident'[u]) /\ \E s \in At(job[o], u) : ident'[u].digest = s.digest
    <3>1. CASE ident'[u] = ident[u]
      BY <1>3, <2>1, <2>4, <3>1 DEF Since, Working
    <3>2. ASSUME NEW s \in job[o].seen, s.uri = u, ident'[u] = Created(u, s)
          PROVE  Live(ident'[u]) /\ s \in At(job[o], u) /\ ident'[u].digest = s.digest
      <4>1. s \in Sighting
        BY SeenUri
      <4> QED
        BY <3>2, <4>1, CreatedRow DEF Live, At
    <3> QED
      BY <2>2, <3>1, <3>2
  <2>5. r.before = job[o].before /\ \A u : At(r, u) = At(job[o], u)
    BY <2>1, MovesSame DEF SameRun
  <2> QED
    BY <2>1, <2>3, <2>4, <2>5 DEF Since
<1>7. CASE RecordMoves(o)
  <2> DEFINE r == job'[o]
  <2>1. /\ job[o].at = "moves"
        /\ r = Idle \/ (SameRun(r, job[o]) /\ r.at = "conclude")
    BY <1>7, MovesStep
  <2>2. \A u \in Uri :
           \/ u \notin MovedFrom(job[o]) /\ ident'[u] = ident[u]
           \/ \E m \in Moves(job[o]) :
                 /\ m[1] = u
                 /\ ident'[u] = [ident[u] EXCEPT !.status = "moved", !.alias = m[2]]
    BY <1>7, MovesStep
  <2>3. ASSUME NEW u \in Uri, NEW m \in Moves(job[o]), m[1] = u,
               ident'[u] = [ident[u] EXCEPT !.status = "moved", !.alias = m[2]]
        PROVE  u \in MovedFrom(job[o]) /\ ident'[u].status = "moved" /\ Known(job[o].before[u])
    <3>1. ident[u] \in IdentRow
      BY DEF Typed
    <3>2. ident'[u].status = "moved"
      BY <2>3, <3>1 DEF IdentRow
    <3>3. Live(job[o].before[u])
      BY <2>3, MovePairs
    <3> QED
      BY <2>3, <3>2, <3>3 DEF MovedFrom, Live, Known
  <2>4. CASE r = Idle
    <3>1. r.at = "idle"
      BY <2>4 DEF Idle
    <3> QED
      BY <3>1 DEF Since, Working
  <2>5. CASE SameRun(r, job[o]) /\ r.at = "conclude"
    <3>1. /\ r.before = job[o].before /\ MovedFrom(r) = MovedFrom(job[o])
          /\ \A u : At(r, u) = At(job[o], u)
      BY <2>5, MovesSame DEF SameRun
    <3>2. ASSUME NEW u \in Uri, Known(r.before[u])
          PROVE  \/ u \in MovedFrom(r) /\ ident'[u].status = "moved"
                 \/ u \notin MovedFrom(r) /\ ident'[u] = r.before[u]
      BY <1>3, <2>1, <2>2, <2>3, <3>1, <3>2 DEF Since
    <3>3. ASSUME NEW u \in Uri, ~Known(r.before[u])
          PROVE  \/ ident'[u] = NoIdent
                 \/ Live(ident'[u]) /\ \E s \in At(r, u) : ident'[u].digest = s.digest
      <4>1. ident'[u] = ident[u]
        BY <2>2, <2>3, <3>1, <3>3
      <4> QED
        BY <1>3, <2>1, <3>1, <3>3, <4>1 DEF Since, Working
    <3> QED
      BY <2>5, <3>2, <3>3 DEF Since
  <2> QED
    BY <2>1, <2>4, <2>5
<1>8. ASSUME NEW drifted \in BOOLEAN, Conclude(o, drifted) PROVE Since(ident', job'[o])
  <2>1. job'[o].at = "snapshot"
    BY <1>8, ConcludeStep
  <2> QED
    BY <2>1 DEF Since, Working
<1>9. CASE ConclusionRefused(o) \/ SaveSnapshot(o) \/ Kill(o)
  <2>1. job'[o].at = "idle"
    BY <1>9, EndStep DEF Idle
  <2> QED
    BY <2>1 DEF Since, Working
<1> QED
  BY <1>2, <1>4, <1>5, <1>6, <1>7, <1>8, <1>9

AliasOK(rows) ==
    \A u \in Uri : rows[u].status = "moved" =>
        rows[u].alias \in Uri /\ Known(rows[rows[u].alias])

MovedRows(rows) == {u \in Uri : rows[u].status = "moved"}

Leads(rows) ==
    /\ \A u, w \in MovedRows(rows) : rows[u].alias = rows[w].alias => u = w
    /\ \A S \in SUBSET MovedRows(rows) : S # {} => {rows[u].alias : u \in S} # S

\* The moves one run records, over rows a whose aliases lead somewhere.
LEMMA MovesLead ==
    ASSUME NEW r, NEW a, NEW b, Leads(a), AliasOK(r.before), Seen(r) \subseteq Uri,
           \A u \in Uri : Known(r.before[u]) => a[u] = r.before[u],
           \A u \in Uri : ~Known(r.before[u]) => a[u].status # "moved",
           \A u \in Uri :
              \/ u \notin MovedFrom(r) /\ b[u] = a[u]
              \/ \E m \in Moves(r) : m[1] = u /\ b[u].status = "moved" /\ b[u].alias = m[2]
    PROVE  Leads(b)
<1>1. ASSUME NEW m \in Moves(r)
      PROVE  /\ m[1] \in Uri /\ Known(r.before[m[1]]) /\ m[1] \notin MovedRows(a)
             /\ m[2] \in Uri /\ ~Known(r.before[m[2]]) /\ m[2] \notin MovedRows(b)
  <2>1. /\ m[1] \in Uri /\ Live(r.before[m[1]])
        /\ m[2] \in Uri /\ ~Known(r.before[m[2]])
    BY MovePairs
  <2>2. \A n \in Moves(r) : n[1] # m[2]
    BY <2>1, MovePairs DEF Live, Known
  <2>3. b[m[2]] = a[m[2]]
    BY <2>1, <2>2
  <2> QED
    BY <2>1, <2>3 DEF MovedRows, Live, Known
<1>2. ASSUME NEW u \in MovedRows(b)
      PROVE  \/ u \in MovedRows(a) /\ b[u] = a[u]
             \/ \E m \in Moves(r) : m[1] = u /\ b[u].alias = m[2]
  BY DEF MovedRows
<1>3. ASSUME NEW u \in MovedRows(a)
      PROVE  /\ u \in Uri /\ Known(r.before[u]) /\ r.before[u].status = "moved"
             /\ a[u].alias \in Uri /\ Known(r.before[a[u].alias])
  BY DEF MovedRows, AliasOK
<1>4. ASSUME NEW u \in MovedRows(b), NEW w \in MovedRows(b), b[u].alias = b[w].alias
      PROVE  u = w
  <2>1. CASE u \in MovedRows(a) /\ b[u] = a[u] /\ w \in MovedRows(a) /\ b[w] = a[w]
    BY <1>4, <2>1 DEF Leads
  <2>2. ASSUME NEW m \in Moves(r), m[1] = u, b[u].alias = m[2],
               w \in MovedRows(a) /\ b[w] = a[w]
        PROVE  FALSE
    <3>1. a[w].alias = m[2]
      BY <1>4, <2>2
    <3>2. Known(r.before[a[w].alias])
      BY <1>3, <2>2
    <3> QED
      BY <1>1, <2>2, <3>1, <3>2
  <2>3. ASSUME NEW m \in Moves(r), m[1] = w, b[w].alias = m[2],
               u \in MovedRows(a) /\ b[u] = a[u]
        PROVE  FALSE
    BY <1>1, <1>3, <1>4, <2>3
  <2>4. ASSUME NEW m \in Moves(r), m[1] = u, b[u].alias = m[2],
               NEW n \in Moves(r), n[1] = w, b[w].alias = n[2]
        PROVE  u = w
    <3> DEFINE d == r.before[u].digest
               e == r.before[w].digest
    <3>1. /\ Gone(r, d) = {u} /\ Arrived(r, d) = {m[2]}
          /\ Gone(r, e) = {w} /\ Arrived(r, e) = {n[2]}
      BY <2>4, MovePairs, SMTT(30)
    <3>2. m[2] = n[2]
      BY <1>4, <2>4
    <3>3. d = Last(At(r, m[2])).digest /\ e = Last(At(r, m[2])).digest
      <4> HIDE DEF d, e
      <4>1. m[2] \in Arrived(r, d) /\ m[2] \in Arrived(r, e)
        BY <3>1, <3>2
      <4> QED
        BY <4>1 DEF Arrived
    <3> QED
      BY <3>1, <3>3
  <2> QED
    BY <1>2, <2>1, <2>2, <2>3, <2>4
<1>5. ASSUME NEW S \in SUBSET MovedRows(b), S # {}, {b[u].alias : u \in S} = S
      PROVE  FALSE
  <2>1. ASSUME NEW m \in Moves(r), m[1] \in S, b[m[1]].alias = m[2] PROVE FALSE
    <3>1. m[2] \in S
      BY <1>5, <2>1
    <3> QED
      BY <1>1, <3>1
  <2>2. \A u \in S : u \in MovedRows(a) /\ b[u] = a[u]
    BY <1>2, <2>1
  <2>3. {a[u].alias : u \in S} = S
    BY <1>5, <2>2
  <2> QED
    BY <1>5, <2>2, <2>3 DEF Leads
<1> QED
  BY <1>4, <1>5 DEF Leads

\* Rows that stay moved keep their alias, and none is added.
LEMMA LeadsFewer ==
    ASSUME NEW a, NEW b, Leads(a),
           \A u \in Uri : b[u].status = "moved" => b[u] = a[u]
    PROVE  Leads(b)
<1>1. \A u \in MovedRows(b) : u \in MovedRows(a) /\ b[u] = a[u]
  BY DEF MovedRows
<1>2. ASSUME NEW S \in SUBSET MovedRows(b), S # {} PROVE {b[u].alias : u \in S} # S
  <2>1. {b[u].alias : u \in S} = {a[u].alias : u \in S}
    BY <1>1
  <2>2. S \in SUBSET MovedRows(a)
    BY <1>1
  <2> QED
    BY <1>2, <2>1, <2>2 DEF Leads
<1>3. \A u, w \in MovedRows(b) : b[u].alias = b[w].alias => u = w
  BY <1>1 DEF Leads
<1> QED
  BY <1>2, <1>3 DEF Leads

AliasFewerOK(a, b) ==
    \A u \in Uri : /\ Known(a[u]) => Known(b[u])
                   /\ b[u].status = "moved" => b[u] = a[u]

LEMMA AliasFewer ==
    ASSUME NEW a, NEW b, AliasOK(a), AliasFewerOK(a, b)
    PROVE  AliasOK(b)
BY DEF AliasOK, AliasFewerOK

AliasInv ==
    /\ AliasOK(ident) /\ Leads(ident)
    /\ \A o \in Operator : AliasOK(job[o].before)

LEMMA AliasInvStep ==
    ASSUME OneOperator, Typed, BaseInv, SinceInv, AliasInv, Next PROVE AliasInv'
<1>1. CASE \/ \E p \in Place, attr \in Attr \cup {0} : Edit(p, attr)
           \/ \E f \in File : Reformat(f)
           \/ Upgrade
  BY <1>1, RepositoryStep DEF store, AliasInv
<1>2. SUFFICES ASSUME NEW o \in Operator,
                      \/ \E verb \in {"map", "refresh"}, ran \in SUBSET Extractor :
                            Begin(o, verb, ran)
                      \/ \E failed \in SUBSET Extractor, oversized \in SUBSET File :
                            Extract(o, failed, oversized)
                      \/ \E x \in Extractor : ObservePack(o, x)
                      \/ RecordMoves(o)
                      \/ \E drifted \in BOOLEAN : Conclude(o, drifted)
                      \/ ConclusionRefused(o) \/ SaveSnapshot(o) \/ Kill(o)
               PROVE  AliasOK(ident') /\ Leads(ident') /\ AliasOK(job'[o].before)
  BY <1>1, StepKinds DEF OneOperator, AliasInv
<1>3. /\ AliasOK(ident) /\ Leads(ident) /\ AliasOK(job[o].before)
      /\ Since(ident, job[o]) /\ RunOK(tree, version, ident, job[o])
  BY DEF AliasInv, SinceInv, BaseInv
<1>4. AliasOK(Idle.before)
  BY DEF Idle, AliasOK, NoIdent
<1>5. ASSUME AliasFewerOK(ident, ident') PROVE AliasOK(ident') /\ Leads(ident')
  <2>1. \A u \in Uri : ident'[u].status = "moved" => ident'[u] = ident[u]
    BY <1>5 DEF AliasFewerOK
  <2> QED
    BY <1>3, <1>5, <2>1, AliasFewer, LeadsFewer
<1>6. ASSUME NEW verb \in {"map", "refresh"}, NEW ran \in SUBSET Extractor,
             Begin(o, verb, ran)
      PROVE  AliasOK(ident') /\ Leads(ident') /\ AliasOK(job'[o].before)
  BY <1>3, <1>6, BeginStep DEF store
<1>7. ASSUME NEW failed \in SUBSET Extractor, NEW oversized \in SUBSET File,
             Extract(o, failed, oversized)
      PROVE  AliasOK(ident') /\ Leads(ident') /\ AliasOK(job'[o].before)
  BY <1>3, <1>7, ExtractStep DEF store
<1>8. ASSUME NEW x \in Extractor, ObservePack(o, x)
      PROVE  AliasOK(ident') /\ Leads(ident') /\ AliasOK(job'[o].before)
  <2>1. SameRun(job'[o], job[o])
    BY <1>8, ObserveStep
  <2>2. \A u \in Uri :
           \/ ident'[u] = ident[u]
           \/ ~Known(ident[u]) /\ \E s \in job[o].seen : s.uri = u /\ ident'[u] = Created(u, s)
    BY <1>8, ObserveStep
  <2>3. ASSUME NEW u \in Uri, NEW s \in job[o].seen, ident'[u] = Created(u, s)
        PROVE  ident'[u].status = "active"
    BY <2>3, SeenUri, CreatedRow
  <2>4. AliasFewerOK(ident, ident')
    BY <2>2, <2>3 DEF AliasFewerOK
  <2> QED
    BY <1>3, <1>5, <2>1, <2>4 DEF SameRun
<1>9. CASE RecordMoves(o)
  <2>1. /\ job[o].at = "moves"
        /\ job'[o] = Idle \/ SameRun(job'[o], job[o])
    BY <1>9, MovesStep
  <2>2. \A u \in Uri :
           \/ u \notin MovedFrom(job[o]) /\ ident'[u] = ident[u]
           \/ \E m \in Moves(job[o]) :
                 /\ m[1] = u
                 /\ ident'[u] = [ident[u] EXCEPT !.status = "moved", !.alias = m[2]]
    BY <1>9, MovesStep
  <2>3. ASSUME NEW u \in Uri, NEW m \in Moves(job[o]),
               ident'[u] = [ident[u] EXCEPT !.status = "moved", !.alias = m[2]]
        PROVE  ident'[u].status = "moved" /\ ident'[u].alias = m[2]
    <3>1. ident[u] \in IdentRow
      BY DEF Typed
    <3> QED
      BY <2>3, <3>1 DEF IdentRow
  <2>4. \A u \in Uri :
           \/ u \notin MovedFrom(job[o]) /\ ident'[u] = ident[u]
           \/ \E m \in Moves(job[o]) :
                 m[1] = u /\ ident'[u].status = "moved" /\ ident'[u].alias = m[2]
    BY <2>2, <2>3
  <2>5. /\ \A u \in Uri : Known(job[o].before[u]) => ident[u] = job[o].before[u]
        /\ \A u \in Uri : ~Known(job[o].before[u]) => ident[u].status # "moved"
    BY <1>3, <2>1 DEF Since, Working, NoIdent, Live
  <2>6. Seen(job[o]) \subseteq Uri
    BY SeenUri DEF Seen
  <2>7. Leads(ident')
    <3> HIDE DEF Leads
    <3> QED
      BY <1>3, <2>4, <2>5, <2>6, MovesLead
  <2>8. \A u \in Uri : Known(ident[u]) => Known(ident'[u])
    BY <2>4 DEF Known
  <2>9. \A m \in Moves(job[o]) : m[2] \in Uri /\ Known(ident'[m[2]])
    <3>1. ASSUME NEW m \in Moves(job[o]) PROVE m[2] \in Uri /\ Known(ident[m[2]])
      <4>1. PICK s \in job[o].seen : m[2] = s.uri
        BY MovePairs DEF Seen
      <4> QED
        BY <1>3, <2>1, <4>1, SeenUri DEF RunOK, Writes, Extracted
    <3> QED
      BY <2>8, <3>1
  <2>10. AliasOK(ident')
    BY <1>3, <2>4, <2>8, <2>9 DEF AliasOK
  <2>11. AliasOK(job'[o].before)
    BY <1>3, <1>4, <2>1 DEF SameRun
  <2> QED
    BY <2>7, <2>10, <2>11
<1>10. ASSUME NEW drifted \in BOOLEAN, Conclude(o, drifted)
       PROVE  AliasOK(ident') /\ Leads(ident') /\ AliasOK(job'[o].before)
  <2>1. SameRun(job'[o], job[o])
    BY <1>10, ConcludeStep
  <2>2. \A u \in Uri :
           \/ ident'[u] = Retired(ident[u])
           \/ \E s \in At(job[o], u) : ident'[u] = Redigested(ident[u], s)
           \/ ident'[u] = ident[u]
    BY <1>10, ConcludeStep
  <2>3. ASSUME NEW u \in Uri
        PROVE  \/ ident'[u] = ident[u]
               \/ ident'[u].status \in {"dead", "active"}
    <3>1. ident[u] \in IdentRow
      BY DEF Typed
    <3>2. CASE ident'[u] = Retired(ident[u])
      BY <3>1, <3>2 DEF Retired, IdentRow
    <3>3. ASSUME NEW s \in At(job[o], u), ident'[u] = Redigested(ident[u], s)
          PROVE  ident'[u].status = "active"
      BY <3>1, <3>3 DEF Redigested, IdentRow
    <3> QED
      BY <2>2, <3>2, <3>3
  <2>4. AliasFewerOK(ident, ident')
    BY <2>3 DEF AliasFewerOK, Known
  <2> QED
    BY <1>3, <1>5, <2>1, <2>4 DEF SameRun
<1>11. CASE ConclusionRefused(o) \/ SaveSnapshot(o) \/ Kill(o)
  BY <1>3, <1>4, <1>11, EndStep DEF store
<1> QED
  BY <1>2, <1>6, <1>7, <1>8, <1>9, <1>10, <1>11

OneInv == Typed /\ BaseInv /\ SinceInv /\ AliasInv

LEMMA OneInvInit == Init => OneInv
<1> SUFFICES ASSUME Init PROVE OneInv
  OBVIOUS
<1>1. /\ \A u \in Uri : ident[u] = NoIdent
      /\ \A o \in Operator : job[o] = Idle
  BY DEF Init
<1>2. BaseInv
  BY <1>1, IdleOK DEF BaseInv, RowOK, NoIdent, Known, Live
<1>3. SinceInv
  BY <1>1 DEF SinceInv, Since, Idle, Working
<1>4. AliasInv
  <2>1. AliasOK(ident) /\ MovedRows(ident) = {}
    BY <1>1 DEF AliasOK, MovedRows, NoIdent
  <2>2. Leads(ident)
    BY <2>1 DEF Leads
  <2> QED
    BY <1>1, <2>1, <2>2 DEF AliasInv, AliasOK, Idle, NoIdent
<1> QED
  BY <1>2, <1>3, <1>4, TypedInit DEF OneInv

LEMMA OneInvStep == ASSUME OneOperator, OneInv, [Next]_vars PROVE OneInv'
<1>1. CASE Next
  BY <1>1, TypedStep, BaseInvStep, SinceStep, AliasInvStep DEF OneInv
<1>2. CASE UNCHANGED vars
  BY <1>2 DEF vars, store, OneInv, Typed, BaseInv, SinceInv, AliasInv
<1> QED
  BY <1>1, <1>2

\* AliasesLead, with one operator: no two referents move to one destination and
\* the aliases never close a circle (the singleton pairing of detect_moves).
THEOREM AliasesLeadAway == ASSUME OneOperator PROVE Spec => []AliasesLead
<1>1. Init => OneInv
  BY OneInvInit
<1>2. OneInv /\ [Next]_vars => OneInv'
  BY OneInvStep
<1>3. OneInv => AliasesLead
  BY DEF OneInv, AliasInv, Leads, MovedRows, AliasesLead
<1> QED
  BY <1>1, <1>2, <1>3, PTL DEF Spec

-----------------------------------------------------------------------------
(* What is judged changed was edited.  A stored digest tells the attributes of  *)
(* its extractor's declaration, or that declaration was edited since; the       *)
(* cascade compares it with that extractor's own sighting or not at all.        *)

\* An extractor declares a referent in one file.
OnePlace == \A p, q \in Place : p[1] = q[1] /\ p[2] = q[2] => p = q

Matches(t, e, u, digest) ==
    digest.ext # 0 =>
        \/ <<u, digest.ext>> \in e
        \/ \E p \in Place : p[1] = u /\ p[2] = digest.ext /\ t[p] = digest.attr

MatchInv ==
    /\ \A u \in Uri : Matches(tree, edited, u, ident[u].digest)
    /\ \A o \in Operator : job[o].at \in Working =>
          \A u \in Uri : Matches(tree, edited, u, job[o].before[u].digest)

SeenPlaces(t, v, r) ==
    \A s \in r.seen :
        \E p \in Place : /\ p = <<s.uri, s.ext, s.path>> /\ t[p] # 0
                         /\ s.digest = [ext |-> s.ext, ver |-> v, attr |-> t[p]]

LEMMA SightingMatches ==
    ASSUME NEW t, NEW v, NEW r, SeenPlaces(t, v, r), NEW s \in r.seen, NEW e
    PROVE  Matches(t, e, s.uri, s.digest)
<1>1. PICK p \in Place : /\ p = <<s.uri, s.ext, s.path>> /\ t[p] # 0
                         /\ s.digest = [ext |-> s.ext, ver |-> v, attr |-> t[p]]
  BY DEF SeenPlaces
<1>2. p[1] = s.uri /\ p[2] = s.ext /\ s.digest.ext = s.ext /\ s.digest.attr = t[p]
  BY <1>1
<1> QED
  BY <1>2 DEF Matches

\* A stored digest is compared with its own extractor's sighting.
LEMMA CounterpartIs ==
    ASSUME OnePlace, NEW t, NEW v, NEW r, r.seen \subseteq Sighting, SeenPlaces(t, v, r),
           NEW u, r.before[u].digest.ext # 0
    PROVE  /\ \A s \in At(r, u) :
                 s.ext = r.before[u].digest.ext => Counterpart(r, u) = {s}
           /\ \A s \in Counterpart(r, u) : s \in At(r, u) /\ s.ext = r.before[u].digest.ext
<1> DEFINE x    == r.before[u].digest.ext
           same == {s \in At(r, u) : s.ext = x}
<1>1. Counterpart(r, u) = IF same = {} THEN {} ELSE {Last(same)}
  BY DEF Counterpart
<1>2. ASSUME NEW s \in same, NEW w \in same PROVE s = w
  <2>1. s \in r.seen /\ w \in r.seen /\ s.uri = u /\ w.uri = u /\ s.ext = x /\ w.ext = x
    BY DEF At
  <2>2. PICK p \in Place : /\ p = <<s.uri, s.ext, s.path>> /\ t[p] # 0
                           /\ s.digest = [ext |-> s.ext, ver |-> v, attr |-> t[p]]
    BY <2>1 DEF SeenPlaces
  <2>3. PICK q \in Place : /\ q = <<w.uri, w.ext, w.path>> /\ t[q] # 0
                           /\ w.digest = [ext |-> w.ext, ver |-> v, attr |-> t[q]]
    BY <2>1 DEF SeenPlaces
  <2>4. p[1] = u /\ p[2] = x /\ p[3] = s.path /\ q[1] = u /\ q[2] = x /\ q[3] = w.path
    BY <2>1, <2>2, <2>3
  <2>5. p = q
    BY <2>4 DEF OnePlace
  <2>6. s.path = w.path /\ s.digest = w.digest
    BY <2>1, <2>2, <2>3, <2>4, <2>5
  <2> HIDE DEF same, x
  <2> QED
    BY <2>1, <2>6 DEF Sighting
<1>3. ASSUME NEW s \in same PROVE Last(same) = s
  <2>1. same = {s}
    BY <1>2
  <2>2. s.ext \in Nat /\ s.path \in Nat
    BY Places DEF At, Sighting
  <2> QED
    BY <2>1, <2>2, LastOfOne
<1>4. \A s \in At(r, u) : s.ext = x => Counterpart(r, u) = {s}
  BY <1>1, <1>3
<1>5. \A s \in Counterpart(r, u) : s \in At(r, u) /\ s.ext = x
  BY <1>1, <1>3
<1> QED
  BY <1>4, <1>5

\* A digest without an extractor is no digest of a version.
LEMMA Unversioned ==
    ASSUME NEW d \in Digest \cup {NoDigest, Reason}
    PROVE  /\ d.ext = 0 => d.ver = 0
           /\ d.ext # 0 => d \in Digest
BY Places DEF Digest, NoDigest, Reason

LEMMA JudgedChanged ==
    ASSUME OnePlace, Typed, NEW o \in Operator, SeenPlaces(tree, version, job[o]),
           NEW u \in SemanticOf(job[o]), NEW e,
           Matches(tree, e, u, job[o].before[u].digest)
    PROVE  <<u, job[o].before[u].digest.ext>> \in e
<1> DEFINE r == job[o]
           d == r.before[u].digest
<1>1. /\ u \in Uri /\ u \in Seen(r) /\ Comparable(r, u) /\ ~Same(r, u)
  BY DEF SemanticOf, StoredLive
<1>2. r.seen \subseteq Sighting /\ d \in Digest \cup {NoDigest, Reason}
  BY <1>1, SeenUri DEF Typed, JobRow, IdentRow
<1>3. PICK s \in Counterpart(r, u) : s.digest.ver = d.ver
  BY <1>1 DEF Comparable
<1>4. ASSUME NEW w \in At(r, u)
      PROVE  \E p \in Place : /\ p = <<u, w.ext, w.path>>
                              /\ w.digest = [ext |-> w.ext, ver |-> version, attr |-> tree[p]]
  BY DEF At, SeenPlaces
<1>5. CASE d.ext = 0
  <2>1. At(r, u) \in SUBSET r.seen /\ At(r, u) # {}
    BY <1>1 DEF At, Seen
  <2>2. Last(At(r, u)) \in At(r, u)
    BY <2>1, SeenOrdered, LastKept
  <2>3. s = Last(At(r, u))
    BY <1>3, <1>5 DEF Counterpart
  <2>4. s.digest.ver = version
    <3>1. PICK p \in Place : s.digest = [ext |-> s.ext, ver |-> version, attr |-> tree[p]]
      BY <1>4, <2>2, <2>3
    <3> HIDE DEF d, r
    <3> QED
      BY <3>1
  <2>5. version # 0
    BY DEF Typed
  <2> QED
    BY <1>2, <1>3, <1>5, <2>4, <2>5, Unversioned
<1>6. CASE d.ext # 0
  <2>1. s \in At(r, u) /\ s.ext = d.ext
    BY <1>2, <1>3, <1>6, CounterpartIs
  <2>2. PICK p \in Place : /\ p = <<u, s.ext, s.path>>
                           /\ s.digest = [ext |-> s.ext, ver |-> version, attr |-> tree[p]]
    BY <1>4, <2>1
  <2>3. d \in Digest /\ s.digest # d
    BY <1>1, <1>2, <1>3, <1>6, Unversioned DEF Same
  <2>4. p[1] = u /\ p[2] = d.ext /\ s.digest.attr = tree[p] /\ s.digest.ext = d.ext
    BY <2>1, <2>2
  <2>5. s.digest \in Digest
    BY <1>2, <2>1 DEF At, Sighting
  <2>6. tree[p] # d.attr
    <3> HIDE DEF d
    <3> QED
      BY <1>3, <2>3, <2>4, <2>5 DEF Digest
  <2>7. \A q \in Place : q[1] = u /\ q[2] = d.ext => q = p
    BY <2>4 DEF OnePlace
  <2> QED
    BY <1>6, <2>6, <2>7 DEF Matches
<1> QED
  BY <1>5, <1>6

LEMMA MatchInvStep ==
    ASSUME OneOperator, OneInv, MatchInv, Next PROVE MatchInv'
<1> USE DEF OneInv
<1>1. CASE \/ \E p \in Place, attr \in Attr \cup {0} : Edit(p, attr)
           \/ \E f \in File : Reformat(f)
           \/ Upgrade
  <2>1. /\ UNCHANGED <<job, ident>> /\ edited \subseteq edited'
        /\ \A p \in Place : tree'[p] = tree[p] \/ <<p[1], p[2]>> \in edited'
    BY <1>1, RepositoryStep DEF store
  <2>2. \A u, d : Matches(tree, edited, u, d) => Matches(tree', edited', u, d)
    BY <2>1 DEF Matches
  <2> QED
    BY <2>1, <2>2 DEF MatchInv
<1>2. SUFFICES ASSUME NEW o \in Operator,
                      \/ \E verb \in {"map", "refresh"}, ran \in SUBSET Extractor :
                            Begin(o, verb, ran)
                      \/ \E failed \in SUBSET Extractor, oversized \in SUBSET File :
                            Extract(o, failed, oversized)
                      \/ \E x \in Extractor : ObservePack(o, x)
                      \/ RecordMoves(o)
                      \/ \E drifted \in BOOLEAN : Conclude(o, drifted)
                      \/ ConclusionRefused(o) \/ SaveSnapshot(o) \/ Kill(o)
               PROVE  /\ \A u \in Uri : Matches(tree', edited', u, ident'[u].digest)
                      /\ job'[o].at \in Working =>
                            \A u \in Uri : Matches(tree', edited', u, job'[o].before[u].digest)
  BY <1>1, StepKinds DEF OneOperator, MatchInv
<1>3. /\ \A u \in Uri : Matches(tree, edited, u, ident[u].digest)
      /\ job[o].at \in Working =>
            \A u \in Uri : Matches(tree, edited, u, job[o].before[u].digest)
      /\ RunOK(tree, version, ident, job[o])
  BY DEF MatchInv, BaseInv
<1>4. job[o].at \in Extracted => SeenPlaces(tree, version, job[o])
  BY <1>3 DEF RunOK, Reads, SeenPlaces
<1>5. ASSUME NEW verb \in {"map", "refresh"}, NEW ran \in SUBSET Extractor, Begin(o, verb, ran)
      PROVE  /\ \A u \in Uri : Matches(tree', edited', u, ident'[u].digest)
             /\ \A u \in Uri : Matches(tree', edited', u, job'[o].before[u].digest)
  BY <1>3, <1>5, BeginStep DEF store, history
<1>6. ASSUME NEW failed \in SUBSET Extractor, NEW oversized \in SUBSET File,
             Extract(o, failed, oversized)
      PROVE  /\ \A u \in Uri : Matches(tree', edited', u, ident'[u].digest)
             /\ \A u \in Uri : Matches(tree', edited', u, job'[o].before[u].digest)
  BY <1>3, <1>6, ExtractStep, ZenonT(60) DEF store, history, Working
<1>7. ASSUME NEW x \in Extractor, ObservePack(o, x)
      PROVE  /\ \A u \in Uri : Matches(tree', edited', u, ident'[u].digest)
             /\ \A u \in Uri : Matches(tree', edited', u, job'[o].before[u].digest)
  <2>1. /\ UNCHANGED tree /\ SameRun(job'[o], job[o]) /\ job[o].at = "observe"
        /\ edited' = {e \in edited : ident'[e[1]] = ident[e[1]]}
    BY <1>7, ObserveStep
  <2>2. \A u \in Uri :
           \/ ident'[u] = ident[u]
           \/ ~Known(ident[u]) /\ \E s \in job[o].seen : s.uri = u /\ ident'[u] = Created(u, s)
    BY <1>7, ObserveStep
  <2>3. ASSUME NEW u \in Uri, ident'[u] = ident[u], NEW d, Matches(tree, edited, u, d)
        PROVE  Matches(tree', edited', u, d)
    <3>1. <<u, d.ext>> \in edited => <<u, d.ext>> \in edited'
      BY <2>1, <2>3
    <3> QED
      BY <2>1, <2>3, <3>1 DEF Matches
  <2>4. ASSUME NEW u \in Uri, NEW s \in job[o].seen, s.uri = u, ident'[u] = Created(u, s)
        PROVE  Matches(tree', edited', u, ident'[u].digest)
    <3>1. Matches(tree, edited', s.uri, s.digest)
      BY <1>4, <2>1, SightingMatches DEF Extracted
    <3>2. ident'[u].digest = s.digest
      BY <2>4, SeenUri, CreatedRow
    <3> QED
      BY <2>1, <2>4, <3>1, <3>2
  <2>5. ASSUME NEW u \in Uri PROVE Matches(tree', edited', u, job[o].before[u].digest)
    <3>1. CASE Known(job[o].before[u])
      <4>1. Known(ident[u])
        BY <1>3, <3>1 DEF RunOK
      <4> QED
        BY <1>3, <2>1, <2>2, <2>3, <4>1 DEF Working
    <3>2. CASE ~Known(job[o].before[u])
      <4>1. job[o].before[u] = NoIdent
        BY <1>3, <3>2 DEF RunOK, RowOK
      <4> QED
        BY <4>1 DEF Matches, NoIdent, NoDigest
    <3> QED
      BY <3>1, <3>2
  <2>6. \A u \in Uri : Matches(tree', edited', u, ident'[u].digest)
    BY <1>3, <2>2, <2>3, <2>4
  <2> QED
    BY <2>1, <2>5, <2>6 DEF SameRun
<1>8. CASE RecordMoves(o)
  <2>1. /\ UNCHANGED <<tree, edited>> /\ job[o].at = "moves"
        /\ job'[o] = Idle \/ SameRun(job'[o], job[o])
    BY <1>8, MovesStep DEF history
  <2>2. \A u \in Uri :
           \/ u \notin MovedFrom(job[o]) /\ ident'[u] = ident[u]
           \/ \E m \in Moves(job[o]) :
                 /\ m[1] = u
                 /\ ident'[u] = [ident[u] EXCEPT !.status = "moved", !.alias = m[2]]
    BY <1>8, MovesStep
  <2>3. ASSUME NEW u \in Uri, NEW m \in Moves(job[o]),
               ident'[u] = [ident[u] EXCEPT !.status = "moved", !.alias = m[2]]
        PROVE  ident'[u].digest = ident[u].digest
    <3>1. ident[u] \in IdentRow
      BY DEF Typed
    <3> QED
      BY <2>3, <3>1 DEF IdentRow
  <2>4. \A u \in Uri : ident'[u].digest = ident[u].digest
    BY <2>2, <2>3
  <2>5. Idle.at \notin Working
    BY DEF Idle, Working
  <2> QED
    BY <1>3, <2>1, <2>4, <2>5 DEF SameRun, Working
<1>9. ASSUME NEW drifted \in BOOLEAN, Conclude(o, drifted)
      PROVE  /\ \A u \in Uri : Matches(tree', edited', u, ident'[u].digest)
             /\ job'[o].at \notin Working
  <2>1. /\ UNCHANGED tree /\ job[o].at = "conclude" /\ job'[o].at = "snapshot"
        /\ edited' = {e \in edited : e[1] \notin Rerecorded(job[o])}
    BY <1>9, ConcludeStep
  <2>2. \A u \in Uri :
           \/ u \in DeadOf(job[o]) /\ ident'[u] = Retired(ident[u])
           \/ /\ u \in Rerecorded(job[o])
              /\ Last(At(job[o], u)) \in At(job[o], u)
              /\ ident'[u] = Redigested(ident[u], Last(At(job[o], u)))
           \/ /\ u \notin DeadOf(job[o]) \cup Rerecorded(job[o])
              /\ ident'[u] = ident[u]
    BY <1>9, ConcludeStep
  <2>3. ASSUME NEW u \in Uri PROVE Matches(tree', edited', u, ident'[u].digest)
    <3>1. ident[u] \in IdentRow
      BY DEF Typed
    <3>2. CASE ident'[u] = Retired(ident[u])
      <4>1. ident'[u].digest.ext = 0
        BY <3>1, <3>2 DEF Retired, Reason, IdentRow
      <4> QED
        BY <4>1 DEF Matches
    <3>3. ASSUME NEW s \in At(job[o], u), ident'[u] = Redigested(ident[u], s)
          PROVE  Matches(tree', edited', u, ident'[u].digest)
      <4>1. s \in job[o].seen /\ s.uri = u
        BY DEF At
      <4>2. Matches(tree, edited', s.uri, s.digest)
        BY <1>4, <2>1, <4>1, SightingMatches DEF Extracted
      <4>3. ident'[u].digest = s.digest
        BY <3>1, <3>3 DEF Redigested, IdentRow
      <4> QED
        BY <2>1, <4>1, <4>2, <4>3
    <3>4. CASE u \notin Rerecorded(job[o]) /\ ident'[u] = ident[u]
      <4>1. \A x : <<u, x>> \in edited => <<u, x>> \in edited'
        BY <2>1, <3>4
      <4> QED
        BY <1>3, <2>1, <3>4, <4>1 DEF Matches
    <3> QED
      BY <2>2, <3>2, <3>3, <3>4
  <2> QED
    BY <2>1, <2>3 DEF Working
<1>10. CASE ConclusionRefused(o) \/ SaveSnapshot(o) \/ Kill(o)
  <2>1. UNCHANGED <<tree, edited, ident>> /\ job'[o].at \notin Working
    BY <1>10, EndStep DEF store, history, Idle, Working
  <2> QED
    BY <1>3, <2>1
<1> QED
  BY <1>2, <1>5, <1>6, <1>7, <1>8, <1>9, <1>10

\* OnlyEditsAreChanges, with one operator and one file per declaration: neither an
\* upgrade, a second extractor nor a partial run makes a change (_counterpart).
THEOREM ChangesAreEdits ==
    ASSUME OneOperator, OnePlace PROVE Spec => []OnlyEditsAreChanges
<1>1. Init => OneInv /\ MatchInv
  <2> SUFFICES ASSUME Init PROVE MatchInv
    BY OneInvInit
  <2>1. /\ \A u \in Uri : ident[u] = NoIdent
        /\ \A o \in Operator : job[o] = Idle
    BY DEF Init
  <2> QED
    BY <2>1 DEF MatchInv, Matches, NoIdent, NoDigest, Idle, Working
<1>2. OneInv /\ MatchInv /\ [Next]_vars => (OneInv /\ MatchInv)'
  <2>1. MatchInv /\ UNCHANGED vars => MatchInv'
    BY DEF MatchInv, vars, store, history
  <2> QED
    BY <2>1, OneInvStep, MatchInvStep
<1>3. OneInv /\ MatchInv => OnlyEditsAreChanges
  <2> SUFFICES ASSUME OneInv, MatchInv, NEW o \in Operator, job[o].at = "conclude",
                      NEW u \in SemanticOf(job[o])
               PROVE  <<u, job[o].before[u].digest.ext>> \in edited
    BY DEF OnlyEditsAreChanges
  <2>1. Reads(tree, version, job[o])
    BY DEF OneInv, BaseInv, RunOK
  <2>2. SeenPlaces(tree, version, job[o])
    BY <2>1 DEF Reads, Extracted, SeenPlaces
  <2>3. u \in Uri
    BY DEF SemanticOf, StoredLive
  <2>4. Matches(tree, edited, u, job[o].before[u].digest)
    BY <2>3 DEF MatchInv, Working
  <2> QED
    BY <2>2, <2>4, JudgedChanged DEF OneInv
<1> QED
  BY <1>1, <1>2, <1>3, PTL DEF Spec

-----------------------------------------------------------------------------
(* A second refresh is clean.  A refresh that examined everything leaves a     *)
(* store that describes the tree: whatever is declared is known, and a live    *)
(* identity has the digest of a declaration that is there.                     *)

Covered(t, v, rows) ==
    /\ \A p \in Place : t[p] # 0 => Known(rows[p[1]])
    /\ \A u \in Uri : Live(rows[u]) =>
          \E p \in Place : /\ p[1] = u /\ t[p] # 0
                           /\ rows[u].digest = [ext |-> p[2], ver |-> v, attr |-> t[p]]

SettledInv ==
    /\ settled => /\ Covered(tree, version, ident)
                  /\ snapshot = stamp
                  /\ \A o \in Operator : job[o].at \in Working => job[o].before = ident
    /\ \A o \in Operator :
          job[o].at = "snapshot" /\ Whole(job[o]) => Covered(tree, version, ident)

\* The kept sighting, or any other, is of a declaration that is there.
LEMMA SightingCovers ==
    ASSUME NEW t, NEW v, NEW r, SeenPlaces(t, v, r), NEW u, NEW s \in At(r, u)
    PROVE  \E p \in Place : /\ p[1] = u /\ t[p] # 0
                            /\ s.digest = [ext |-> p[2], ver |-> v, attr |-> t[p]]
<1>1. s \in r.seen /\ s.uri = u
  BY DEF At
<1>2. PICK p \in Place : /\ p = <<s.uri, s.ext, s.path>> /\ t[p] # 0
                         /\ s.digest = [ext |-> s.ext, ver |-> v, attr |-> t[p]]
  BY <1>1 DEF SeenPlaces
<1>3. p[1] = u /\ p[2] = s.ext
  BY <1>1, <1>2
<1> QED
  BY <1>2, <1>3

LEMMA SeenDeclared ==
    ASSUME NEW t, NEW v, NEW r, SeenPlaces(t, v, r), NEW s \in r.seen
    PROVE  \E p \in Place : p[1] = s.uri /\ t[p] # 0
<1>1. PICK p \in Place : p = <<s.uri, s.ext, s.path>> /\ t[p] # 0
  BY DEF SeenPlaces
<1>2. p[1] = s.uri
  BY <1>1
<1> QED
  BY <1>1, <1>2

\* Where everything declared was known before, nothing moves and nothing is new.
LEMMA KnownStay ==
    ASSUME NEW t, NEW v, NEW r, SeenPlaces(t, v, r), Covered(t, v, r.before)
    PROVE  /\ \A u \in Seen(r) : Known(r.before[u])
           /\ Moves(r) = {} /\ MovedFrom(r) = {} /\ NewOf(r) = {}
<1>1. ASSUME NEW u \in Seen(r) PROVE Known(r.before[u])
  <2>1. PICK s \in r.seen : s.uri = u
    BY DEF Seen
  <2>2. PICK p \in Place : p[1] = u /\ t[p] # 0
    BY <2>1, SeenDeclared
  <2> QED
    BY <2>2 DEF Covered
<1>2. Moves(r) = {}
  BY <1>1, MovePairs
<1> QED
  BY <1>1, <1>2 DEF MovedFrom, NewOf

\* A conclusion over everything leaves the tree covered.
LEMMA WholeConclusion ==
    ASSUME OnePlace, OneInv, NEW o \in Operator, NEW drifted, Conclude(o, drifted),
           Whole(job[o])
    PROVE  Covered(tree, version, ident')
<1> DEFINE r == job[o]
<1>1. /\ r.at = "conclude"
      /\ \A u \in Uri :
            \/ u \in DeadOf(r) /\ ident'[u] = Retired(ident[u])
            \/ /\ u \in Rerecorded(r)
               /\ Last(At(r, u)) \in At(r, u)
               /\ ident'[u] = Redigested(ident[u], Last(At(r, u)))
            \/ /\ u \notin DeadOf(r) \cup Rerecorded(r)
               /\ ident'[u] = ident[u]
  BY ConcludeStep DEF OneInv
<1>2. /\ r.ran = Extractor /\ r.failed = {} /\ r.oversized = {}
      /\ RunOK(tree, version, ident, r) /\ Since(ident, r)
      /\ r.seen \subseteq Sighting
  BY SeenUri DEF Whole, OneInv, BaseInv, SinceInv
<1>3. SeenPlaces(tree, version, r)
  BY <1>1, <1>2 DEF RunOK, Reads, Extracted, SeenPlaces
<1>4. \A u \in Uri : ident[u] \in IdentRow
  BY DEF OneInv, Typed
<1>5. ASSUME NEW p \in Place, tree[p] # 0 PROVE Known(ident'[p[1]])
  <2>1. p[1] \in Seen(r) /\ p[1] \in Uri
    BY <1>1, <1>2, <1>5, Places DEF RunOK, Reads, Extracted
  <2>2. PICK s \in r.seen : s.uri = p[1]
    BY <2>1 DEF Seen
  <2>3. Known(ident[p[1]])
    BY <1>1, <1>2, <2>2 DEF RunOK, Writes, Extracted
  <2>4. Known(Retired(ident[p[1]])) /\ \A w : Known(Redigested(ident[p[1]], w))
    BY <1>4, <2>1 DEF Retired, Redigested, Known, IdentRow
  <2>5. \/ ident'[p[1]] = Retired(ident[p[1]])
        \/ ident'[p[1]] = ident[p[1]]
        \/ \E w \in At(r, p[1]) : ident'[p[1]] = Redigested(ident[p[1]], w)
    BY <1>1, <2>1
  <2> QED
    BY <2>3, <2>4, <2>5
<1>6. ASSUME NEW u \in Uri, Live(ident'[u])
      PROVE  \E s \in At(r, u) : ident'[u].digest = s.digest
  <2>1. CASE u \in DeadOf(r) /\ ident'[u] = Retired(ident[u])
    BY <1>4, <1>6, <2>1 DEF Retired, Live, IdentRow
  <2>2. CASE /\ u \in Rerecorded(r)
             /\ Last(At(r, u)) \in At(r, u)
             /\ ident'[u] = Redigested(ident[u], Last(At(r, u)))
    <3> DEFINE w == Last(At(r, u))
    <3> HIDE DEF w
    <3>1. w \in At(r, u) /\ ident'[u] = Redigested(ident[u], w)
      BY <2>2 DEF w
    <3>2. ident'[u].digest = w.digest
      BY <1>4, <3>1 DEF Redigested, IdentRow
    <3> QED
      BY <3>1, <3>2
  <2>3. CASE u \notin DeadOf(r) \cup Rerecorded(r) /\ ident'[u] = ident[u] /\ Known(r.before[u])
    <3>1. u \notin MovedFrom(r) /\ ident[u] = r.before[u] /\ Live(r.before[u])
      BY <1>1, <1>2, <1>6, <2>3 DEF Since, Live
    <3>2. u \in StoredLive(r)
      BY <3>1 DEF StoredLive
    <3>3. r.before[u].digest.ext \in Extractor
      BY <1>2, <3>1 DEF RunOK, RowOK
    <3>4. u \in Seen(r)
      BY <1>2, <2>3, <3>2, <3>3 DEF DeadOf, Exempt
    <3>5. r.before[u].digest # NoDigest /\ r.before[u].digest.ext # 0
      BY <3>3, Places DEF NoDigest
    <3>6. Comparable(r, u) /\ Same(r, u)
      BY <2>3, <3>2, <3>4, <3>5 DEF Rerecorded, SemanticOf, Rebaselined
    <3>7. PICK s \in Counterpart(r, u) : s.digest = r.before[u].digest
      BY <3>6 DEF Same
    <3>8. s \in At(r, u)
      BY <1>2, <1>3, <3>5, CounterpartIs
    <3> QED
      BY <2>3, <3>1, <3>7, <3>8
  <2>4. CASE ident'[u] = ident[u] /\ ~Known(r.before[u])
    <3>1. ident[u] # NoIdent
      BY <1>6, <2>4 DEF Live, NoIdent
    <3> QED
      BY <1>1, <1>2, <2>4, <3>1 DEF Since, Working
  <2> QED
    BY <1>1, <2>1, <2>2, <2>3, <2>4
<1> QED
  BY <1>3, <1>5, <1>6, SightingCovers DEF Covered

LEMMA SettledInvStep ==
    ASSUME OneOperator, OnePlace, OneInv, SettledInv, Next PROVE SettledInv'
<1>1. CASE \/ \E p \in Place, attr \in Attr \cup {0} : Edit(p, attr)
           \/ \E f \in File : Reformat(f)
           \/ Upgrade
  <2>1. UNCHANGED job /\ ~settled' /\ \A o \in Operator : job[o].at # "snapshot"
    BY <1>1, RepositoryStep DEF OneInv
  <2> QED
    BY <2>1 DEF SettledInv
<1>2. SUFFICES ASSUME NEW o \in Operator,
                      \/ \E verb \in {"map", "refresh"}, ran \in SUBSET Extractor :
                            Begin(o, verb, ran)
                      \/ \E failed \in SUBSET Extractor, oversized \in SUBSET File :
                            Extract(o, failed, oversized)
                      \/ \E x \in Extractor : ObservePack(o, x)
                      \/ RecordMoves(o)
                      \/ \E drifted \in BOOLEAN : Conclude(o, drifted)
                      \/ ConclusionRefused(o) \/ SaveSnapshot(o) \/ Kill(o)
               PROVE  /\ settled' => /\ Covered(tree, version, ident)'
                                     /\ snapshot' = stamp'
                                     /\ job'[o].at \in Working => job'[o].before = ident'
                      /\ job'[o].at = "snapshot" /\ Whole(job'[o]) =>
                            Covered(tree, version, ident)'
  BY <1>1, StepKinds DEF OneOperator, SettledInv
<1>3. /\ Typed
      /\ job[o].at \in Extracted => SeenPlaces(tree, version, job[o])
      /\ settled => Covered(tree, version, ident) /\ snapshot = stamp
      /\ settled /\ job[o].at \in Working => job[o].before = ident
      /\ job[o].at = "snapshot" /\ Whole(job[o]) => Covered(tree, version, ident)
  BY DEF OneInv, BaseInv, RunOK, Reads, SeenPlaces, SettledInv
<1>4. ASSUME NEW verb \in {"map", "refresh"}, NEW ran \in SUBSET Extractor, Begin(o, verb, ran)
      PROVE  /\ UNCHANGED <<tree, stamp, version, snapshot, settled, ident>>
             /\ job'[o].before = ident /\ job'[o].at # "snapshot"
  BY <1>3, <1>4, BeginStep DEF store
<1>5. ASSUME NEW failed \in SUBSET Extractor, NEW oversized \in SUBSET File,
             Extract(o, failed, oversized)
      PROVE  /\ UNCHANGED <<tree, stamp, version, snapshot, settled, ident>>
             /\ job'[o].before = job[o].before /\ job[o].at \in Working
             /\ job'[o].at # "snapshot"
  BY <1>3, <1>5, ExtractStep DEF store, Working
<1>6. ASSUME NEW x \in Extractor, ObservePack(o, x)
      PROVE  /\ UNCHANGED <<tree, stamp, version, snapshot, settled>>
             /\ settled => ident' = ident
             /\ job'[o].before = job[o].before /\ job[o].at \in Working
             /\ job'[o].at # "snapshot"
  <2>1. /\ UNCHANGED <<tree, version, snapshot, settled>> /\ Typed'
        /\ job[o].at = "observe" /\ job'[o].at \in {"observe", "moves"}
        /\ SameRun(job'[o], job[o])
        /\ \A u \in Uri :
              \/ ident'[u] = ident[u]
              \/ ~Known(ident[u]) /\ \E s \in job[o].seen : s.uri = u
    BY <1>3, <1>6, ObserveStep
  <2>2. UNCHANGED stamp
    BY <1>6 DEF ObservePack
  <2>3. ASSUME settled, NEW u \in Uri PROVE ident'[u] = ident[u]
    <3>1. ASSUME NEW s \in job[o].seen, s.uri = u PROVE Known(ident[u])
      <4>1. SeenPlaces(tree, version, job[o])
        BY <1>3, <2>1 DEF Extracted
      <4>2. PICK p \in Place : p[1] = u /\ tree[p] # 0
        BY <3>1, <4>1, SeenDeclared
      <4> QED
        BY <1>3, <2>3, <4>2 DEF Covered
    <3> QED
      BY <2>1, <3>1
  <2>4. settled => ident' = ident
    BY <1>3, <2>1, <2>3 DEF Typed
  <2> QED
    BY <2>1, <2>2, <2>4 DEF SameRun, Working
<1>7. CASE RecordMoves(o)
  <2>1. /\ UNCHANGED <<tree, stamp, version, snapshot, settled>> /\ Typed'
        /\ job[o].at = "moves"
        /\ \/ job'[o] = Idle
           \/ SameRun(job'[o], job[o]) /\ job'[o].at = "conclude"
    BY <1>3, <1>7, MovesStep
  <2>5. ASSUME NEW u \in Uri, Moves(job[o]) = {} PROVE ident'[u] = ident[u]
    BY <1>3, <1>7, <2>5, MovesStep DEF MovedFrom
  <2>2. ASSUME settled PROVE Moves(job[o]) = {}
    <3>1. SeenPlaces(tree, version, job[o]) /\ Covered(tree, version, job[o].before)
      BY <1>3, <2>1, <2>2 DEF Extracted, Working
    <3> QED
      BY <3>1, KnownStay
  <2>3. settled => ident' = ident
    BY <1>3, <2>1, <2>2, <2>5 DEF Typed
  <2>4. Idle.at = "idle"
    BY DEF Idle
  <2> QED
    BY <1>3, <2>1, <2>3, <2>4 DEF SameRun, Working
<1>8. ASSUME NEW drifted \in BOOLEAN, Conclude(o, drifted)
      PROVE  /\ ~settled'
             /\ Whole(job'[o]) => Covered(tree, version, ident)'
  <2>1. UNCHANGED <<tree, version>> /\ ~settled' /\ SameRun(job'[o], job[o])
    BY <1>3, <1>8, ConcludeStep
  <2>2. Whole(job'[o]) => Whole(job[o])
    BY <2>1 DEF SameRun, Whole
  <2>3. Whole(job[o]) => Covered(tree, version, ident')
    BY <1>8, WholeConclusion
  <2> QED
    BY <2>1, <2>2, <2>3
<1>9. CASE ConclusionRefused(o) \/ SaveSnapshot(o) \/ Kill(o)
  <2>1. UNCHANGED <<tree, stamp, version, ident>> /\ job'[o].at = "idle"
    BY <1>3, <1>9, EndStep DEF store, Idle
  <2>2. \/ UNCHANGED <<snapshot, settled>>
        \/ /\ job[o].at = "snapshot" /\ snapshot' = job[o].hashed
           /\ settled' => Whole(job[o]) /\ job[o].hashed = stamp
    BY <1>9 DEF ConclusionRefused, SaveSnapshot, Kill
  <2> QED
    BY <1>3, <2>1, <2>2 DEF Working
<1> QED
  <2>1. CASE \E verb \in {"map", "refresh"}, ran \in SUBSET Extractor : Begin(o, verb, ran)
    BY <1>3, <1>4, <2>1
  <2>2. CASE \E failed \in SUBSET Extractor, oversized \in SUBSET File :
                Extract(o, failed, oversized)
    BY <1>3, <1>5, <2>2
  <2>3. CASE \E x \in Extractor : ObservePack(o, x)
    BY <1>3, <1>6, <2>3
  <2>4. CASE \E drifted \in BOOLEAN : Conclude(o, drifted)
    BY <1>8, <2>4
  <2> QED
    BY <1>2, <1>7, <1>9, <2>1, <2>2, <2>3, <2>4

\* Over a covered tree whose bytes are those of the snapshot, no class has a member.
LEMMA NothingToSay ==
    ASSUME OnePlace, Typed, Covered(tree, version, ident), snapshot = stamp
    PROVE  Changes(NextRefresh) = {}
<1> DEFINE r == NextRefresh
<1>1. /\ r.before = ident /\ r.prev = snapshot /\ r.hashed = stamp
      /\ r.seen = Sightings(Extractor, {})
  BY DEF NextRefresh, Idle
<1> HIDE DEF r
<1>2. /\ r.seen \subseteq Sighting
      /\ \A s \in r.seen :
            \E p \in Place : /\ p = <<s.uri, s.ext, s.path>> /\ tree[p] # 0
                             /\ s.digest = [ext |-> s.ext, ver |-> version, attr |-> tree[p]]
      /\ \A p \in Place : tree[p] # 0 =>
            [uri |-> p[1], ext |-> p[2], path |-> p[3],
             digest |-> [ext |-> p[2], ver |-> version, attr |-> tree[p]]] \in r.seen
  BY <1>1, SightingsOf, Places
<1>3. SeenPlaces(tree, version, r)
  BY <1>2 DEF SeenPlaces
<1>4. MovedFrom(r) = {} /\ NewOf(r) = {}
  BY <1>1, <1>3, KnownStay
<1>5. ASSUME NEW u \in Uri, Live(r.before[u])
      PROVE  u \in Seen(r) /\ (r.before[u].digest # NoDigest => Same(r, u))
  <2>1. PICK p \in Place : /\ p[1] = u /\ tree[p] # 0
                           /\ r.before[u].digest =
                                 [ext |-> p[2], ver |-> version, attr |-> tree[p]]
    BY <1>1, <1>5 DEF Covered
  <2> DEFINE s == [uri |-> p[1], ext |-> p[2], path |-> p[3],
                   digest |-> [ext |-> p[2], ver |-> version, attr |-> tree[p]]]
  <2>2. s \in At(r, u) /\ s.ext = r.before[u].digest.ext /\ s.digest = r.before[u].digest
    BY <1>2, <2>1 DEF At
  <2>3. r.before[u].digest.ext # 0
    BY <2>1, Places
  <2> HIDE DEF s
  <2>4. Counterpart(r, u) = {s}
    BY <1>2, <1>3, <2>2, <2>3, CounterpartIs
  <2> QED
    BY <2>2, <2>4 DEF Same, Seen, At
<1>6. DeadOf(r) = {} /\ SemanticOf(r) = {}
  BY <1>5 DEF DeadOf, SemanticOf, StoredLive
<1>7. RenderOf(r) = {}
  BY <1>1 DEF RenderOf, ChangedPaths
<1> QED
  BY <1>4, <1>6, <1>7 DEF Changes, r

\* SecondRefreshIsClean, with one operator and one file per declaration: after a
\* refresh that examined everything, nothing is reported twice (record_refresh,
\* save_snapshot).
THEOREM NothingTwice ==
    ASSUME OneOperator, OnePlace PROVE Spec => []SecondRefreshIsClean
<1>1. Init => OneInv /\ SettledInv
  <2> SUFFICES ASSUME Init PROVE SettledInv
    BY OneInvInit
  <2>1. ~settled /\ \A o \in Operator : job[o].at # "snapshot"
    BY DEF Init, Idle
  <2> QED
    BY <2>1 DEF SettledInv
<1>2. OneInv /\ SettledInv /\ [Next]_vars => (OneInv /\ SettledInv)'
  <2>1. SettledInv /\ UNCHANGED vars => SettledInv'
    BY DEF SettledInv, vars, store, history
  <2> QED
    BY <2>1, OneInvStep, SettledInvStep
<1>3. OneInv /\ SettledInv => SecondRefreshIsClean
  BY NothingToSay DEF OneInv, SettledInv, SecondRefreshIsClean
<1> QED
  BY <1>1, <1>2, <1>3, PTL DEF Spec
=============================================================================
