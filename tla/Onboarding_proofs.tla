-------------------------- MODULE Onboarding_proofs --------------------------
(***************************************************************************)
(* Proofs about Onboarding for any number of commands, trees and paths: a   *)
(* path names one row, an envelope is judged by the boundary in force, an   *)
(* init that succeeds leaves the whole of its path, and what detection says  *)
(* of a tree is what the evidence in it bears out.                          *)
(*                                                                         *)
(* The first is inductive once rows are known to be records.  The second     *)
(* needs to know how the clock orders a declaration among the boundaries     *)
(* committed before its command began.  The third follows the rows a command *)
(* found or made, which nobody removes.  The last is about one step, the    *)
(* detection: the walk over the files is followed number by number, the sum *)
(* of the weights rule by rule.                                             *)
(***************************************************************************)
EXTENDS Onboarding, SequenceTheorems, FiniteSetTheorems, WellFoundedInduction, TLAPS

-----------------------------------------------------------------------------
(* Lists, and the greatest of a bounded set of naturals.                    *)

\* A sequence of something.
IsSeq(s) == s \in Seq(Range(s))

LEMMA SeqFacts ==
    ASSUME NEW s, IsSeq(s)
    PROVE  Len(s) \in Nat /\ DOMAIN s = 1..Len(s)
BY DEF IsSeq

LEMMA EmptyIsSeq == IsSeq(<<>>) /\ DOMAIN <<>> = {} /\ Len(<<>>) = 0
BY DEF IsSeq, Range

LEMMA ListIsSeq ==
    ASSUME NEW n \in Nat, NEW s, s = [m \in 1..n |-> s[m]]
    PROVE  IsSeq(s) /\ Len(s) = n /\ DOMAIN s = 1..n
<1>1. DOMAIN s = 1..n
  OBVIOUS
<1>2. \A m \in 1..n : s[m] \in Range(s)
  BY <1>1 DEF Range
<1>3. s \in [1..n -> Range(s)]
  BY <1>1, <1>2
<1>4. s \in Seq(Range(s))
  BY <1>3, SeqDef
<1>5. Len(s) \in Nat /\ DOMAIN s = 1..Len(s)
  BY <1>4, LenProperties
<1>6. Len(s) = n
  BY <1>1, <1>5
<1> QED
  BY <1>1, <1>4, <1>6 DEF IsSeq

LEMMA AppendIsSeq ==
    ASSUME NEW s, IsSeq(s), NEW x
    PROVE  /\ IsSeq(Append(s, x))
           /\ Len(Append(s, x)) = Len(s) + 1
           /\ DOMAIN Append(s, x) = 1..(Len(s) + 1)
           /\ \A n \in 1..Len(s) : Append(s, x)[n] = s[n]
           /\ Append(s, x)[Len(s) + 1] = x
<1> DEFINE T == Range(s) \cup {x}
<1>1. s \in Seq(T) /\ x \in T
  BY DEF IsSeq
<1> HIDE DEF T
<1>2. /\ Append(s, x) \in Seq(T)
      /\ Len(s) \in Nat
      /\ Len(Append(s, x)) = Len(s) + 1
      /\ \A n \in 1..Len(s) : Append(s, x)[n] = s[n]
      /\ Append(s, x)[Len(s) + 1] = x
  BY <1>1
<1>3. Append(s, x) \in [1..(Len(s) + 1) -> T]
  BY <1>2, LenProperties
<1>4. Append(s, x) = [n \in 1..(Len(s) + 1) |-> Append(s, x)[n]]
  BY <1>3
<1>5. IsSeq(Append(s, x)) /\ DOMAIN Append(s, x) = 1..(Len(s) + 1)
  BY <1>2, <1>4, ListIsSeq
<1> QED
  BY <1>2, <1>5

LEMMA ExceptIsSeq ==
    ASSUME NEW s, IsSeq(s), NEW n \in DOMAIN s, NEW x
    PROVE  /\ IsSeq([s EXCEPT ![n] = x])
           /\ DOMAIN [s EXCEPT ![n] = x] = DOMAIN s
<1> DEFINE t == [s EXCEPT ![n] = x]
<1>1. Len(s) \in Nat /\ DOMAIN s = 1..Len(s)
  BY SeqFacts
<1>2. t = [m \in 1..Len(s) |-> t[m]]
  BY <1>1
<1> HIDE DEF t
<1>3. IsSeq(t) /\ DOMAIN t = 1..Len(s)
  BY <1>1, <1>2, ListIsSeq
<1> QED
  BY <1>1, <1>3 DEF t

\* A set of naturals that has a member has a least one.
LEMMA Least ==
    ASSUME NEW S, S # {}, S \subseteq Nat
    PROVE  \E n \in S : \A m \in S : n <= m
<1> DEFINE R == OpToRel(<, Nat)
<1>1. IsWellFoundedOn(R, Nat)
  BY NatLessThanWellFounded
<1> HIDE DEF R
<1>2. PICK n \in S : \A m \in S : <<m, n>> \notin R
  BY <1>1, WFMin
<1>3. \A m \in S : ~(m < n)
  BY <1>2 DEF R, OpToRel
<1> QED
  BY <1>3

\* A bounded set of naturals that has a member has a greatest one.
LEMMA Greatest ==
    ASSUME NEW S, S # {}, S \subseteq Nat, NEW bound \in Nat, \A n \in S : n <= bound
    PROVE  \E n \in S : \A m \in S : n >= m
<1> DEFINE T == {bound - n : n \in S}
<1>1. T \subseteq Nat /\ T # {}
  <2>1. \A n \in S : n \in Nat /\ bound - n \in Nat
    OBVIOUS
  <2>2. T \subseteq Nat
    BY <2>1
  <2>3. PICK n : n \in S
    OBVIOUS
  <2>4. bound - n \in T
    BY <2>3
  <2> QED
    BY <2>2, <2>4
<1>2. PICK least \in T : \A other \in T : least <= other
  BY <1>1, Least
<1>3. PICK n \in S : least = bound - n
  BY <1>2
<1>4. ASSUME NEW m \in S
      PROVE  n >= m
  <2>1. bound - m \in T /\ bound - m \in Nat /\ least \in Nat
    BY <1>1, <1>2
  <2> QED
    BY <1>2, <1>3, <2>1
<1> QED
  BY <1>4


-----------------------------------------------------------------------------
(* One row per path.                                                        *)

IsRow(r) == r = [level |-> r.level, slug |-> r.slug, parent |-> r.parent,
                 archetype |-> r.archetype, state |-> r.state]

Tree ==
    /\ IsSeq(rows)
    /\ \A n \in DOMAIN rows : IsRow(rows[n])
    /\ OneRowPerPath

LEMMA InitTree == OnboardingInit => Tree
BY EmptyIsSeq DEF OnboardingInit, Tree, OneRowPerPath

\* A row is appended where none of its slug is under its parent.
LEMMA CreateKeepsTree ==
    ASSUME Tree, NEW p \in Process, Create(p)
    PROVE  Tree'
<1> DEFINE row == RowAt(cmd[p].path, cmd[p].depth, cmd[p].archetype)
<1>1. CASE ~SlugIsFree(row)
  <2>1. rows' = rows
    BY <1>1 DEF Create
  <2> QED
    BY <2>1 DEF Tree, IsRow, OneRowPerPath
<1>2. CASE SlugIsFree(row)
  <2>1. rows' = Append(rows, row)
    BY <1>2 DEF Create
  <2>2. IsRow(row)
    BY DEF RowAt, IsRow
  <2>3. \A n \in DOMAIN rows : ~(/\ rows[n].level = row.level /\ rows[n].slug = row.slug
                                 /\ rows[n].parent = row.parent)
    BY <1>2 DEF SlugIsFree, Found
  <2> HIDE DEF row
  <2>4. IsSeq(rows) /\ Len(rows) \in Nat /\ DOMAIN rows = 1..Len(rows)
    BY SeqFacts DEF Tree
  <2>5. /\ IsSeq(rows')
        /\ DOMAIN rows' = 1..(Len(rows) + 1)
        /\ \A n \in 1..Len(rows) : rows'[n] = rows[n]
        /\ rows'[Len(rows) + 1] = row
    BY <2>1, <2>4, AppendIsSeq
  <2>6. \A n \in DOMAIN rows' : IsRow(rows'[n])
    BY <2>2, <2>4, <2>5 DEF Tree
  <2>7. ASSUME NEW m \in DOMAIN rows', NEW n \in DOMAIN rows',
               rows'[m].level = rows'[n].level, rows'[m].parent = rows'[n].parent,
               rows'[m].slug = rows'[n].slug
        PROVE  m = n
    <3>1. (m \in 1..Len(rows) \/ m = Len(rows) + 1) /\ (n \in 1..Len(rows) \/ n = Len(rows) + 1)
      BY <2>4, <2>5
    <3>2. CASE m \in 1..Len(rows) /\ n \in 1..Len(rows)
      BY <2>4, <2>5, <2>7, <3>2 DEF Tree, OneRowPerPath
    <3>3. CASE m \in 1..Len(rows) /\ n = Len(rows) + 1
      BY <2>3, <2>4, <2>5, <2>7, <3>3
    <3>4. CASE m = Len(rows) + 1 /\ n \in 1..Len(rows)
      BY <2>3, <2>4, <2>5, <2>7, <3>4
    <3> QED
      BY <3>1, <3>2, <3>3, <3>4
  <2> QED
    BY <2>5, <2>6, <2>7 DEF Tree, OneRowPerPath
<1> QED
  BY <1>1, <1>2

\* A system's state is not part of its path.
LEMMA TransitionKeepsTree ==
    ASSUME Tree, Transition
    PROVE  Tree'
<1>1. PICK system \in Systems, to \in LifecycleStates :
          rows' = [rows EXCEPT ![system].state = to]
  BY DEF Transition
<1>2. system \in DOMAIN rows
  BY DEF Systems
<1> DEFINE moved == [rows[system] EXCEPT !.state = to]
<1>3. rows' = [rows EXCEPT ![system] = moved]
  BY <1>1
<1>4. /\ moved = [level |-> rows[system].level, slug |-> rows[system].slug,
                  parent |-> rows[system].parent, archetype |-> rows[system].archetype,
                  state |-> to]
  BY <1>2 DEF Tree, IsRow
<1>5. /\ IsRow(moved)
      /\ moved.level = rows[system].level
      /\ moved.slug = rows[system].slug
      /\ moved.parent = rows[system].parent
  BY <1>4 DEF IsRow
<1> HIDE DEF moved
<1>6. IsSeq(rows') /\ DOMAIN rows' = DOMAIN rows
  BY <1>2, <1>3, ExceptIsSeq DEF Tree
<1>7. \A n \in DOMAIN rows : rows'[n] = IF n = system THEN moved ELSE rows[n]
  BY <1>2, <1>3
<1>8. \A n \in DOMAIN rows' : /\ IsRow(rows'[n])
                              /\ rows'[n].level = rows[n].level
                              /\ rows'[n].slug = rows[n].slug
                              /\ rows'[n].parent = rows[n].parent
  BY <1>5, <1>6, <1>7 DEF Tree
<1> QED
  BY <1>6, <1>8 DEF Tree, OneRowPerPath

LEMMA NextTree == Tree /\ [OnboardingNext]_vars => Tree'
<1> SUFFICES ASSUME Tree, [OnboardingNext]_vars PROVE Tree'
  OBVIOUS
<1>1. CASE \E p \in Process : Create(p)
  BY <1>1, CreateKeepsTree
<1>2. CASE Transition
  BY <1>2, TransitionKeepsTree
<1>3. CASE rows' = rows
  BY <1>3 DEF Tree, IsRow, OneRowPerPath
<1>4. \/ \E p \in Process : Create(p)
      \/ Transition
      \/ rows' = rows
  BY DEF OnboardingNext, vars, DetectTree, StartInit, StartBoundary, LookUp, Stamp, Declare,
         Kill, ValidateEnvelope
<1> QED
  BY <1>1, <1>2, <1>3, <1>4

\* However many commands look one path up before any of them creates it, a slug is
\* issued once under one parent (create_firm ... create_environment).
THEOREM PathsNameOneRow == OnboardingSpec => []OneRowPerPath
<1>1. Tree => OneRowPerPath
  BY DEF Tree
<1> QED
  BY <1>1, InitTree, NextTree, PTL DEF OnboardingSpec

-----------------------------------------------------------------------------
(* The boundary in force.                                                   *)

IsCommand(c) == {"at", "now", "before"} \subseteq DOMAIN c

\* b was declared at a moment after each boundary its command found.
Ordered(b, n) ==
    /\ b[n].at \in Nat
    /\ b[n].before \in 0..(n - 1)
    /\ \A m \in 1..b[n].before : b[m].at < b[n].at

\* So will be what a command that has read its clock is about to declare.
CommandOrdered(c, b, moment) ==
    /\ IsCommand(c)
    /\ c.before \in 0..Len(b)
    /\ c.at = "declare" =>
          /\ c.now \in Nat /\ c.now < moment
          /\ \A m \in 1..c.before : b[m].at < c.now

Declared ==
    /\ clock \in Nat
    /\ IsSeq(boundaries)
    /\ \A n \in DOMAIN boundaries : Ordered(boundaries, n) /\ boundaries[n].at < clock

Commands ==
    /\ cmd = [p \in Process |-> cmd[p]]
    /\ \A p \in Process : CommandOrdered(cmd[p], boundaries, clock)

Judged ==
    /\ checked.seen \in 0..Len(boundaries)
    /\ checked.used \in 0..Len(boundaries)
    /\ JudgedByTheBoundaryInForce

InForce == Declared /\ Commands /\ Judged

LEMMA InitInForce == OnboardingInit => InForce
<1> SUFFICES ASSUME OnboardingInit PROVE InForce
  OBVIOUS
<1>1. Declared
  BY EmptyIsSeq DEF OnboardingInit, Declared
<1>2. Commands
  <2>1. cmd = [p \in Process |-> Idle] /\ Len(boundaries) = 0
    BY EmptyIsSeq DEF OnboardingInit
  <2>2. IsCommand(Idle) /\ Idle.before = 0 /\ Idle.at = "idle"
    BY DEF Idle, IsCommand
  <2> QED
    BY <2>1, <2>2 DEF Commands, CommandOrdered
<1>3. Judged
  <2>1. checked.seen = 0 /\ checked.used = 0 /\ Len(boundaries) = 0
    BY EmptyIsSeq DEF OnboardingInit
  <2> QED
    BY <2>1 DEF Judged, JudgedByTheBoundaryInForce
<1> QED
  BY <1>1, <1>2, <1>3 DEF InForce

LEMMA CountBoundaries ==
    ASSUME Declared
    PROVE  Len(boundaries) \in Nat /\ DOMAIN boundaries = 1..Len(boundaries)
BY SeqFacts DEF Declared

\* A step of one command that declares nothing.
LEMMA CommandStep ==
    ASSUME InForce, NEW p \in Process, NEW c, cmd' = [cmd EXCEPT ![p] = c],
           CommandOrdered(c, boundaries, clock'), clock' \in Nat, clock <= clock',
           UNCHANGED <<boundaries, checked>>
    PROVE  InForce'
<1>1. Declared'
  <2>1. /\ clock \in Nat
        /\ \A n \in DOMAIN boundaries : boundaries[n].at \in Nat /\ boundaries[n].at < clock
    BY DEF InForce, Declared, Ordered
  <2>2. \A n \in DOMAIN boundaries : boundaries[n].at < clock'
    BY <2>1
  <2>3. \A n \in DOMAIN boundaries : Ordered(boundaries, n)
    BY DEF InForce, Declared
  <2> QED
    BY <2>2, <2>3 DEF InForce, Declared
<1>2. Commands'
  <2>1. /\ DOMAIN cmd = Process
        /\ cmd' = [q \in Process |-> cmd'[q]]
        /\ cmd'[p] = c
        /\ \A q \in Process \ {p} : cmd'[q] = cmd[q]
    BY DEF InForce, Commands
  <2>2. ASSUME NEW q \in Process PROVE CommandOrdered(cmd'[q], boundaries', clock')
    <3>1. CASE q = p
      BY <2>1, <3>1
    <3>2. CASE q # p
      <4>1. cmd'[q] = cmd[q] /\ CommandOrdered(cmd[q], boundaries, clock) /\ clock \in Nat
        BY <2>1, <3>2 DEF InForce, Commands, Declared
      <4> QED
        BY <4>1 DEF CommandOrdered
    <3> QED
      BY <3>1, <3>2
  <2> QED
    BY <2>1, <2>2 DEF Commands
<1>3. Judged'
  BY DEF InForce, Judged, JudgedByTheBoundaryInForce
<1> QED
  BY <1>1, <1>2, <1>3 DEF InForce

LEMMA StartInitInForce ==
    ASSUME InForce, NEW p \in Process, StartInit(p)
    PROVE  InForce'
<1>1. PICK path \in Paths, answers \in AnswerSets, tree \in Clients, named \in Named :
        LET result    == Detect(tree)
            effective == IF named # NoArchetype THEN named ELSE result.archetype
        IN  cmd' = [cmd EXCEPT ![p] =
                  [Idle EXCEPT !.at = "look", !.verb = "init", !.path = path,
                               !.tier = Negotiate(answers), !.archetype = effective,
                               !.before = Len(boundaries)]]
  BY DEF StartInit
<1> DEFINE effective == IF named # NoArchetype THEN named ELSE Detect(tree).archetype
           tier == Negotiate(answers)
<1> HIDE DEF effective, tier
<1> DEFINE c == [Idle EXCEPT !.at = "look", !.verb = "init", !.path = path,
                             !.tier = tier, !.archetype = effective,
                             !.before = Len(boundaries)]
<1>2. cmd' = [cmd EXCEPT ![p] = c]
  BY <1>1 DEF effective, tier
<1>3. UNCHANGED <<boundaries, clock, checked>>
  BY DEF StartInit
<1>4. IsCommand(c) /\ c.at = "look" /\ c.before = Len(boundaries)
  BY DEF Idle, IsCommand
<1> HIDE DEF c
<1>5. Len(boundaries) \in Nat /\ clock \in Nat
  BY CountBoundaries DEF InForce, Declared
<1>6. CommandOrdered(c, boundaries, clock')
  BY <1>4, <1>5 DEF CommandOrdered
<1>7. clock' \in Nat /\ clock <= clock'
  BY <1>3, <1>5
<1> QED
  BY <1>2, <1>3, <1>6, <1>7, CommandStep

LEMMA StartBoundaryInForce ==
    ASSUME InForce, NEW p \in Process, StartBoundary(p)
    PROVE  InForce'
<1>1. PICK path \in Paths, depth \in {SystemLevel, Levels}, answers \in AnswerSets :
          cmd' = [cmd EXCEPT ![p] =
                  [Idle EXCEPT !.at = "stamp", !.verb = "boundary", !.path = path,
                               !.depth = depth, !.ids = Resolved(SubSeq(path, 1, depth)),
                               !.tier = Negotiate(answers), !.before = Len(boundaries)]]
  BY DEF StartBoundary
<1> DEFINE ids == Resolved(SubSeq(path, 1, depth))
           tier == Negotiate(answers)
<1> HIDE DEF ids, tier
<1> DEFINE c == [Idle EXCEPT !.at = "stamp", !.verb = "boundary", !.path = path,
                             !.depth = depth, !.ids = ids, !.tier = tier,
                             !.before = Len(boundaries)]
<1>2. cmd' = [cmd EXCEPT ![p] = c]
  BY <1>1 DEF ids, tier
<1>3. UNCHANGED <<boundaries, clock, checked>>
  BY DEF StartBoundary
<1>4. IsCommand(c) /\ c.at = "stamp" /\ c.before = Len(boundaries)
  BY DEF Idle, IsCommand
<1> HIDE DEF c
<1>5. Len(boundaries) \in Nat /\ clock \in Nat
  BY CountBoundaries DEF InForce, Declared
<1>6. CommandOrdered(c, boundaries, clock')
  BY <1>4, <1>5 DEF CommandOrdered
<1>7. clock' \in Nat /\ clock <= clock'
  BY <1>3, <1>5
<1> QED
  BY <1>2, <1>3, <1>6, <1>7, CommandStep

\* A command that is over declares nothing.
LEMMA IdleOrdered ==
    ASSUME InForce
    PROVE  CommandOrdered(Idle, boundaries, clock)
<1>1. IsCommand(Idle) /\ Idle.at = "idle" /\ Idle.before = 0
  BY DEF Idle, IsCommand
<1> QED
  BY <1>1, CountBoundaries DEF InForce, CommandOrdered

\* Looking a level up and creating it leave what the command found of boundaries.
LEMMA LevelStep ==
    ASSUME InForce, NEW p \in Process, NEW at \in {"look", "create", "stamp"}, NEW depth, NEW ids,
           cmd' = [cmd EXCEPT ![p] = [cmd[p] EXCEPT !.at = at, !.depth = depth, !.ids = ids]],
           UNCHANGED <<boundaries, clock, checked>>
    PROVE  InForce'
<1> DEFINE c == [cmd[p] EXCEPT !.at = at, !.depth = depth, !.ids = ids]
<1>1. IsCommand(cmd[p]) /\ cmd[p].before \in 0..Len(boundaries) /\ clock \in Nat
  BY DEF InForce, Commands, CommandOrdered, Declared
<1>3. IsCommand(c) /\ c.at = at /\ c.before = cmd[p].before
  BY <1>1 DEF IsCommand
<1> HIDE DEF c
<1>4. CommandOrdered(c, boundaries, clock')
  BY <1>1, <1>3 DEF CommandOrdered
<1>5. cmd' = [cmd EXCEPT ![p] = c]
  BY DEF c
<1>6. clock' \in Nat /\ clock <= clock'
  BY <1>1
<1> QED
  BY <1>4, <1>5, <1>6, CommandStep

LEMMA LookUpInForce ==
    ASSUME InForce, NEW p \in Process, LookUp(p)
    PROVE  InForce'
<1>1. IsCommand(cmd[p])
  BY DEF InForce, Commands, CommandOrdered
<1> DEFINE ids == Resolved(cmd[p].path)
<1>2. CASE Len(ids) < Levels
  <2>1. cmd' = [cmd EXCEPT ![p] = [cmd[p] EXCEPT !.at = "create", !.depth = Len(ids) + 1]]
    BY <1>2 DEF LookUp
  <2> HIDE DEF ids
  <2>2. [cmd[p] EXCEPT !.at = "create", !.depth = Len(ids) + 1] =
        [cmd[p] EXCEPT !.at = "create", !.depth = Len(ids) + 1, !.ids = cmd[p].ids]
    BY <1>1 DEF IsCommand
  <2>3. UNCHANGED <<boundaries, clock, checked>>
    BY DEF LookUp
  <2> QED
    BY <2>1, <2>2, <2>3, LevelStep
<1>3. CASE ~(Len(ids) < Levels)
  <2>1. cmd' = [cmd EXCEPT ![p] = [cmd[p] EXCEPT !.at = "stamp", !.ids = ids]]
    BY <1>3 DEF LookUp
  <2> HIDE DEF ids
  <2>2. [cmd[p] EXCEPT !.at = "stamp", !.ids = ids] =
        [cmd[p] EXCEPT !.at = "stamp", !.depth = cmd[p].depth, !.ids = ids]
    BY <1>1 DEF IsCommand
  <2>3. UNCHANGED <<boundaries, clock, checked>>
    BY DEF LookUp
  <2> QED
    BY <2>1, <2>2, <2>3, LevelStep
<1> QED
  BY <1>2, <1>3

LEMMA CreateInForce ==
    ASSUME InForce, NEW p \in Process, Create(p)
    PROVE  InForce'
<1>1. IsCommand(cmd[p]) /\ clock \in Nat
  BY DEF InForce, Commands, CommandOrdered, Declared
<1>2. UNCHANGED <<boundaries, clock, checked>>
  BY DEF Create
<1>3. cmd' = [cmd EXCEPT ![p] = [cmd[p] EXCEPT !.at = "look"]] \/ cmd' = [cmd EXCEPT ![p] = Idle]
  BY DEF Create
<1>4. [cmd[p] EXCEPT !.at = "look"] =
      [cmd[p] EXCEPT !.at = "look", !.depth = cmd[p].depth, !.ids = cmd[p].ids]
  BY <1>1 DEF IsCommand
<1>5. CASE cmd' = [cmd EXCEPT ![p] = [cmd[p] EXCEPT !.at = "look"]]
  BY <1>2, <1>4, <1>5, LevelStep
<1>6. CASE cmd' = [cmd EXCEPT ![p] = Idle]
  <2>1. clock' \in Nat /\ clock <= clock'
    BY <1>1, <1>2
  <2>2. CommandOrdered(Idle, boundaries, clock')
    BY <1>2, IdleOrdered
  <2> QED
    BY <1>2, <1>6, <2>1, <2>2, CommandStep
<1> QED
  BY <1>3, <1>5, <1>6

\* Every boundary there is was declared before the clock is read.
LEMMA StampInForce ==
    ASSUME InForce, NEW p \in Process, Stamp(p)
    PROVE  InForce'
<1> DEFINE c == [[cmd[p] EXCEPT !.at = "declare"] EXCEPT !.now = clock]
<1>1. /\ IsCommand(cmd[p]) /\ cmd[p].before \in 0..Len(boundaries)
      /\ clock \in Nat /\ DOMAIN cmd = Process
  BY DEF InForce, Commands, CommandOrdered, Declared
<1>2. cmd' = [cmd EXCEPT ![p] = c]
  BY <1>1 DEF Stamp
<1>3. clock' = clock + 1 /\ UNCHANGED <<boundaries, checked>>
  BY DEF Stamp
<1>5. IsCommand(c) /\ c.before = cmd[p].before /\ c.now = clock
  BY <1>1 DEF IsCommand
<1> HIDE DEF c
<1>6. \A m \in 1..cmd[p].before : boundaries[m].at < clock
  BY <1>1, CountBoundaries DEF InForce, Declared
<1>7. CommandOrdered(c, boundaries, clock')
  BY <1>1, <1>3, <1>5, <1>6 DEF CommandOrdered
<1>8. clock' \in Nat /\ clock <= clock'
  BY <1>1, <1>3
<1> QED
  BY <1>2, <1>3, <1>7, <1>8, CommandStep

\* The boundary declared is later than all its command found, and the ones that
\* came between keep their places.
LEMMA DeclareInForce ==
    ASSUME InForce, NEW p \in Process, Declare(p)
    PROVE  InForce'
<1> DEFINE row == BoundaryRow(cmd[p])
           last == Len(boundaries) + 1
<1>1. /\ cmd[p].at = "declare"
      /\ boundaries' = Append(boundaries, row)
      /\ cmd' = [cmd EXCEPT ![p] = Idle]
      /\ UNCHANGED <<clock, checked>>
  BY DEF Declare
<1>2. row.at = cmd[p].now /\ row.before = cmd[p].before
  BY DEF BoundaryRow
<1> HIDE DEF row
<1>3. Len(boundaries) \in Nat /\ DOMAIN boundaries = 1..Len(boundaries) /\ clock \in Nat
  BY CountBoundaries DEF InForce, Declared
<1>4. /\ IsSeq(boundaries')
      /\ Len(boundaries') = Len(boundaries) + 1
      /\ DOMAIN boundaries' = 1..(Len(boundaries) + 1)
      /\ \A n \in 1..Len(boundaries) : boundaries'[n] = boundaries[n]
      /\ boundaries'[last] = row
  BY <1>1, AppendIsSeq DEF InForce, Declared
<1>5. /\ cmd[p].before \in 0..Len(boundaries)
      /\ cmd[p].now \in Nat /\ cmd[p].now < clock
      /\ \A m \in 1..cmd[p].before : boundaries[m].at < cmd[p].now
  BY <1>1 DEF InForce, Commands, CommandOrdered
<1>6. Declared'
  <2>1. ASSUME NEW n \in 1..Len(boundaries)
        PROVE  Ordered(boundaries', n) /\ boundaries'[n].at < clock
    <3>1. Ordered(boundaries, n) /\ boundaries[n].at < clock
      BY <1>3 DEF InForce, Declared
    <3>2. \A m \in 1..boundaries[n].before : m \in 1..Len(boundaries)
      BY <1>3, <3>1 DEF Ordered
    <3> QED
      BY <1>4, <3>1, <3>2 DEF Ordered
  <2>2. Ordered(boundaries', last) /\ boundaries'[last].at < clock
    <3>1. \A m \in 1..cmd[p].before : m \in 1..Len(boundaries)
      BY <1>3, <1>5
    <3>2. \A m \in 1..cmd[p].before : boundaries'[m].at < cmd[p].now
      BY <1>4, <1>5, <3>1
    <3>3. cmd[p].before \in 0..(last - 1)
      BY <1>3, <1>5
    <3> QED
      BY <1>2, <1>4, <1>5, <3>2, <3>3 DEF Ordered
  <2>3. \A n \in DOMAIN boundaries' : n \in 1..Len(boundaries) \/ n = last
    BY <1>3, <1>4
  <2> QED
    BY <1>1, <1>3, <1>4, <2>1, <2>2, <2>3 DEF Declared
<1>7. Commands'
  <2>1. /\ DOMAIN cmd = Process
        /\ cmd' = [q \in Process |-> cmd'[q]]
        /\ cmd'[p] = Idle
        /\ \A q \in Process \ {p} : cmd'[q] = cmd[q]
    BY <1>1 DEF InForce, Commands
  <2>2. \A q \in Process : cmd'[q] = Idle \/ cmd'[q] = cmd[q]
    BY <2>1
  <2>3. ASSUME NEW c, CommandOrdered(c, boundaries, clock)
        PROVE  CommandOrdered(c, boundaries', clock)
    <3>1. c.before \in 0..Len(boundaries)
      BY <2>3 DEF CommandOrdered
    <3>2. c.before \in 0..Len(boundaries') /\ \A m \in 1..c.before : m \in 1..Len(boundaries)
      BY <1>3, <1>4, <3>1
    <3> QED
      BY <1>4, <2>3, <3>2 DEF CommandOrdered
  <2>4. \A q \in Process : CommandOrdered(cmd'[q], boundaries, clock)
    BY <2>2, IdleOrdered DEF InForce, Commands
  <2> QED
    BY <1>1, <2>1, <2>3, <2>4 DEF Commands
<1>8. Judged'
  <2>1. checked.seen \in 0..Len(boundaries) /\ checked.used \in 0..Len(boundaries)
    BY DEF InForce, Judged
  <2>2. checked.seen \in 0..Len(boundaries') /\ checked.used \in 0..Len(boundaries')
    BY <1>3, <1>4, <2>1
  <2>3. \A b \in 1..checked.seen : boundaries'[b] = boundaries[b]
    BY <1>3, <1>4, <2>1
  <2>4. checked.used # 0 => boundaries'[checked.used] = boundaries[checked.used]
    BY <1>3, <1>4, <2>1
  <2> QED
    BY <1>1, <2>2, <2>3, <2>4 DEF InForce, Judged, JudgedByTheBoundaryInForce
<1> QED
  BY <1>6, <1>7, <1>8 DEF InForce

\* The latest boundary is one of those declared for the scope.
LEMMA LatestDeclared ==
    ASSUME InForce, NEW system, NEW environment, Latest(system, environment) # 0
    PROVE  /\ Latest(system, environment) \in DeclaredFor(system, environment)
           /\ \A m \in DeclaredFor(system, environment) :
                 boundaries[Latest(system, environment)].at >= boundaries[m].at
<1> DEFINE all == DeclaredFor(system, environment)
           S == {boundaries[n].at : n \in all}
<1>1. all # {}
  BY DEF Latest
<1>2. \A n \in all : boundaries[n].at \in Nat /\ boundaries[n].at < clock
  BY DEF InForce, Declared, Ordered, DeclaredFor
<1>3. clock \in Nat
  BY DEF InForce, Declared
<1> HIDE DEF all
<1>4. S # {} /\ S \subseteq Nat /\ \A at \in S : at <= clock
  BY <1>1, <1>2, <1>3
<1>5. PICK at \in S : \A other \in S : at >= other
  <2> HIDE DEF S
  <2> QED
    BY <1>3, <1>4, Greatest
<1>6. PICK n \in all : at = boundaries[n].at
  BY <1>5
<1>7. \A m \in all : boundaries[n].at >= boundaries[m].at
  BY <1>5, <1>6
<1>8. Latest(system, environment) =
          CHOOSE k \in all : \A m \in all : boundaries[k].at >= boundaries[m].at
  BY <1>1 DEF Latest, all
<1>9. Latest(system, environment) \in all
      /\ \A m \in all : boundaries[Latest(system, environment)].at >= boundaries[m].at
  BY <1>6, <1>7, <1>8
<1> QED
  BY <1>9 DEF all

\* Had a command begun after the latest boundary was committed, it would have
\* declared a later one.
LEMMA ValidateInForce ==
    ASSUME InForce, ValidateEnvelope
    PROVE  InForce'
<1>1. PICK path \in Paths, depth \in {SystemLevel, Levels}, envelope \in Envelopes :
          LET ids     == Resolved(SubSeq(path, 1, depth))
              current == Latest(ids[SystemLevel], Environment(ids))
          IN  /\ current # 0
              /\ checked' = [verdict |-> Verdict(envelope), system |-> ids[SystemLevel],
                             environment |-> Environment(ids), used |-> current,
                             seen |-> Len(boundaries)]
  BY DEF ValidateEnvelope
<1> DEFINE ids         == Resolved(SubSeq(path, 1, depth))
           system      == ids[SystemLevel]
           environment == Environment(ids)
           current     == Latest(system, environment)
<1>2. /\ current # 0
      /\ checked'.system = system
      /\ checked'.environment = environment
      /\ checked'.used = current
      /\ checked'.seen = Len(boundaries)
  BY <1>1
<1>3. UNCHANGED <<boundaries, clock, cmd>>
  BY DEF ValidateEnvelope
<1> HIDE DEF ids, system, environment
<1>4. /\ current \in DeclaredFor(system, environment)
      /\ \A m \in DeclaredFor(system, environment) :
            boundaries[current].at >= boundaries[m].at
  BY <1>2, LatestDeclared
<1> HIDE DEF current
<1>5. Len(boundaries) \in Nat /\ DOMAIN boundaries = 1..Len(boundaries)
  BY CountBoundaries DEF InForce
<1>6. /\ current \in 1..Len(boundaries)
      /\ boundaries[current].system = system
      /\ boundaries[current].environment = environment
  BY <1>4, <1>5 DEF DeclaredFor
<1>7. ASSUME NEW b \in 1..Len(boundaries), boundaries[b].system = system,
             boundaries[b].environment = environment
      PROVE  boundaries[b].before < current
  <2>1. boundaries[current].at >= boundaries[b].at
    BY <1>4, <1>5, <1>7 DEF DeclaredFor
  <2>2. Ordered(boundaries, b) /\ Ordered(boundaries, current)
    BY <1>5, <1>6 DEF InForce, Declared
  <2>3. current \in 1..boundaries[b].before => boundaries[current].at < boundaries[b].at
    BY <2>2 DEF Ordered
  <2>4. boundaries[b].at \in Nat /\ boundaries[current].at \in Nat /\ boundaries[b].before \in Nat
    BY <2>2 DEF Ordered
  <2> QED
    BY <1>6, <2>1, <2>3, <2>4
<1>8. JudgedByTheBoundaryInForce'
  BY <1>2, <1>3, <1>6, <1>7 DEF JudgedByTheBoundaryInForce
<1>9. Judged'
  BY <1>2, <1>3, <1>5, <1>6, <1>8 DEF Judged
<1>10. Declared' /\ Commands'
  BY <1>3 DEF InForce, Declared, Commands
<1> QED
  BY <1>9, <1>10 DEF InForce

LEMMA KillInForce ==
    ASSUME InForce, NEW p \in Process, Kill(p)
    PROVE  InForce'
<1>1. cmd' = [cmd EXCEPT ![p] = Idle] /\ UNCHANGED <<boundaries, clock, checked>>
  BY DEF Kill
<1>2. clock' \in Nat /\ clock <= clock'
  BY <1>1 DEF InForce, Declared
<1>3. CommandOrdered(Idle, boundaries, clock')
  BY <1>1, IdleOrdered
<1> QED
  BY <1>1, <1>2, <1>3, CommandStep

LEMMA NextInForce == InForce /\ [OnboardingNext]_vars => InForce'
<1> SUFFICES ASSUME InForce, [OnboardingNext]_vars PROVE InForce'
  OBVIOUS
<1>1. CASE \E p \in Process : StartInit(p)
  BY <1>1, StartInitInForce
<1>2. CASE \E p \in Process : StartBoundary(p)
  BY <1>2, StartBoundaryInForce
<1>3. CASE \E p \in Process : LookUp(p)
  BY <1>3, LookUpInForce
<1>4. CASE \E p \in Process : Create(p)
  BY <1>4, CreateInForce
<1>5. CASE \E p \in Process : Stamp(p)
  BY <1>5, StampInForce
<1>6. CASE \E p \in Process : Declare(p)
  BY <1>6, DeclareInForce
<1>7. CASE \E p \in Process : Kill(p)
  BY <1>7, KillInForce
<1>8. CASE ValidateEnvelope
  BY <1>8, ValidateInForce
<1>9. CASE UNCHANGED <<boundaries, clock, cmd, checked>>
  BY <1>9 DEF InForce, Declared, Commands, Judged, JudgedByTheBoundaryInForce
<1>10. DetectTree \/ Transition \/ UNCHANGED vars => UNCHANGED <<boundaries, clock, cmd, checked>>
  BY DEF DetectTree, Transition, vars
<1> QED
  BY <1>1, <1>2, <1>3, <1>4, <1>5, <1>6, <1>7, <1>8, <1>9, <1>10 DEF OnboardingNext

\* However many commands declare boundaries at once, an envelope is judged by one of
\* its own scope that no later command had replaced (latest_boundary).
THEOREM EnvelopesJudgedInForce == OnboardingSpec => []JudgedByTheBoundaryInForce
<1>1. InForce => JudgedByTheBoundaryInForce
  BY DEF InForce, Judged
<1> QED
  BY <1>1, InitInForce, NextInForce, PTL DEF OnboardingSpec

-----------------------------------------------------------------------------
(* What an init reports.  Resolving a path follows it down, each row under the *)
(* one before, and nothing a command does afterwards takes such a row away.    *)

\* The rows ids of table r are those of the first levels of path.
Follows(r, ids, path) ==
    \A level \in 1..Len(ids) :
        /\ ids[level] \in DOMAIN r
        /\ r[ids[level]].slug = path[level]
        /\ r[ids[level]].parent = IF level = 1 THEN 0 ELSE ids[level - 1]

Whole(r, ids, path) == Len(ids) = Levels /\ Follows(r, ids, path)

LEMMA BelowFollows ==
    ASSUME Tree, NEW path, NEW level \in 1..Levels, NEW ids, IsSeq(ids),
           Len(ids) <= level - 1, Follows(rows, ids, path)
    PROVE  /\ IsSeq(Below(ids, path, level))
           /\ Len(Below(ids, path, level)) <= level
           /\ Follows(rows, Below(ids, path, level), path)
<1> DEFINE hits == Found(level, Parent(ids), path[level])
           m    == Min(hits)
<1>1. Len(ids) \in Nat /\ DOMAIN ids = 1..Len(ids) /\ level \in Nat
  BY SeqFacts DEF Levels
<1>2. CASE Below(ids, path, level) = ids
  BY <1>1, <1>2
<1>3. CASE Below(ids, path, level) # ids
  <2>1. Len(ids) = level - 1 /\ hits # {} /\ Below(ids, path, level) = Append(ids, m)
    BY <1>3 DEF Below
  <2>2. hits \subseteq DOMAIN rows /\ \A x, y \in hits : x = y
    BY DEF Found, Tree, OneRowPerPath
  <2>3. IsSeq(rows) /\ Len(rows) \in Nat /\ DOMAIN rows = 1..Len(rows)
    BY SeqFacts DEF Tree
  <2>4. m \in hits
    <3> HIDE DEF hits
    <3>1. PICK x \in hits : TRUE
      BY <2>1
    <3>2. \A y \in hits : x <= y
      BY <2>2, <2>3
    <3> QED
      BY <3>2 DEF Min
  <2>5. /\ m \in DOMAIN rows
        /\ rows[m].slug = path[level]
        /\ rows[m].parent = Parent(ids)
    BY <2>4 DEF Found
  <2>6. Parent(ids) = IF level = 1 THEN 0 ELSE ids[level - 1]
    <3>1. CASE level = 1
      <4>1. ids = <<>>
        BY <2>1, <3>1, EmptySeq DEF IsSeq
      <4> QED
        BY <3>1, <4>1 DEF Parent
    <3>2. CASE level # 1
      <4>1. ids # <<>>
        BY <1>1, <2>1, <3>2, EmptyIsSeq
      <4> QED
        BY <2>1, <3>2, <4>1 DEF Parent, Last
    <3> QED
      BY <3>1, <3>2
  <2> HIDE DEF m, hits
  <2>7. /\ IsSeq(Append(ids, m))
        /\ Len(Append(ids, m)) = level
        /\ \A n \in 1..Len(ids) : Append(ids, m)[n] = ids[n]
        /\ Append(ids, m)[level] = m
    BY <1>1, <2>1, AppendIsSeq
  <2>8. ASSUME NEW n \in 1..level
        PROVE  /\ Append(ids, m)[n] \in DOMAIN rows
               /\ rows[Append(ids, m)[n]].slug = path[n]
               /\ rows[Append(ids, m)[n]].parent =
                      IF n = 1 THEN 0 ELSE Append(ids, m)[n - 1]
    <3>1. CASE n = level
      BY <1>1, <2>1, <2>5, <2>6, <2>7, <3>1
    <3>2. CASE n # level
      <4>1. n \in 1..Len(ids) /\ (n # 1 => n - 1 \in 1..Len(ids))
        BY <1>1, <2>1, <3>2
      <4> QED
        BY <2>7, <4>1 DEF Follows
    <3> QED
      BY <3>1, <3>2
  <2> QED
    BY <1>1, <2>1, <2>7, <2>8 DEF Follows
<1> QED
  BY <1>2, <1>3

LEMMA ResolvedFollows ==
    ASSUME Tree, NEW path
    PROVE  /\ Follows(rows, Resolved(path), path)
           /\ Len(Resolved(path)) \in 0..Levels
<1> DEFINE one   == Below(<<>>, path, 1)
           two   == Below(one, path, 2)
           three == Below(two, path, 3)
           four  == Below(three, path, 4)
<1>1. IsSeq(<<>>) /\ Len(<<>>) <= 1 - 1 /\ Follows(rows, <<>>, path)
  BY EmptyIsSeq DEF Follows
<1>2. IsSeq(one) /\ Len(one) <= 2 - 1 /\ Follows(rows, one, path)
  BY <1>1, BelowFollows DEF Levels
<1> HIDE DEF one
<1>3. IsSeq(two) /\ Len(two) <= 3 - 1 /\ Follows(rows, two, path)
  BY <1>2, BelowFollows DEF Levels
<1> HIDE DEF two
<1>4. IsSeq(three) /\ Len(three) <= 4 - 1 /\ Follows(rows, three, path)
  BY <1>3, BelowFollows DEF Levels
<1> HIDE DEF three
<1>5. IsSeq(four) /\ Len(four) <= 4 /\ Follows(rows, four, path)
  BY <1>4, BelowFollows DEF Levels
<1>6. Resolved(path) = four
  BY DEF Resolved, one, two, three
<1> HIDE DEF four
<1> DEFINE len == Len(four)
<1>7. len \in Nat /\ len <= 4
  BY <1>5, SeqFacts
<1> HIDE DEF len
<1>8. len \in 0..Levels
  BY <1>7 DEF Levels
<1> QED
  BY <1>5, <1>6, <1>8 DEF len

RowsKept ==
    \A n \in DOMAIN rows : /\ n \in DOMAIN rows'
                           /\ rows'[n].slug = rows[n].slug
                           /\ rows'[n].parent = rows[n].parent

LEMMA WholeStays ==
    ASSUME RowsKept, NEW ids, NEW path, Whole(rows, ids, path)
    PROVE  Whole(rows', ids, path)
BY DEF RowsKept, Whole, Follows

\* A row's slug and its parent are never rewritten.
LEMMA RowsAreKept ==
    ASSUME Tree, [OnboardingNext]_vars
    PROVE  RowsKept
<1>1. CASE rows' = rows
  BY <1>1 DEF RowsKept
<1>2. ASSUME NEW p \in Process, Create(p) PROVE RowsKept
  <2> DEFINE row == RowAt(cmd[p].path, cmd[p].depth, cmd[p].archetype)
  <2>1. rows' = rows \/ rows' = Append(rows, row)
    BY <1>2 DEF Create
  <2> HIDE DEF row
  <2>2. CASE rows' = Append(rows, row)
    <3>1. Len(rows) \in Nat /\ DOMAIN rows = 1..Len(rows) /\ IsSeq(rows)
      BY SeqFacts DEF Tree
    <3>2. /\ DOMAIN rows' = 1..(Len(rows) + 1)
          /\ \A n \in 1..Len(rows) : rows'[n] = rows[n]
      BY <2>2, <3>1, AppendIsSeq
    <3> QED
      BY <3>1, <3>2 DEF RowsKept
  <2> QED
    BY <1>1, <2>1, <2>2
<1>3. CASE Transition
  <2>1. PICK system \in Systems, to \in LifecycleStates :
            rows' = [rows EXCEPT ![system].state = to]
    BY <1>3 DEF Transition
  <2>2. system \in DOMAIN rows
    BY DEF Systems
  <2> DEFINE moved == [rows[system] EXCEPT !.state = to]
  <2>3. moved = [level |-> rows[system].level, slug |-> rows[system].slug,
                 parent |-> rows[system].parent, archetype |-> rows[system].archetype,
                 state |-> to]
    BY <2>2 DEF Tree, IsRow
  <2>4. moved.slug = rows[system].slug /\ moved.parent = rows[system].parent
    BY <2>3
  <2>5. rows' = [rows EXCEPT ![system] = moved]
    BY <2>1
  <2> HIDE DEF moved
  <2> QED
    BY <2>4, <2>5 DEF RowsKept
<1>4. \/ \E p \in Process : Create(p)
      \/ Transition
      \/ rows' = rows
  BY DEF OnboardingNext, vars, DetectTree, StartInit, StartBoundary, LookUp, Stamp, Declare,
         Kill, ValidateEnvelope
<1> QED
  BY <1>1, <1>2, <1>3, <1>4

\* What a command holds of the path it resolved.
HasPath(c) == {"at", "verb", "path", "depth", "ids", "tier", "now"} \subseteq DOMAIN c

Holds(r, c) ==
    /\ HasPath(c)
    /\ c.verb = "init" /\ c.at \in {"stamp", "declare"} => Whole(r, c.ids, c.path)

DeclaredAs(b, d) ==
    \E n \in DOMAIN b : /\ b[n].system = d.ids[SystemLevel]
                        /\ b[n].environment = d.ids[Levels]
                        /\ b[n].tier = d.tier

Reported == done # Idle => Whole(rows, done.ids, done.path) /\ DeclaredAs(boundaries, done)

ScopeInv ==
    /\ Tree /\ InForce /\ Reported
    /\ \A p \in Process : Holds(rows, cmd[p])

LEMMA IdleHolds == \A r : Holds(r, Idle)
BY DEF Holds, HasPath, Idle

LEMMA InitScope == OnboardingInit => ScopeInv
<1> SUFFICES ASSUME OnboardingInit PROVE ScopeInv
  OBVIOUS
<1>1. done = Idle /\ \A p \in Process : cmd[p] = Idle
  BY DEF OnboardingInit
<1> QED
  BY <1>1, IdleHolds, InitTree, InitInForce DEF ScopeInv, Reported

LEMMA BoundariesStay ==
    ASSUME InForce, InForce', NEW row, boundaries' = Append(boundaries, row)
    PROVE  /\ \A n \in DOMAIN boundaries : n \in DOMAIN boundaries' /\ boundaries'[n] = boundaries[n]
           /\ \E n \in DOMAIN boundaries' : boundaries'[n] = row
<1>1. Len(boundaries) \in Nat /\ DOMAIN boundaries = 1..Len(boundaries) /\ IsSeq(boundaries)
  BY SeqFacts DEF InForce, Declared
<1>2. /\ DOMAIN boundaries' = 1..(Len(boundaries) + 1)
      /\ \A n \in 1..Len(boundaries) : boundaries'[n] = boundaries[n]
      /\ boundaries'[Len(boundaries) + 1] = row
  BY <1>1, AppendIsSeq
<1> QED
  BY <1>1, <1>2

\* What one command holds after its step.
LEMMA HoldsStep ==
    ASSUME ScopeInv, RowsKept, NEW p \in Process, NEW c,
           cmd' = [cmd EXCEPT ![p] = c], Holds(rows', c)
    PROVE  \A q \in Process : Holds(rows', cmd'[q])
<1>1. DOMAIN cmd = Process
  BY DEF ScopeInv, InForce, Commands
<1>2. \A q \in Process : cmd'[q] = IF q = p THEN c ELSE cmd[q]
  BY <1>1
<1> QED
  BY <1>2, WholeStays DEF ScopeInv, Holds

LEMMA CommandsHold ==
    ASSUME ScopeInv, OnboardingNext, RowsKept
    PROVE  \A q \in Process : Holds(rows', cmd'[q])
<1>1. CASE DetectTree \/ ValidateEnvelope \/ Transition
  <2>1. cmd' = cmd
    BY <1>1 DEF DetectTree, ValidateEnvelope, Transition
  <2> QED
    BY <2>1, WholeStays DEF ScopeInv, Holds
<1>2. ASSUME NEW p \in Process, StartInit(p)
      PROVE  \A q \in Process : Holds(rows', cmd'[q])
  <2>1. PICK path \in Paths, answers \in AnswerSets, tree \in Clients, named \in Named :
            LET result    == Detect(tree)
                effective == IF named # NoArchetype THEN named ELSE result.archetype
            IN  cmd' = [cmd EXCEPT ![p] =
                    [Idle EXCEPT !.at = "look", !.verb = "init", !.path = path,
                                 !.tier = Negotiate(answers), !.archetype = effective,
                                 !.before = Len(boundaries)]]
    BY <1>2 DEF StartInit
  <2> DEFINE effective == IF named # NoArchetype THEN named ELSE Detect(tree).archetype
             tier == Negotiate(answers)
  <2> HIDE DEF effective, tier
  <2> DEFINE c == [Idle EXCEPT !.at = "look", !.verb = "init", !.path = path, !.tier = tier,
                               !.archetype = effective, !.before = Len(boundaries)]
  <2>2. cmd' = [cmd EXCEPT ![p] = c]
    BY <2>1 DEF effective, tier
  <2>3. HasPath(c) /\ c.at = "look"
    BY DEF Idle, HasPath
  <2> HIDE DEF c
  <2> QED
    BY <2>2, <2>3, HoldsStep DEF Holds
<1>3. ASSUME NEW p \in Process, StartBoundary(p)
      PROVE  \A q \in Process : Holds(rows', cmd'[q])
  <2>1. PICK path \in Paths, depth \in {SystemLevel, Levels}, answers \in AnswerSets :
            cmd' = [cmd EXCEPT ![p] =
              [Idle EXCEPT !.at = "stamp", !.verb = "boundary", !.path = path,
                           !.depth = depth, !.ids = Resolved(SubSeq(path, 1, depth)),
                           !.tier = Negotiate(answers), !.before = Len(boundaries)]]
    BY <1>3 DEF StartBoundary
  <2> DEFINE ids  == Resolved(SubSeq(path, 1, depth))
             tier == Negotiate(answers)
  <2> HIDE DEF ids, tier
  <2> DEFINE c == [Idle EXCEPT !.at = "stamp", !.verb = "boundary", !.path = path,
                               !.depth = depth, !.ids = ids, !.tier = tier,
                               !.before = Len(boundaries)]
  <2>2. cmd' = [cmd EXCEPT ![p] = c]
    BY <2>1 DEF ids, tier
  <2>3. HasPath(c) /\ c.verb = "boundary"
    BY DEF Idle, HasPath
  <2> HIDE DEF c
  <2> QED
    BY <2>2, <2>3, HoldsStep DEF Holds
<1>4. ASSUME NEW p \in Process, LookUp(p)
      PROVE  \A q \in Process : Holds(rows', cmd'[q])
  <2> DEFINE ids   == Resolved(cmd[p].path)
             deeper == [cmd[p] EXCEPT !.at = "create", !.depth = Len(ids) + 1]
             whole == [cmd[p] EXCEPT !.at = "stamp", !.ids = ids]
  <2>1. HasPath(cmd[p])
    BY DEF ScopeInv, Holds
  <2>2. rows' = rows
    BY <1>4 DEF LookUp
  <2>3. CASE Len(ids) < Levels
    <3>1. cmd' = [cmd EXCEPT ![p] = deeper]
      BY <1>4, <2>3 DEF LookUp
    <3>2. HasPath(deeper) /\ deeper.at = "create"
      BY <2>1 DEF HasPath
    <3> HIDE DEF deeper
    <3> QED
      BY <3>1, <3>2, HoldsStep DEF Holds
  <2>4. CASE ~(Len(ids) < Levels)
    <3>1. cmd' = [cmd EXCEPT ![p] = whole]
      BY <1>4, <2>4 DEF LookUp
    <3>2. HasPath(whole) /\ whole.ids = ids /\ whole.path = cmd[p].path
      BY <2>1 DEF HasPath
    <3>3. Follows(rows, ids, cmd[p].path) /\ Len(ids) \in 0..Levels
      BY ResolvedFollows DEF ScopeInv
    <3> HIDE DEF whole, ids
    <3>4. \A n \in 0..Levels : n < Levels \/ n = Levels
      BY DEF Levels
    <3>5. Len(ids) = Levels
      BY <2>4, <3>3, <3>4, Zenon DEF ids
    <3> QED
      BY <2>2, <3>1, <3>2, <3>3, <3>5, HoldsStep DEF Holds, Whole
  <2> QED
    BY <2>3, <2>4
<1>5. ASSUME NEW p \in Process, Create(p)
      PROVE  \A q \in Process : Holds(rows', cmd'[q])
  <2> DEFINE c == [cmd[p] EXCEPT !.at = "look"]
  <2>1. cmd' = [cmd EXCEPT ![p] = c] \/ cmd' = [cmd EXCEPT ![p] = Idle]
    BY <1>5 DEF Create
  <2>2. HasPath(c) /\ c.at = "look"
    BY DEF ScopeInv, Holds, HasPath
  <2> HIDE DEF c
  <2> QED
    BY <2>1, <2>2, IdleHolds, HoldsStep DEF Holds
<1>6. ASSUME NEW p \in Process, Stamp(p)
      PROVE  \A q \in Process : Holds(rows', cmd'[q])
  <2> DEFINE c == [[cmd[p] EXCEPT !.at = "declare"] EXCEPT !.now = clock]
  <2>1. HasPath(cmd[p]) /\ DOMAIN cmd = Process /\ Holds(rows, cmd[p])
    BY DEF ScopeInv, Holds, InForce, Commands
  <2>2. cmd' = [cmd EXCEPT ![p] = c] /\ rows' = rows /\ cmd[p].at = "stamp"
    BY <1>6, <2>1 DEF Stamp
  <2>3. HasPath(c) /\ c.verb = cmd[p].verb /\ c.ids = cmd[p].ids /\ c.path = cmd[p].path
    BY <2>1 DEF HasPath
  <2> HIDE DEF c
  <2>4. Holds(rows', c)
    BY <2>1, <2>2, <2>3 DEF Holds
  <2> QED
    BY <2>2, <2>4, HoldsStep
<1>7. ASSUME NEW p \in Process, Declare(p) \/ Kill(p)
      PROVE  \A q \in Process : Holds(rows', cmd'[q])
  <2>1. cmd' = [cmd EXCEPT ![p] = Idle]
    BY <1>7 DEF Declare, Kill
  <2> QED
    BY <2>1, IdleHolds, HoldsStep
<1> QED
  BY <1>1, <1>2, <1>3, <1>4, <1>5, <1>6, <1>7 DEF OnboardingNext

LEMMA ReportStays ==
    ASSUME ScopeInv, [OnboardingNext]_vars, RowsKept, InForce'
    PROVE  Reported'
<1>1. CASE UNCHANGED <<boundaries, done>>
  BY <1>1, WholeStays DEF ScopeInv, Reported
<1>2. ASSUME NEW p \in Process, Declare(p) PROVE Reported'
  <2> DEFINE row == BoundaryRow(cmd[p])
             d   == [cmd[p] EXCEPT !.at = "done"]
  <2>1. /\ cmd[p].at = "declare"
        /\ boundaries' = Append(boundaries, row)
        /\ done' = IF cmd[p].verb = "init" THEN d ELSE done
        /\ rows' = rows
    BY <1>2 DEF Declare
  <2>2. HasPath(cmd[p]) /\ Holds(rows, cmd[p])
    BY DEF ScopeInv, Holds
  <2>3. /\ \A n \in DOMAIN boundaries :
              n \in DOMAIN boundaries' /\ boundaries'[n] = boundaries[n]
        /\ \E n \in DOMAIN boundaries' : boundaries'[n] = row
    <3> HIDE DEF row
    <3> QED
      BY <2>1, BoundariesStay DEF ScopeInv
  <2>4. CASE cmd[p].verb = "init"
    <3>1. d.ids = cmd[p].ids /\ d.path = cmd[p].path /\ d.tier = cmd[p].tier
      BY <2>2 DEF HasPath
    <3>2. Whole(rows, cmd[p].ids, cmd[p].path)
      BY <2>1, <2>2, <2>4 DEF Holds
    <3>3. /\ row.system = cmd[p].ids[SystemLevel]
          /\ row.environment = cmd[p].ids[Levels]
          /\ row.tier = cmd[p].tier
      BY <3>2 DEF BoundaryRow, Environment, Whole
    <3> HIDE DEF d, row
    <3>4. DeclaredAs(boundaries', d)
      BY <2>3, <3>1, <3>3 DEF DeclaredAs
    <3> QED
      BY <2>1, <2>4, <3>1, <3>2, <3>4 DEF Reported
  <2>5. CASE cmd[p].verb # "init"
    <3>1. DeclaredAs(boundaries, done) => DeclaredAs(boundaries', done)
      BY <2>3 DEF DeclaredAs
    <3> QED
      BY <2>1, <2>5, <3>1 DEF ScopeInv, Reported
  <2> QED
    BY <2>4, <2>5
<1>3. \/ \E p \in Process : Declare(p)
      \/ UNCHANGED <<boundaries, done>>
  BY DEF OnboardingNext, vars, DetectTree, StartInit, StartBoundary, LookUp, Create, Stamp,
         Kill, ValidateEnvelope, Transition
<1> QED
  BY <1>1, <1>2, <1>3

LEMMA NextScope == ScopeInv /\ [OnboardingNext]_vars => ScopeInv'
<1> SUFFICES ASSUME ScopeInv, [OnboardingNext]_vars PROVE ScopeInv'
  OBVIOUS
<1>1. Tree' /\ InForce' /\ RowsKept
  BY NextTree, NextInForce, RowsAreKept DEF ScopeInv
<1>2. Reported'
  BY <1>1, ReportStays
<1>3. \A q \in Process : Holds(rows', cmd'[q])
  <2>1. CASE UNCHANGED vars
    BY <2>1 DEF ScopeInv, vars
  <2> QED
    BY <1>1, <2>1, CommandsHold
<1> QED
  BY <1>1, <1>2, <1>3 DEF ScopeInv

\* InitLeavesAWholeScope: whatever comes between the steps of an init, what it
\* reports is there, row under row, with the boundary it declared (_ensure_scope,
\* declare_boundary).
THEOREM InitIsWhole == OnboardingSpec => []InitLeavesAWholeScope
<1>1. ScopeInv => InitLeavesAWholeScope
  <2> SUFFICES ASSUME ScopeInv, done # Idle
               PROVE  /\ Whole(rows, done.ids, done.path)
                      /\ DeclaredAs(boundaries, done)
    BY DEF InitLeavesAWholeScope, Whole, Follows, DeclaredAs
  <2> QED
    BY DEF ScopeInv, Reported
<1> QED
  BY <1>1, InitScope, NextScope, PTL DEF OnboardingSpec
-----------------------------------------------------------------------------
(* Induction over the naturals, of a set: what holds of 0 and passes from   *)
(* each number to the next holds of all.                                    *)

LEMMA AllNaturals ==
    ASSUME NEW P, 0 \in P, \A n \in Nat : n \in P => n + 1 \in P
    PROVE  Nat \subseteq P
<1> SUFFICES ASSUME Nat \ P # {}
             PROVE  FALSE
  OBVIOUS
<1>1. Nat \ P \subseteq Nat
  OBVIOUS
<1>2. PICK n \in Nat \ P : \A m \in Nat \ P : n <= m
  BY <1>1, Least
<1>3. n # 0 /\ n \in Nat
  BY <1>2
<1>4. n - 1 \in Nat /\ ~(n <= n - 1)
  BY <1>3
<1>5. n - 1 \in P
  BY <1>2, <1>4
<1>6. (n - 1) + 1 \in P
  BY <1>4, <1>5
<1> QED
  BY <1>2, <1>3, <1>6

\* Of finitely many naturals one is the greatest.
LEMMA GreatestOfMany ==
    ASSUME NEW length \in Nat \ {0}, NEW f, \A n \in 1..length : f[n] \in Nat
    PROVE  \E k \in 1..length : \A n \in 1..length : f[n] <= f[k]
<1> DEFINE Tops(m) == \E k \in 1..m : \A n \in 1..m : f[n] <= f[k]
           P == {m \in Nat : m \in 1..length => Tops(m)}
<1>1. 0 \in P
  OBVIOUS
<1>2. ASSUME NEW m \in Nat, m \in P, m + 1 \in 1..length
      PROVE  Tops(m + 1)
  <2>1. CASE m = 0
    <3>1. 1..(m + 1) = {1} /\ f[1] \in Nat
      BY <2>1
    <3> QED
      BY <3>1
  <2>2. CASE m # 0
    <3>1. m \in 1..length
      BY <1>2, <2>2
    <3>2. PICK k \in 1..m : \A n \in 1..m : f[n] <= f[k]
      BY <1>2, <3>1
    <3>3. /\ k \in 1..(m + 1) /\ f[k] \in Nat /\ f[m + 1] \in Nat
          /\ \A n \in 1..(m + 1) : n \in 1..m \/ n = m + 1
          /\ \A n \in 1..(m + 1) : f[n] \in Nat
      BY <1>2, <3>1
    <3>4. CASE f[m + 1] <= f[k]
      <4>1. \A n \in 1..(m + 1) : f[n] <= f[k]
        BY <3>2, <3>3, <3>4
      <4> QED
        BY <3>3, <4>1
    <3>5. CASE ~(f[m + 1] <= f[k])
      <4>1. \A n \in 1..(m + 1) : f[n] <= f[m + 1]
        BY <3>2, <3>3, <3>5
      <4>2. m + 1 \in 1..(m + 1)
        OBVIOUS
      <4> QED
        BY <4>1, <4>2
    <3> QED
      BY <3>4, <3>5
  <2> QED
    BY <2>1, <2>2
<1> HIDE DEF Tops
<1>3. \A m \in Nat : m \in P => m + 1 \in P
  BY <1>2
<1>4. Nat \subseteq P
  <2> HIDE DEF P
  <2> QED
    BY <1>1, <1>3, AllNaturals
<1>5. Tops(length)
  BY <1>4
<1> QED
  BY <1>5 DEF Tops

-----------------------------------------------------------------------------
(* The walk reads what its equation says.                                   *)

ReadsUpTo(f, tree, last) ==
    f = [n \in 0..last |-> IF n = 0 THEN Unread ELSE Consider(f[n - 1], tree[n])]

LEMMA ReadingExists ==
    ASSUME NEW tree
    PROVE  \A last \in Nat : \E f : ReadsUpTo(f, tree, last)
<1> DEFINE P == {last \in Nat : \E f : ReadsUpTo(f, tree, last)}
<1>1. 0 \in P
  <2> DEFINE f == [n \in 0..0 |-> Unread]
  <2>1. f = [n \in 0..0 |-> IF n = 0 THEN Unread ELSE Consider(f[n - 1], tree[n])]
    OBVIOUS
  <2> HIDE DEF f
  <2>2. ReadsUpTo(f, tree, 0)
    BY <2>1 DEF ReadsUpTo
  <2> QED
    BY <2>2
<1>2. ASSUME NEW last \in Nat, last \in P
      PROVE  last + 1 \in P
  <2>1. PICK f : ReadsUpTo(f, tree, last)
    BY <1>2
  <2> DEFINE g == [n \in 0..(last + 1) |->
                      IF n \in 0..last THEN f[n] ELSE Consider(f[last], tree[last + 1])]
  <2>2. ASSUME NEW n \in 0..(last + 1)
        PROVE  g[n] = IF n = 0 THEN Unread ELSE Consider(g[n - 1], tree[n])
    <3>1. CASE n = 0
      <4>1. n \in 0..last
        BY <3>1
      <4>2. f[n] = Unread
        BY <2>1, <3>1, <4>1 DEF ReadsUpTo
      <4> QED
        BY <3>1, <4>1, <4>2
    <3>2. CASE n # 0 /\ n \in 0..last
      <4>1. n - 1 \in 0..last /\ n - 1 \in 0..(last + 1)
        BY <3>2
      <4>2. f[n] = Consider(f[n - 1], tree[n])
        BY <2>1, <3>2 DEF ReadsUpTo
      <4> QED
        BY <3>2, <4>1, <4>2
    <3>3. CASE n = last + 1
      <4>1. n \notin 0..last /\ n - 1 = last /\ last \in 0..last /\ last \in 0..(last + 1) /\ n # 0
        BY <3>3
      <4> QED
        BY <3>3, <4>1
    <3>4. n \in 0..last \/ n = last + 1
      OBVIOUS
    <3> QED
      BY <3>1, <3>2, <3>3, <3>4
  <2>3. g = [n \in 0..(last + 1) |-> g[n]]
    OBVIOUS
  <2> HIDE DEF g
  <2>4. ReadsUpTo(g, tree, last + 1)
    BY <2>2, <2>3 DEF ReadsUpTo
  <2> QED
    BY <2>4
<1>3. Nat \subseteq P
  <2> HIDE DEF P
  <2> QED
    BY <1>1, <1>2, AllNaturals
<1> QED
  BY <1>3

LEMMA ReadingReads ==
    ASSUME NEW tree, IsSeq(tree)
    PROVE  /\ Reading(tree)[0] = Unread
           /\ \A n \in 1..Len(tree) : Reading(tree)[n] = Consider(Reading(tree)[n - 1], tree[n])
<1>1. Len(tree) \in Nat
  BY SeqFacts
<1>2. \E f : ReadsUpTo(f, tree, Len(tree))
  BY <1>1, ReadingExists
<1>3. Reading(tree) = CHOOSE f : ReadsUpTo(f, tree, Len(tree))
  BY DEF Reading, ReadsUpTo
<1>4. ReadsUpTo(Reading(tree), tree, Len(tree))
  BY <1>2, <1>3
<1>5. 0 \in 0..Len(tree) /\ \A n \in 1..Len(tree) : n \in 0..Len(tree) /\ n # 0
  BY <1>1
<1> QED
  BY <1>4, <1>5 DEF ReadsUpTo

\* The rules that the first files in reach fire.
FiredBy(tree, last) ==
    {r \in Rule : \E m \in 1..last : Reached(tree[m]) /\ Fires(r, tree[m])}

ReadSoFar(was, tree, last) ==
    /\ was = [considered |-> was.considered, truncated |-> was.truncated, hits |-> was.hits]
    /\ was.truncated \in BOOLEAN
    /\ was.hits \subseteq Rule
    /\ ~was.truncated => was.hits = FiredBy(tree, last)

\* A rule that has a hit is not hit again, and one that has none is, whichever
\* rules share its identifier under another archetype.
LEMMA HitsGrow ==
    ASSUME NEW hits, hits \subseteq Rule, NEW file
    PROVE  hits \cup NewHits(hits, file) = hits \cup {r \in Rule : Fires(r, file)}
<1>1. ASSUME NEW r \in Rule, Fires(r, file), r \notin hits
      PROVE  r \in NewHits(hits, file)
  <2>1. ASSUME NEW h \in hits
        PROVE  HitKey(h) # HitKey(r)
    BY <1>1, <2>1, DetectionAssumption DEF HitKey
  <2> QED
    BY <1>1, <2>1 DEF NewHits
<1>2. NewHits(hits, file) \subseteq {r \in Rule : Fires(r, file)}
  BY DEF NewHits
<1> QED
  BY <1>1, <1>2

LEMMA ConsiderReads ==
    ASSUME NEW tree, NEW n \in Nat, NEW was, ReadSoFar(was, tree, n)
    PROVE  ReadSoFar(Consider(was, tree[n + 1]), tree, n + 1)
<1> DEFINE file == tree[n + 1]
<1>1. \A m : m \in 1..(n + 1) <=> m \in 1..n \/ m = n + 1
  OBVIOUS
<1>2. CASE was.truncated
  BY <1>2 DEF Consider, ReadSoFar
<1>3. CASE ~was.truncated /\ ~Reached(file)
  <2>1. FiredBy(tree, n + 1) = FiredBy(tree, n)
    BY <1>1, <1>3 DEF FiredBy
  <2> QED
    BY <1>3, <2>1 DEF Consider, ReadSoFar
<1>4. CASE ~was.truncated /\ Reached(file) /\ was.considered >= MaxFiles
  <2>1. Consider(was, file) = [was EXCEPT !.truncated = TRUE]
    BY <1>4 DEF Consider
  <2> QED
    BY <2>1 DEF ReadSoFar
<1>5. CASE ~was.truncated /\ Reached(file) /\ ~(was.considered >= MaxFiles)
  <2>1. Consider(was, file) = [considered |-> was.considered + 1, truncated |-> FALSE,
                               hits |-> was.hits \cup NewHits(was.hits, file)]
    BY <1>5 DEF Consider
  <2>2. was.hits \cup NewHits(was.hits, file) = FiredBy(tree, n) \cup {r \in Rule : Fires(r, file)}
    BY <1>5, HitsGrow DEF ReadSoFar
  <2>3. FiredBy(tree, n + 1) = FiredBy(tree, n) \cup {r \in Rule : Fires(r, file)}
    BY <1>1, <1>5 DEF FiredBy
  <2>4. FiredBy(tree, n + 1) \subseteq Rule
    BY DEF FiredBy
  <2> QED
    BY <2>1, <2>2, <2>3, <2>4 DEF ReadSoFar
<1> QED
  BY <1>2, <1>3, <1>4, <1>5

\* A walk no bound stopped has hit every rule that a file in reach fires.
LEMMA WalkHits ==
    ASSUME NEW tree, IsSeq(tree)
    PROVE  ReadSoFar(Reading(tree)[Len(tree)], tree, Len(tree))
<1> DEFINE P == {n \in Nat : n \in 0..Len(tree) => ReadSoFar(Reading(tree)[n], tree, n)}
<1>1. Len(tree) \in Nat
  BY SeqFacts
<1>2. 0 \in P
  <2>1. FiredBy(tree, 0) = {}
    BY DEF FiredBy
  <2>2. ReadSoFar(Unread, tree, 0)
    BY <2>1 DEF ReadSoFar, Unread
  <2> QED
    BY <2>2, ReadingReads
<1>3. ASSUME NEW n \in Nat, n \in P, n + 1 \in 0..Len(tree)
      PROVE  ReadSoFar(Reading(tree)[n + 1], tree, n + 1)
  <2>1. n \in 0..Len(tree) /\ n + 1 \in 1..Len(tree) /\ (n + 1) - 1 = n
    BY <1>1, <1>3
  <2>2. Reading(tree)[n + 1] = Consider(Reading(tree)[n], tree[n + 1])
    BY <2>1, ReadingReads
  <2>3. ReadSoFar(Reading(tree)[n], tree, n)
    BY <1>3, <2>1
  <2> QED
    BY <2>2, <2>3, ConsiderReads
<1>4. \A n \in Nat : n \in P => n + 1 \in P
  BY <1>3
<1>5. Nat \subseteq P
  <2> HIDE DEF P
  <2> QED
    BY <1>2, <1>4, AllNaturals
<1> QED
  BY <1>1, <1>5

-----------------------------------------------------------------------------
(* The weight of a finite set of rules is the sum of theirs.                *)

OneOf(s) == CHOOSE x \in s : TRUE

Small(S, n) == {s \in SUBSET S : Cardinality(s) <= n}

SumsTo(sum, sets) ==
    sum = [s \in sets |-> IF s = {} THEN 0 ELSE OneOf(s).weight + sum[s \ {OneOf(s)}]]

LEMMA OneOfIsIn == \A s : s # {} => OneOf(s) \in s
BY DEF OneOf

LEMMA OneLess ==
    ASSUME NEW S, IsFiniteSet(S), NEW n \in Nat, NEW s \in Small(S, n + 1), s # {}
    PROVE  s \ {OneOf(s)} \in Small(S, n)
<1>1. IsFiniteSet(s) /\ Cardinality(s) <= n + 1 /\ OneOf(s) \in s
  BY FS_Subset, OneOfIsIn DEF Small
<1>2. Cardinality(s) \in Nat /\ Cardinality(s \ {OneOf(s)}) = Cardinality(s) - 1
  BY <1>1, FS_CardinalityType, FS_RemoveElement
<1>3. Cardinality(s \ {OneOf(s)}) <= n
  BY <1>1, <1>2
<1> QED
  BY <1>3 DEF Small

LEMMA NoneIsSmall ==
    ASSUME NEW S, IsFiniteSet(S)
    PROVE  Small(S, 0) = {{}}
<1>1. ASSUME NEW s \in Small(S, 0)
      PROVE  s = {}
  <2>1. IsFiniteSet(s) /\ Cardinality(s) <= 0
    BY FS_Subset DEF Small
  <2> QED
    BY <2>1, FS_CardinalityType, FS_EmptySet
<1>2. {} \in Small(S, 0)
  BY FS_EmptySet DEF Small
<1> QED
  BY <1>1, <1>2

LEMMA SmallGrows ==
    ASSUME NEW S, IsFiniteSet(S), NEW n \in Nat
    PROVE  Small(S, n) \subseteq Small(S, n + 1)
<1> SUFFICES ASSUME NEW s \in Small(S, n)
             PROVE  s \in Small(S, n + 1)
  OBVIOUS
<1>1. IsFiniteSet(s) /\ Cardinality(s) \in Nat /\ Cardinality(s) <= n
  BY FS_Subset, FS_CardinalityType DEF Small
<1>2. Cardinality(s) <= n + 1
  BY <1>1
<1> QED
  BY <1>2 DEF Small

LEMMA AllAreSmall ==
    ASSUME NEW S, IsFiniteSet(S)
    PROVE  Cardinality(S) \in Nat /\ Small(S, Cardinality(S)) = SUBSET S
BY FS_CardinalityType, FS_Subset DEF Small

LEMMA SumExists ==
    ASSUME NEW S, IsFiniteSet(S)
    PROVE  \A n \in Nat : \E sum : SumsTo(sum, Small(S, n))
<1> DEFINE P == {n \in Nat : \E sum : SumsTo(sum, Small(S, n))}
<1>1. 0 \in P
  <2> DEFINE sum == [s \in {{}} |-> 0]
  <2>1. sum = [s \in {{}} |-> IF s = {} THEN 0 ELSE OneOf(s).weight + sum[s \ {OneOf(s)}]]
    OBVIOUS
  <2> HIDE DEF sum
  <2>2. SumsTo(sum, Small(S, 0))
    BY <2>1, NoneIsSmall DEF SumsTo
  <2> QED
    BY <2>2
<1>2. ASSUME NEW n \in Nat, n \in P
      PROVE  n + 1 \in P
  <2>1. PICK sum : SumsTo(sum, Small(S, n))
    BY <1>2
  <2> DEFINE more == [s \in Small(S, n + 1) |->
                         IF s = {} THEN 0 ELSE OneOf(s).weight + sum[s \ {OneOf(s)}]]
  <2>2. ASSUME NEW s \in Small(S, n)
        PROVE  more[s] = sum[s]
    <3>1. s \in Small(S, n + 1)
      BY SmallGrows
    <3>2. sum[s] = IF s = {} THEN 0 ELSE OneOf(s).weight + sum[s \ {OneOf(s)}]
      BY <2>1 DEF SumsTo
    <3> QED
      BY <3>1, <3>2
  <2>3. ASSUME NEW s \in Small(S, n + 1)
        PROVE  more[s] = IF s = {} THEN 0 ELSE OneOf(s).weight + more[s \ {OneOf(s)}]
    <3>1. CASE s = {}
      BY <3>1
    <3>2. CASE s # {}
      <4>1. s \ {OneOf(s)} \in Small(S, n)
        BY <3>2, OneLess
      <4>2. more[s \ {OneOf(s)}] = sum[s \ {OneOf(s)}]
        BY <2>2, <4>1
      <4>3. more[s] = OneOf(s).weight + sum[s \ {OneOf(s)}]
        BY <3>2
      <4> HIDE DEF more
      <4> QED
        BY <3>2, <4>2, <4>3
    <3> QED
      BY <3>1, <3>2
  <2>4. more = [s \in Small(S, n + 1) |-> more[s]]
    OBVIOUS
  <2> HIDE DEF more
  <2>5. SumsTo(more, Small(S, n + 1))
    BY <2>3, <2>4 DEF SumsTo
  <2> QED
    BY <2>5
<1>3. Nat \subseteq P
  <2> HIDE DEF P
  <2> QED
    BY <1>1, <1>2, AllNaturals
<1> QED
  BY <1>3

\* Rules weigh something, so that some of them do.
LEMMA WeightFacts ==
    ASSUME NEW hits, hits \subseteq Rule
    PROVE  /\ Weight(hits) \in Nat
           /\ Weight(hits) = 0 <=> hits = {}
<1> DEFINE sum == CHOOSE sum : SumsTo(sum, SUBSET hits)
<1>1. IsFiniteSet(hits)
  BY DetectionAssumption, FS_Subset
<1>2. Weight(hits) = sum[hits]
  BY DEF Weight, MapThenSumSet, MapThenFoldSet, SumsTo, OneOf
<1>3. \E f : SumsTo(f, SUBSET hits)
  <2>1. Cardinality(hits) \in Nat /\ Small(hits, Cardinality(hits)) = SUBSET hits
    BY <1>1, AllAreSmall
  <2>2. \E f : SumsTo(f, Small(hits, Cardinality(hits)))
    BY <1>1, <2>1, SumExists
  <2> QED
    BY <2>1, <2>2
<1>4. SumsTo(sum, SUBSET hits)
  BY <1>3
<1> HIDE DEF sum
<1> DEFINE P == {n \in Nat : \A s \in Small(hits, n) : sum[s] \in Nat /\ (sum[s] = 0 <=> s = {})}
<1>5. 0 \in P
  <2>1. {} \in SUBSET hits
    OBVIOUS
  <2>2. sum[{}] = 0
    BY <1>4, <2>1 DEF SumsTo
  <2> QED
    BY <1>1, <2>2, NoneIsSmall
<1>6. ASSUME NEW n \in Nat, n \in P, NEW s \in Small(hits, n + 1)
      PROVE  sum[s] \in Nat /\ (sum[s] = 0 <=> s = {})
  <2>1. s \in SUBSET hits
    BY DEF Small
  <2>2. CASE s = {}
    BY <1>4, <2>1, <2>2 DEF SumsTo
  <2>3. CASE s # {}
    <3>1. sum[s] = OneOf(s).weight + sum[s \ {OneOf(s)}]
      BY <1>4, <2>1, <2>3 DEF SumsTo
    <3>2. sum[s \ {OneOf(s)}] \in Nat
      BY <1>1, <1>6, <2>3, OneLess
    <3>3. OneOf(s).weight \in Nat \ {0}
      BY <2>1, <2>3, OneOfIsIn, DetectionAssumption
    <3> QED
      BY <2>3, <3>1, <3>2, <3>3
  <2> QED
    BY <2>2, <2>3
<1>7. Nat \subseteq P
  <2>1. \A n \in Nat : n \in P => n + 1 \in P
    BY <1>6
  <2> HIDE DEF P
  <2> QED
    BY <1>5, <2>1, AllNaturals
<1>8. hits \in Small(hits, Cardinality(hits)) /\ Cardinality(hits) \in Nat
  BY <1>1, AllAreSmall
<1> QED
  BY <1>2, <1>7, <1>8

-----------------------------------------------------------------------------
(* The archetype reported.                                                  *)

\* The winner is an archetype, and none has more weight.
LEMMA WinnerIsBest ==
    ASSUME NEW hits, hits \subseteq Rule
    PROVE  /\ Ranking[Winner(hits)] \in Archetypes
           /\ \A a \in Archetypes : Matched(hits, a) <= Matched(hits, Ranking[Winner(hits)])
<1> DEFINE scores == {Matched(hits, a) : a \in Archetypes}
           best == Max(scores)
           tops == {i \in 1..Len(Ranking) : Matched(hits, Ranking[i]) = best}
           score == [i \in 1..Len(Ranking) |-> Matched(hits, Ranking[i])]
<1>1. /\ Len(Ranking) \in Nat \ {0} /\ DOMAIN Ranking = 1..Len(Ranking)
      /\ \A i \in 1..Len(Ranking) : Ranking[i] \in Archetypes
      /\ \A a \in Archetypes : \E i \in 1..Len(Ranking) : Ranking[i] = a
  <2>1. Ranking \in Seq(Archetypes) /\ Ranking # <<>>
    BY DetectionAssumption
  <2>2. Len(Ranking) \in Nat \ {0} /\ DOMAIN Ranking = 1..Len(Ranking)
    BY <2>1, EmptySeq, LenProperties
  <2> QED
    BY <2>1, <2>2, ElementOfSeq DEF Archetypes, Range
<1>2. \A a : Matched(hits, a) \in Nat
  <2> SUFFICES ASSUME NEW a
               PROVE  Matched(hits, a) \in Nat
    OBVIOUS
  <2>1. {r \in hits : r.archetype = a} \subseteq Rule
    OBVIOUS
  <2> QED
    BY <2>1, WeightFacts DEF Matched
<1>3. PICK k \in 1..Len(Ranking) : \A n \in 1..Len(Ranking) : score[n] <= score[k]
  BY <1>1, <1>2, GreatestOfMany
<1>4. \A n \in 1..Len(Ranking) : Matched(hits, Ranking[n]) <= Matched(hits, Ranking[k])
  BY <1>3
<1>5. /\ Matched(hits, Ranking[k]) \in scores
      /\ \A x \in scores : Matched(hits, Ranking[k]) >= x
  BY <1>1, <1>2, <1>4
<1>6. best \in scores /\ \A x \in scores : best >= x
  BY <1>5 DEF Max
<1>7. tops # {} /\ tops \subseteq Nat
  <2>1. PICK a \in Archetypes : best = Matched(hits, a)
    BY <1>6
  <2>2. PICK i \in 1..Len(Ranking) : Ranking[i] = a
    BY <1>1
  <2>3. i \in tops
    BY <2>1, <2>2
  <2>4. tops \subseteq 1..Len(Ranking)
    OBVIOUS
  <2> HIDE DEF tops
  <2> QED
    BY <1>1, <2>3, <2>4
<1>8. Min(tops) \in tops
  BY <1>7, Least DEF Min
<1>9. Winner(hits) \in tops
  BY <1>7, <1>8 DEF Winner, SelectInSeq
<1> QED
  BY <1>1, <1>6, <1>9

\* What the verdict of a walk that no bound stopped says of the rules fired.
LEMMA DetectIsTheEvidence ==
    ASSUME NEW tree, IsSeq(tree), ~Detect(tree).truncated
    PROVE  LET fired == FiredBy(tree, Len(tree))
               verdict == Detect(tree).archetype
           IN  /\ verdict = NoArchetype =>
                      \A a \in Archetypes :
                          \/ Weight(fired) = 0
                          \/ 100 * Matched(fired, a) < ConfidenceMin * Weight(fired)
               /\ verdict # NoArchetype =>
                      /\ Weight(fired) > 0
                      /\ 100 * Matched(fired, verdict) >= ConfidenceMin * Weight(fired)
<1> DEFINE fired == FiredBy(tree, Len(tree))
           winner == Ranking[Winner(fired)]
<1>1. ReadSoFar(Reading(tree)[Len(tree)], tree, Len(tree))
  BY WalkHits
<1>2. /\ ~Reading(tree)[Len(tree)].truncated
      /\ Detect(tree).archetype =
            LET hits == Reading(tree)[Len(tree)].hits
            IN  IF Confident(hits, Ranking[Winner(hits)]) THEN Ranking[Winner(hits)]
                ELSE NoArchetype
  BY DEF Detect
<1>3. /\ fired \subseteq Rule
      /\ Detect(tree).archetype = IF Confident(fired, winner) THEN winner ELSE NoArchetype
  BY <1>1, <1>2 DEF ReadSoFar
<1> HIDE DEF fired
<1>4. /\ winner \in Archetypes /\ NoArchetype \notin Archetypes
      /\ \A a \in Archetypes : Matched(fired, a) <= Matched(fired, winner)
  BY <1>3, WinnerIsBest, DetectionAssumption
<1> HIDE DEF winner
<1>5. Weight(fired) \in Nat /\ (Weight(fired) = 0 <=> fired = {})
  BY <1>3, WeightFacts
<1>6. \A a : Matched(fired, a) \in Nat
  <2> SUFFICES ASSUME NEW a
               PROVE  Matched(fired, a) \in Nat
    OBVIOUS
  <2>1. {r \in fired : r.archetype = a} \subseteq Rule
    BY <1>3
  <2> QED
    BY <2>1, WeightFacts DEF Matched
<1>7. CASE Confident(fired, winner)
  <2>1. Detect(tree).archetype = winner /\ winner # NoArchetype
    BY <1>3, <1>4, <1>7
  <2>2. fired # {} /\ 100 * Matched(fired, winner) >= ConfidenceMin * Weight(fired)
    BY <1>7 DEF Confident
  <2>3. Weight(fired) > 0
    BY <1>5, <2>2
  <2> QED
    BY <2>1, <2>2, <2>3 DEF fired
<1>8. CASE ~Confident(fired, winner)
  <2>1. Detect(tree).archetype = NoArchetype
    BY <1>3, <1>8
  <2>2. ASSUME NEW a \in Archetypes
        PROVE  Weight(fired) = 0 \/ 100 * Matched(fired, a) < ConfidenceMin * Weight(fired)
    <3> DEFINE total == ConfidenceMin * Weight(fired)
               most == Matched(fired, winner)
               some == Matched(fired, a)
    <3>1. total \in Nat /\ most \in Nat /\ some \in Nat /\ some <= most
      BY <1>4, <1>5, <1>6, DetectionAssumption
    <3>2. fired = {} \/ ~(100 * most >= total)
      BY <1>8 DEF Confident
    <3> HIDE DEF total, most, some
    <3>3. fired = {} \/ 100 * some < total
      BY <3>1, <3>2
    <3> QED
      BY <1>5, <3>3 DEF total, some
  <2> QED
    BY <2>1, <2>2 DEF fired
<1> QED
  BY <1>7, <1>8

\* What adopt detect printed is of a tree it was pointed at.
SaidOfATree == said.tree = <<>> \/ \E tree \in Trees : said = Detect(tree)

LEMMA NextSaid == SaidOfATree /\ [OnboardingNext]_vars => SaidOfATree'
<1> SUFFICES ASSUME SaidOfATree, [OnboardingNext]_vars
             PROVE  SaidOfATree'
  OBVIOUS
<1>1. CASE DetectTree
  BY <1>1 DEF DetectTree, SaidOfATree
<1>2. CASE said' = said
  BY <1>2 DEF SaidOfATree
<1> QED
  BY <1>1, <1>2 DEF OnboardingNext, vars, StartInit, StartBoundary, LookUp, Create, Stamp,
                    Declare, Kill, ValidateEnvelope, Transition

\* The archetype reported is the one the rules fired by the files in reach
\* give, each rule once, or none where no archetype has enough of their weight:
\* for any trees, rules, weights, bounds and order of the files.
THEOREM VerdictsAreTheEvidence == OnboardingSpec => []VerdictIsTheEvidence
<1>1. OnboardingInit => SaidOfATree
  <2> SUFFICES ASSUME OnboardingInit
               PROVE  said.tree = <<>>
    BY DEF SaidOfATree
  <2>1. said = [tree |-> <<>>, fired |-> {}, archetype |-> NoArchetype, considered |-> 0,
                truncated |-> FALSE]
    BY DEF OnboardingInit
  <2> QED
    BY <2>1
<1>2. SaidOfATree => VerdictIsTheEvidence
  <2> SUFFICES ASSUME SaidOfATree, said.tree # <<>>, ~said.truncated
               PROVE  VerdictIsTheEvidence
    BY DEF VerdictIsTheEvidence
  <2>1. PICK tree \in Trees : said = Detect(tree)
    BY DEF SaidOfATree
  <2>2. IsSeq(tree) /\ said.tree = tree
    BY <2>1, OnboardingAssumption DEF Detect, IsSeq
  <2> DEFINE reach == {n \in DOMAIN said.tree : Reached(said.tree[n])}
             fired == {r \in Rule : \E n \in reach : Fires(r, said.tree[n])}
  <2>3. fired = FiredBy(tree, Len(tree))
    <3>1. DOMAIN tree = 1..Len(tree)
      BY <2>2, SeqFacts
    <3> QED
      BY <2>2, <3>1 DEF FiredBy
  <2> HIDE DEF fired
  <2>4. /\ said.archetype = NoArchetype =>
              \A a \in Archetypes :
                  \/ Weight(fired) = 0
                  \/ 100 * Matched(fired, a) < ConfidenceMin * Weight(fired)
        /\ said.archetype # NoArchetype =>
              /\ Weight(fired) > 0
              /\ 100 * Matched(fired, said.archetype) >= ConfidenceMin * Weight(fired)
    BY <2>1, <2>2, <2>3, DetectIsTheEvidence
  <2> QED
    BY <2>4 DEF VerdictIsTheEvidence, Weight, Matched, fired
<1> QED
  BY <1>1, <1>2, NextSaid, PTL DEF OnboardingSpec
=============================================================================
