-------------------------- MODULE Questions_proofs --------------------------
(***************************************************************************)
(* Questions, for any number of referents, texts, items and revisions: one   *)
(* escalation is answered once, evidence of a disagreement is kept, and,     *)
(* when one process asks at a time, what is served was current.              *)
(***************************************************************************)
EXTENDS Questions, SequenceTheorems, FiniteSetTheorems, TLAPS

-----------------------------------------------------------------------------
(* Lists: a table is a sequence of rows, which only grows.                  *)

\* A sequence of something.
IsSeq(s) == s \in Seq(Range(s))

LEMMA SeqFacts ==
    ASSUME NEW s, IsSeq(s)
    PROVE  Len(s) \in Nat /\ DOMAIN s = 1..Len(s)
BY DEF IsSeq

LEMMA EmptyIsSeq == IsSeq(<<>>) /\ DOMAIN <<>> = {} /\ Len(<<>>) = 0
BY DEF IsSeq, Range

LEMMA ListIsSeq ==
    ASSUME NEW n \in Nat, NEW s, s = [m \in 1..n |-> s[m]]
    PROVE  IsSeq(s) /\ Len(s) = n /\ DOMAIN s = 1..n
<1>1. DOMAIN s = 1..n
  OBVIOUS
<1>2. \A m \in 1..n : s[m] \in Range(s)
  BY <1>1 DEF Range
<1>3. s \in [1..n -> Range(s)]
  BY <1>1, <1>2
<1>4. s \in Seq(Range(s))
  BY <1>3, SeqDef
<1>5. Len(s) \in Nat /\ DOMAIN s = 1..Len(s)
  BY <1>4, LenProperties
<1>6. Len(s) = n
  BY <1>1, <1>5
<1> QED
  BY <1>1, <1>4, <1>6 DEF IsSeq

LEMMA AppendIsSeq ==
    ASSUME NEW s, IsSeq(s), NEW x
    PROVE  /\ IsSeq(Append(s, x))
           /\ Len(Append(s, x)) = Len(s) + 1
           /\ DOMAIN Append(s, x) = 1..(Len(s) + 1)
           /\ \A n \in 1..Len(s) : Append(s, x)[n] = s[n]
           /\ Append(s, x)[Len(s) + 1] = x
<1> DEFINE T == Range(s) \cup {x}
<1>1. s \in Seq(T) /\ x \in T
  BY DEF IsSeq
<1> HIDE DEF T
<1>2. /\ Append(s, x) \in Seq(T)
      /\ Len(s) \in Nat
      /\ Len(Append(s, x)) = Len(s) + 1
      /\ \A n \in 1..Len(s) : Append(s, x)[n] = s[n]
      /\ Append(s, x)[Len(s) + 1] = x
  BY <1>1
<1>3. Append(s, x) \in [1..(Len(s) + 1) -> T]
  BY <1>2, LenProperties
<1>4. Append(s, x) = [n \in 1..(Len(s) + 1) |-> Append(s, x)[n]]
  BY <1>3
<1>5. IsSeq(Append(s, x)) /\ DOMAIN Append(s, x) = 1..(Len(s) + 1)
  BY <1>2, <1>4, ListIsSeq
<1> QED
  BY <1>2, <1>5

LEMMA ExceptIsSeq ==
    ASSUME NEW s, IsSeq(s), NEW n \in DOMAIN s, NEW x
    PROVE  /\ IsSeq([s EXCEPT ![n] = x])
           /\ DOMAIN [s EXCEPT ![n] = x] = DOMAIN s
<1> DEFINE t == [s EXCEPT ![n] = x]
<1>1. Len(s) \in Nat /\ DOMAIN s = 1..Len(s)
  BY SeqFacts
<1>2. t = [m \in 1..Len(s) |-> t[m]]
  BY <1>1
<1> HIDE DEF t
<1>3. IsSeq(t) /\ DOMAIN t = 1..Len(s)
  BY <1>1, <1>2, ListIsSeq
<1> QED
  BY <1>1, <1>3 DEF t


-----------------------------------------------------------------------------
(* The rows of items, and the records of commands.                          *)

ItemOK(item) ==
    /\ {"revs", "fresh", "tagged", "answers"} \subseteq DOMAIN item
    /\ IsSeq(item.revs)
    /\ 1 <= Len(item.revs)

Items == IsSeq(items) /\ \A k \in DOMAIN items : ItemOK(items[k])

CommandShape(c) ==
    /\ {"at", "verb", "question", "begun", "stamp", "rows", "found", "said", "edit",
        "escalation", "disagreed", "verdict", "pack"} \subseteq DOMAIN c
    /\ {"branch", "cited", "cause", "withheld", "prose"} \subseteq DOMAIN c.said
    /\ {"live", "gaps", "contradicted", "stale"} \subseteq DOMAIN c.pack

Shape ==
    /\ cmd = [p \in Process |-> cmd[p]]
    /\ \A p \in Process : CommandShape(cmd[p])

\* No item and no revision ever goes.
Grows ==
    /\ \A k \in DOMAIN items : k \in DOMAIN items' /\ Len(items[k].revs) <= Len(items'[k].revs)
    /\ RevisionRows \subseteq RevisionRows'

\* The revisions there are.
LEMMA RowsAre ==
    ASSUME Items
    PROVE  \A k, r : <<k, r>> \in RevisionRows <=>
                        k \in DOMAIN items /\ r \in 1..Len(items[k].revs)
<1>1. \A k \in DOMAIN items : DOMAIN items[k].revs = 1..Len(items[k].revs)
  BY SeqFacts DEF Items, ItemOK
<1> QED
  BY <1>1 DEF RevisionRows

LEMMA RowsArePairs == \A row \in RevisionRows : row = <<row[1], row[2]>>
BY DEF RevisionRows

LEMMA RowsAreFinite ==
    ASSUME Items
    PROVE  IsFiniteSet(RevisionRows)
<1> DEFINE f == [k \in DOMAIN items |-> {k} \X DOMAIN items[k].revs]
           S == {f[k] : k \in DOMAIN items}
<1>1. Len(items) \in Nat /\ DOMAIN items = 1..Len(items)
  BY SeqFacts DEF Items
<1>2. IsFiniteSet(DOMAIN items)
  BY <1>1, FS_Interval
<1>3. f \in Surjection(DOMAIN items, S)
  BY DEF Surjection
<1>4. IsFiniteSet(S)
  BY <1>2, <1>3, FS_Surjection
<1>5. ASSUME NEW k \in DOMAIN items PROVE IsFiniteSet({k} \X DOMAIN items[k].revs)
  <2>1. Len(items[k].revs) \in Nat /\ DOMAIN items[k].revs = 1..Len(items[k].revs)
    BY SeqFacts DEF Items, ItemOK
  <2>2. IsFiniteSet(DOMAIN items[k].revs)
    BY <2>1, FS_Interval
  <2> QED
    BY <2>2, FS_Singleton, FS_Product
<1>6. \A T \in S : IsFiniteSet(T)
  BY <1>5
<1>7. RevisionRows = UNION S
  BY DEF RevisionRows
<1> QED
  BY <1>4, <1>6, <1>7, FS_UNION

LEMMA SameItems ==
    ASSUME Items, UNCHANGED items
    PROVE  Items' /\ Grows
<1>1. \A k \in DOMAIN items : Len(items[k].revs) \in Nat
  BY SeqFacts DEF Items, ItemOK
<1>2. RevisionRows' = RevisionRows
  BY DEF RevisionRows
<1> QED
  BY <1>1, <1>2 DEF Items, Grows

LEMMA OneMoreItem ==
    ASSUME Items, NEW row, ItemOK(row), items' = Append(items, row)
    PROVE  /\ Items' /\ Grows
           /\ DOMAIN items' = DOMAIN items \cup {Len(items) + 1}
           /\ Len(items) + 1 \notin DOMAIN items
           /\ \A k \in DOMAIN items : items'[k] = items[k]
           /\ items'[Len(items) + 1] = row
<1>1. Len(items) \in Nat /\ DOMAIN items = 1..Len(items)
  BY SeqFacts DEF Items
<1>2. /\ IsSeq(items') /\ DOMAIN items' = 1..(Len(items) + 1)
      /\ \A k \in 1..Len(items) : items'[k] = items[k]
      /\ items'[Len(items) + 1] = row
  BY AppendIsSeq DEF Items
<1>3. DOMAIN items' = DOMAIN items \cup {Len(items) + 1} /\ Len(items) + 1 \notin DOMAIN items
  BY <1>1, <1>2
<1>4. Items'
  BY <1>1, <1>2, <1>3 DEF Items
<1>5. \A k \in DOMAIN items : Len(items[k].revs) \in Nat
  BY SeqFacts DEF Items, ItemOK
<1>6. RevisionRows \subseteq RevisionRows'
  BY <1>1, <1>2, <1>3 DEF RevisionRows
<1> QED
  BY <1>1, <1>2, <1>3, <1>4, <1>5, <1>6 DEF Grows

LEMMA OneMoreRevision ==
    ASSUME Items, NEW k \in DOMAIN items, NEW rev, NEW fresh,
           items' = [items EXCEPT ![k].revs = Append(@, rev), ![k].fresh = fresh]
    PROVE  /\ Items' /\ Grows
           /\ DOMAIN items' = DOMAIN items
           /\ \A i \in DOMAIN items : items'[i].answers = items[i].answers
<1> DEFINE row == [[items[k] EXCEPT !.revs = Append(@, rev)] EXCEPT !.fresh = fresh]
<1>1. ItemOK(items[k])
  BY DEF Items
<1>2. /\ IsSeq(Append(items[k].revs, rev))
      /\ Len(Append(items[k].revs, rev)) = Len(items[k].revs) + 1
      /\ Len(items[k].revs) \in Nat
      /\ DOMAIN items[k].revs = 1..Len(items[k].revs)
      /\ DOMAIN Append(items[k].revs, rev) = 1..(Len(items[k].revs) + 1)
  BY <1>1, AppendIsSeq, SeqFacts DEF ItemOK
<1>3. /\ DOMAIN row = DOMAIN items[k] /\ row.answers = items[k].answers
      /\ row.revs = Append(items[k].revs, rev)
  BY <1>1 DEF ItemOK
<1>4. ItemOK(row)
  BY <1>1, <1>2, <1>3 DEF ItemOK
<1>5. items' = [items EXCEPT ![k] = row]
  BY DEF Items
<1> HIDE DEF row
<1>6. IsSeq(items') /\ DOMAIN items' = DOMAIN items
  <2>1. IsSeq(items)
    BY DEF Items
  <2>2. IsSeq([items EXCEPT ![k] = row]) /\ DOMAIN [items EXCEPT ![k] = row] = DOMAIN items
    BY <2>1, ExceptIsSeq
  <2> QED
    BY <1>5, <2>2
<1>7. \A i \in DOMAIN items : i # k => items'[i] = items[i]
  BY <1>5
<1>8. items'[k] = row
  BY <1>5
<1>9. Items'
  BY <1>4, <1>6, <1>7, <1>8 DEF Items
<1>10. \A i \in DOMAIN items : Len(items[i].revs) \in Nat
  BY SeqFacts DEF Items, ItemOK
<1>11. \A i \in DOMAIN items : Len(items[i].revs) <= Len(items'[i].revs)
  BY <1>2, <1>3, <1>7, <1>8, <1>10
<1>12. \A i \in DOMAIN items : DOMAIN items[i].revs \subseteq DOMAIN items'[i].revs
  BY <1>2, <1>3, <1>7, <1>8
<1>13. RevisionRows \subseteq RevisionRows'
  BY <1>6, <1>12 DEF RevisionRows
<1> QED
  BY <1>3, <1>6, <1>7, <1>8, <1>9, <1>11, <1>13 DEF Grows

-----------------------------------------------------------------------------
(* What one step does to the command of the process that takes it.          *)

\* The process p takes a step, and every other command stays as it is.
Turn(p) ==
    /\ Shape'
    /\ \A q \in Process \ {p} : cmd'[q] = cmd[q]

LEMMA IdleShape == CommandShape(Idle)
BY DEF CommandShape, Idle, NoAnswer, EmptyPack

LEMMA IdleIs ==
    /\ Idle.at = "idle" /\ Idle.verb = "" /\ Idle.begun = <<>>
    /\ Idle.said = NoAnswer /\ Idle.pack = EmptyPack
BY DEF Idle

LEMMA TurnTaken ==
    ASSUME Shape, NEW p \in Process, NEW c, CommandShape(c), cmd' = [cmd EXCEPT ![p] = c]
    PROVE  Turn(p) /\ cmd'[p] = c
<1>1. /\ cmd' = [q \in Process |-> cmd'[q]]
      /\ cmd'[p] = c
      /\ \A q \in Process \ {p} : cmd'[q] = cmd[q]
  BY DEF Shape
<1>2. \A q \in Process : CommandShape(cmd'[q])
  BY <1>1 DEF Shape
<1>3. \A q \in Process : CommandShape(cmd[q])'
  BY <1>2 DEF CommandShape
<1> QED
  BY <1>1, <1>3 DEF Shape, Turn

LEMMA GoesTo ==
    ASSUME Shape, NEW p \in Process, NEW stage, Goto(p, stage)
    PROVE  Turn(p) /\ cmd'[p] = [cmd[p] EXCEPT !.at = stage]
<1> DEFINE c == [cmd[p] EXCEPT !.at = stage]
<1>1. CommandShape(c)
  BY DEF Shape, CommandShape
<1>2. cmd' = [cmd EXCEPT ![p] = c]
  BY DEF Goto
<1> QED
  BY <1>1, <1>2, TurnTaken

-----------------------------------------------------------------------------
(* The steps there are.                                                     *)

AskerStep(p) ==
    \/ Ask(p) \/ ReadRows(p) \/ Rebuild(p) \/ Retrieve(p) \/ Say(p)
    \/ Escalate(p) \/ KeepToOneself(p) \/ Synthesize(p) \/ Show(p)
    \/ PackStart(p) \/ PackHeads(p) \/ PackAppendix(p) \/ PackStamp(p)

OperatorStep(p) ==
    \/ Answer(p) \/ Edit(p) \/ Compare(p) \/ Capture(p) \/ AnswerRefused(p)
    \/ Revise(p) \/ Retire(p) \/ Bind(p) \/ Refresh(p) \/ Nothing(p)
    \/ Recompute(p) \/ WriteCache(p) \/ RecomputeCommand(p) \/ RankGaps(p)
    \/ DisposeGap(p)

\* Steps of nobody's command.
EnvironmentStep ==
    \/ \E i \in Identity : MapMoves(i)
    \/ DeclareBoundary \/ RegisterSensor \/ SensorHeartbeat \/ SensorFallsSilent
    \/ \E k \in DOMAIN items : OpenConflict(k)

LEMMA StepsAre ==
    ASSUME [Next]_vars
    PROVE  \/ \E p \in Asker : AskerStep(p)
           \/ \E p \in Operator : OperatorStep(p)
           \/ EnvironmentStep
           \/ \E p \in Process : Kill(p)
           \/ UNCHANGED vars
BY DEF Next, AskerStep, OperatorStep, EnvironmentStep

LEMMA EnvironmentStays ==
    ASSUME EnvironmentStep
    PROVE  UNCHANGED <<items, links, cache, index, escalations, gaps, cmd>>
BY DEF EnvironmentStep, MapMoves, DeclareBoundary, RegisterSensor, SensorHeartbeat,
       SensorFallsSilent, OpenConflict, Aside

LEMMA KillTurn ==
    ASSUME Shape, NEW p \in Process, Kill(p)
    PROVE  Turn(p) /\ cmd'[p] = Idle /\ UNCHANGED <<items, index, escalations>>
BY IdleShape, TurnTaken DEF Kill, Others, canon

-----------------------------------------------------------------------------
(* What an asker's step does to its command.                                *)

AskBegins(question, stage) ==
    [Idle EXCEPT !.at = stage, !.verb = "ask", !.question = question, !.begun = Heads,
                 !.stamp = StoreStamp]

LEMMA AskTurn ==
    ASSUME Shape, NEW p \in Process, Ask(p)
    PROVE  /\ Turn(p)
           /\ \E q, stage : /\ cmd'[p] = AskBegins(q, stage)
                            /\ stage \in {"rows", "retrieve"}
                            /\ stage = "retrieve" => index.stamp = StoreStamp
<1>1. PICK q \in DOMAIN Question, forced \in BOOLEAN :
          cmd' = [cmd EXCEPT ![p] =
             AskBegins(q, IF forced \/ index.stamp # StoreStamp THEN "rows" ELSE "retrieve")]
  BY DEF Ask, AskBegins
<1>2. PICK stage : stage = IF forced \/ index.stamp # StoreStamp THEN "rows" ELSE "retrieve"
  OBVIOUS
<1>3. CommandShape(AskBegins(q, stage))
  BY DEF AskBegins, CommandShape, Idle, NoAnswer, EmptyPack
<1>4. Turn(p) /\ cmd'[p] = AskBegins(q, stage)
  BY <1>1, <1>2, <1>3, TurnTaken
<1>5. stage \in {"rows", "retrieve"} /\ (stage = "retrieve" => index.stamp = StoreStamp)
  BY <1>2
<1> QED
  BY <1>4, <1>5

LEMMA ReadRowsTurn ==
    ASSUME Shape, NEW p \in Process, ReadRows(p)
    PROVE  Turn(p) /\ cmd'[p] = [[[cmd[p] EXCEPT !.at = "rebuild"] EXCEPT !.rows = HeadPassages]
                                         EXCEPT !.stamp = Stamped(p)]
<1> DEFINE c == [[[cmd[p] EXCEPT !.at = "rebuild"] EXCEPT !.rows = HeadPassages]
                                         EXCEPT !.stamp = Stamped(p)]
<1>1. CommandShape(c)
  BY DEF Shape, CommandShape
<1>2. cmd' = [cmd EXCEPT ![p] = c]
  BY DEF ReadRows
<1> QED
  BY <1>1, <1>2, TurnTaken

LEMMA RebuildTurn ==
    ASSUME Shape, NEW p \in Process, Rebuild(p)
    PROVE  Turn(p) /\ cmd'[p] = [[[cmd[p] EXCEPT !.at = "retrieve"] EXCEPT !.rows = {}]
                                         EXCEPT !.stamp = <<0, 0>>]
<1> DEFINE c == [[[cmd[p] EXCEPT !.at = "retrieve"] EXCEPT !.rows = {}]
                                         EXCEPT !.stamp = <<0, 0>>]
<1>1. CommandShape(c)
  BY DEF Shape, CommandShape
<1>2. cmd' = [cmd EXCEPT ![p] = c]
  BY DEF Rebuild
<1> QED
  BY <1>1, <1>2, TurnTaken

Hits(p, found) ==
    [[[cmd[p] EXCEPT !.at = "compose"] EXCEPT !.found = found] EXCEPT !.stamp = <<0, 0>>]

LEMMA RetrieveTurn ==
    ASSUME Shape, NEW p \in Process, Retrieve(p)
    PROVE  Turn(p) /\ \E found \in Retrieved(Question[cmd[p].question]) : cmd'[p] = Hits(p, found)
<1>1. PICK found \in Retrieved(Question[cmd[p].question]) : cmd' = [cmd EXCEPT ![p] = Hits(p, found)]
  BY DEF Retrieve, Hits
<1>2. CommandShape(Hits(p, found))
  BY DEF Shape, CommandShape, Hits
<1> QED
  BY <1>1, <1>2, TurnTaken

Composed(p) == Compose(cmd[p].found, Verified(Range(cmd[p].found)))

LEMMA SayTurn ==
    ASSUME Shape, NEW p \in Process, Say(p)
    PROVE  /\ Turn(p)
           /\ \/ cmd'[p] = [cmd[p] EXCEPT !.at = "said", !.found = <<>>, !.said = Composed(p)]
              \/ cmd'[p] = Idle
<1> DEFINE c == [cmd[p] EXCEPT !.at = "said", !.found = <<>>, !.said = Composed(p)]
<1>1. CommandShape(c)
  BY DEF Shape, CommandShape, Composed, Compose
<1>2. cmd' = [cmd EXCEPT ![p] = c] \/ cmd' = [cmd EXCEPT ![p] = Idle]
  BY DEF Say, Composed
<1> QED
  BY <1>1, <1>2, IdleShape, TurnTaken

LEMMA EscalateTurn ==
    ASSUME Shape, NEW p \in Process, Escalate(p) \/ KeepToOneself(p)
    PROVE  Turn(p) /\ cmd'[p] = [cmd[p] EXCEPT !.at = "render"]
BY GoesTo DEF Escalate, KeepToOneself

Rendered(p, reply) ==
    [[cmd[p] EXCEPT !.at = "shown"]
            EXCEPT !.said = [cmd[p].said EXCEPT !.prose = Ground(reply, Range(cmd[p].said.cited))]]

LEMMA SynthesizeTurn ==
    ASSUME Shape, NEW p \in Process, Synthesize(p)
    PROVE  Turn(p) /\ \E reply : cmd'[p] = Rendered(p, reply)
<1> DEFINE permitted == Range(cmd[p].said.cited)
<1>1. PICK reply : cmd' = [cmd EXCEPT ![p].at = "shown", ![p].said.prose = Ground(reply, permitted)]
  BY DEF Synthesize
<1> DEFINE prose == Ground(reply, permitted)
<1>2. cmd' = [cmd EXCEPT ![p] = Rendered(p, reply)]
  <2> HIDE DEF prose
  <2>1. cmd' = [cmd EXCEPT ![p] = [[cmd[p] EXCEPT !.at = "shown"]
                                      EXCEPT !.said = [cmd[p].said EXCEPT !.prose = prose]]]
    BY <1>1 DEF Shape, CommandShape, prose
  <2> QED
    BY <2>1 DEF Rendered, prose
<1>3. CommandShape(Rendered(p, reply))
  BY DEF Shape, CommandShape, Rendered
<1> QED
  BY <1>2, <1>3, TurnTaken

LEMMA ShowTurn ==
    ASSUME Shape, NEW p \in Process, Show(p)
    PROVE  Turn(p) /\ cmd'[p] = Idle
<1> DEFINE c == Idle
<1>1. CommandShape(c)
  BY DEF Shape, CommandShape, Idle, NoAnswer, EmptyPack
<1>2. cmd' = [cmd EXCEPT ![p] = c]
  BY DEF Show
<1> QED
  BY <1>1, <1>2, TurnTaken

LEMMA PackStartTurn ==
    ASSUME Shape, NEW p \in Process, PackStart(p)
    PROVE  Turn(p) /\ cmd'[p] = [Idle EXCEPT !.at = "heads", !.verb = "pack", !.begun = Heads,
                 !.verdict = Recomputed, !.pack.live = Live]
<1> DEFINE c == [Idle EXCEPT !.at = "heads", !.verb = "pack", !.begun = Heads,
                 !.verdict = Recomputed, !.pack.live = Live]
<1>1. CommandShape(c)
  BY DEF Shape, CommandShape, Idle, NoAnswer, EmptyPack
<1>2. cmd' = [cmd EXCEPT ![p] = c]
  BY DEF PackStart
<1> QED
  BY <1>1, <1>2, TurnTaken

LEMMA PackHeadsTurn ==
    ASSUME Shape, NEW p \in Process, PackHeads(p)
    PROVE  Turn(p) /\ cmd'[p] = [[cmd[p] EXCEPT !.at = "appendix"] EXCEPT !.said =
                [NoAnswer EXCEPT !.branch = "pack",
                     !.cited = [k \in Selected |-> <<k, Len(items[k].revs)>>]]]
<1> DEFINE c == [[cmd[p] EXCEPT !.at = "appendix"] EXCEPT !.said =
                [NoAnswer EXCEPT !.branch = "pack",
                     !.cited = [k \in Selected |-> <<k, Len(items[k].revs)>>]]]
<1>1. CommandShape(c)
  BY DEF Shape, CommandShape, NoAnswer
<1>2. cmd' = [cmd EXCEPT ![p] = c]
  BY DEF PackHeads
<1> QED
  BY <1>1, <1>2, TurnTaken

LEMMA PackAppendixTurn ==
    ASSUME Shape, NEW p \in Process, PackAppendix(p)
    PROVE  Turn(p) /\ cmd'[p] = [[[cmd[p] EXCEPT !.at = "stamp"] EXCEPT !.verdict = {}] EXCEPT !.pack =
                [cmd[p].pack EXCEPT !.gaps = PackGaps(cmd[p].pack.live \ cmd[p].verdict),
                                    !.contradicted = PackConflicts(cmd[p].pack.live)]]
<1> DEFINE c == [[[cmd[p] EXCEPT !.at = "stamp"] EXCEPT !.verdict = {}] EXCEPT !.pack =
                [cmd[p].pack EXCEPT !.gaps = PackGaps(cmd[p].pack.live \ cmd[p].verdict),
                                    !.contradicted = PackConflicts(cmd[p].pack.live)]]
<1>1. CommandShape(c)
  BY DEF Shape, CommandShape
<1>2. cmd' = [cmd EXCEPT ![p] = c]
  BY DEF PackAppendix
<1> QED
  BY <1>1, <1>2, TurnTaken

LEMMA PackStampTurn ==
    ASSUME Shape, NEW p \in Process, PackStamp(p)
    PROVE  Turn(p) /\ cmd'[p] = [[cmd[p] EXCEPT !.at = "shown"] EXCEPT !.pack = [cmd[p].pack EXCEPT !.stale =
                {c[1] : c \in {c \in Range(cmd[p].said.cited) : StampedStale(c[1])}}]]
<1> DEFINE new == [[cmd[p] EXCEPT !.at = "shown"] EXCEPT !.pack = [cmd[p].pack EXCEPT !.stale =
                {c[1] : c \in {c \in Range(cmd[p].said.cited) : StampedStale(c[1])}}]]
<1>1. CommandShape(new)
  BY DEF Shape, CommandShape
<1>2. cmd' = [cmd EXCEPT ![p] = new]
  BY DEF PackStamp
<1> QED
  BY <1>1, <1>2, TurnTaken

-----------------------------------------------------------------------------
(* What an operator's step may do to its command.                           *)

\* It begins a wrapped command that is no rebuild, or one of its own.
Begins(p) ==
    /\ cmd'[p].at \in {"before", "cache", "dispose"}
    /\ cmd'[p].begun = <<>> /\ cmd'[p].said = NoAnswer /\ cmd'[p].pack = EmptyPack
    /\ cmd'[p].at = "before" => cmd'[p].verb # "rebuild"
    /\ cmd'[p].at = "before" /\ cmd'[p].verb = "answer" =>
          cmd'[p].escalation \in DOMAIN escalations
    /\ cmd'[p].at = "cache" => cmd'[p].verb = "rebuild"

\* It goes on with what it was about.
GoesOn(p, from, to) ==
    /\ cmd[p].at = from /\ cmd'[p].at = to
    /\ cmd'[p].verb = cmd[p].verb /\ cmd'[p].escalation = cmd[p].escalation
    /\ cmd'[p].begun = cmd[p].begun /\ cmd'[p].said = cmd[p].said
    /\ cmd'[p].pack = cmd[p].pack

OperatorKinds(p) ==
    \/ Begins(p)
    \/ GoesOn(p, "before", "body") /\ cmd'[p].disagreed = Disagreements
    \/ GoesOn(p, "body", "after") /\ cmd'[p].disagreed = cmd[p].disagreed
    \/ GoesOn(p, "after", "cache") /\ cmd[p].disagreed = {}
    \/ cmd'[p] = Idle

LEMMA OperatorTurn ==
    ASSUME Shape, NEW p \in Process, OperatorStep(p)
    PROVE  Turn(p) /\ OperatorKinds(p)
<1>1. CommandShape(cmd[p])
  BY DEF Shape
<1>2. CASE Answer(p)
  <2>1. PICK e, edit :
            /\ e \in DOMAIN escalations
            /\ cmd' = [cmd EXCEPT ![p] = [Idle EXCEPT !.at = "before", !.verb = "answer",
                                                      !.escalation = e, !.edit = edit]]
    BY <1>2 DEF Answer
  <2> DEFINE c == [Idle EXCEPT !.at = "before", !.verb = "answer", !.escalation = e, !.edit = edit]
  <2>2. /\ CommandShape(c) /\ e \in DOMAIN escalations
        /\ c.at = "before" /\ c.verb = "answer" /\ c.escalation = e
        /\ c.begun = <<>> /\ c.said = NoAnswer /\ c.pack = EmptyPack
    BY <2>1 DEF CommandShape, Idle, NoAnswer, EmptyPack
  <2>3. cmd' = [cmd EXCEPT ![p] = c]
    BY <2>1
  <2> HIDE DEF c
  <2>4. Turn(p) /\ cmd'[p] = c
    BY <2>2, <2>3, TurnTaken
  <2> QED
    BY <2>2, <2>4 DEF OperatorKinds, Begins
<1>3. CASE Edit(p)
  <2>1. PICK verb \in {"revise", "retire", "bind", "refresh"} :
            cmd' = [cmd EXCEPT ![p] = [Idle EXCEPT !.at = "before", !.verb = verb]]
    BY <1>3 DEF Edit
  <2> DEFINE c == [Idle EXCEPT !.at = "before", !.verb = verb]
  <2>2. /\ CommandShape(c)
        /\ c.at = "before" /\ c.verb = verb
        /\ c.begun = <<>> /\ c.said = NoAnswer /\ c.pack = EmptyPack
    BY DEF CommandShape, Idle, NoAnswer, EmptyPack
  <2>3. cmd' = [cmd EXCEPT ![p] = c]
    BY <2>1
  <2> HIDE DEF c
  <2>4. Turn(p) /\ cmd'[p] = c
    BY <2>2, <2>3, TurnTaken
  <2> QED
    BY <2>1, <2>2, <2>4 DEF OperatorKinds, Begins
<1>4. CASE RecomputeCommand(p) \/ RankGaps(p)
  <2>1. PICK at, verb, verdict :
            /\ cmd' = [cmd EXCEPT ![p] = [Idle EXCEPT !.at = at, !.verb = verb, !.verdict = verdict]]
            /\ (at = "cache" /\ verb = "rebuild") \/ at = "dispose"
    BY <1>4 DEF RecomputeCommand, RankGaps
  <2> DEFINE c == [Idle EXCEPT !.at = at, !.verb = verb, !.verdict = verdict]
  <2>2. /\ CommandShape(c)
        /\ c.at = at /\ c.verb = verb
        /\ c.begun = <<>> /\ c.said = NoAnswer /\ c.pack = EmptyPack
    BY DEF CommandShape, Idle, NoAnswer, EmptyPack
  <2>3. cmd' = [cmd EXCEPT ![p] = c]
    BY <2>1
  <2> HIDE DEF c
  <2>4. Turn(p) /\ cmd'[p] = c
    BY <2>2, <2>3, TurnTaken
  <2> QED
    BY <2>1, <2>2, <2>4 DEF OperatorKinds, Begins
<1>5. CASE Compare(p)
  <2> DEFINE c == [[cmd[p] EXCEPT !.at = "body"] EXCEPT !.disagreed = Disagreements]
  <2>1. CommandShape(c)
    BY <1>1 DEF CommandShape
  <2>2. cmd' = [cmd EXCEPT ![p] = c] /\ cmd[p].at = "before"
    BY <1>5 DEF Compare, At
  <2>3. /\ c.at = "body" /\ c.verb = cmd[p].verb /\ c.escalation = cmd[p].escalation
        /\ c.begun = cmd[p].begun /\ c.said = cmd[p].said /\ c.pack = cmd[p].pack
        /\ c.disagreed = Disagreements
    BY <1>1 DEF CommandShape
  <2> HIDE DEF c
  <2>4. Turn(p) /\ cmd'[p] = c
    BY <2>1, <2>2, TurnTaken
  <2> QED
    BY <2>2, <2>3, <2>4 DEF OperatorKinds, GoesOn
<1>6. CASE Capture(p)
  <2> DEFINE c == [[cmd[p] EXCEPT !.at = "after"] EXCEPT !.edit = <<>>]
  <2>1. CommandShape(c)
    BY <1>1 DEF CommandShape
  <2>2. cmd' = [cmd EXCEPT ![p] = c] /\ cmd[p].at = "body"
    BY <1>6 DEF Capture, At
  <2>3. /\ c.at = "after" /\ c.verb = cmd[p].verb /\ c.escalation = cmd[p].escalation
        /\ c.begun = cmd[p].begun /\ c.said = cmd[p].said /\ c.pack = cmd[p].pack
        /\ c.disagreed = cmd[p].disagreed
    BY <1>1 DEF CommandShape
  <2> HIDE DEF c
  <2>4. Turn(p) /\ cmd'[p] = c
    BY <2>1, <2>2, TurnTaken
  <2> QED
    BY <2>2, <2>3, <2>4 DEF OperatorKinds, GoesOn
<1>7. CASE Revise(p) \/ Retire(p) \/ Bind(p) \/ Refresh(p) \/ Nothing(p)
  <2> DEFINE c == [cmd[p] EXCEPT !.at = "after"]
  <2>1. Goto(p, "after") /\ cmd[p].at = "body"
    BY <1>7 DEF Revise, Retire, Bind, Refresh, Nothing, At
  <2>2. Turn(p) /\ cmd'[p] = c
    BY <2>1, GoesTo
  <2>3. /\ c.at = "after" /\ c.verb = cmd[p].verb /\ c.escalation = cmd[p].escalation
        /\ c.begun = cmd[p].begun /\ c.said = cmd[p].said /\ c.pack = cmd[p].pack
        /\ c.disagreed = cmd[p].disagreed
    BY <1>1 DEF CommandShape
  <2> HIDE DEF c
  <2> QED
    BY <2>1, <2>2, <2>3 DEF OperatorKinds, GoesOn
<1>8. CASE Recompute(p)
  <2> DEFINE c == [[cmd[p] EXCEPT !.at = "cache"] EXCEPT !.verdict = Recomputed]
  <2>1. CommandShape(c)
    BY <1>1 DEF CommandShape
  <2>2. cmd[p].at = "after"
    BY <1>8 DEF Recompute, At
  <2>3. CASE MayRebuild(p)
    <3>1. cmd' = [cmd EXCEPT ![p] = c] /\ cmd[p].disagreed = {}
      BY <1>8, <2>3 DEF Recompute, MayRebuild
    <3>2. Turn(p) /\ cmd'[p] = c
      BY <2>1, <3>1, TurnTaken
    <3>3. GoesOn(p, "after", "cache")
      BY <1>1, <2>2, <3>2 DEF GoesOn, CommandShape
    <3> QED
      BY <3>1, <3>2, <3>3 DEF OperatorKinds
  <2>4. CASE ~MayRebuild(p)
    <3>1. cmd' = [cmd EXCEPT ![p] = Idle]
      BY <1>8, <2>4 DEF Recompute
    <3> QED
      BY <3>1, IdleShape, TurnTaken DEF OperatorKinds
  <2> QED
    BY <2>3, <2>4
<1>9. CASE AnswerRefused(p) \/ WriteCache(p) \/ DisposeGap(p)
  <2>1. cmd' = [cmd EXCEPT ![p] = Idle]
    BY <1>9 DEF AnswerRefused, WriteCache, DisposeGap
  <2> QED
    BY <2>1, IdleShape, TurnTaken DEF OperatorKinds
<1> QED
  BY <1>2, <1>3, <1>4, <1>5, <1>6, <1>7, <1>8, <1>9 DEF OperatorStep

-----------------------------------------------------------------------------
(* Items only grow, whatever happens.                                       *)

\* Every item that was there answers what it answered.
SameAnswers ==
    /\ DOMAIN items' = DOMAIN items
    /\ \A k \in DOMAIN items : items'[k].answers = items[k].answers

LEMMA AskerWritesNoItem ==
    ASSUME NEW p, AskerStep(p)
    PROVE  UNCHANGED items
BY DEF AskerStep, Ask, ReadRows, Rebuild, Retrieve, Say, Escalate, KeepToOneself, Synthesize,
       Show, PackStart, PackHeads, PackAppendix, PackStamp, Others, canon

LEMMA CaptureItem ==
    ASSUME Items, NEW p, Capture(p)
    PROVE  /\ Items' /\ Grows
           /\ DOMAIN items' = DOMAIN items \cup {Len(items) + 1}
           /\ Len(items) + 1 \notin DOMAIN items
           /\ \A k \in DOMAIN items : items'[k] = items[k]
           /\ items'[Len(items) + 1].answers = cmd[p].escalation
<1> DEFINE row == Captured(cmd[p].escalation, cmd[p].edit[2])
<1>1. items' = Append(items, row)
  BY DEF Capture
<1> DEFINE revs == <<Revision("verified", cmd[p].edit[2])>>
<1>2. IsSeq(revs) /\ Len(revs) = 1
  BY DEF IsSeq, Range
<1>3. row.revs = revs /\ row.answers = cmd[p].escalation
      /\ DOMAIN row = {"revs", "fresh", "tagged", "answers"}
  BY DEF Captured
<1> HIDE DEF row, revs
<1>4. ItemOK(row)
  BY <1>2, <1>3 DEF ItemOK
<1> QED
  BY <1>1, <1>3, <1>4, OneMoreItem

LEMMA OperatorWritesItems ==
    ASSUME Items, NEW p, OperatorStep(p)
    PROVE  Items' /\ Grows /\ (SameAnswers \/ Capture(p))
<1>1. CASE Capture(p)
  BY <1>1, CaptureItem
<1>2. CASE Revise(p)
  <2>1. PICK k, rev :
            /\ k \in DOMAIN items
            /\ items' = [items EXCEPT ![k].revs = Append(@, rev), ![k].fresh = "unverified"]
    BY <1>2 DEF Revise
  <2> QED
    BY <2>1, OneMoreRevision DEF SameAnswers
<1>3. CASE Retire(p)
  <2>1. PICK k \in DOMAIN items :
            items' = [items EXCEPT ![k].revs = Append(@, Last(@)), ![k].fresh = "retired"]
    BY <1>3 DEF Retire
  <2>2. PICK rev : rev = Last(items[k].revs)
    OBVIOUS
  <2>3. items' = [items EXCEPT ![k].revs = Append(@, rev), ![k].fresh = "retired"]
    BY <2>1, <2>2
  <2> QED
    BY <2>3, OneMoreRevision DEF SameAnswers
<1>4. CASE UNCHANGED items
  BY <1>4, SameItems DEF SameAnswers
<1>5. \/ Capture(p) \/ Revise(p) \/ Retire(p) \/ UNCHANGED items
  BY DEF OperatorStep, Answer, Edit, Compare, AnswerRefused, Bind, Refresh, Nothing,
         Recompute, WriteCache, RecomputeCommand, RankGaps, DisposeGap, Others, canon
<1> QED
  BY <1>1, <1>2, <1>3, <1>4, <1>5

LEMMA ItemsKept ==
    ASSUME Items, Shape, [Next]_vars
    PROVE  Items' /\ Grows /\ Shape'
<1>1. CASE \E p \in Asker : AskerStep(p)
  <2>1. PICK p \in Asker : AskerStep(p)
    BY <1>1
  <2>2. Items' /\ Grows
    BY <2>1, AskerWritesNoItem, SameItems
  <2>3. p \in Process
    BY DEF Process
  <2>4. Turn(p)
    BY <2>1, <2>3, AskTurn, ReadRowsTurn, RebuildTurn, RetrieveTurn, SayTurn, EscalateTurn,
       SynthesizeTurn, ShowTurn, PackStartTurn, PackHeadsTurn, PackAppendixTurn, PackStampTurn
       DEF AskerStep
  <2> QED
    BY <2>2, <2>4 DEF Turn
<1>2. CASE \E p \in Operator : OperatorStep(p)
  BY <1>2, OperatorWritesItems, OperatorTurn DEF Process, Turn
<1>3. CASE EnvironmentStep
  BY <1>3, EnvironmentStays, SameItems DEF Shape, CommandShape
<1>4. CASE \E p \in Process : Kill(p)
  BY <1>4, KillTurn, SameItems DEF Turn
<1>5. CASE UNCHANGED vars
  BY <1>5, SameItems DEF Shape, CommandShape, vars, canon
<1> QED
  BY <1>1, <1>2, <1>3, <1>4, <1>5, StepsAre

LEMMA InitTables ==
    ASSUME Init
    PROVE  /\ Items /\ Shape
           /\ \A k \in DOMAIN items : items[k].answers = 0
           /\ \A p \in Process : cmd[p] = Idle
<1>1. PICK row : items = <<row>> /\ ItemOK(row) /\ row.answers = 0
  <2>1. PICK first \in First :
            items = <<[revs |-> <<Revision(first.verification, first.text.terms)>>,
                       fresh |-> first.fresh, tagged |-> TRUE, answers |-> 0]>>
    BY DEF Init
  <2> DEFINE revs == <<Revision(first.verification, first.text.terms)>>
             row == [revs |-> revs, fresh |-> first.fresh, tagged |-> TRUE, answers |-> 0]
  <2>2. IsSeq(revs) /\ Len(revs) = 1
    BY DEF IsSeq, Range
  <2> HIDE DEF revs
  <2>3. ItemOK(row) /\ row.answers = 0
    BY <2>2 DEF ItemOK
  <2> QED
    BY <2>1, <2>3 DEF revs
<1>2. IsSeq(items) /\ DOMAIN items = {1} /\ items[1] = row
  BY <1>1 DEF IsSeq, Range
<1>3. cmd = [p \in Process |-> Idle]
  BY DEF Init
<1> QED
  BY <1>1, <1>2, <1>3, IdleShape DEF Items, Shape

-----------------------------------------------------------------------------
(* One captured item for an answered escalation, none for an open one.      *)

Tables == Items /\ Shape

EscalationOK(e) == {"question", "branch", "prior", "status", "candidate"} \subseteq DOMAIN e

Answering(p) == cmd[p].at \in {"before", "body"} /\ cmd[p].verb = "answer"

Answers ==
    /\ IsSeq(escalations)
    /\ \A e \in DOMAIN escalations : EscalationOK(escalations[e])
    /\ \A k \in DOMAIN items : items[k].answers \in 0..Len(escalations)
    /\ \A p \in Process : Answering(p) => cmd[p].escalation \in DOMAIN escalations
    /\ AnsweredOnce

\* Nothing is answered or escalated, and no command comes to answer another.
LEMMA AnswersStay ==
    ASSUME Answers, SameAnswers, UNCHANGED escalations,
           \A p \in Process : Answering(p)' => cmd'[p].escalation \in DOMAIN escalations
    PROVE  Answers'
<1>1. AnsweredOnce'
  BY DEF Answers, AnsweredOnce, SameAnswers
<1> QED
  BY <1>1 DEF Answers, SameAnswers, EscalationOK

LEMMA NobodyElseAnswers ==
    ASSUME Answers, NEW p \in Process, Turn(p),
           Answering(p)' => cmd'[p].escalation \in DOMAIN escalations
    PROVE  \A q \in Process : Answering(q)' => cmd'[q].escalation \in DOMAIN escalations
BY DEF Answers, Turn, Answering

\* Where an asker's step takes it.
LEMMA AskerStages ==
    ASSUME Shape, NEW p \in Process, AskerStep(p)
    PROVE  /\ Turn(p)
           /\ cmd'[p].at \notin {"before", "body", "after", "cache"}
<1>1. CommandShape(cmd[p])
  BY DEF Shape
<1>2. CASE Ask(p)
  BY <1>2, AskTurn, ZenonT(60) DEF AskBegins, Idle
<1>3. CASE ReadRows(p) \/ Rebuild(p)
  BY <1>1, <1>3, ReadRowsTurn, RebuildTurn DEF CommandShape
<1>4. CASE Retrieve(p)
  BY <1>1, <1>4, RetrieveTurn DEF CommandShape, Hits
<1>5. CASE Say(p)
  BY <1>1, <1>5, SayTurn, IdleIs DEF CommandShape
<1>6. CASE Escalate(p) \/ KeepToOneself(p)
  BY <1>1, <1>6, EscalateTurn DEF CommandShape
<1>7. CASE Synthesize(p)
  BY <1>1, <1>7, SynthesizeTurn DEF CommandShape, Rendered
<1>8. CASE Show(p)
  BY <1>8, ShowTurn, IdleIs
<1>9. CASE PackStart(p)
  <2>1. [Idle EXCEPT !.at = "heads", !.verb = "pack", !.begun = Heads,
                     !.verdict = Recomputed, !.pack.live = Live].at = "heads"
    BY DEF Idle
  <2> QED
    BY <1>9, <2>1, PackStartTurn
<1>10. CASE PackHeads(p) \/ PackAppendix(p) \/ PackStamp(p)
  BY <1>1, <1>10, PackHeadsTurn, PackAppendixTurn, PackStampTurn, ZenonT(60) DEF CommandShape
<1> QED
  BY <1>2, <1>3, <1>4, <1>5, <1>6, <1>7, <1>8, <1>9, <1>10 DEF AskerStep

LEMMA AskerKeepsAnswers ==
    ASSUME Tables, Answers, NEW p \in Process, AskerStep(p)
    PROVE  Answers'
<1>1. Turn(p) /\ ~Answering(p)'
  BY AskerStages DEF Tables, Answering
<1>2. UNCHANGED items /\ SameAnswers
  BY AskerWritesNoItem DEF SameAnswers
<1>3. \A q \in Process : Answering(q)' => cmd'[q].escalation \in DOMAIN escalations
  BY <1>1, NobodyElseAnswers
<1>4. CASE UNCHANGED escalations
  BY <1>2, <1>3, <1>4, AnswersStay
<1>5. CASE Escalate(p)
  <2> DEFINE row == EscalationRow(cmd[p].question, cmd[p].said)
             last == Len(escalations) + 1
  <2>1. escalations' = Append(escalations, row)
    BY <1>5 DEF Escalate
  <2>2. row.status = "open" /\ EscalationOK(row)
    BY DEF EscalationRow, EscalationOK
  <2> HIDE DEF row
  <2>3. /\ IsSeq(escalations') /\ Len(escalations') = last /\ DOMAIN escalations' = 1..last
        /\ \A e \in 1..Len(escalations) : escalations'[e] = escalations[e]
        /\ escalations'[last] = row
        /\ Len(escalations) \in Nat /\ DOMAIN escalations = 1..Len(escalations)
    BY <2>1, AppendIsSeq, SeqFacts DEF Answers
  <2>4. \A e \in DOMAIN escalations' : EscalationOK(escalations'[e])
    <3> TAKE e \in DOMAIN escalations'
    <3>1. e \in 1..Len(escalations) \/ e = last
      BY <2>3
    <3> QED
      BY <2>2, <2>3, <3>1 DEF Answers
  <2>5. ASSUME NEW e \in DOMAIN escalations'
        PROVE  {k \in DOMAIN items : items[k].answers = e} =
                   IF escalations'[e].status = "answered" THEN {escalations'[e].candidate} ELSE {}
    <3>1. CASE e \in 1..Len(escalations)
      BY <2>3, <3>1 DEF Answers, AnsweredOnce
    <3>2. CASE e = last
      <4>1. \A k \in DOMAIN items : items[k].answers # last
        BY <2>3 DEF Answers
      <4> QED
        BY <2>2, <2>3, <3>2, <4>1
    <3> QED
      BY <2>3, <3>1, <3>2
  <2>6. AnsweredOnce'
    BY <1>2, <2>5 DEF AnsweredOnce
  <2>7. \A k \in DOMAIN items' : items'[k].answers \in 0..Len(escalations')
    BY <1>2, <2>3 DEF Answers
  <2>8. \A q \in Process : Answering(q)' => cmd'[q].escalation \in DOMAIN escalations'
    BY <1>3, <2>3
  <2> QED
    BY <2>3, <2>4, <2>6, <2>7, <2>8 DEF Answers, EscalationOK
<1>6. Escalate(p) \/ UNCHANGED escalations
  BY DEF AskerStep, Ask, ReadRows, Rebuild, Retrieve, Say, KeepToOneself, Synthesize, Show,
         PackStart, PackHeads, PackAppendix, PackStamp, Others
<1> QED
  BY <1>4, <1>5, <1>6

LEMMA OperatorKeepsAnswers ==
    ASSUME Tables, Answers, NEW p \in Process, OperatorStep(p)
    PROVE  Answers'
<1>1. Turn(p) /\ OperatorKinds(p)
  BY OperatorTurn DEF Tables
<1>2. Answering(p)' => cmd'[p].escalation \in DOMAIN escalations
  BY <1>1, IdleIs DEF OperatorKinds, Begins, GoesOn, Answering, Answers
<1>3. \A q \in Process : Answering(q)' => cmd'[q].escalation \in DOMAIN escalations
  BY <1>1, <1>2, NobodyElseAnswers
<1>4. CASE Capture(p)
  <2> DEFINE e == cmd[p].escalation
             k == Len(items) + 1
  <2>1. cmd[p].at = "body" /\ cmd[p].verb = "answer" /\ escalations[e].status = "open"
    BY <1>4 DEF Capture, At, StillOpen
  <2>2. e \in DOMAIN escalations
    BY <2>1 DEF Answers, Answering
  <2>3. escalations' = [escalations EXCEPT ![e].status = "answered", ![e].candidate = k]
    BY <1>4 DEF Capture
  <2>4. /\ DOMAIN items' = DOMAIN items \cup {k} /\ k \notin DOMAIN items
        /\ \A i \in DOMAIN items : items'[i] = items[i]
        /\ items'[k].answers = e
    BY <1>4, CaptureItem DEF Tables
  <2> DEFINE row == [[escalations[e] EXCEPT !.status = "answered"] EXCEPT !.candidate = k]
  <2>5. EscalationOK(row) /\ row.status = "answered" /\ row.candidate = k
    BY <2>2 DEF Answers, EscalationOK
  <2>6. escalations' = [escalations EXCEPT ![e] = row]
    BY <2>2, <2>3
  <2> HIDE DEF row, k, e
  <2>7. IsSeq(escalations') /\ DOMAIN escalations' = DOMAIN escalations
    <3>1. IsSeq(escalations)
      BY DEF Answers
    <3>2. IsSeq([escalations EXCEPT ![e] = row])
          /\ DOMAIN [escalations EXCEPT ![e] = row] = DOMAIN escalations
      BY <2>2, <3>1, ExceptIsSeq
    <3> QED
      BY <2>6, <3>2
  <2>8. /\ escalations'[e] = row
        /\ \A f \in DOMAIN escalations : f # e => escalations'[f] = escalations[f]
    BY <2>2, <2>6
  <2>9. \A f \in DOMAIN escalations' : EscalationOK(escalations'[f])
    BY <2>5, <2>7, <2>8 DEF Answers
  <2>10. Len(escalations) \in Nat /\ Len(escalations') = Len(escalations)
         /\ DOMAIN escalations = 1..Len(escalations)
    <3>1. /\ Len(escalations) \in Nat /\ DOMAIN escalations = 1..Len(escalations)
          /\ Len(escalations') \in Nat /\ DOMAIN escalations' = 1..Len(escalations')
      BY <2>7, SeqFacts DEF Answers
    <3> QED
      BY <2>7, <3>1
  <2>11. \A i \in DOMAIN items' : items'[i].answers \in 0..Len(escalations')
    BY <2>2, <2>4, <2>10 DEF Answers
  <2>12. ASSUME NEW f \in DOMAIN escalations'
         PROVE  {i \in DOMAIN items' : items'[i].answers = f} =
                   IF escalations'[f].status = "answered" THEN {escalations'[f].candidate} ELSE {}
    <3>1. CASE f = e
      <4>1. {i \in DOMAIN items : items[i].answers = e} = {}
        BY <2>1, <2>2 DEF Answers, AnsweredOnce, e
      <4>2. {i \in DOMAIN items' : items'[i].answers = f} = {k}
        BY <2>4, <3>1, <4>1
      <4> QED
        BY <2>5, <2>8, <3>1, <4>2
    <3>2. CASE f # e
      <4>1. {i \in DOMAIN items' : items'[i].answers = f} = {i \in DOMAIN items : items[i].answers = f}
        BY <2>4, <3>2
      <4> QED
        BY <2>7, <2>8, <3>2, <4>1 DEF Answers, AnsweredOnce
    <3> QED
      BY <3>1, <3>2
  <2>13. AnsweredOnce'
    BY <2>12 DEF AnsweredOnce
  <2>14. \A q \in Process : Answering(q)' => cmd'[q].escalation \in DOMAIN escalations'
    BY <1>3, <2>7
  <2> QED
    BY <2>7, <2>9, <2>11, <2>13, <2>14 DEF Answers, EscalationOK
<1>5. CASE ~Capture(p)
  <2>1. SameAnswers
    BY <1>5, OperatorWritesItems DEF Tables
  <2>2. UNCHANGED escalations
    BY <1>5 DEF OperatorStep, Answer, Edit, Compare, AnswerRefused, Revise, Retire, Bind, Refresh,
           Nothing, Recompute, WriteCache, RecomputeCommand, RankGaps, DisposeGap, Others
  <2> QED
    BY <1>3, <2>1, <2>2, AnswersStay
<1> QED
  BY <1>4, <1>5

LEMMA AnswersKept ==
    ASSUME Tables, Answers, [Next]_vars
    PROVE  Answers'
<1>1. CASE \E p \in Asker : AskerStep(p)
  BY <1>1, AskerKeepsAnswers DEF Process
<1>2. CASE \E p \in Operator : OperatorStep(p)
  BY <1>2, OperatorKeepsAnswers DEF Process
<1>3. CASE \E p \in Process : Kill(p)
  <2>1. PICK p \in Process : Kill(p)
    BY <1>3
  <2>2. Turn(p) /\ cmd'[p] = Idle /\ UNCHANGED <<items, escalations>>
    BY <2>1, KillTurn DEF Tables
  <2>3. ~Answering(p)'
    BY <2>2, IdleIs DEF Answering
  <2> QED
    BY <2>2, <2>3, NobodyElseAnswers, AnswersStay DEF SameAnswers
<1>4. CASE EnvironmentStep \/ UNCHANGED vars
  <2>1. UNCHANGED <<items, escalations, cmd>>
    BY <1>4, EnvironmentStays DEF vars, canon
  <2> QED
    BY <2>1, AnswersStay DEF SameAnswers, Answers, Answering
<1> QED
  BY <1>1, <1>2, <1>3, <1>4, StepsAre

LEMMA InitAnswers ==
    ASSUME Init
    PROVE  Answers
<1>1. escalations = <<>>
  BY DEF Init
<1>2. IsSeq(escalations) /\ Len(escalations) = 0 /\ DOMAIN escalations = {}
  BY <1>1, EmptyIsSeq
<1>3. \A k \in DOMAIN items : items[k].answers \in 0..Len(escalations)
  <2>1. 0 \in 0..Len(escalations)
    BY <1>2
  <2> QED
    BY <2>1, InitTables
<1>4. \A p \in Process : ~Answering(p)
  BY InitTables, IdleIs DEF Answering
<1>5. AnsweredOnce
  BY <1>2 DEF AnsweredOnce
<1> QED
  BY <1>2, <1>3, <1>4, <1>5 DEF Answers

\* However many people answer one escalation, one captured item exists for it
\* (capture_answer checks the status in the transaction that writes the item).
THEOREM EscalationsAnsweredOnce == Spec => []AnsweredOnce
<1> DEFINE Inv == Tables /\ Answers
<1>1. Init => Inv
  BY InitTables, InitAnswers DEF Tables
<1>2. Inv /\ [Next]_vars => Inv'
  BY ItemsKept, AnswersKept DEF Tables
<1>3. Inv => AnsweredOnce
  BY DEF Answers
<1> QED
  BY <1>1, <1>2, <1>3, PTL DEF Spec

-----------------------------------------------------------------------------
(* A disagreement older than every running command is kept.                 *)

\* What a command that keeps the cache current found before its body is no less
\* than what is settled; if it comes to rewrite the cache, nothing is.
Evidence ==
    /\ settled \subseteq Disagreements
    /\ \A p \in Process : cmd[p].at \in {"body", "after"} => settled \subseteq cmd[p].disagreed
    /\ \A p \in Process : cmd[p].at = "cache" /\ cmd[p].verb # "rebuild" => settled = {}

NothingRuns == \A p \in Process : cmd[p].at = "idle"

Noted == settled' = IF NothingRuns' THEN Disagreements' ELSE settled \cap Disagreements'

LEMMA EveryStepNotes ==
    ASSUME Next
    PROVE  Noted
<1>1. ASSUME NEW p, AskerStep(p) PROVE Noted
  BY <1>1 DEF AskerStep, Ask, ReadRows, Rebuild, Retrieve, Say, Escalate, KeepToOneself,
     Synthesize, Show, PackStart, PackHeads, PackAppendix, PackStamp, Others, Noted, NothingRuns
<1>2. ASSUME NEW p, OperatorStep(p) PROVE Noted
  BY <1>2 DEF OperatorStep, Answer, Edit, Compare, Capture, AnswerRefused, Revise, Retire, Bind,
     Refresh, Nothing, Recompute, WriteCache, RecomputeCommand, RankGaps, DisposeGap, Others,
     Noted, NothingRuns
<1>3. ASSUME EnvironmentStep PROVE Noted
  BY <1>3 DEF EnvironmentStep, MapMoves, DeclareBoundary, RegisterSensor, SensorHeartbeat,
     SensorFallsSilent, OpenConflict, Others, Noted, NothingRuns
<1>4. ASSUME NEW p, Kill(p) PROVE Noted
  BY <1>4 DEF Kill, Others, Noted, NothingRuns
<1> QED
  BY <1>1, <1>2, <1>3, <1>4 DEF Next, AskerStep, OperatorStep, EnvironmentStep

\* A step of one command keeps what holds of the others; its own is to be shown.
LEMMA EvidenceOfTheOthers ==
    ASSUME Evidence, Noted, NEW p \in Process, Turn(p),
           cmd'[p].at \in {"body", "after"} => settled \subseteq cmd'[p].disagreed,
           cmd'[p].at = "cache" /\ cmd'[p].verb # "rebuild" => settled = {}
    PROVE  Evidence'
<1>1. settled' \subseteq Disagreements'
  BY DEF Noted
<1>2. CASE NothingRuns'
  BY <1>1, <1>2 DEF Evidence, NothingRuns
<1>3. CASE ~NothingRuns'
  <2>1. settled' \subseteq settled
    BY <1>3 DEF Noted
  <2>2. ASSUME NEW q \in Process, cmd'[q].at \in {"body", "after"}
        PROVE  settled' \subseteq cmd'[q].disagreed
    BY <2>1, <2>2 DEF Evidence, Turn
  <2>3. ASSUME NEW q \in Process, cmd'[q].at = "cache" /\ cmd'[q].verb # "rebuild"
        PROVE  settled' = {}
    BY <2>1, <2>3 DEF Evidence, Turn
  <2> QED
    BY <1>1, <2>2, <2>3 DEF Evidence
<1> QED
  BY <1>2, <1>3

LEMMA EvidenceStays ==
    ASSUME Tables, Evidence, [Next]_vars
    PROVE  Evidence'
<1>1. CASE \E p \in Asker : AskerStep(p)
  <2>1. PICK p \in Asker : AskerStep(p)
    BY <1>1
  <2>2. p \in Process
    BY DEF Process
  <2>3. Next
    BY <2>1 DEF Next, AskerStep
  <2> QED
    BY <2>1, <2>2, <2>3, AskerStages, EveryStepNotes, EvidenceOfTheOthers DEF Tables
<1>2. CASE \E p \in Operator : OperatorStep(p)
  <2>1. PICK p \in Operator : OperatorStep(p)
    BY <1>2
  <2>2. p \in Process
    BY DEF Process
  <2>3. Noted
    BY <2>1, EveryStepNotes DEF Next, OperatorStep
  <2>4. Turn(p) /\ OperatorKinds(p)
    BY <2>1, <2>2, OperatorTurn DEF Tables
  <2>5. cmd'[p].at \in {"body", "after"} => settled \subseteq cmd'[p].disagreed
    BY <2>2, <2>4, IdleIs DEF OperatorKinds, Begins, GoesOn, Evidence
  <2>6. cmd'[p].at = "cache" /\ cmd'[p].verb # "rebuild" => settled = {}
    BY <2>2, <2>4, IdleIs DEF OperatorKinds, Begins, GoesOn, Evidence
  <2> QED
    BY <2>2, <2>3, <2>4, <2>5, <2>6, EvidenceOfTheOthers
<1>3. CASE \E p \in Process : Kill(p)
  <2>1. PICK p \in Process : Kill(p)
    BY <1>3
  <2>2. Noted
    BY <2>1, EveryStepNotes DEF Next
  <2>3. Turn(p) /\ cmd'[p] = Idle
    BY <2>1, KillTurn DEF Tables
  <2> QED
    BY <2>2, <2>3, IdleIs, EvidenceOfTheOthers
<1>4. CASE EnvironmentStep
  <2>1. Noted
    BY <1>4, EveryStepNotes DEF Next, EnvironmentStep
  <2>2. cmd' = cmd
    BY <1>4, EnvironmentStays
  <2> QED
    BY <2>1, <2>2 DEF Noted, NothingRuns, Evidence
<1>5. CASE UNCHANGED vars
  <2>1. Disagreements' = Disagreements
    BY <1>5 DEF vars, canon, Disagreements, Recomputed, Covered, LinkBlocks, HeadOf
  <2> QED
    BY <1>5, <2>1 DEF vars, Evidence
<1> QED
  BY <1>1, <1>2, <1>3, <1>4, <1>5, StepsAre

\* A command that only keeps the cache current erases no disagreement that was
\* there before any running command began (_coverage_support).
THEOREM EvidenceKept == Spec => EvidenceIsKept
<1> DEFINE Inv == Tables /\ Evidence
<1>1. Init => Inv
  <2>1. Init => Tables
    BY InitTables DEF Tables
  <2>2. ASSUME Init PROVE Evidence
    <3>1. settled = {}
      BY <2>2 DEF Init
    <3>2. \A p \in Process : cmd[p].at = "idle"
      BY <2>2, InitTables, IdleIs
    <3> QED
      BY <3>1, <3>2 DEF Evidence
  <2> QED
    BY <2>1, <2>2
<1>2. Inv /\ [Next]_vars => Inv'
  BY ItemsKept, EvidenceStays DEF Tables
<1>3. Inv /\ [Next]_vars =>
          [\A p \in Operator :
              WriteCache(p) /\ cmd[p].verb # "rebuild" => settled \subseteq Disagreements']_vars
  BY DEF Evidence, WriteCache, At, Process
<1> QED
  BY <1>1, <1>2, <1>3, PTL DEF Spec, EvidenceIsKept

-----------------------------------------------------------------------------
(* What one process serves was current while it made it.                    *)

OneAsker == \A p, q \in Asker : p = q

Revs(passages) == {<<q.item, q.rev>> : q \in passages}

\* None of these revisions had been replaced when the command began.
NoneBefore(begun, revs) ==
    \A cited \in revs : cited[1] \in DOMAIN begun => cited[2] >= begun[cited[1]]

\* n stamps some of the revisions there are, and no passage is older than a
\* stamped revision of its item.
Stamps(n, passages) ==
    \E rows \in SUBSET RevisionRows :
        /\ n = Cardinality(rows)
        /\ \A q \in passages, r \in Nat : <<q.item, r>> \in rows => q.rev >= r

HeadsKnown(begun) ==
    \A k \in DOMAIN begun :
        k \in DOMAIN items /\ begun[k] \in Nat /\ begun[k] <= Len(items[k].revs)

Served(c) == Range(c.said.cited) \cup c.said.prose \cup c.pack.contradicted

Serves(c) ==
    /\ HeadsKnown(c.begun)
    /\ NoneBefore(c.begun, Served(c))
    /\ c.at = "rows"     => Stamps(c.stamp[1], {})
    /\ c.at = "rebuild"  => Stamps(c.stamp[1], c.rows) /\ NoneBefore(c.begun, Revs(c.rows))
    /\ c.at = "retrieve" => NoneBefore(c.begun, Revs(index.passages))
    /\ c.at = "compose"  => NoneBefore(c.begun, Revs(Range(c.found)))

Current ==
    /\ Stamps(index.stamp[1], index.passages)
    /\ \A p \in Asker : Serves(cmd[p])

LEMMA NothingServed ==
    ASSUME NEW c, c.said = NoAnswer, c.pack = EmptyPack
    PROVE  Served(c) = {}
BY DEF Served, NoAnswer, EmptyPack, Range

\* A stamp stays a stamp, and heads once known stay known.
LEMMA StampsStay ==
    ASSUME Grows, NEW n, NEW passages, Stamps(n, passages)
    PROVE  \E rows \in SUBSET RevisionRows' :
              /\ n = Cardinality(rows)
              /\ \A q \in passages, r \in Nat : <<q.item, r>> \in rows => q.rev >= r
BY DEF Grows, Stamps

LEMMA HeadsStayKnown ==
    ASSUME Items, Items', Grows, NEW begun, HeadsKnown(begun)
    PROVE  \A k \in DOMAIN begun :
              k \in DOMAIN items' /\ begun[k] \in Nat /\ begun[k] <= Len(items'[k].revs)
<1>1. \A k \in DOMAIN items : Len(items[k].revs) \in Nat
  BY SeqFacts DEF Items, ItemOK
<1>2. \A k \in DOMAIN items' : Len(items'[k].revs) \in Nat
  BY SeqFacts DEF Items, ItemOK
<1> QED
  BY <1>1, <1>2 DEF Grows, HeadsKnown

\* The rows read now are covered by any stamp taken before.
LEMMA HeadsAreStamped ==
    ASSUME Items, NEW n, Stamps(n, {})
    PROVE  Stamps(n, HeadPassages)
<1>1. PICK rows \in SUBSET RevisionRows : n = Cardinality(rows)
  BY DEF Stamps
<1>2. ASSUME NEW q \in HeadPassages, NEW r \in Nat, <<q.item, r>> \in rows
      PROVE  q.rev >= r
  <2>1. q.rev = Len(items[q.item].revs)
    BY DEF HeadPassages, Passage
  <2>2. q.item \in DOMAIN items /\ r \in 1..Len(items[q.item].revs)
    BY <1>2, RowsAre
  <2>3. Len(items[q.item].revs) \in Nat
    BY <2>2, SeqFacts DEF Items, ItemOK
  <2> QED
    BY <2>1, <2>2, <2>3
<1> QED
  BY <1>1, <1>2 DEF Stamps

LEMMA HeadsAreCurrent ==
    ASSUME Items, NEW begun, HeadsKnown(begun)
    PROVE  /\ NoneBefore(begun, Revs(HeadPassages))
           /\ \A revs : (\A cited \in revs : cited[2] = Len(items[cited[1]].revs))
                           => NoneBefore(begun, revs)
<1>1. \A k \in DOMAIN items : Len(items[k].revs) \in Nat
  BY SeqFacts DEF Items, ItemOK
<1>2. ASSUME NEW revs, \A cited \in revs : cited[2] = Len(items[cited[1]].revs)
      PROVE  NoneBefore(begun, revs)
  BY <1>1, <1>2 DEF NoneBefore, HeadsKnown
<1>3. \A cited \in Revs(HeadPassages) : cited[2] = Len(items[cited[1]].revs)
  BY DEF Revs, HeadPassages, Passage
<1> QED
  BY <1>2, <1>3

\* An index whose stamp is the store's holds no passage that has been replaced.
LEMMA StampedIndexIsCurrent ==
    ASSUME Items, Stamps(index.stamp[1], index.passages), index.stamp = StoreStamp
    PROVE  NoneBefore(Heads, Revs(index.passages))
<1>1. PICK rows \in SUBSET RevisionRows :
          /\ index.stamp[1] = Cardinality(rows)
          /\ \A q \in index.passages, r \in Nat : <<q.item, r>> \in rows => q.rev >= r
  BY DEF Stamps
<1>2. index.stamp[1] = Cardinality(RevisionRows)
  BY DEF StoreStamp
<1>3. rows = RevisionRows
  BY <1>1, <1>2, RowsAreFinite, FS_Subset
<1>4. ASSUME NEW q \in index.passages, q.item \in DOMAIN items
      PROVE  q.rev >= Len(items[q.item].revs)
  <2>1. Len(items[q.item].revs) \in Nat /\ 1 <= Len(items[q.item].revs)
    BY <1>4, SeqFacts DEF Items, ItemOK
  <2>2. <<q.item, Len(items[q.item].revs)>> \in RevisionRows
    BY <1>4, <2>1, RowsAre
  <2> QED
    BY <1>1, <1>3, <2>1, <2>2
<1> QED
  BY <1>4 DEF NoneBefore, Revs, Heads

\* A step of another that leaves the index, and no fewer revisions.
LEMMA ServesStays ==
    ASSUME Items, Items', Grows, NEW p, Serves(cmd[p]), UNCHANGED index, cmd'[p] = cmd[p]
    PROVE  Serves(cmd[p])'
<1>1. HeadsKnown(cmd[p].begun)'
  BY HeadsStayKnown DEF Serves, HeadsKnown
<1>2. NoneBefore(cmd[p].begun, Served(cmd[p]))'
  BY DEF Serves, NoneBefore, Served
<1> DEFINE n == cmd[p].stamp[1]
<1>3. ASSUME cmd'[p].at = "rows" PROVE Stamps(cmd[p].stamp[1], {})'
  <2>1. Stamps(n, {})
    BY <1>3 DEF Serves
  <2>2. \E rows \in SUBSET RevisionRows' : n = Cardinality(rows)
    BY <2>1, StampsStay
  <2> QED
    BY <2>2 DEF Stamps
<1>4. ASSUME cmd'[p].at = "rebuild"
      PROVE  (Stamps(cmd[p].stamp[1], cmd[p].rows) /\ NoneBefore(cmd[p].begun, Revs(cmd[p].rows)))'
  <2>1. Stamps(n, cmd[p].rows) /\ NoneBefore(cmd[p].begun, Revs(cmd[p].rows))
    BY <1>4 DEF Serves
  <2>2. PICK rows \in SUBSET RevisionRows' :
            /\ n = Cardinality(rows)
            /\ \A q \in cmd[p].rows, r \in Nat : <<q.item, r>> \in rows => q.rev >= r
    BY <2>1, StampsStay
  <2>3. Stamps(cmd[p].stamp[1], cmd[p].rows)'
    BY <2>2 DEF Stamps
  <2> QED
    BY <2>1, <2>3 DEF NoneBefore, Revs
<1>5. (cmd[p].at = "retrieve" => NoneBefore(cmd[p].begun, Revs(index.passages)))'
  BY DEF Serves, NoneBefore, Revs
<1>6. (cmd[p].at = "compose" => NoneBefore(cmd[p].begun, Revs(Range(cmd[p].found))))'
  BY DEF Serves, NoneBefore, Revs, Range
<1> QED
  BY <1>1, <1>2, <1>3, <1>4, <1>5, <1>6 DEF Serves

\* Who goes on, with nothing read and nothing more to serve, still serves.
LEMMA GoesOnServing ==
    ASSUME Items, Items', Grows, NEW p, Serves(cmd[p]),
           cmd'[p].begun = cmd[p].begun, Served(cmd'[p]) \subseteq Served(cmd[p]),
           cmd'[p].at \notin {"rows", "rebuild", "retrieve", "compose"}
    PROVE  Serves(cmd[p])'
<1>1. HeadsKnown(cmd[p].begun)'
  BY HeadsStayKnown DEF Serves, HeadsKnown
<1>2. NoneBefore(cmd[p].begun, Served(cmd[p]))'
  BY DEF Serves, NoneBefore, Served
<1> QED
  BY <1>1, <1>2 DEF Serves

LEMMA IdleServes ==
    ASSUME NEW p, cmd'[p].begun = <<>>,
           cmd'[p].at \notin {"rows", "rebuild", "retrieve", "compose"}
    PROVE  Serves(cmd[p])'
BY DEF Serves, HeadsKnown, NoneBefore

LEMMA AskServes ==
    ASSUME Tables, Current, NEW p \in Process, Ask(p)
    PROVE  Serves(cmd[p])'
<1>1. UNCHANGED <<items, index>>
  BY DEF Ask, Others, canon
<1>2. PICK q, stage : /\ cmd'[p] = AskBegins(q, stage)
                      /\ stage \in {"rows", "retrieve"}
                      /\ stage = "retrieve" => index.stamp = StoreStamp
  BY AskTurn DEF Tables
<1> DEFINE c == AskBegins(q, stage)
<1>3. /\ c.at = stage /\ c.begun = Heads /\ c.stamp = StoreStamp
      /\ c.said = NoAnswer /\ c.pack = EmptyPack
  BY DEF AskBegins, Idle
<1> HIDE DEF c
<1>4. Served(c) = {}
  BY <1>3, NothingServed
<1>5. HeadsKnown(Heads)
  BY SeqFacts DEF HeadsKnown, Heads, Tables, Items, ItemOK
<1>6. Stamps(StoreStamp[1], {})
  BY DEF Stamps, StoreStamp
<1>7. stage = "retrieve" => NoneBefore(Heads, Revs(index.passages))
  BY <1>2, StampedIndexIsCurrent DEF Tables, Current
<1>8. Serves(c)
  BY <1>2, <1>3, <1>4, <1>5, <1>6, <1>7 DEF Serves, NoneBefore
<1> QED
  BY <1>1, <1>2, <1>8 DEF c, Serves, HeadsKnown, NoneBefore, Served, Stamps, RevisionRows, Revs

LEMMA ReadRowsServes ==
    ASSUME Tables, Current, NEW p \in Asker, ReadRows(p)
    PROVE  Serves(cmd[p])'
<1>1. UNCHANGED <<items, index>> /\ cmd[p].at = "rows"
  BY DEF ReadRows, Others, canon, At
<1> DEFINE c == [[[cmd[p] EXCEPT !.at = "rebuild"] EXCEPT !.rows = HeadPassages]
                                         EXCEPT !.stamp = Stamped(p)]
<1>2. cmd'[p] = c
  BY ReadRowsTurn DEF Tables, Process
<1>3. /\ c.at = "rebuild" /\ c.begun = cmd[p].begun /\ c.stamp = cmd[p].stamp
      /\ c.rows = HeadPassages /\ c.said = cmd[p].said /\ c.pack = cmd[p].pack
  BY DEF Tables, Process, Shape, CommandShape, Stamped
<1> HIDE DEF c
<1>4. HeadsKnown(c.begun) /\ NoneBefore(c.begun, Served(c)) /\ Stamps(c.stamp[1], {})
  BY <1>1, <1>3 DEF Current, Serves, Served
<1>5. Stamps(c.stamp[1], c.rows) /\ NoneBefore(c.begun, Revs(c.rows))
  BY <1>3, <1>4, HeadsAreStamped, HeadsAreCurrent DEF Tables
<1>6. Serves(c)
  BY <1>3, <1>4, <1>5 DEF Serves
<1> QED
  BY <1>1, <1>2, <1>6 DEF Serves, HeadsKnown, NoneBefore, Served, Stamps, RevisionRows, Revs

LEMMA RebuildServes ==
    ASSUME Tables, Current, NEW p \in Asker, Rebuild(p)
    PROVE  Stamps(index.stamp[1], index.passages)' /\ Serves(cmd[p])'
<1>1. /\ UNCHANGED items /\ cmd[p].at = "rebuild"
      /\ index' = [stamp |-> cmd[p].stamp, passages |-> cmd[p].rows]
  BY DEF Rebuild, Others, canon, At, Stamped
<1> DEFINE c == [[[cmd[p] EXCEPT !.at = "retrieve"] EXCEPT !.rows = {}]
                                         EXCEPT !.stamp = <<0, 0>>]
<1>2. cmd'[p] = c
  BY RebuildTurn DEF Tables, Process
<1>3. /\ c.at = "retrieve" /\ c.begun = cmd[p].begun
      /\ c.said = cmd[p].said /\ c.pack = cmd[p].pack
  BY DEF Tables, Process, Shape, CommandShape
<1> HIDE DEF c
<1>4. /\ HeadsKnown(c.begun) /\ NoneBefore(c.begun, Served(c))
      /\ Stamps(cmd[p].stamp[1], cmd[p].rows) /\ NoneBefore(c.begun, Revs(cmd[p].rows))
  BY <1>1, <1>3 DEF Current, Serves, Served
<1> QED
  BY <1>1, <1>2, <1>3, <1>4 DEF Serves, HeadsKnown, NoneBefore, Served, Stamps, RevisionRows, Revs

LEMMA RetrieveServes ==
    ASSUME Tables, Current, NEW p \in Asker, Retrieve(p)
    PROVE  Serves(cmd[p])'
<1>1. UNCHANGED <<items, index>> /\ cmd[p].at = "retrieve"
  BY DEF Retrieve, Others, canon, At
<1>2. PICK found \in Retrieved(Question[cmd[p].question]) : cmd'[p] = Hits(p, found)
  BY RetrieveTurn DEF Tables, Process
<1>3. Range(found) \subseteq index.passages
  BY DEF Retrieved, SeqOf, Range
<1> DEFINE c == Hits(p, found)
<1>4. /\ c.at = "compose" /\ c.begun = cmd[p].begun /\ c.found = found
      /\ c.said = cmd[p].said /\ c.pack = cmd[p].pack
  BY DEF Tables, Process, Shape, CommandShape, Hits
<1> HIDE DEF c
<1>5. /\ HeadsKnown(c.begun) /\ NoneBefore(c.begun, Served(c))
      /\ NoneBefore(c.begun, Revs(index.passages))
  BY <1>1, <1>4 DEF Current, Serves, Served
<1>6. NoneBefore(c.begun, Revs(Range(c.found)))
  BY <1>3, <1>4, <1>5 DEF NoneBefore, Revs
<1>7. Serves(c)
  BY <1>4, <1>5, <1>6 DEF Serves
<1> QED
  BY <1>1, <1>2, <1>7 DEF c, Serves, HeadsKnown, NoneBefore, Served, Stamps, RevisionRows, Revs

LEMMA SayServes ==
    ASSUME Tables, Current, NEW p \in Asker, Say(p)
    PROVE  Serves(cmd[p])'
<1>1. UNCHANGED <<items, index>> /\ cmd[p].at = "compose"
  BY DEF Say, Others, canon, At
<1>2. CASE cmd'[p] = Idle
  BY <1>2, IdleIs, IdleServes
<1>3. CASE cmd'[p] = [cmd[p] EXCEPT !.at = "said", !.found = <<>>, !.said = Composed(p)]
  <2>1. /\ cmd'[p].at = "said" /\ cmd'[p].begun = cmd[p].begun
        /\ cmd'[p].said = Composed(p) /\ cmd'[p].pack = cmd[p].pack
    BY <1>3 DEF Tables, Process, Shape, CommandShape
  <2>2. Range(Composed(p).cited) \subseteq Revs(Range(cmd[p].found)) /\ Composed(p).prose = {}
    BY DEF Composed, Compose, Revs, Range
  <2>3. /\ HeadsKnown(cmd[p].begun) /\ NoneBefore(cmd[p].begun, Served(cmd[p]))
        /\ NoneBefore(cmd[p].begun, Revs(Range(cmd[p].found)))
    BY <1>1 DEF Current, Serves
  <2>4. NoneBefore(cmd'[p].begun, Served(cmd'[p]))
    BY <2>1, <2>2, <2>3 DEF NoneBefore, Served
  <2> QED
    BY <1>1, <2>1, <2>3, <2>4 DEF Serves, HeadsKnown, NoneBefore, Served
<1> QED
  BY <1>2, <1>3, SayTurn DEF Tables, Process

LEMMA PackServes ==
    ASSUME Tables, Current, NEW p \in Asker,
           PackStart(p) \/ PackHeads(p) \/ PackAppendix(p) \/ PackStamp(p)
    PROVE  Serves(cmd[p])'
<1>1. UNCHANGED items /\ p \in Process
  BY DEF PackStart, PackHeads, PackAppendix, PackStamp, Others, canon, Process
<1>2. CASE PackStart(p)
  <2> DEFINE c == [Idle EXCEPT !.at = "heads", !.verb = "pack", !.begun = Heads,
                               !.verdict = Recomputed, !.pack.live = Live]
  <2>1. cmd'[p] = c
    BY <1>1, <1>2, PackStartTurn DEF Tables
  <2>2. c.at = "heads" /\ c.begun = Heads /\ Served(c) = {}
    BY DEF Idle, NoAnswer, EmptyPack, Served, Range
  <2> HIDE DEF c
  <2>3. HeadsKnown(Heads)
    BY SeqFacts DEF HeadsKnown, Heads, Tables, Items, ItemOK
  <2>4. Serves(c)
    BY <2>2, <2>3 DEF Serves, NoneBefore
  <2> QED
    BY <1>1, <2>1, <2>2, <2>4 DEF Serves, HeadsKnown, NoneBefore, Served
<1>3. CASE PackHeads(p)
  <2> DEFINE heads == [k \in Selected |-> <<k, Len(items[k].revs)>>]
             c == [[cmd[p] EXCEPT !.at = "appendix"] EXCEPT !.said =
                      [NoAnswer EXCEPT !.branch = "pack", !.cited = heads]]
  <2>1. cmd'[p] = c
    BY <1>1, <1>3, PackHeadsTurn DEF Tables
  <2>2. /\ c.at = "appendix" /\ c.begun = cmd[p].begun /\ c.pack = cmd[p].pack
        /\ c.said.cited = heads /\ c.said.prose = {}
    BY <1>1 DEF Tables, Shape, CommandShape, NoAnswer
  <2>3. \A cited \in Range(heads) : cited[2] = Len(items[cited[1]].revs)
    BY DEF Range
  <2> HIDE DEF c, heads
  <2>4. HeadsKnown(c.begun) /\ NoneBefore(c.begun, c.pack.contradicted)
    BY <2>2 DEF Current, Serves, Served, NoneBefore
  <2>5. NoneBefore(c.begun, Range(heads))
    BY <2>3, <2>4, HeadsAreCurrent DEF Tables
  <2>6. NoneBefore(c.begun, Served(c))
    BY <2>2, <2>4, <2>5 DEF NoneBefore, Served
  <2> QED
    BY <1>1, <2>1, <2>2, <2>4, <2>6 DEF Serves, HeadsKnown, NoneBefore, Served
<1>4. CASE PackAppendix(p)
  <2> DEFINE c == [[[cmd[p] EXCEPT !.at = "stamp"] EXCEPT !.verdict = {}] EXCEPT !.pack =
                      [cmd[p].pack EXCEPT !.gaps = PackGaps(cmd[p].pack.live \ cmd[p].verdict),
                                          !.contradicted = PackConflicts(cmd[p].pack.live)]]
  <2>1. cmd'[p] = c
    BY <1>1, <1>4, PackAppendixTurn DEF Tables
  <2>2. /\ c.at = "stamp" /\ c.begun = cmd[p].begun /\ c.said = cmd[p].said
        /\ c.pack.contradicted \subseteq Contradicted
    BY <1>1 DEF Tables, Shape, CommandShape, PackConflicts
  <2>3. \A cited \in c.pack.contradicted : cited[2] = Len(items[cited[1]].revs)
    BY <2>2 DEF Contradicted
  <2> HIDE DEF c
  <2>4. HeadsKnown(c.begun) /\ NoneBefore(c.begun, Range(c.said.cited) \cup c.said.prose)
    BY <2>2 DEF Current, Serves, Served, NoneBefore
  <2>5. NoneBefore(c.begun, c.pack.contradicted)
    BY <2>3, <2>4, HeadsAreCurrent DEF Tables
  <2>6. NoneBefore(c.begun, Served(c))
    BY <2>4, <2>5 DEF NoneBefore, Served
  <2> QED
    BY <1>1, <2>1, <2>2, <2>4, <2>6 DEF Serves, HeadsKnown, NoneBefore, Served
<1>5. CASE PackStamp(p)
  <2>1. PICK stale : cmd'[p] = [[cmd[p] EXCEPT !.at = "shown"]
                                   EXCEPT !.pack = [cmd[p].pack EXCEPT !.stale = stale]]
    BY <1>1, <1>5, PackStampTurn DEF Tables
  <2>2. /\ cmd'[p].at = "shown" /\ cmd'[p].begun = cmd[p].begun /\ cmd'[p].said = cmd[p].said
        /\ cmd'[p].pack.contradicted = cmd[p].pack.contradicted
    BY <1>1, <2>1 DEF Tables, Shape, CommandShape
  <2>3. Served(cmd'[p]) = Served(cmd[p])
    BY <2>2 DEF Served
  <2> QED
    BY <1>1, <2>2, <2>3, SameItems, GoesOnServing DEF Tables, Current
<1> QED
  BY <1>2, <1>3, <1>4, <1>5

LEMMA ShownServes ==
    ASSUME Tables, Current, NEW p \in Asker,
           Escalate(p) \/ KeepToOneself(p) \/ Synthesize(p) \/ Show(p)
    PROVE  Serves(cmd[p])'
<1>1. UNCHANGED items /\ p \in Process
  BY DEF Escalate, KeepToOneself, Synthesize, Show, Others, canon, Process
<1>2. CASE Show(p)
  BY <1>1, <1>2, ShowTurn, IdleIs, IdleServes DEF Tables
<1>3. CASE Escalate(p) \/ KeepToOneself(p)
  <2>1. /\ cmd'[p].at = "render" /\ cmd'[p].begun = cmd[p].begun
        /\ Served(cmd'[p]) = Served(cmd[p])
    BY <1>1, <1>3, EscalateTurn, ZenonT(60) DEF Tables, Shape, CommandShape, Served
  <2> QED
    BY <1>1, <2>1, SameItems, GoesOnServing DEF Tables, Current
<1>4. CASE Synthesize(p)
  <2>1. PICK reply : cmd'[p] = Rendered(p, reply)
    BY <1>1, <1>4, SynthesizeTurn DEF Tables
  <2>2. /\ cmd'[p].at = "shown" /\ cmd'[p].begun = cmd[p].begun /\ cmd'[p].pack = cmd[p].pack
        /\ cmd'[p].said.cited = cmd[p].said.cited
        /\ cmd'[p].said.prose \subseteq Range(cmd[p].said.cited)
    BY <1>1, <2>1 DEF Tables, Shape, CommandShape, Rendered, Ground
  <2>3. Served(cmd'[p]) \subseteq Served(cmd[p])
    BY <2>2 DEF Served
  <2> QED
    BY <1>1, <2>2, <2>3, SameItems, GoesOnServing DEF Tables, Current
<1> QED
  BY <1>2, <1>3, <1>4

LEMMA CurrentKept ==
    ASSUME OneAsker, Tables, Current, [Next]_vars
    PROVE  Current'
<1>1. Items' /\ Grows
  BY ItemsKept DEF Tables
<1>2. ASSUME UNCHANGED index PROVE Stamps(index.stamp[1], index.passages)'
  BY <1>1, <1>2, StampsStay DEF Current, Stamps
<1>3. CASE \E p \in Asker : AskerStep(p)
  <2>1. PICK p \in Asker : AskerStep(p)
    BY <1>3
  <2>2. p \in Process /\ \A q \in Asker : q = p
    BY DEF Process, OneAsker
  <2>3. Rebuild(p) \/ UNCHANGED index
    BY <2>1 DEF AskerStep, Ask, ReadRows, Retrieve, Say, Escalate, KeepToOneself, Synthesize,
       Show, PackStart, PackHeads, PackAppendix, PackStamp, Others
  <2>4. Stamps(index.stamp[1], index.passages)'
    BY <1>2, <2>3, RebuildServes
  <2>5. Serves(cmd[p])'
    BY <2>1, <2>2, AskServes, ReadRowsServes, RebuildServes, RetrieveServes, SayServes,
       PackServes, ShownServes DEF AskerStep
  <2> QED
    BY <2>2, <2>4, <2>5 DEF Current
<1>4. CASE \E p \in Operator : OperatorStep(p)
  <2>1. PICK p \in Operator : OperatorStep(p)
    BY <1>4
  <2>2. p \in Process
    BY DEF Process
  <2>3. UNCHANGED index
    BY <2>1 DEF OperatorStep, Answer, Edit, Compare, Capture, AnswerRefused, Revise, Retire, Bind,
       Refresh, Nothing, Recompute, WriteCache, RecomputeCommand, RankGaps, DisposeGap, Others
  <2>4. Turn(p) /\ OperatorKinds(p)
    BY <2>1, <2>2, OperatorTurn DEF Tables
  <2>5. ASSUME NEW q \in Asker, q # p PROVE Serves(cmd[q])'
    BY <1>1, <2>3, <2>4, <2>5, ServesStays DEF Tables, Current, Process, Turn
  <2>6. ASSUME p \in Asker PROVE Serves(cmd[p])'
    <3>1. CASE Begins(p) \/ cmd'[p] = Idle
      BY <3>1, IdleIs, IdleServes DEF Begins
    <3>2. CASE \E from, to : GoesOn(p, from, to) /\ to \in {"body", "after", "cache"}
      <4>1. /\ cmd'[p].begun = cmd[p].begun /\ Served(cmd'[p]) = Served(cmd[p])
            /\ cmd'[p].at \in {"body", "after", "cache"}
        BY <3>2 DEF GoesOn, Served
      <4> QED
        BY <1>1, <2>6, <4>1, GoesOnServing DEF Tables, Current
    <3> QED
      BY <2>4, <3>1, <3>2 DEF OperatorKinds
  <2> QED
    BY <1>2, <2>3, <2>5, <2>6 DEF Current
<1>5. CASE \E p \in Process : Kill(p)
  <2>1. PICK p \in Process : Kill(p)
    BY <1>5
  <2>2. Turn(p) /\ cmd'[p] = Idle /\ UNCHANGED index
    BY <2>1, KillTurn DEF Tables
  <2>3. ASSUME NEW q \in Asker, q # p PROVE Serves(cmd[q])'
    BY <1>1, <2>2, <2>3, ServesStays DEF Tables, Current, Process, Turn
  <2>4. Serves(cmd[p])'
    BY <2>2, IdleIs, IdleServes
  <2> QED
    BY <1>2, <2>2, <2>3, <2>4 DEF Current
<1>6. CASE EnvironmentStep \/ UNCHANGED vars
  <2>1. UNCHANGED <<index, cmd>>
    BY <1>6, EnvironmentStays DEF vars
  <2>2. ASSUME NEW q \in Asker PROVE Serves(cmd[q])'
    BY <1>1, <2>1, ServesStays DEF Tables, Current
  <2> QED
    BY <1>2, <2>1, <2>2 DEF Current
<1> QED
  BY <1>3, <1>4, <1>5, <1>6, StepsAre

LEMMA InitCurrent ==
    ASSUME Init
    PROVE  Current
<1>1. index = [stamp |-> <<0, 0>>, passages |-> {}]
  BY DEF Init
<1>2. Stamps(index.stamp[1], index.passages)
  <2>1. {} \in SUBSET RevisionRows /\ Cardinality({}) = 0
    BY FS_EmptySet
  <2> QED
    BY <1>1, <2>1 DEF Stamps
<1>3. Idle.begun = <<>> /\ Idle.at = "idle"
  BY IdleIs
<1>4. Serves(Idle)
  BY <1>3 DEF Serves, HeadsKnown, NoneBefore
<1> QED
  BY <1>2, <1>4, InitTables DEF Current, Process

\* When one process asks at a time, nothing it serves had been replaced when its
\* command began (SqliteSearchRecords reads the stamp before the rows).
THEOREM ServedWhenCurrent == ASSUME OneAsker PROVE Spec => []CitesTheHeadOfItsTime
<1> DEFINE Inv == Tables /\ Current
<1>1. Init => Inv
  BY InitTables, InitCurrent DEF Tables
<1>2. Inv /\ [Next]_vars => Inv'
  BY ItemsKept, CurrentKept DEF Tables
<1>3. Inv => CitesTheHeadOfItsTime
  BY DEF Current, Serves, Served, NoneBefore, CitesTheHeadOfItsTime
<1> QED
  BY <1>1, <1>2, <1>3, PTL DEF Spec
=============================================================================
