--------------------------- MODULE Handover_proofs ---------------------------
(***************************************************************************)
(* Proofs about Handover for any number of operators, owners, tests, gaps    *)
(* and repeated steps: the trail is in order, a closed handover leaves an    *)
(* owner, nothing open transfers unowned, and a valid test is unchanged.     *)
(*                                                                         *)
(* What a command read stays true because the trail only grows; what it      *)
(* stamped lies before every later reading of the clock.                     *)
(***************************************************************************)
EXTENDS Handover, SequenceTheorems, WellFoundedInduction, TLAPS

-----------------------------------------------------------------------------
(* Lists, and the greatest of a bounded set of naturals.                    *)

\* A sequence of something.
IsSeq(s) == s \in Seq(Range(s))

LEMMA SeqFacts ==
    ASSUME NEW s, IsSeq(s)
    PROVE  Len(s) \in Nat /\ DOMAIN s = 1..Len(s)
BY DEF IsSeq

LEMMA EmptyIsSeq == IsSeq(<<>>) /\ DOMAIN <<>> = {} /\ Len(<<>>) = 0
BY DEF IsSeq, Range

LEMMA ListIsSeq ==
    ASSUME NEW n \in Nat, NEW s, s = [m \in 1..n |-> s[m]]
    PROVE  IsSeq(s) /\ Len(s) = n /\ DOMAIN s = 1..n
<1>1. DOMAIN s = 1..n
  OBVIOUS
<1>2. \A m \in 1..n : s[m] \in Range(s)
  BY <1>1 DEF Range
<1>3. s \in [1..n -> Range(s)]
  BY <1>1, <1>2
<1>4. s \in Seq(Range(s))
  BY <1>3, SeqDef
<1>5. Len(s) \in Nat /\ DOMAIN s = 1..Len(s)
  BY <1>4, LenProperties
<1>6. Len(s) = n
  BY <1>1, <1>5
<1> QED
  BY <1>1, <1>4, <1>6 DEF IsSeq

LEMMA AppendIsSeq ==
    ASSUME NEW s, IsSeq(s), NEW x
    PROVE  /\ IsSeq(Append(s, x))
           /\ Len(Append(s, x)) = Len(s) + 1
           /\ DOMAIN Append(s, x) = 1..(Len(s) + 1)
           /\ \A n \in 1..Len(s) : Append(s, x)[n] = s[n]
           /\ Append(s, x)[Len(s) + 1] = x
<1> DEFINE T == Range(s) \cup {x}
<1>1. s \in Seq(T) /\ x \in T
  BY DEF IsSeq
<1> HIDE DEF T
<1>2. /\ Append(s, x) \in Seq(T)
      /\ Len(s) \in Nat
      /\ Len(Append(s, x)) = Len(s) + 1
      /\ \A n \in 1..Len(s) : Append(s, x)[n] = s[n]
      /\ Append(s, x)[Len(s) + 1] = x
  BY <1>1
<1>3. Append(s, x) \in [1..(Len(s) + 1) -> T]
  BY <1>2, LenProperties
<1>4. Append(s, x) = [n \in 1..(Len(s) + 1) |-> Append(s, x)[n]]
  BY <1>3
<1>5. IsSeq(Append(s, x)) /\ DOMAIN Append(s, x) = 1..(Len(s) + 1)
  BY <1>2, <1>4, ListIsSeq
<1> QED
  BY <1>2, <1>5

\* A set of naturals that has a member has a least one.
LEMMA Least ==
    ASSUME NEW S, S # {}, S \subseteq Nat
    PROVE  \E n \in S : \A m \in S : n <= m
<1> DEFINE R == OpToRel(<, Nat)
<1>1. IsWellFoundedOn(R, Nat)
  BY NatLessThanWellFounded
<1> HIDE DEF R
<1>2. PICK n \in S : \A m \in S : <<m, n>> \notin R
  BY <1>1, WFMin
<1>3. \A m \in S : ~(m < n)
  BY <1>2 DEF R, OpToRel
<1> QED
  BY <1>3

\* A bounded set of naturals that has a member has a greatest one.
LEMMA Greatest ==
    ASSUME NEW S, S # {}, S \subseteq Nat, NEW bound \in Nat, \A n \in S : n <= bound
    PROVE  \E n \in S : \A m \in S : n >= m
<1> DEFINE T == {bound - n : n \in S}
<1>1. T \subseteq Nat /\ T # {}
  <2>1. \A n \in S : n \in Nat /\ bound - n \in Nat
    OBVIOUS
  <2>2. T \subseteq Nat
    BY <2>1
  <2>3. PICK n : n \in S
    OBVIOUS
  <2>4. bound - n \in T
    BY <2>3
  <2> QED
    BY <2>2, <2>4
<1>2. PICK least \in T : \A other \in T : least <= other
  BY <1>1, Least
<1>3. PICK n \in S : least = bound - n
  BY <1>2
<1>4. ASSUME NEW m \in S
      PROVE  n >= m
  <2>1. bound - m \in T /\ bound - m \in Nat /\ least \in Nat
    BY <1>1, <1>2
  <2> QED
    BY <1>2, <1>3, <2>1
<1> QED
  BY <1>4


-----------------------------------------------------------------------------
(* The steps in their order.                                                *)

StepNames == {"started", "elicited", "pack_emitted", "verified", "snapshot_taken", "closed"}

\* Each step has a position of its own.
LEMMA Positions ==
    /\ DOMAIN Steps = 1..6
    /\ \A k \in 1..6 : Steps[k] \in StepNames /\ PositionOf(Steps[k]) = k
    /\ \A step \in StepNames : PositionOf(step) \in 1..6 /\ Steps[PositionOf(step)] = step
    /\ \A step \in StepNames : PositionOf(step) = 1 => step = "started"
<1>1. DOMAIN Steps = 1..6
  BY DEF Steps
<1>2. /\ Steps[1] = "started" /\ Steps[2] = "elicited" /\ Steps[3] = "pack_emitted"
      /\ Steps[4] = "verified" /\ Steps[5] = "snapshot_taken" /\ Steps[6] = "closed"
  BY DEF Steps
<1>3. \A k, m \in 1..6 : Steps[k] = Steps[m] => k = m
  BY <1>2
<1>4. \A k \in 1..6 : Steps[k] \in StepNames
  BY <1>2 DEF StepNames
<1>5. ASSUME NEW k \in 1..6 PROVE PositionOf(Steps[k]) = k
  BY <1>1, <1>3 DEF PositionOf
<1>6. \A step \in StepNames : \E k \in 1..6 : step = Steps[k]
  BY <1>2 DEF StepNames
<1>7. \A step \in StepNames : PositionOf(step) \in 1..6 /\ Steps[PositionOf(step)] = step
  BY <1>5, <1>6
<1> QED
  BY <1>1, <1>2, <1>4, <1>5, <1>7

-----------------------------------------------------------------------------
(* The trail and the commands.                                              *)

EventOK(n) ==
    /\ events[n].type \in StepNames
    /\ events[n].at \in Nat
    /\ events[n].at <= clock
    /\ events[n].type = "started" => events[n].handover = n /\ events[n].owner \in Owner

Trail ==
    /\ clock \in Nat /\ 1 <= clock
    /\ IsSeq(events)
    /\ \A n \in DOMAIN events : EventOK(n)
    /\ StepsInOrder

Fields == {"at", "verb", "handover", "now", "owner", "outcomes", "covers"}

\* What a command is about to write is still allowed when it writes it.
CommandOK(c) ==
    /\ Fields \subseteq DOMAIN c
    /\ c.at # "idle" =>
          /\ c.verb \in StepNames
          /\ c.now \in Nat
          /\ 2 <= c.now /\ c.now <= clock
          /\ c.verb = "started" => c.owner \in Owner
          /\ c.verb # "started" => c.handover \in Handovers /\ Require(c.handover, c.verb)
    /\ c.at \in {"bundle", "event", "value"} => c.verb # "closed"
    /\ c.at = "transfer" => c.verb = "closed"

Commands ==
    /\ cmd = [p \in Operator |-> cmd[p]]
    /\ \A p \in Operator : CommandOK(cmd[p])

\* The trail numbers its events.
LEMMA CountEvents ==
    ASSUME Trail
    PROVE  Len(events) \in Nat /\ DOMAIN events = 1..Len(events)
BY SeqFacts DEF Trail

\* Of some events one is the newest.
LEMMA NewestIsOne ==
    ASSUME Trail, NEW hs, hs \subseteq DOMAIN events, hs # {}
    PROVE  Newest(hs) \in hs
<1> DEFINE S == {events[h].at : h \in hs}
<1>1. \A h \in hs : events[h].at \in Nat /\ events[h].at <= clock
  BY DEF Trail, EventOK
<1>2. S # {} /\ S \subseteq Nat /\ \A at \in S : at <= clock
  BY <1>1
<1>3. clock \in Nat
  BY DEF Trail
<1>4. PICK at \in S : \A other \in S : at >= other
  <2> HIDE DEF S
  <2> QED
    BY <1>2, <1>3, Greatest
<1>5. PICK h \in hs : at = events[h].at
  BY <1>4
<1>6. \A other \in hs : events[h].at >= events[other].at
  BY <1>4, <1>5
<1> QED
  BY <1>5, <1>6 DEF Newest

\* Only a handover that is open is the current one.
LEMMA CurrentIsOpen ==
    ASSUME Trail, Current # 0
    PROVE  Current \in Handovers /\ ~IsClosed(Current)
<1> DEFINE open == {h \in Handovers : ~IsClosed(h)}
<1>1. open \subseteq DOMAIN events
  BY DEF Handovers
<1>2. open # {}
  BY DEF Current, Newest
<1>3. Newest(open) \in open
  BY <1>1, <1>2, NewestIsOne
<1> QED
  BY <1>3 DEF Current

-----------------------------------------------------------------------------
(* Steps that leave the trail alone.                                        *)

LEMMA TrailStays ==
    ASSUME Trail, UNCHANGED events, clock' \in Nat, clock <= clock'
    PROVE  Trail'
<1>1. clock \in Nat
  BY DEF Trail
<1>2. \A n \in DOMAIN events : EventOK(n)'
  BY <1>1 DEF Trail, EventOK
<1>3. StepsInOrder'
  BY DEF Trail, StepsInOrder, Handovers
<1> QED
  BY <1>2, <1>3 DEF Trail

\* What was read stays read.
LEMMA CommandStays ==
    ASSUME Trail, NEW c, CommandOK(c), UNCHANGED events, clock' \in Nat, clock <= clock'
    PROVE  CommandOK(c)'
<1>1. clock \in Nat
  BY DEF Trail
<1>2. Handovers' = Handovers /\ (\A h, step : Require(h, step)' <=> Require(h, step))
  BY DEF Handovers, Require, StepsDone, EventsOf
<1> QED
  BY <1>1, <1>2 DEF CommandOK

LEMMA CommandsStay ==
    ASSUME Trail, Commands, UNCHANGED <<events, cmd>>, clock' \in Nat, clock <= clock'
    PROVE  Commands'
<1>1. \A p \in Operator : CommandOK(cmd[p])'
  BY CommandStays DEF Commands
<1> QED
  BY <1>1 DEF Commands

\* One command goes on, or ends.
LEMMA OneCommand ==
    ASSUME Trail, Commands, NEW p \in Operator, NEW c, cmd' = [cmd EXCEPT ![p] = c],
           CommandOK(c)', UNCHANGED events, clock' \in Nat, clock <= clock'
    PROVE  Commands'
<1>1. /\ cmd' = [q \in Operator |-> cmd'[q]]
      /\ \A q \in Operator : cmd'[q] = c \/ cmd'[q] = cmd[q]
  BY DEF Commands
<1>2. \A q \in Operator : CommandOK(cmd[q])'
  BY CommandStays DEF Commands
<1> QED
  BY <1>1, <1>2 DEF Commands, CommandOK

-----------------------------------------------------------------------------
(* Steps that write an event.                                               *)

\* What an event must be to keep the trail in order.
MayFollow(row) ==
    /\ row.type \in StepNames
    /\ row.at \in Nat
    /\ row.at <= clock
    /\ row.type = "started" => row.handover = Len(events) + 1 /\ row.owner \in Owner
    /\ row.type # "started" => row.handover \in Handovers /\ Require(row.handover, row.type)

LEMMA AppendedTrail ==
    ASSUME Trail, NEW row, MayFollow(row), events' = Append(events, row), UNCHANGED clock
    PROVE  /\ Trail'
           /\ Len(events') = Len(events) + 1
           /\ DOMAIN events' = 1..(Len(events) + 1)
           /\ \A n \in 1..Len(events) : events'[n] = events[n]
           /\ events'[Len(events) + 1] = row
           /\ \A h \in Handovers : h \in Handovers' /\ StepsDone(h) \subseteq StepsDone(h)'
<1> DEFINE last == Len(events) + 1
<1>1. Len(events) \in Nat /\ DOMAIN events = 1..Len(events)
  BY CountEvents
<1>2. /\ IsSeq(events')
      /\ Len(events') = last
      /\ DOMAIN events' = 1..last
      /\ \A n \in 1..Len(events) : events'[n] = events[n]
      /\ events'[last] = row
  BY AppendIsSeq DEF Trail
<1>3. \A n \in DOMAIN events' : n \in 1..Len(events) \/ n = last
  BY <1>1, <1>2
<1>4. \A h \in Handovers : h \in Handovers' /\ StepsDone(h) \subseteq StepsDone(h)'
  BY <1>1, <1>2 DEF Handovers, StepsDone, EventsOf
<1>5. ASSUME NEW n \in DOMAIN events' PROVE EventOK(n)'
  <2>1. CASE n \in 1..Len(events)
    BY <1>1, <1>2, <2>1 DEF Trail, EventOK
  <2>2. CASE n = last
    BY <1>2, <2>2 DEF MayFollow, EventOK
  <2> QED
    BY <1>3, <2>1, <2>2
<1>6. ASSUME NEW n \in DOMAIN events'
      PROVE  /\ events'[n].handover \in Handovers'
             /\ \A k \in 1..(PositionOf(events'[n].type) - 1) :
                   \E m \in 1..(n - 1) :
                       events'[m].handover = events'[n].handover /\ events'[m].type = Steps[k]
  <2>1. CASE n \in 1..Len(events)
    <3>1. /\ events[n].handover \in Handovers
          /\ \A k \in 1..(PositionOf(events[n].type) - 1) :
                \E m \in 1..(n - 1) :
                    events[m].handover = events[n].handover /\ events[m].type = Steps[k]
      BY <1>1, <2>1 DEF Trail, StepsInOrder
    <3>2. \A m \in 1..(n - 1) : m \in 1..Len(events)
      BY <1>1, <2>1
    <3> QED
      BY <1>2, <1>4, <2>1, <3>1, <3>2
  <2>2. CASE n = last /\ row.type = "started"
    <3>1. PositionOf("started") = 1
      BY Positions DEF Steps
    <3>2. last \in Handovers'
      BY <1>2, <2>2 DEF Handovers
    <3> QED
      BY <1>2, <2>2, <3>1, <3>2 DEF MayFollow
  <2>3. CASE n = last /\ row.type # "started"
    <3> DEFINE h   == row.handover
               pos == PositionOf(row.type)
    <3>1. pos \in 2..6 /\ h \in Handovers
      BY <2>3, Positions DEF MayFollow
    <3>2. PICK before \in DOMAIN events :
              events[before].handover = h /\ events[before].type = Steps[pos - 1]
      BY <2>3 DEF MayFollow, Require, Prerequisite, StepsDone, EventsOf
    <3>3. PositionOf(Steps[pos - 1]) = pos - 1
      BY <3>1, Positions
    <3>4. \A k \in 1..(pos - 2) : \E m \in 1..(before - 1) :
              events[m].handover = h /\ events[m].type = Steps[k]
      BY <3>1, <3>2, <3>3 DEF Trail, StepsInOrder
    <3>5. before \in 1..(last - 1) /\ \A m \in 1..(before - 1) : m \in 1..(last - 1)
      BY <1>1, <3>2
    <3>6. \A k \in 1..(pos - 1) : \E m \in 1..(last - 1) :
              events[m].handover = h /\ events[m].type = Steps[k]
      <4>1. \A k \in 1..(pos - 1) : k \in 1..(pos - 2) \/ k = pos - 1
        BY <3>1
      <4> HIDE DEF h, pos
      <4> QED
        BY <3>2, <3>4, <3>5, <4>1
    <3>7. \A m \in 1..(last - 1) : events'[m] = events[m]
      BY <1>1, <1>2
    <3> QED
      BY <1>2, <1>4, <2>3, <3>1, <3>6, <3>7
  <2> QED
    BY <1>3, <2>1, <2>2, <2>3
<1>7. StepsInOrder'
  BY <1>6 DEF StepsInOrder
<1>8. Trail'
  BY <1>2, <1>5, <1>7 DEF Trail
<1> QED
  BY <1>2, <1>4, <1>8

\* What a command read is still there.
LEMMA CommandKept ==
    ASSUME NEW c, CommandOK(c), UNCHANGED clock,
           \A h \in Handovers : h \in Handovers' /\ StepsDone(h) \subseteq StepsDone(h)'
    PROVE  CommandOK(c)'
BY DEF CommandOK, Require

\* The command that wrote the event goes on, or ends.
LEMMA WriterGoesOn ==
    ASSUME Commands, NEW p \in Operator, NEW c, cmd' = [cmd EXCEPT ![p] = c],
           CommandOK(c), UNCHANGED clock,
           \A h \in Handovers : h \in Handovers' /\ StepsDone(h) \subseteq StepsDone(h)'
    PROVE  Commands'
<1>1. /\ cmd' = [q \in Operator |-> cmd'[q]]
      /\ \A q \in Operator : cmd'[q] = c \/ cmd'[q] = cmd[q]
  BY DEF Commands
<1>2. \A q \in Operator : CommandOK(cmd'[q])
  BY <1>1 DEF Commands
<1>3. \A q \in Operator : CommandOK(cmd[q])'
  BY <1>2, CommandKept
<1> QED
  BY <1>1, <1>3 DEF Commands

-----------------------------------------------------------------------------
(* The trail is in order.                                                   *)

InOrder == Trail /\ Commands

LEMMA InitInOrder == Init => InOrder
<1> SUFFICES ASSUME Init PROVE InOrder
  OBVIOUS
<1>1. events = <<>> /\ clock = 1 /\ cmd = [p \in Operator |-> Idle]
  BY DEF Init
<1>2. Trail
  BY <1>1, EmptyIsSeq DEF Trail, StepsInOrder
<1>3. CommandOK(Idle)
  BY DEF CommandOK, Idle, Fields
<1>4. Commands
  BY <1>1, <1>3 DEF Commands
<1> QED
  BY <1>2, <1>4 DEF InOrder

LEMMA IdleOK == CommandOK(Idle) /\ CommandOK(Idle)'
BY DEF CommandOK, Idle, Fields

\* A command that is over leaves the rest in order.
LEMMA EndsInOrder ==
    ASSUME InOrder, NEW p \in Operator, cmd' = [cmd EXCEPT ![p] = Idle],
           UNCHANGED <<events, clock>>
    PROVE  InOrder'
<1>1. clock' \in Nat /\ clock <= clock'
  BY DEF InOrder, Trail
<1> QED
  BY <1>1, IdleOK, OneCommand, TrailStays DEF InOrder

\* A step that no command takes, or that writes nothing.
LEMMA OthersInOrder ==
    ASSUME InOrder, UNCHANGED <<events, cmd>>, clock' \in Nat, clock <= clock'
    PROVE  InOrder'
BY TrailStays, CommandsStay DEF InOrder

LEMMA StartInOrder ==
    ASSUME InOrder, NEW p \in Operator, Start(p)
    PROVE  InOrder'
<1>1. PICK owner \in Owner :
          cmd' = [cmd EXCEPT ![p] = [Begin(p, "event", "started", 0) EXCEPT !.owner = owner]]
  BY DEF Start
<1>2. clock \in Nat /\ clock' = clock + 1 /\ UNCHANGED events
  BY DEF Start, Tick, InOrder, Trail
<1> PICK c : c = [Begin(p, "event", "started", 0) EXCEPT !.owner = owner]
  OBVIOUS
<1>3. /\ Fields \subseteq DOMAIN c
      /\ c.at = "event" /\ c.verb = "started" /\ c.now = clock + 1 /\ c.owner = owner
  BY DEF Begin, Idle, Fields
<1>4. /\ c.now \in Nat /\ c.now <= clock'
      /\ clock' \in Nat /\ clock <= clock'
  BY <1>2, <1>3
<1>5. 2 <= c.now
  BY <1>2, <1>3 DEF InOrder, Trail
<1>6. CommandOK(c)'
  BY <1>3, <1>4, <1>5 DEF CommandOK, StepNames
<1>7. cmd' = [cmd EXCEPT ![p] = c]
  BY <1>1
<1> QED
  BY <1>2, <1>4, <1>6, <1>7, OneCommand, TrailStays DEF InOrder

\* A step after the first begins on an open handover that has come far enough.
LEMMA BeginInOrder ==
    ASSUME InOrder, NEW p \in Operator, NEW step \in StepNames \ {"started"}, NEW stage,
           NEW outcomes, Current # 0, Require(Current, step), Tick, UNCHANGED events,
           \/ stage \in {"bundle", "event"} /\ step # "closed"
           \/ stage = "transfer" /\ step = "closed",
           \/ cmd' = [cmd EXCEPT ![p] = Begin(p, stage, step, Current)]
           \/ cmd' = [cmd EXCEPT ![p] =
                         [Begin(p, stage, step, Current) EXCEPT !.outcomes = outcomes]]
    PROVE  InOrder'
<1>1. PICK h : h = Current /\ h \in Handovers /\ Require(h, step)
  BY CurrentIsOpen DEF InOrder
<1>2. clock \in Nat /\ 1 <= clock /\ clock' = clock + 1
  BY DEF Tick, InOrder, Trail
<1>3. PICK c : /\ cmd' = [cmd EXCEPT ![p] = c]
               /\ \/ c = Begin(p, stage, step, h)
                  \/ c = [Begin(p, stage, step, h) EXCEPT !.outcomes = outcomes]
  BY <1>1
<1>4. /\ Fields \subseteq DOMAIN c
      /\ c.at = stage /\ c.verb = step /\ c.now = clock + 1 /\ c.handover = h
  BY <1>3 DEF Begin, Idle, Fields
<1>5. /\ c.now \in Nat /\ c.now <= clock' /\ 2 <= c.now
      /\ clock' \in Nat /\ clock <= clock'
  BY <1>2, <1>4
<1>6. Handovers' = Handovers /\ Require(h, step)' = Require(h, step)
  BY DEF Handovers, Require, StepsDone, EventsOf
<1>7. CommandOK(c)'
  BY <1>1, <1>4, <1>5, <1>6 DEF CommandOK, StepNames
<1> QED
  BY <1>3, <1>5, <1>7, OneCommand, TrailStays DEF InOrder

\* The bundle, or the value of another audience's pack, comes before the event.
LEMMA StageInOrder ==
    ASSUME InOrder, NEW p \in Operator, NEW c, cmd' = [cmd EXCEPT ![p] = c],
           cmd[p].at \in {"bundle", "value"}, Fields \subseteq DOMAIN c, c.at = "event",
           c.verb = cmd[p].verb, c.now = cmd[p].now, c.owner = cmd[p].owner,
           c.handover = cmd[p].handover, UNCHANGED <<events, clock>>
    PROVE  InOrder'
<1>1. CommandOK(cmd[p]) /\ clock \in Nat
  BY DEF InOrder, Commands, Trail
<1>2. CommandOK(c)
  BY <1>1 DEF CommandOK
<1>3. clock' \in Nat /\ clock <= clock'
  BY <1>1
<1>4. CommandOK(c)'
  BY <1>2, <1>3, CommandStays DEF InOrder
<1> QED
  BY <1>3, <1>4, OneCommand, TrailStays DEF InOrder

LEMMA ValueInOrder ==
    ASSUME InOrder, NEW p \in Operator, WriteValue(p)
    PROVE  InOrder'
<1>1. /\ cmd[p].at = "value" /\ UNCHANGED <<events, clock>>
      /\ cmd' = [cmd EXCEPT ![p] = Idle] \/ cmd' = [cmd EXCEPT ![p].at = "event"]
  BY DEF WriteValue, At
<1>2. CASE cmd' = [cmd EXCEPT ![p] = Idle]
  BY <1>1, <1>2, EndsInOrder
<1>3. CASE cmd' = [cmd EXCEPT ![p].at = "event"]
  <2>1. Fields \subseteq DOMAIN cmd[p] /\ DOMAIN cmd = Operator
    BY DEF InOrder, Commands, CommandOK
  <2>2. PICK c : c = [cmd[p] EXCEPT !.at = "event"]
    OBVIOUS
  <2>3. /\ Fields \subseteq DOMAIN c
        /\ c.at = "event" /\ c.verb = cmd[p].verb /\ c.now = cmd[p].now
        /\ c.owner = cmd[p].owner /\ c.handover = cmd[p].handover
    BY <2>1, <2>2 DEF Fields
  <2>4. cmd' = [cmd EXCEPT ![p] = c]
    BY <1>3, <2>1, <2>2
  <2> QED
    BY <1>1, <2>3, <2>4, StageInOrder
<1> QED
  BY <1>1, <1>2, <1>3

LEMMA BundleInOrder ==
    ASSUME InOrder, NEW p \in Operator, WriteBundle(p)
    PROVE  InOrder'
<1>1. CASE files.bundle # 0
  BY <1>1, EndsInOrder DEF WriteBundle
<1>2. CASE files.bundle = 0
  <2>1. Fields \subseteq DOMAIN cmd[p] /\ DOMAIN cmd = Operator
    BY DEF InOrder, Commands, CommandOK
  <2>2. PICK c : c = [[cmd[p] EXCEPT !.at = "event"] EXCEPT !.covers = Len(events)]
    OBVIOUS
  <2>3. /\ Fields \subseteq DOMAIN c
        /\ c.at = "event" /\ c.verb = cmd[p].verb /\ c.now = cmd[p].now
        /\ c.owner = cmd[p].owner /\ c.handover = cmd[p].handover
    BY <2>1, <2>2 DEF Fields
  <2>4. cmd' = [cmd EXCEPT ![p] = c]
    BY <1>2, <2>1, <2>2 DEF WriteBundle
  <2>5. cmd[p].at = "bundle" /\ UNCHANGED <<events, clock>>
    BY DEF WriteBundle, At
  <2> QED
    BY <2>3, <2>4, <2>5, StageInOrder
<1> QED
  BY <1>1, <1>2

\* The event of a step other than the close, as it is written.
EventOf(p) ==
    LET verb == cmd[p].verb
        h    == IF verb = "started" THEN Len(events) + 1 ELSE cmd[p].handover
        row  == Event(verb, h, cmd[p].now)
    IN  CASE verb = "started"        -> [row EXCEPT !.owner = cmd[p].owner]
          [] verb = "verified"       -> [row EXCEPT !.outcomes = cmd[p].outcomes]
          [] verb = "snapshot_taken" -> [row EXCEPT !.covers = cmd[p].covers]
          [] OTHER                   -> row

LEMMA EventOfFields ==
    ASSUME NEW p \in Operator
    PROVE  /\ EventOf(p).type = cmd[p].verb
           /\ EventOf(p).at = cmd[p].now
           /\ cmd[p].verb = "started" => /\ EventOf(p).handover = Len(events) + 1
                                         /\ EventOf(p).owner = cmd[p].owner
           /\ cmd[p].verb # "started" => EventOf(p).handover = cmd[p].handover
           /\ cmd[p].verb = "verified" => EventOf(p).outcomes = cmd[p].outcomes
<1>1. CASE cmd[p].verb = "started"
  BY <1>1 DEF EventOf, Event
<1>2. CASE cmd[p].verb = "verified"
  BY <1>2 DEF EventOf, Event
<1>3. CASE cmd[p].verb = "snapshot_taken"
  BY <1>3 DEF EventOf, Event
<1>4. CASE cmd[p].verb \notin {"started", "verified", "snapshot_taken"}
  BY <1>4 DEF EventOf, Event
<1> QED
  BY <1>1, <1>2, <1>3, <1>4

LEMMA EventMayFollow ==
    ASSUME InOrder, NEW p \in Operator, cmd[p].at = "event"
    PROVE  MayFollow(EventOf(p))
<1>1. CommandOK(cmd[p])
  BY DEF InOrder, Commands
<1> QED
  BY <1>1, EventOfFields DEF MayFollow, CommandOK

LEMMA EventInOrder ==
    ASSUME InOrder, NEW p \in Operator, WriteEvent(p)
    PROVE  InOrder'
<1> DEFINE After == AfterEvent(cmd[p].verb)
<1>1. /\ cmd[p].at = "event"
      /\ events' = Append(events, EventOf(p))
      /\ cmd' = [cmd EXCEPT ![p] = IF After = "idle" THEN Idle
                                   ELSE [cmd[p] EXCEPT !.at = After]]
      /\ UNCHANGED clock
  BY DEF WriteEvent, At, EventOf
<1>2. PICK row : row = EventOf(p)
  OBVIOUS
<1>3. /\ Trail'
      /\ \A h \in Handovers : h \in Handovers' /\ StepsDone(h) \subseteq StepsDone(h)'
  BY <1>1, <1>2, EventMayFollow, AppendedTrail DEF InOrder
<1>4. PICK c : c = IF After = "idle" THEN Idle ELSE [cmd[p] EXCEPT !.at = After]
  OBVIOUS
<1>5. CommandOK(c)
  <2>1. CommandOK(cmd[p]) /\ After \in {"idle", "acceptance", "value"}
    BY DEF InOrder, Commands, AfterEvent
  <2>2. CASE After # "idle"
    <3>1. c = [cmd[p] EXCEPT !.at = After]
      BY <1>4, <2>2
    <3> HIDE DEF After
    <3>2. /\ Fields \subseteq DOMAIN c
          /\ c.at = After /\ c.verb = cmd[p].verb /\ c.now = cmd[p].now
          /\ c.owner = cmd[p].owner /\ c.handover = cmd[p].handover
      BY <2>1, <3>1 DEF CommandOK, Fields
    <3> QED
      BY <1>1, <2>1, <3>2 DEF CommandOK
  <2>3. CASE After = "idle"
    BY <1>4, <2>3, IdleOK
  <2> QED
    BY <2>2, <2>3
<1>6. Commands'
  BY <1>1, <1>3, <1>4, <1>5, WriterGoesOn DEF InOrder
<1> QED
  BY <1>3, <1>6 DEF InOrder

LEMMA TransferInOrder ==
    ASSUME InOrder, NEW p \in Operator, Transfer(p)
    PROVE  /\ InOrder'
           /\ \A h \in Handovers : h \in Handovers' /\ StepsDone(h) \subseteq StepsDone(h)'
<1>1. /\ cmd[p].at = "transfer"
      /\ events' = Append(events, Event("closed", cmd[p].handover, cmd[p].now))
      /\ cmd' = [cmd EXCEPT ![p].at = "acceptance"]
      /\ UNCHANGED clock
  BY DEF Transfer, At
<1>2. PICK row : row = Event("closed", cmd[p].handover, cmd[p].now)
  OBVIOUS
<1>3. CommandOK(cmd[p]) /\ cmd[p].verb = "closed" /\ DOMAIN cmd = Operator
  BY <1>1 DEF InOrder, Commands, CommandOK
<1>4. MayFollow(row)
  BY <1>1, <1>2, <1>3 DEF MayFollow, CommandOK, Event, StepNames
<1>5. /\ Trail'
      /\ \A h \in Handovers : h \in Handovers' /\ StepsDone(h) \subseteq StepsDone(h)'
  BY <1>1, <1>2, <1>4, AppendedTrail DEF InOrder
<1>6. PICK c : c = [cmd[p] EXCEPT !.at = "acceptance"]
  OBVIOUS
<1>7. /\ Fields \subseteq DOMAIN c
      /\ c.at = "acceptance" /\ c.verb = cmd[p].verb /\ c.now = cmd[p].now
      /\ c.owner = cmd[p].owner /\ c.handover = cmd[p].handover
  BY <1>3, <1>6 DEF CommandOK, Fields
<1>8. CommandOK(c)
  BY <1>1, <1>3, <1>7 DEF CommandOK
<1>9. cmd' = [cmd EXCEPT ![p] = c]
  BY <1>1, <1>3, <1>6
<1>10. Commands'
  BY <1>1, <1>5, <1>8, <1>9, WriterGoesOn DEF InOrder
<1> QED
  BY <1>5, <1>10 DEF InOrder

LEMMA NextInOrder == InOrder /\ [Next]_vars => InOrder'
<1> SUFFICES ASSUME InOrder, [Next]_vars PROVE InOrder'
  OBVIOUS
<1>1. clock \in Nat
  BY DEF InOrder, Trail
<1>2. ASSUME NEW p \in Operator, Start(p) PROVE InOrder'
  BY <1>2, StartInOrder
<1>3. ASSUME NEW p \in Operator, Elicit(p) PROVE InOrder'
  BY <1>3, BeginInOrder DEF Elicit, Writes, Begins, StepNames
<1>4. ASSUME NEW p \in Operator, Pack(p) PROVE InOrder'
  BY <1>4, BeginInOrder DEF Pack, Writes, Begins, StepNames
<1>5. ASSUME NEW p \in Operator, Verify(p) PROVE InOrder'
  BY <1>5, BeginInOrder DEF Verify, StepNames
<1>6. ASSUME NEW p \in Operator, Snapshot(p) PROVE InOrder'
  BY <1>6, BeginInOrder DEF Snapshot, Begins, StepNames
<1>7. ASSUME NEW p \in Operator, Close(p) PROVE InOrder'
  BY <1>7, BeginInOrder DEF Close, Begins, StepNames
<1>8. ASSUME NEW p \in Operator, WriteValue(p) PROVE InOrder'
  BY <1>8, ValueInOrder
<1>9. ASSUME NEW p \in Operator, WriteBundle(p) PROVE InOrder'
  BY <1>9, BundleInOrder
<1>10. ASSUME NEW p \in Operator, WriteEvent(p) PROVE InOrder'
  BY <1>10, EventInOrder
<1>11. ASSUME NEW p \in Operator, Transfer(p) PROVE InOrder'
  BY <1>11, TransferInOrder
<1>12. ASSUME NEW p \in Operator, WriteAcceptance(p) \/ Kill(p) PROVE InOrder'
  BY <1>12, EndsInOrder DEF WriteAcceptance, Kill
<1>13. ASSUME NEW t \in Task, Detect(t) PROVE InOrder'
  <2>1. clock' = clock + 1 /\ UNCHANGED <<events, cmd>>
    BY <1>13 DEF Detect, Tick
  <2>2. clock' \in Nat /\ clock <= clock'
    BY <1>1, <2>1
  <2> QED
    BY <2>1, <2>2, OthersInOrder
<1>14. CASE UNCHANGED <<events, cmd, clock>>
  BY <1>1, <1>14, OthersInOrder
<1>15. (\E t \in Task : RecordChange(t)) \/ (\E g \in Gap : DisposeGap(g) \/ Coverage(g))
       \/ FreshDirectory \/ UNCHANGED vars
       => UNCHANGED <<events, cmd, clock>>
  BY DEF RecordChange, DisposeGap, Coverage, FreshDirectory, vars
<1> QED
  BY <1>2, <1>3, <1>4, <1>5, <1>6, <1>7, <1>8, <1>9, <1>10, <1>11, <1>12, <1>13, <1>14, <1>15
     DEF Next

\* Whatever operators race, kill and repeat, an event of a handover is preceded by one
\* of every earlier step (Checklist.require asks for the immediate predecessor alone).
THEOREM TrailInOrder == Spec => []StepsInOrder
<1>1. InOrder => StepsInOrder
  BY DEF InOrder, Trail
<1> QED
  BY <1>1, InitInOrder, NextInOrder, PTL DEF Spec

-----------------------------------------------------------------------------
(* A valid test is unchanged.                                               *)

RecordedWith(n, t) == events[n].type = "verified" /\ events[n].outcomes[t] # "absent"

\* What was found since the last round of a test was recorded is later than
\* every round of that test.
Independence ==
    /\ \A u \in upset : u[2] \in Nat
    /\ \A u \in upset : \A n \in DOMAIN events :
          RecordedWith(n, u[1]) => events[n].at < u[2]

LEMMA InitIndependence == Init => Independence
BY DEF Init, Independence

LEMMA ValidIsUnchanged ==
    ASSUME InOrder, Independence
    PROVE  ValidMeansUnchanged
<1> SUFFICES ASSUME NEW u \in upset, NEW h \in Handovers, u[2] \in changes[u[1]],
                    u[1] \in Valid(h)
             PROVE  FALSE
  BY DEF ValidMeansUnchanged
<1> PICK t, at : t = u[1] /\ at = u[2]
  OBVIOUS
<1>1. RoundsWith(h, t) # {} /\ at <= events[LastRound(h, t)].at
  BY DEF Valid, Passed, UnchangedSince, VerifiedAt
<1>2. RoundsWith(h, t) \subseteq DOMAIN events
  BY DEF RoundsWith, EventsOf
<1>3. LastRound(h, t) \in RoundsWith(h, t)
  BY <1>1, <1>2, NewestIsOne DEF LastRound, InOrder
<1>4. LastRound(h, t) \in DOMAIN events /\ RecordedWith(LastRound(h, t), t)
  BY <1>3 DEF RoundsWith, EventsOf, RecordedWith
<1>5. at \in Nat /\ events[LastRound(h, t)].at < at
  BY <1>4 DEF Independence
<1>6. events[LastRound(h, t)].at \in Nat
  BY <1>4 DEF InOrder, Trail, EventOK
<1> QED
  BY <1>1, <1>5, <1>6

\* A change is found later than every event there is.
LEMMA DetectIndependence ==
    ASSUME InOrder, Independence, NEW t \in Task, Detect(t)
    PROVE  Independence'
<1>1. upset' = upset \cup {<<t, clock + 1>>} /\ UNCHANGED events
  BY DEF Detect
<1>2. clock \in Nat /\ \A n \in DOMAIN events : events[n].at \in Nat /\ events[n].at <= clock
  BY DEF InOrder, Trail, EventOK
<1>3. ASSUME NEW u \in upset'
      PROVE  /\ u[2] \in Nat
             /\ \A n \in DOMAIN events' : RecordedWith(n, u[1])' => events'[n].at < u[2]
  <2>1. CASE u \in upset
    BY <1>1, <2>1 DEF Independence, RecordedWith
  <2>2. CASE u = <<t, clock + 1>>
    BY <1>1, <1>2, <2>2
  <2> QED
    BY <1>1, <2>1, <2>2
<1> QED
  BY <1>3 DEF Independence

\* A round clears the tests it records and no other.
LEMMA EventIndependence ==
    ASSUME InOrder, Independence, NEW row, MayFollow(row), events' = Append(events, row),
           upset' \subseteq upset,
           row.type = "verified" => \A u \in upset' : row.outcomes[u[1]] = "absent"
    PROVE  Independence'
<1>1. /\ DOMAIN events' = 1..(Len(events) + 1)
      /\ \A n \in 1..Len(events) : events'[n] = events[n]
      /\ events'[Len(events) + 1] = row
  BY AppendedTrail DEF InOrder
<1>2. Len(events) \in Nat /\ DOMAIN events = 1..Len(events)
  BY CountEvents DEF InOrder
<1>3. ASSUME NEW u \in upset', NEW n \in DOMAIN events', RecordedWith(n, u[1])'
      PROVE  events'[n].at < u[2]
  <2>1. u \in upset
    OBVIOUS
  <2>2. n # Len(events) + 1
    BY <1>1, <1>3 DEF RecordedWith
  <2>3. n \in 1..Len(events)
    BY <1>1, <1>2, <2>2
  <2> QED
    BY <1>1, <1>2, <1>3, <2>1, <2>3 DEF RecordedWith, Independence
<1> QED
  BY <1>3 DEF Independence

LEMMA WriteEventIndependence ==
    ASSUME InOrder, Independence, NEW p \in Operator, WriteEvent(p)
    PROVE  Independence'
<1>1. PICK row : row = EventOf(p)
  OBVIOUS
<1>2. /\ cmd[p].at = "event"
      /\ events' = Append(events, row)
      /\ upset' = IF cmd[p].verb = "verified"
                  THEN {u \in upset : cmd[p].outcomes[u[1]] = "absent"} ELSE upset
  BY <1>1 DEF WriteEvent, At, EventOf
<1>3. MayFollow(row)
  BY <1>1, <1>2, EventMayFollow
<1>4. row.type = cmd[p].verb /\ (cmd[p].verb = "verified" => row.outcomes = cmd[p].outcomes)
  BY <1>1, EventOfFields
<1>5. row.type = "verified" => \A u \in upset' : row.outcomes[u[1]] = "absent"
  BY <1>2, <1>4
<1>6. upset' \subseteq upset
  BY <1>2
<1> QED
  BY <1>2, <1>3, <1>5, <1>6, EventIndependence

LEMMA TransferIndependence ==
    ASSUME InOrder, Independence, NEW p \in Operator, Transfer(p)
    PROVE  Independence'
<1>1. PICK row : row = Event("closed", cmd[p].handover, cmd[p].now)
  OBVIOUS
<1>2. /\ cmd[p].at = "transfer"
      /\ events' = Append(events, row)
      /\ UNCHANGED upset
  BY <1>1 DEF Transfer, At
<1>3. CommandOK(cmd[p]) /\ cmd[p].verb = "closed"
  BY <1>2 DEF InOrder, Commands, CommandOK
<1>4. MayFollow(row) /\ row.type = "closed"
  BY <1>1, <1>2, <1>3 DEF MayFollow, CommandOK, Event, StepNames
<1> QED
  BY <1>2, <1>4, EventIndependence

LEMMA NextIndependence == InOrder /\ Independence /\ [Next]_vars => Independence'
<1> SUFFICES ASSUME InOrder, Independence, [Next]_vars PROVE Independence'
  OBVIOUS
<1>1. CASE \E t \in Task : Detect(t)
  BY <1>1, DetectIndependence
<1>2. CASE \E p \in Operator : WriteEvent(p)
  BY <1>2, WriteEventIndependence
<1>3. CASE \E p \in Operator : Transfer(p)
  BY <1>3, TransferIndependence
<1>4. CASE UNCHANGED <<events, upset>>
  BY <1>4 DEF Independence, RecordedWith
<1>5. \/ \E t \in Task : Detect(t)
      \/ \E p \in Operator : WriteEvent(p) \/ Transfer(p)
      \/ UNCHANGED <<events, upset>>
  BY DEF Next, vars, Start, Elicit, Pack, Verify, Snapshot, Close, Writes, Begins,
         WriteBundle, WriteValue, RecordChange, WriteAcceptance, Kill, DisposeGap, Coverage,
         FreshDirectory
<1> QED
  BY <1>1, <1>2, <1>3, <1>4, <1>5

\* No round of other tests, however late, renews a test whose referent has changed
\* since a round that recorded it (validity._judge).
THEOREM ValidTestsAreUnchanged == Spec => []ValidMeansUnchanged
<1>1. InOrder /\ Independence => ValidMeansUnchanged
  BY ValidIsUnchanged
<1> QED
  BY <1>1, InitInOrder, NextInOrder, InitIndependence, NextIndependence, PTL DEF Spec

-----------------------------------------------------------------------------
(* Nothing open transfers unowned.                                          *)

GapsTyped ==
    /\ gaps = [g \in Gap |-> gaps[g]]
    /\ \A g \in Gap : gaps[g].until \in Nat
    /\ uncovered \subseteq Gap

LEMMA InitGaps == Init => GapsTyped
BY DEF Init, GapsTyped, Disposed

LEMMA NextGaps == InOrder /\ GapsTyped /\ [Next]_vars => GapsTyped'
<1> SUFFICES ASSUME InOrder, GapsTyped, [Next]_vars PROVE GapsTyped'
  OBVIOUS
<1>1. CASE \E p \in Operator : Transfer(p)
  <2>1. PICK p \in Operator : Transfer(p)
    BY <1>1
  <2>2. PICK owner, now : /\ uncovered' = uncovered
                          /\ gaps' = [g \in Gap |->
                                IF g \in OpenGaps(now) /\ gaps[g].owner = NoOne
                                THEN Disposed("acknowledged", owner, 0) ELSE gaps[g]]
    BY <2>1 DEF Transfer
  <2>3. \A g \in Gap : gaps'[g] = Disposed("acknowledged", owner, 0) \/ gaps'[g] = gaps[g]
    BY <2>2
  <2>4. Disposed("acknowledged", owner, 0).until = 0
    BY DEF Disposed
  <2>5. \A g \in Gap : gaps'[g].until \in Nat
    BY <2>3, <2>4 DEF GapsTyped
  <2> QED
    BY <2>2, <2>5 DEF GapsTyped
<1>2. CASE \E g \in Gap : DisposeGap(g)
  <2>1. PICK g \in Gap, status \in Dispositions, owner \in Owner \cup {NoOne} :
            /\ gaps' = [gaps EXCEPT ![g] =
                          Disposed(status, owner, IF status = "waived" THEN clock + 1 ELSE 0)]
            /\ uncovered' = uncovered
    BY <1>2 DEF DisposeGap
  <2>2. PICK until : until = IF status = "waived" THEN clock + 1 ELSE 0
    OBVIOUS
  <2>3. until \in Nat
    BY <2>2 DEF InOrder, Trail
  <2>4. Disposed(status, owner, until).until = until
    BY DEF Disposed
  <2>5. \A other \in Gap : gaps'[other] = gaps[other] \/ gaps'[other] = Disposed(status, owner, until)
    BY <2>1, <2>2 DEF GapsTyped
  <2>6. \A other \in Gap : gaps'[other].until \in Nat
    BY <2>3, <2>4, <2>5 DEF GapsTyped
  <2>7. gaps' = [other \in Gap |-> gaps'[other]]
    BY <2>1 DEF GapsTyped
  <2> QED
    BY <2>1, <2>6, <2>7 DEF GapsTyped
<1>3. CASE \E g \in Gap : Coverage(g)
  BY <1>3 DEF Coverage, GapsTyped
<1>4. CASE UNCHANGED <<gaps, uncovered>>
  BY <1>4 DEF GapsTyped
<1>5. \/ \E p \in Operator : Transfer(p)
      \/ \E g \in Gap : DisposeGap(g) \/ Coverage(g)
      \/ UNCHANGED <<gaps, uncovered>>
  BY DEF Next, vars, Start, Elicit, Pack, Verify, Snapshot, Close, Writes, Begins,
         WriteBundle, WriteEvent, WriteValue, WriteAcceptance, Kill, Detect, RecordChange,
         FreshDirectory
<1> QED
  BY <1>1, <1>2, <1>3, <1>4, <1>5

\* The owner a handover is for is somebody.
LEMMA ReceiverIsSomebody ==
    ASSUME InOrder, NEW h \in Handovers
    PROVE  ReceivingOwner(h) \in Owner /\ ReceivingOwner(h) # NoOne
BY HandoverAssumption DEF ReceivingOwner, Handovers, InOrder, Trail, EventOK

LEMMA TransferOwnsGaps ==
    ASSUME InOrder, GapsTyped, NEW p \in Operator, Transfer(p), NEW g \in uncovered
    PROVE  \/ gaps'[g].owner # NoOne
           \/ gaps'[g].status = "resolved"
           \/ gaps'[g].status = "waived" /\ gaps'[g].until > cmd[p].now
<1> DEFINE owner == ReceivingOwner(cmd[p].handover)
           now   == cmd[p].now
<1>1. /\ cmd[p].at = "transfer"
      /\ gaps' = [other \in Gap |->
                    IF other \in OpenGaps(now) /\ gaps[other].owner = NoOne
                    THEN Disposed("acknowledged", owner, 0) ELSE gaps[other]]
  BY DEF Transfer, At
<1>2. /\ g \in Gap /\ gaps[g].until \in Nat
      /\ now \in Nat
      /\ owner # NoOne
  <2>1. CommandOK(cmd[p]) /\ cmd[p].verb = "closed"
    BY <1>1 DEF InOrder, Commands, CommandOK
  <2>2. cmd[p].handover \in Handovers /\ now \in Nat
    BY <1>1, <2>1 DEF CommandOK
  <2> QED
    BY <2>2, ReceiverIsSomebody DEF GapsTyped
<1> HIDE DEF owner, now
<1>3. CASE g \in OpenGaps(now) /\ gaps[g].owner = NoOne
  <2>1. gaps'[g] = Disposed("acknowledged", owner, 0)
    BY <1>1, <1>2, <1>3
  <2> QED
    BY <1>2, <2>1 DEF Disposed
<1>4. CASE gaps[g].owner # NoOne
  <2>1. gaps'[g] = gaps[g]
    BY <1>1, <1>2, <1>4
  <2> QED
    BY <1>4, <2>1
<1>5. CASE g \notin OpenGaps(now)
  <2>1. gaps'[g] = gaps[g]
    BY <1>1, <1>2, <1>5
  <2>2. gaps[g].status = "resolved" \/ (gaps[g].status = "waived" /\ ~(gaps[g].until <= now))
    BY <1>5 DEF OpenGaps, IsOpenGap
  <2>3. gaps[g].status = "resolved" \/ (gaps[g].status = "waived" /\ gaps[g].until > now)
    BY <1>2, <2>2
  <2> QED
    BY <2>1, <2>3 DEF now
<1> QED
  BY <1>3, <1>4, <1>5

\* A close gives each open gap nobody owns to the receiving owner, so nothing still
\* uncovered is nobody's (close_handover: "transfer with owners").
THEOREM NothingIsUnowned == Spec => NothingTransfersUnowned
<1>1. InOrder /\ GapsTyped /\ [Next]_vars =>
          [\A p \in Operator : Transfer(p) =>
             \A g \in uncovered :
                 \/ gaps'[g].owner # NoOne
                 \/ gaps'[g].status = "resolved"
                 \/ gaps'[g].status = "waived" /\ gaps'[g].until > cmd[p].now]_vars
  BY TransferOwnsGaps
<1> QED
  BY <1>1, InitInOrder, NextInOrder, InitGaps, NextGaps, PTL DEF Spec, NothingTransfersUnowned

-----------------------------------------------------------------------------
(* The system stays owned.                                                  *)

ClosedHandovers == {h \in Handovers : IsClosed(h)}

ClosedOwners == {ReceivingOwner(h) : h \in ClosedHandovers}

\* The first assignment is what the system came with; each later one a close wrote.
AssignmentOK(n) ==
    /\ {"system", "owner", "from", "to"} \subseteq DOMAIN assignments[n]
    /\ assignments[n].from \in Nat /\ assignments[n].from <= clock
    /\ assignments[n].to \in Nat
    /\ n = 1 => /\ assignments[n].from = 1
                /\ assignments[n].system \in {"system", "engagement"}
                /\ assignments[n].system = "engagement" => assignments[n].to = 0
    /\ n # 1 => /\ assignments[n].from >= 2
                /\ assignments[n].system = "system"
                /\ assignments[n].owner \in ClosedOwners

Ownership ==
    /\ IsSeq(assignments)
    /\ 1 \in DOMAIN assignments
    /\ \A n \in DOMAIN assignments : AssignmentOK(n)
    /\ ClosedHandovers # {} =>
          \E n \in DOMAIN assignments : n # 1 /\ assignments[n].to = 0

LEMMA InitOwnership == Init => Ownership
<1> SUFFICES ASSUME Init PROVE Ownership
  OBVIOUS
<1>1. PICK owner \in Owner, system \in {"system", "engagement"} :
          assignments = <<Assignment(system, owner, 1)>>
  BY DEF Init
<1>2. assignments = [n \in 1..1 |-> assignments[n]]
  BY <1>1
<1>3. IsSeq(assignments) /\ DOMAIN assignments = 1..1
  BY <1>2, ListIsSeq
<1>4. assignments[1] = Assignment(system, owner, 1)
  BY <1>1
<1>5. AssignmentOK(1)
  BY <1>4 DEF AssignmentOK, Assignment, Init
<1>6. ClosedHandovers = {}
  BY DEF ClosedHandovers, Handovers, Init
<1> QED
  BY <1>3, <1>5, <1>6 DEF Ownership

\* Of some assignments one is the last written.
LEMMA LastWritten ==
    ASSUME NEW S, S # {}, NEW len \in Nat, S \subseteq 1..len
    PROVE  Max(S) \in S
<1>1. S \subseteq Nat /\ \A n \in S : n <= len
  OBVIOUS
<1>2. \E n \in S : \A m \in S : n >= m
  BY <1>1, Greatest
<1> QED
  BY <1>2 DEF Max

\* An assignment a close wrote is narrower or later than what the system came with.
LEMMA OwnedSinceClosed ==
    ASSUME InOrder, Ownership, ClosedHandovers # {}
    PROVE  WhoOwns("system", clock) \in ClosedOwners
<1> DEFINE active == ActiveAt("system", clock)
           narrow == {n \in active : assignments[n].system = "system"}
           latest == {n \in narrow : \A m \in narrow : assignments[n].from >= assignments[m].from}
           S      == {assignments[n].from : n \in narrow}
<1>1. Len(assignments) \in Nat /\ DOMAIN assignments = 1..Len(assignments)
  BY SeqFacts DEF Ownership
<1>2. clock \in Nat
  BY DEF InOrder, Trail
<1>3. PICK k \in DOMAIN assignments : k # 1 /\ assignments[k].to = 0
  BY DEF Ownership
<1>4. k \in narrow
  BY <1>3 DEF Ownership, AssignmentOK, ActiveAt
<1>5. narrow \subseteq DOMAIN assignments
  BY DEF ActiveAt
<1>6. S # {} /\ S \subseteq Nat /\ \A from \in S : from <= clock
  BY <1>4, <1>5 DEF Ownership, AssignmentOK
<1>7. PICK from \in S : \A other \in S : from >= other
  <2> HIDE DEF S
  <2> QED
    BY <1>2, <1>6, Greatest
<1>8. latest # {} /\ latest \subseteq 1..Len(assignments)
  BY <1>1, <1>5, <1>7
<1>9. Max(latest) \in latest
  <2> HIDE DEF latest
  <2> QED
    BY <1>1, <1>8, LastWritten
<1> PICK c : c = Max(latest)
  OBVIOUS
<1>10. CurrentOwner("system", clock) = c
  <2>1. narrow # {} /\ active # {}
    BY <1>4
  <2> QED
    BY <2>1 DEF CurrentOwner
<1>11. c \in DOMAIN assignments /\ assignments[c].from >= assignments[k].from
  BY <1>4, <1>5, <1>9
<1>12. c # 1
  BY <1>3, <1>11 DEF Ownership, AssignmentOK
<1>13. c # 0 /\ assignments[c].owner \in ClosedOwners
  BY <1>1, <1>11, <1>12 DEF Ownership, AssignmentOK
<1> QED
  BY <1>10, <1>13 DEF WhoOwns

\* No close speaks of the engagement's other systems.
LEMMA OthersKeepTheirOwner ==
    ASSUME InOrder, Ownership, assignments[1].system = "engagement"
    PROVE  WhoOwns("other", clock) = assignments[1].owner
<1>1. clock \in Nat /\ 1 <= clock
  BY DEF InOrder, Trail
<1>2. ActiveAt("other", clock) = {1}
  BY <1>1 DEF ActiveAt, Ownership, AssignmentOK
<1>3. assignments[1].from \in Nat
  BY DEF Ownership, AssignmentOK
<1>4. Max({1}) = 1
  BY LastWritten
<1>5. CurrentOwner("other", clock) = 1
  <2>1. {n \in {1} : assignments[n].system = "other"} = {}
    OBVIOUS
  <2>2. {n \in {1} : \A m \in {1} : assignments[n].from >= assignments[m].from} = {1}
    BY <1>3
  <2> QED
    BY <1>2, <1>4, <2>1, <2>2 DEF CurrentOwner
<1> QED
  BY <1>5 DEF WhoOwns

\* The close: a new assignment, and the end of one of the system's own.
LEMMA TransferOwnership ==
    ASSUME InOrder, Ownership, NEW p \in Operator, Transfer(p)
    PROVE  Ownership'
<1> PICK last : last = Len(assignments) + 1
  OBVIOUS
<1>1. PICK h, now, prior :
          /\ h = cmd[p].handover /\ now = cmd[p].now
          /\ prior = CurrentOwner("system", now)
  OBVIOUS
<1>2. PICK kept : kept = [n \in DOMAIN assignments |->
                            IF n = prior /\ Ended(prior)
                            THEN [assignments[n] EXCEPT !.to = now] ELSE assignments[n]]
  OBVIOUS
<1>3. /\ cmd[p].at = "transfer"
      /\ assignments' = Append(kept, Assignment("system", ReceivingOwner(h), now))
      /\ events' = Append(events, Event("closed", h, now))
      /\ UNCHANGED clock
  BY <1>1, <1>2 DEF Transfer, At
<1>4. PICK row : row = Assignment("system", ReceivingOwner(h), now)
  OBVIOUS
<1>5. h \in Handovers /\ now \in Nat /\ 2 <= now /\ now <= clock
  <2>1. CommandOK(cmd[p]) /\ cmd[p].verb = "closed"
    BY <1>3 DEF InOrder, Commands, CommandOK
  <2> QED
    BY <1>1, <1>3, <2>1 DEF CommandOK
<1>6. /\ Len(events) \in Nat /\ DOMAIN events = 1..Len(events)
      /\ Len(assignments) \in Nat /\ DOMAIN assignments = 1..Len(assignments)
  BY CountEvents, SeqFacts DEF InOrder, Ownership
<1>7. /\ DOMAIN events' = 1..(Len(events) + 1)
      /\ \A n \in 1..Len(events) : events'[n] = events[n]
      /\ events'[Len(events) + 1] = Event("closed", h, now)
  BY <1>3, AppendIsSeq DEF InOrder, Trail
<1>8. \A k \in Handovers : k \in Handovers' /\ StepsDone(k) \subseteq StepsDone(k)'
                           /\ ReceivingOwner(k)' = ReceivingOwner(k)
  BY <1>6, <1>7, TransferInOrder DEF Handovers, ReceivingOwner
<1>9. ClosedOwners \subseteq ClosedOwners'
  BY <1>8 DEF ClosedOwners, ClosedHandovers, IsClosed
<1>10. ReceivingOwner(h) \in ClosedOwners'
  <2>1. "closed" \in StepsDone(h)'
    <3>1. Len(events) + 1 \in EventsOf(h)'
      BY <1>6, <1>7 DEF EventsOf, Event
    <3>2. events'[Len(events) + 1].type = "closed"
      BY <1>7 DEF Event
    <3> QED
      BY <3>1, <3>2 DEF StepsDone
  <2> QED
    BY <1>5, <1>8, <2>1 DEF ClosedOwners, ClosedHandovers, IsClosed
<1>11. /\ IsSeq(kept) /\ Len(kept) = Len(assignments)
  <2>1. kept = [n \in 1..Len(assignments) |-> kept[n]]
    BY <1>2, <1>6
  <2> QED
    BY <1>6, <2>1, ListIsSeq
<1>12. /\ IsSeq(assignments')
       /\ DOMAIN assignments' = 1..last
       /\ \A n \in 1..Len(assignments) : assignments'[n] = kept[n]
       /\ assignments'[last] = row
  BY <1>3, <1>4, <1>11, AppendIsSeq
<1>13. ASSUME NEW n \in 1..Len(assignments) PROVE AssignmentOK(n)'
  <2>1. AssignmentOK(n) /\ AssignmentOK(1)
    BY <1>6 DEF Ownership
  <2>2. \/ assignments'[n] = assignments[n]
        \/ /\ assignments'[n] = [assignments[n] EXCEPT !.to = now]
           /\ assignments[n].system = "system"
    BY <1>2, <1>6, <1>12 DEF Ended
  <2>3. CASE assignments'[n] = assignments[n]
    BY <1>3, <1>9, <2>1, <2>3 DEF AssignmentOK
  <2>4. CASE /\ assignments'[n] = [assignments[n] EXCEPT !.to = now]
             /\ assignments[n].system = "system"
    <3>1. /\ {"system", "owner", "from", "to"} \subseteq DOMAIN assignments'[n]
          /\ assignments'[n].system = "system" /\ assignments'[n].to = now
          /\ assignments'[n].from = assignments[n].from
          /\ assignments'[n].owner = assignments[n].owner
      BY <2>1, <2>4 DEF AssignmentOK
    <3> QED
      BY <1>3, <1>5, <1>9, <2>1, <3>1 DEF AssignmentOK
  <2> QED
    BY <2>2, <2>3, <2>4
<1>14. AssignmentOK(last)'
  <2>1. last # 1
    BY <1>6 DEF Ownership
  <2>2. /\ {"system", "owner", "from", "to"} \subseteq DOMAIN row
        /\ row.system = "system" /\ row.owner = ReceivingOwner(h) /\ row.from = now /\ row.to = 0
    BY <1>4 DEF Assignment
  <2> QED
    BY <1>3, <1>5, <1>10, <1>12, <2>1, <2>2 DEF AssignmentOK
<1>15. /\ 1 \in DOMAIN assignments'
       /\ \A n \in DOMAIN assignments' : n \in 1..Len(assignments) \/ n = last
       /\ last \in DOMAIN assignments' /\ last # 1 /\ assignments'[last].to = 0
  BY <1>4, <1>6, <1>12 DEF Ownership, Assignment
<1> QED
  BY <1>12, <1>13, <1>14, <1>15 DEF Ownership

\* A step that writes no close leaves the assignments as they were.
LEMMA KeepsOwnership ==
    ASSUME InOrder, Ownership, UNCHANGED assignments, clock' \in Nat, clock <= clock',
           ClosedHandovers' = ClosedHandovers,
           \A h \in Handovers : ReceivingOwner(h)' = ReceivingOwner(h)
    PROVE  Ownership'
<1>1. clock \in Nat
  BY DEF InOrder, Trail
<1>2. ClosedOwners' = ClosedOwners
  BY DEF ClosedOwners, ClosedHandovers
<1>3. \A n \in DOMAIN assignments : AssignmentOK(n)'
  BY <1>1, <1>2 DEF Ownership, AssignmentOK
<1> QED
  BY <1>3 DEF Ownership

LEMMA WriteEventOwnership ==
    ASSUME InOrder, Ownership, NEW p \in Operator, WriteEvent(p)
    PROVE  Ownership'
<1>1. PICK row : row = EventOf(p)
  OBVIOUS
<1>2. /\ cmd[p].at = "event"
      /\ events' = Append(events, row)
      /\ UNCHANGED <<assignments, clock>>
  BY <1>1 DEF WriteEvent, At, EventOf
<1>3. MayFollow(row) /\ row.type # "closed"
  <2>1. cmd[p].verb # "closed"
    BY <1>2 DEF InOrder, Commands, CommandOK
  <2> QED
    BY <1>1, <1>2, <2>1, EventMayFollow, EventOfFields
<1>4. /\ DOMAIN events' = 1..(Len(events) + 1)
      /\ \A n \in 1..Len(events) : events'[n] = events[n]
      /\ events'[Len(events) + 1] = row
      /\ \A h \in Handovers : h \in Handovers' /\ StepsDone(h) \subseteq StepsDone(h)'
  BY <1>2, <1>3, AppendedTrail DEF InOrder
<1>5. Len(events) \in Nat /\ DOMAIN events = 1..Len(events)
  BY CountEvents DEF InOrder
<1>6. \A h \in Handovers : ReceivingOwner(h)' = ReceivingOwner(h)
  BY <1>4, <1>5 DEF Handovers, ReceivingOwner
<1>7. ClosedHandovers \subseteq ClosedHandovers'
  BY <1>4 DEF ClosedHandovers, IsClosed
<1>8. ASSUME NEW h \in ClosedHandovers' PROVE h \in ClosedHandovers
  <2>1. PICK n \in DOMAIN events' : events'[n].handover = h /\ events'[n].type = "closed"
    BY DEF ClosedHandovers, IsClosed, StepsDone, EventsOf
  <2>2. n \in 1..Len(events)
    BY <1>3, <1>4, <1>5, <2>1
  <2>3. events[n].handover = h /\ events[n].type = "closed" /\ n \in DOMAIN events
    BY <1>4, <1>5, <2>1, <2>2
  <2>4. h \in Handovers
    BY <2>3 DEF InOrder, Trail, StepsInOrder
  <2> QED
    BY <2>3, <2>4 DEF ClosedHandovers, IsClosed, StepsDone, EventsOf
<1>9. clock' \in Nat /\ clock <= clock'
  BY <1>2 DEF InOrder, Trail
<1> QED
  BY <1>2, <1>6, <1>7, <1>8, <1>9, KeepsOwnership

LEMMA NextOwnership == InOrder /\ Ownership /\ [Next]_vars => Ownership'
<1> SUFFICES ASSUME InOrder, Ownership, [Next]_vars PROVE Ownership'
  OBVIOUS
<1>1. CASE \E p \in Operator : Transfer(p)
  BY <1>1, TransferOwnership
<1>2. CASE \E p \in Operator : WriteEvent(p)
  BY <1>2, WriteEventOwnership
<1>3. CASE UNCHANGED <<events, assignments>> /\ (clock' = clock + 1 \/ clock' = clock)
  <2>1. clock' \in Nat /\ clock <= clock'
    BY <1>3 DEF InOrder, Trail
  <2>2. /\ ClosedHandovers' = ClosedHandovers
        /\ \A h \in Handovers : ReceivingOwner(h)' = ReceivingOwner(h)
    BY <1>3 DEF ClosedHandovers, IsClosed, StepsDone, EventsOf, Handovers, ReceivingOwner
  <2> QED
    BY <1>3, <2>1, <2>2, KeepsOwnership
<1>4. \/ \E p \in Operator : Transfer(p) \/ WriteEvent(p)
      \/ UNCHANGED <<events, assignments>> /\ (clock' = clock + 1 \/ clock' = clock)
  BY DEF Next, vars, Tick, Start, Elicit, Pack, Verify, Snapshot, Close, Writes, Begins,
         WriteBundle, WriteValue, WriteAcceptance, Kill, Detect, RecordChange, DisposeGap,
         Coverage, FreshDirectory
<1> QED
  BY <1>1, <1>2, <1>3, <1>4

\* From the first close on the system belongs to somebody a closed handover was for,
\* and no close takes from the engagement's other systems (close_handover,
\* current_owner).
THEOREM AlwaysOwned == Spec => []OwnedThroughout
<1>1. InOrder /\ Ownership => OwnedThroughout
  BY OwnedSinceClosed, OthersKeepTheirOwner DEF OwnedThroughout, ClosedHandovers, ClosedOwners
<1> QED
  BY <1>1, InitInOrder, NextInOrder, InitOwnership, NextOwnership, PTL DEF Spec
=============================================================================
