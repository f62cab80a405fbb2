------------------------------ MODULE Handover ------------------------------
(***************************************************************************)
(* The handover of a system to the team that will own it (adopt-handover,   *)
(* adopt handover in adopt-cli): a checklist folded from audit events that  *)
(* are only ever appended, the questions its failed exit tests become, the  *)
(* packs and the acceptance bundle it leaves, and the transfer of ownership *)
(* at the close, which takes the open gaps with it.                         *)
(*                                                                         *)
(* A command reads the trail, reads its clock, and writes: each transaction *)
(* and each file is a step.  Commands of two operators interleave between   *)
(* them, and either may be killed there.  Every reading of the clock is a   *)
(* different moment.                                                        *)
(***************************************************************************)
EXTENDS Naturals, Sequences, FiniteSets, SequencesExt, FiniteSetsExt

CONSTANTS
    Operator,   \* processes that run adopt handover
    Owner,      \* who may receive the system
    Gap,        \* referents whose coverage gap can be disposed of
    Task,       \* exit tests, each anchored to a referent of its own
    NoOne,      \* nobody
    Checklists, \* rounds of exit tests: [Task -> pass, fail or absent]
    Dispositions, \* what becomes of a gap: acknowledged, resolved, waived
    MaxEvents, MaxClock, MaxHappenings

Steps == <<"started", "elicited", "pack_emitted", "verified", "snapshot_taken", "closed">>

ASSUME HandoverAssumption == NoOne \notin Owner

VARIABLES
    events,      \* audit_event rows of the handover types, in the order written
    assignments, \* ownership_assignment: of this system, or of its engagement
    gaps,        \* coverage_gap: status, owner and the end of a waiver
    uncovered,   \* the referents recompute_coverage finds uncovered
    questions,   \* escalations opened for failed tasks
    detected,    \* when a refresh found a change it has not recorded; 0 if none
    changes,     \* classification rows that are not cosmetic, per task's referent
    files,       \* what the output directories hold: papers, bundle, acceptance
    values,      \* value_event rows: packs delivered
    clock,
    cmd,         \* what each operator's command is doing
    upset,       \* history: a task's referent, and when it was found changed, until
                 \* a round of the task is recorded
    happened     \* kills, and what happened outside the commands

vars == <<events, assignments, gaps, uncovered, questions, detected, changes, files, values,
          clock, cmd, upset, happened>>

Idle == [at |-> "idle", verb |-> "", handover |-> 0, now |-> 0, owner |-> NoOne,
         outcomes |-> <<>>, covers |-> 0]

-----------------------------------------------------------------------------
(* The record: a fold over the trail.                                       *)

\* The events of a handover carry the position of its start row.
EventsOf(h) == {n \in DOMAIN events : events[n].handover = h}

Handovers == {n \in DOMAIN events : events[n].type = "started"}

StepsDone(h) == {events[n].type : n \in EventsOf(h)}

IsClosed(h) == "closed" \in StepsDone(h)

\* fold sorts newest first by when a handover started; current takes the first
\* one that is not closed, 0 when there is none.
Newest(hs) == IF hs = {} THEN 0
              ELSE CHOOSE h \in hs : \A other \in hs : events[h].at >= events[other].at

Current == Newest({h \in Handovers : ~IsClosed(h)})

\* The latest of a handover's rows of one type, by when they happened.
LatestOf(h, type) ==
    Newest({n \in EventsOf(h) : events[n].type = type})

PositionOf(step) == CHOOSE n \in DOMAIN Steps : Steps[n] = step

PrerequisiteSkipped(step) == Steps[Max({1, PositionOf(step) - 2})]

\* Each step but the first needs the one before it; any may be repeated.
Prerequisite(step) == Steps[PositionOf(step) - 1]

Require(h, step) == Prerequisite(step) \in StepsDone(h)

-----------------------------------------------------------------------------
(* Ownership.                                                               *)

\* In force from now on, until it is ended.
Assignment(system, owner, now) == [system |-> system, owner |-> owner, from |-> now, to |-> 0]

ActiveAt(system, moment) ==
    {n \in DOMAIN assignments :
        LET a == assignments[n]
        IN  /\ a.system \in {system, "engagement"}
            /\ a.from <= moment
            /\ a.to = 0 \/ a.to > moment}

\* The narrowest, then the latest to begin, then the latest written; 0 if none.
CurrentOwner(system, moment) ==
    LET active   == ActiveAt(system, moment)
        narrow   == {n \in active : assignments[n].system = system}
        choice   == IF narrow # {} THEN narrow ELSE active
        latest   == {n \in choice : \A m \in choice : assignments[n].from >= assignments[m].from}
    IN  IF active = {} THEN 0 ELSE Max(latest)

WhoOwns(system, moment) ==
    LET n == CurrentOwner(system, moment)
    IN  IF n = 0 THEN NoOne ELSE assignments[n].owner

EndedAtAnyScope(prior) == prior # 0

\* Only a system-scoped assignment is ended.
Ended(prior) == prior # 0 /\ assignments[prior].system = "system"

-----------------------------------------------------------------------------
(* Gaps: what recompute_coverage finds, joined to what was decided.         *)

IsOpenGapWhateverTheDate(g, now) == gaps[g].status \notin {"resolved", "waived"}

\* is_open_gap: a waiver holds while it lasts.
IsOpenGap(g, now) ==
    /\ gaps[g].status # "resolved"
    /\ gaps[g].status = "waived" => gaps[g].until <= now

OpenGaps(now) == {g \in uncovered : IsOpenGap(g, now)}

Disposed(status, owner, until) == [status |-> status, owner |-> owner, until |-> until]

-----------------------------------------------------------------------------
(* Independence: is what the receiving team passed still true?              *)

RoundsWith(h, t) ==
    {n \in EventsOf(h) : events[n].type = "verified" /\ events[n].outcomes[t] # "absent"}

\* The latest outcome of a task counts.
LastRound(h, t) == Newest(RoundsWith(h, t))

Passed(h) == {t \in Task : RoundsWith(h, t) # {}
                           /\ events[LastRound(h, t)].outcomes[t] = "pass"}

VerifiedAtLastRound(h, t) == events[LatestOf(h, "verified")].at

VerifiedAt(h, t) == events[LastRound(h, t)].at

\* referent_facts: of the referent of a task, its classifications that are not cosmetic.
UnchangedSince(t, moment) == \A at \in changes[t] : at <= moment

\* _judge: a change detected after the round that passed it invalidates a test.
\* Its other rules (a referent dead, moved, unknown, contradicted or stale, a
\* degraded identity) take further tests out of this set and are left out.
Valid(h) == {t \in Passed(h) : UnchangedSince(t, VerifiedAt(h, t))}

-----------------------------------------------------------------------------
Init ==
    /\ events = <<>> /\ questions = <<>> /\ values = 0 /\ clock = 1
    /\ \E owner \in Owner, system \in {"system", "engagement"} :
         assignments = <<Assignment(system, owner, 1)>>
    /\ gaps = [g \in Gap |-> Disposed("none", NoOne, 0)]
    /\ uncovered = Gap
    /\ detected = [t \in Task |-> 0] /\ changes = [t \in Task |-> {}]
    /\ files = [papers |-> {}, bundle |-> 0, acceptance |-> <<0, 0>>]
    /\ cmd = [p \in Operator |-> Idle]
    /\ upset = {} /\ happened = 0

At(p, stage) == cmd[p].at = stage

Tick == clock < MaxClock /\ clock' = clock + 1

\* Every command opens with the record it is about and a reading of the clock.
Begin(p, stage, verb, h) ==
    [Idle EXCEPT !.at = stage, !.verb = verb, !.handover = h, !.now = clock + 1]

NoOutcomes == [t \in Task |-> "absent"]

Event(type, h, at) ==
    [type |-> type, handover |-> h, at |-> at, outcomes |-> NoOutcomes, owner |-> NoOne,
     covers |-> 0]

\* start refuses a system with an open handover, then writes the start row,
\* whose id is the handover's.
Start(p) ==
    /\ At(p, "idle") /\ Len(events) < MaxEvents /\ Tick
    /\ Current = 0
    /\ \E owner \in Owner :
         cmd' = [cmd EXCEPT ![p] = [Begin(p, "event", "started", 0) EXCEPT !.owner = owner]]
    /\ UNCHANGED <<events, assignments, gaps, uncovered, questions, detected, changes,
                   files, values, upset, happened>>

\* The other steps need an open handover that has come far enough.
Begins(p, step, stage) ==
    /\ At(p, "idle") /\ Len(events) < MaxEvents /\ Tick
    /\ Current # 0 /\ Require(Current, step)
    /\ cmd' = [cmd EXCEPT ![p] = Begin(p, stage, step, Current)]
    /\ UNCHANGED <<events, assignments, gaps, uncovered, questions, detected, changes,
                   values, upset, happened>>

\* The agenda, or a pack with its lineage, is written before the event naming it.
Writes(p, step) == Begins(p, step, "event") /\ files' = [files EXCEPT !.papers = @ \cup {step}]

Elicit(p)   == Writes(p, "elicited")
Pack(p)     == Writes(p, "pack_emitted")
Snapshot(p) == Begins(p, "snapshot_taken", "bundle") /\ UNCHANGED files
Close(p)    == Begins(p, "closed", "transfer") /\ UNCHANGED files

\* verify reads its checklist before the store: a non-empty set of tasks.
Verify(p) ==
    /\ At(p, "idle") /\ Len(events) < MaxEvents /\ Tick
    /\ Current # 0 /\ Require(Current, "verified")
    /\ \E outcomes \in Checklists :
         cmd' = [cmd EXCEPT ![p] =
                     [Begin(p, "event", "verified", Current) EXCEPT !.outcomes = outcomes]]
    /\ UNCHANGED <<events, assignments, gaps, uncovered, questions, detected, changes,
                   files, values, upset, happened>>

\* write_bundle refuses a directory that holds anything.
WriteBundle(p) ==
    /\ At(p, "bundle")
    /\ IF files.bundle = 0
       THEN /\ files' = [files EXCEPT !.bundle = Len(events)]
            /\ cmd' = [cmd EXCEPT ![p].at = "event", ![p].covers = Len(events)]
       ELSE /\ cmd' = [cmd EXCEPT ![p] = Idle]
            /\ UNCHANGED files
    /\ UNCHANGED <<events, assignments, gaps, uncovered, questions, detected, changes,
                   values, clock, upset, happened>>

\* One question per failed task, in the transaction of the round's event.
QuestionsOf(outcomes) == SetToSeq({t \in Task : outcomes[t] = "fail"})

\* A step that leaves more to write than its event.
AfterEvent(verb) ==
    CASE verb = "snapshot_taken" -> "acceptance"
      [] verb = "pack_emitted"   -> "value"
      [] OTHER                   -> "idle"

\* The event of a step, and what its transaction holds besides.
WriteEvent(p) ==
    /\ At(p, "event")
    /\ LET verb == cmd[p].verb
           h    == IF verb = "started" THEN Len(events) + 1 ELSE cmd[p].handover
           row  == Event(verb, h, cmd[p].now)
       IN  /\ events' = Append(events,
                 CASE verb = "started"        -> [row EXCEPT !.owner = cmd[p].owner]
                   [] verb = "verified"       -> [row EXCEPT !.outcomes = cmd[p].outcomes]
                   [] verb = "snapshot_taken" -> [row EXCEPT !.covers = cmd[p].covers]
                   [] OTHER                   -> row)
           /\ IF verb = "verified"
              THEN /\ questions' = questions \o QuestionsOf(cmd[p].outcomes)
                   /\ upset' = {u \in upset : cmd[p].outcomes[u[1]] = "absent"}
              ELSE UNCHANGED <<questions, upset>>
           /\ cmd' = [cmd EXCEPT ![p] =
                 IF AfterEvent(verb) = "idle" THEN Idle
                 ELSE [cmd[p] EXCEPT !.at = AfterEvent(verb)]]
    /\ UNCHANGED <<assignments, gaps, uncovered, detected, changes, files, values, clock,
                   happened>>

\* A pack delivered is a value event, in a transaction of its own; nothing reads
\* it. The same command may have another audience's pack to write.
WriteValue(p) ==
    /\ At(p, "value")
    /\ values' = values + 1
    /\ \/ cmd' = [cmd EXCEPT ![p] = Idle]
       \/ Len(events) < MaxEvents /\ cmd' = [cmd EXCEPT ![p].at = "event"]
    /\ UNCHANGED <<events, assignments, gaps, uncovered, questions, detected, changes,
                   files, clock, upset, happened>>

\* close_handover: the new assignment, the end of the prior one, the open gaps
\* nobody owns, the closing row, and the check that the owner is the receiving
\* one, or nothing at all.
ReceivingOwner(h) == events[h].owner

Transfer(p) ==
    LET now   == cmd[p].now
        owner == ReceivingOwner(cmd[p].handover)
        prior == CurrentOwner("system", now)
    IN  /\ At(p, "transfer")
        /\ assignments' = Append([n \in DOMAIN assignments |->
                             IF n = prior /\ Ended(prior)
                             THEN [assignments[n] EXCEPT !.to = now] ELSE assignments[n]],
                                Assignment("system", owner, now))
        /\ gaps' = [g \in Gap |-> IF g \in OpenGaps(now) /\ gaps[g].owner = NoOne
                                  THEN Disposed("acknowledged", owner, 0) ELSE gaps[g]]
        /\ events' = Append(events, Event("closed", cmd[p].handover, now))
        /\ cmd' = [cmd EXCEPT ![p].at = "acceptance"]
        /\ WhoOwns("system", now)' = owner
        /\ UNCHANGED <<uncovered, questions, detected, changes, files, values, clock,
                       upset, happened>>

\* It is a rendering of the trail as it stands.
AcceptanceRecord == <<Newest(Handovers), Len(events)>>

\* The record of the newest handover, beside the bundle.
WriteAcceptance(p) ==
    /\ At(p, "acceptance")
    /\ files' = [files EXCEPT !.acceptance = AcceptanceRecord]
    /\ cmd' = [cmd EXCEPT ![p] = Idle]
    /\ UNCHANGED <<events, assignments, gaps, uncovered, questions, detected, changes,
                   values, clock, upset, happened>>

-----------------------------------------------------------------------------
(* Meanwhile.                                                               *)

Happens == happened < MaxHappenings /\ happened' = happened + 1

\* A refresh that finds a task's referent changed reads its clock, and may be
\* killed before it records what it found.
Detect(t) ==
    /\ Tick /\ Happens /\ detected[t] = 0
    /\ detected' = [detected EXCEPT ![t] = clock + 1]
    /\ upset' = upset \cup {<<t, clock + 1>>}
    /\ UNCHANGED <<events, assignments, gaps, uncovered, questions, changes, files,
                   values, cmd>>

RecordChange(t) ==
    /\ detected[t] # 0
    /\ changes' = [changes EXCEPT ![t] = @ \cup {detected[t]}]
    /\ detected' = [detected EXCEPT ![t] = 0]
    /\ UNCHANGED <<events, assignments, gaps, uncovered, questions, files, values, clock,
                   cmd, upset, happened>>

\* adopt gaps disposes of one, with or without an owner.
DisposeGap(g) ==
    /\ Happens
    /\ \E status \in Dispositions, owner \in Owner \cup {NoOne} :
         gaps' = [gaps EXCEPT ![g] =
                     Disposed(status, owner, IF status = "waived" THEN clock + 1 ELSE 0)]
    /\ UNCHANGED <<events, assignments, uncovered, questions, detected, changes, files,
                   values, clock, cmd, upset>>

\* A referent is covered, or is no longer.
Coverage(g) ==
    /\ Happens
    /\ uncovered' = (uncovered \ {g}) \cup ({g} \ uncovered)
    /\ UNCHANGED <<events, assignments, gaps, questions, detected, changes, files, values,
                   clock, cmd, upset>>

\* The directory is cleared, or another is named.
FreshDirectory ==
    /\ Happens /\ files.bundle # 0
    /\ files' = [files EXCEPT !.bundle = 0]
    /\ UNCHANGED <<events, assignments, gaps, uncovered, questions, detected, changes,
                   values, clock, cmd, upset>>

Kill(p) ==
    /\ Happens /\ ~At(p, "idle")
    /\ cmd' = [cmd EXCEPT ![p] = Idle]
    /\ UNCHANGED <<events, assignments, gaps, uncovered, questions, detected, changes,
                   files, values, clock, upset>>

Next ==
    \/ \E p \in Operator : \/ Start(p) \/ Elicit(p) \/ Pack(p) \/ Verify(p) \/ Snapshot(p)
                           \/ Close(p) \/ WriteBundle(p) \/ WriteValue(p)
                           \/ WriteEvent(p) \/ Transfer(p)
                           \/ WriteAcceptance(p) \/ Kill(p)
    \/ \E t \in Task : Detect(t) \/ RecordChange(t)
    \/ \E g \in Gap : DisposeGap(g) \/ Coverage(g)
    \/ FreshDirectory

Spec == Init /\ [][Next]_vars

-----------------------------------------------------------------------------
\* Whatever operators race and whichever commands are killed, an event of a
\* handover is written only after an event of every step before it, the start
\* row first (require checks the immediate prerequisite alone).
StepsInOrder ==
    \A n \in DOMAIN events :
        /\ events[n].handover \in Handovers
        /\ \A k \in 1..(PositionOf(events[n].type) - 1) :
              \E m \in 1..(n - 1) :
                  events[m].handover = events[n].handover /\ events[m].type = Steps[k]

\* Once a handover has closed, the system always has an owner, and it is one a
\* closed handover gave it to; and a close never takes from the engagement's
\* other systems the owner they had (close_handover, current_owner).
OwnedThroughout ==
    /\ (\E h \in Handovers : IsClosed(h)) =>
          WhoOwns("system", clock) \in {ReceivingOwner(h) : h \in {h \in Handovers : IsClosed(h)}}
    /\ assignments[1].system = "engagement" =>
          WhoOwns("other", clock) = assignments[1].owner

\* At a close every referent still uncovered has a gap somebody owns, or one
\* resolved, or waived to a later day (close_handover: "transfer with owners").
NothingTransfersUnowned ==
    [][\A p \in Operator : Transfer(p) =>
          \A g \in uncovered :
              \/ gaps'[g].owner # NoOne
              \/ gaps'[g].status = "resolved"
              \/ gaps'[g].status = "waived" /\ gaps'[g].until > cmd[p].now]_vars

\* A test the trail counts as valid has no recorded change of its referent that
\* was detected after the last time a round of the test was recorded, whatever
\* other rounds came between (validity: "an exit drill whose result cannot go
\* stale is a certificate").
ValidMeansUnchanged ==
    \A u \in upset :
        u[2] \in changes[u[1]] => \A h \in Handovers : u[1] \notin Valid(h)

\* No system has two handovers open at once (start: "two records of one
\* transfer is the fork a resumable checklist must not silently make").
OneOpenHandover == Cardinality({h \in Handovers : ~IsClosed(h)}) <= 1
=============================================================================
