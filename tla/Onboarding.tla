----------------------------- MODULE Onboarding -----------------------------
(***************************************************************************)
(* How a system enters a store: adopt init, adopt boundary --scope and      *)
(* adopt envelope validate (adopt-cli), over the scope facade (adopt-scope),*)
(* the tier negotiation (adopt-detect) and the boundary facade              *)
(* (adopt-store), and the lifecycle of the systems entered.                 *)
(*                                                                         *)
(* adopt init writes level after level, each in a transaction of its own,   *)
(* and the boundary in a last one; it looks a level up before it creates    *)
(* it.  Commands of several processes interleave between those steps, and   *)
(* any may be killed there.  Rows are never deleted.                        *)
(***************************************************************************)
EXTENDS Detection

CONSTANTS
    Process,
    Trees,      \* what adopt detect may be pointed at
    Clients,    \* those of them adopt init is pointed at
    Paths,      \* scopes named: firm, engagement, system, environment
    AnswerSets, \* [artifact, deploy, safe]
    Named,      \* what --archetype may name, NoArchetype when it is not given
    Envelopes,  \* [policy, content]
    Slugs,      \* the slugs that are well formed
    LifecycleStates, Discovered,
    MaxStarts, MaxEvents, MaxChecks

ASSUME OnboardingAssumption ==
    /\ \A path \in Paths : Len(path) = 4
    /\ \A tree \in Trees : tree \in Seq(Range(tree))
    /\ Clients \subseteq Trees
    /\ Named \subseteq Archetypes \cup {NoArchetype}
    /\ Discovered \in LifecycleStates
    /\ {MaxStarts, MaxEvents, MaxChecks} \subseteq Nat

VARIABLES
    rows,       \* firm, engagement, system, environment rows, in the order created
    boundaries, \* observability_boundary rows, in the order committed
    events,     \* system_lifecycle_event rows
    clock,
    cmd,        \* what each process is doing
    said,       \* what adopt detect printed last
    done,       \* what the init that finished last reported
    checked,    \* history: the last envelope judged, and by which boundary
    starts, checks

vars == <<rows, boundaries, events, clock, cmd, said, done, checked, starts, checks>>

SystemLevel == 3
Levels == 4

Idle == [at |-> "idle", verb |-> "", path |-> <<>>, depth |-> 0, ids |-> <<>>,
         tier |-> 0, archetype |-> NoArchetype, now |-> 0, before |-> 0]

-----------------------------------------------------------------------------
(* The tier ladder.                                                         *)

Negotiate(answers) ==
    IF ~answers.artifact THEN 0
    ELSE 1 + (IF answers.deploy THEN 1 ELSE 0) + (IF answers.safe THEN 2 ELSE 0)

-----------------------------------------------------------------------------
(* The scope tree.                                                          *)

FoundByEnvironmentSlug(level, parent, slug) ==
    {n \in DOMAIN rows : /\ rows[n].level = level
                         /\ rows[n].slug = slug
                         /\ level = Levels \/ rows[n].parent = parent}

\* find_firm, find_engagement, find_system, find_environment.
Found(level, parent, slug) ==
    {n \in DOMAIN rows : /\ rows[n].level = level /\ rows[n].slug = slug
                         /\ rows[n].parent = parent}

Parent(ids) == IF ids = <<>> THEN 0 ELSE Last(ids)

Below(ids, path, level) ==
    LET hits == Found(level, Parent(ids), path[level])
    IN  IF level > Len(path) \/ Len(ids) # level - 1 \/ hits = {} THEN ids
        ELSE Append(ids, Min(hits))

\* resolve: the rows along the path, down to the first level that is missing.
Resolved(path) == Below(Below(Below(Below(<<>>, path, 1), path, 2), path, 3), path, 4)

RowAt(path, level, archetype) ==
    [level |-> level, slug |-> path[level], parent |-> Parent(Resolved(SubSeq(path, 1, level - 1))),
     archetype |-> IF level = SystemLevel THEN archetype ELSE NoArchetype,
     state |-> IF level = SystemLevel THEN Discovered ELSE ""]

Systems == {n \in DOMAIN rows : rows[n].level = SystemLevel}

-----------------------------------------------------------------------------
(* Boundaries.                                                              *)

Environment(ids) == IF Len(ids) = Levels THEN ids[Levels] ELSE 0

DeclaredFor(system, environment) ==
    {n \in DOMAIN boundaries : /\ boundaries[n].system = system
                               /\ boundaries[n].environment = environment}

LatestForSystem(system, environment) ==
    LET all == {n \in DOMAIN boundaries : boundaries[n].system = system}
    IN  IF all = {} THEN 0
        ELSE CHOOSE n \in all : \A m \in all : boundaries[n].at >= boundaries[m].at

\* latest_boundary: by when it was declared; a system-wide boundary does not
\* answer for an environment.
Latest(system, environment) ==
    LET all == DeclaredFor(system, environment)
    IN  IF all = {} THEN 0
        ELSE CHOOSE n \in all : \A m \in all : boundaries[n].at >= boundaries[m].at

\* The CLI never declares a wider list than the default.
Permitted == {"metadata_only"}

Verdict(envelope) ==
    CASE envelope.policy \notin Permitted -> "policy refused"
      [] envelope.policy \in Permitted /\ envelope.content -> "content refused"
      [] OTHER -> "cleared"

-----------------------------------------------------------------------------
OnboardingInit ==
    /\ rows = <<>> /\ boundaries = <<>> /\ events = <<>>
    /\ clock = 1
    /\ cmd = [p \in Process |-> Idle]
    /\ said = [tree |-> <<>>, fired |-> {}, archetype |-> NoArchetype, considered |-> 0,
               truncated |-> FALSE]
    /\ done = Idle
    /\ checked = [verdict |-> "", system |-> 0, environment |-> 0, used |-> 0, seen |-> 0]
    /\ starts = 0 /\ checks = 0

\* adopt detect: reads the tree and prints; an AI proposal is printed beside an
\* ambiguous result and never accepted.
DetectTree ==
    \E tree \in Trees :
        /\ checks < MaxChecks
        /\ said' = Detect(tree)
        /\ checks' = checks + 1
        /\ UNCHANGED <<rows, boundaries, events, clock, cmd, done, checked, starts>>

\* adopt init, up to the store: an ambiguous tree that nobody named an
\* archetype for is refused, and nothing is written.
StartInit(p) ==
    \E path \in Paths, answers \in AnswerSets, tree \in Clients, named \in Named :
        LET result    == Detect(tree)
            effective == IF named # NoArchetype THEN named ELSE result.archetype
        IN  /\ cmd[p].at = "idle" /\ starts < MaxStarts
            /\ effective # NoArchetype
            /\ cmd' = [cmd EXCEPT ![p] =
                  [Idle EXCEPT !.at = "look", !.verb = "init", !.path = path,
                               !.tier = Negotiate(answers), !.archetype = effective,
                               !.before = Len(boundaries)]]
            /\ starts' = starts + 1
            /\ UNCHANGED <<rows, boundaries, events, clock, said, done, checked, checks>>

\* adopt boundary --scope: the system, or one environment of it.
StartBoundary(p) ==
    \E path \in Paths, depth \in {SystemLevel, Levels}, answers \in AnswerSets :
        LET ids == Resolved(SubSeq(path, 1, depth))
        IN  /\ cmd[p].at = "idle" /\ starts < MaxStarts
            /\ Len(ids) = depth
            /\ cmd' = [cmd EXCEPT ![p] =
                  [Idle EXCEPT !.at = "stamp", !.verb = "boundary", !.path = path,
                               !.depth = depth, !.ids = ids, !.tier = Negotiate(answers),
                               !.before = Len(boundaries)]]
            /\ starts' = starts + 1
            /\ UNCHANGED <<rows, boundaries, events, clock, said, done, checked, checks>>

\* _ensure_scope resolves prefix after prefix; a level that is there stays, so
\* the reads of those are one step with the read of the first that is missing.
LookUp(p) ==
    LET c   == cmd[p]
        ids == Resolved(c.path)
    IN  /\ c.at = "look"
        /\ cmd' = [cmd EXCEPT ![p] =
              IF Len(ids) < Levels THEN [c EXCEPT !.at = "create", !.depth = Len(ids) + 1]
              ELSE [c EXCEPT !.at = "stamp", !.ids = ids]]
        /\ UNCHANGED <<rows, boundaries, events, clock, said, done, checked, starts, checks>>

SlugIsFreeUnchecked(row) == row.slug \in Slugs

\* create_firm, create_engagement, create_system, create_environment: validate
\* the slug, and in the transaction that it is not taken.
SlugIsFree(row) == row.slug \in Slugs /\ Found(row.level, row.parent, row.slug) = {}

\* Refused, the command ends where it is: the levels above stay.
Create(p) ==
    LET c   == cmd[p]
        row == RowAt(c.path, c.depth, c.archetype)
    IN  /\ c.at = "create"
        /\ rows' = IF SlugIsFree(row) THEN Append(rows, row) ELSE rows
        /\ cmd' = [cmd EXCEPT ![p] =
                      IF SlugIsFree(row) THEN [c EXCEPT !.at = "look"] ELSE Idle]
        /\ UNCHANGED <<boundaries, events, clock, said, done, checked, starts, checks>>

\* declare reads the clock when it makes the row, before the transaction.
Stamp(p) ==
    /\ cmd[p].at = "stamp"
    /\ clock' = clock + 1
    /\ cmd' = [cmd EXCEPT ![p].at = "declare", ![p].now = clock]
    /\ UNCHANGED <<rows, boundaries, events, said, done, checked, starts, checks>>

BoundaryRow(c) ==
    [system |-> c.ids[SystemLevel], environment |-> Environment(c.ids),
     tier |-> c.tier, at |-> c.now, before |-> c.before]

Declare(p) ==
    LET c == cmd[p]
    IN  /\ c.at = "declare"
        /\ boundaries' = Append(boundaries, BoundaryRow(c))
        /\ done' = IF c.verb = "init" THEN [c EXCEPT !.at = "done"] ELSE done
        /\ cmd' = [cmd EXCEPT ![p] = Idle]
        /\ UNCHANGED <<rows, events, clock, said, checked, starts, checks>>

Kill(p) ==
    /\ cmd[p].at # "idle"
    /\ cmd' = [cmd EXCEPT ![p] = Idle]
    /\ UNCHANGED <<rows, boundaries, events, clock, said, done, checked, starts, checks>>

\* adopt envelope validate --scope: refused where no boundary was declared.
ValidateEnvelope ==
    \E path \in Paths, depth \in {SystemLevel, Levels}, envelope \in Envelopes :
        LET ids     == Resolved(SubSeq(path, 1, depth))
            current == Latest(ids[SystemLevel], Environment(ids))
        IN  /\ checks < MaxChecks
            /\ Len(ids) = depth
            /\ current # 0
            /\ checked' = [verdict |-> Verdict(envelope), system |-> ids[SystemLevel],
                           environment |-> Environment(ids), used |-> current,
                           seen |-> Len(boundaries)]
            /\ checks' = checks + 1
            /\ UNCHANGED <<rows, boundaries, events, clock, cmd, said, done, starts>>

\* The counterpart of a merge or a split keeps its state.
CounterpartEvent(counterpart, system) ==
    [system |-> counterpart, from |-> rows[counterpart].state,
     to |-> rows[counterpart].state, related |-> system]

\* ScopeFacade.transition: one transaction, any state to any state.
Transition ==
    \E system \in Systems, to \in LifecycleStates, counterpart \in Systems \cup {0} :
        /\ counterpart # system
        /\ Len(events) < MaxEvents
        /\ rows' = [rows EXCEPT ![system].state = to]
        /\ events' = events
             \o <<[system |-> system, from |-> rows[system].state, to |-> to,
                   related |-> counterpart]>>
             \o (IF counterpart = 0 THEN <<>>
                 ELSE <<CounterpartEvent(counterpart, system)>>)
        /\ UNCHANGED <<boundaries, clock, cmd, said, done, checked, starts, checks>>

OnboardingNext ==
    \/ DetectTree
    \/ \E p \in Process : StartInit(p)
    \/ \E p \in Process : StartBoundary(p)
    \/ \E p \in Process : LookUp(p)
    \/ \E p \in Process : Create(p)
    \/ \E p \in Process : Stamp(p)
    \/ \E p \in Process : Declare(p)
    \/ \E p \in Process : Kill(p)
    \/ ValidateEnvelope
    \/ Transition

OnboardingSpec == OnboardingInit /\ [][OnboardingNext]_vars

-----------------------------------------------------------------------------
(* Properties.                                                              *)

\* However many commands look a level up before one of them creates it, and
\* whatever state a system went to since, one path names one row: a slug is
\* never issued twice under one parent.
OneRowPerPath ==
    \A m, n \in DOMAIN rows :
        /\ rows[m].level = rows[n].level
        /\ rows[m].parent = rows[n].parent
        /\ rows[m].slug = rows[n].slug
        => m = n

\* An init that reports success leaves what it reports: the rows of its own
\* path, each under the one above, and a boundary of its tier declared for that
\* environment, whatever other commands and kills came between its steps.
InitLeavesAWholeScope ==
    done # Idle =>
        /\ Len(done.ids) = Levels
        /\ \A level \in 1..Levels :
              /\ rows[done.ids[level]].slug = done.path[level]
              /\ rows[done.ids[level]].parent = IF level = 1 THEN 0 ELSE done.ids[level - 1]
        /\ \E b \in DOMAIN boundaries :
              /\ boundaries[b].system = done.ids[SystemLevel]
              /\ boundaries[b].environment = done.ids[Levels]
              /\ boundaries[b].tier = done.tier

\* The boundary an envelope is judged by was declared for its own scope, and no
\* command that began after that boundary was committed had replaced it.
JudgedByTheBoundaryInForce ==
    checked.used # 0 =>
        /\ boundaries[checked.used].system = checked.system
        /\ boundaries[checked.used].environment = checked.environment
        /\ \A b \in 1..checked.seen :
              /\ boundaries[b].system = checked.system
              /\ boundaries[b].environment = checked.environment
              => boundaries[b].before < checked.used

\* The archetype reported is the one that the rules the files in reach fire
\* give, each rule once and under its own archetype, in whatever order the
\* files come; on ConfidenceMin of their weight, or on none.
VerdictIsTheEvidence ==
    LET reach  == {n \in DOMAIN said.tree : Reached(said.tree[n])}
        fired  == {r \in Rule : \E n \in reach : Fires(r, said.tree[n])}
        total  == MapThenSumSet(LAMBDA r : r.weight, fired)
        ofa(a) == MapThenSumSet(LAMBDA r : r.weight, {r \in fired : r.archetype = a})
    IN  said.tree # <<>> /\ ~said.truncated =>
            IF said.archetype = NoArchetype
            THEN \A a \in Archetypes : total = 0 \/ 100 * ofa(a) < ConfidenceMin * total
            ELSE total > 0 /\ 100 * ofa(said.archetype) >= ConfidenceMin * total

\* "Hitting a bound is reported rather than silently truncating the evidence":
\* a result that left a file out for a bound of the walk says so.
BoundsAreReported ==
    LET inScope == {n \in DOMAIN said.tree : InScope(said.tree[n])}
    IN  said.considered < Cardinality(inScope) => said.truncated
=============================================================================
