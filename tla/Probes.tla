------------------------------- MODULE Probes -------------------------------
(***************************************************************************)
(* Probes of a client's system (packages/adopt-probe and the adopt probe,  *)
(* refresh and ci-sense commands): definitions and their revisions, runs,   *)
(* baselines, the conflicts a drift opens against confirmed knowledge, the  *)
(* sensor a run reports to, and the referents a refresh marks as changed.   *)
(*                                                                         *)
(* A command is a process: it reads, talks to the system, and writes, each  *)
(* transaction a step, and it may be killed between two of them.            *)
(***************************************************************************)
EXTENDS Naturals, Sequences, FiniteSets, SequencesExt, FiniteSetsExt

CONSTANTS
    Runner,     \* processes that run, refresh, and set baselines
    Editor,     \* processes that add and edit probes
    ProbeFiles, \* the probe files there are, well formed or not
    Ceiling,    \* PROBE_TIMEOUT_SECONDS
    Identity,   \* the referents the store knows
    Item,       \* knowledge items, each bound to one referent by On
    On,         \* [Item -> Identity]
    World,      \* the ways the client's system can behave
    Usual,      \* the way it behaves at first
    MaxRuns, MaxBaselines, MaxRevisions, MaxTurns, MaxKills

ASSUME ProbeFilesAssumption ==
    \A file \in ProbeFiles : file.steps \in Seq(Range(file.steps))
ASSUME BoundAssumption == On \in [Item -> STRING] /\ Usual \in World

Worker == Runner \cup Editor

VARIABLES
    probes,     \* probe_definition: its name and its revisions, the head last
    runs,       \* probe_run with its probe_observations, in starting order; one
                \* that is "running" is a moment, not yet a row
    baselines,  \* baseline_version, in the order they were set
    conflicts,  \* conflict rows; nothing in this code closes one
    sensors,    \* the probe sensors of the scope
    items,      \* the knowledge bound to the referents
    world,      \* how the client's system behaves now
    cmd,        \* what each process is doing
    charged,    \* history: what refreshes reported as changed, and why
    turns, kills

store == <<probes, runs, baselines, conflicts, sensors>>
vars  == <<store, items, world, cmd, charged, turns, kills>>

NoSpec == [name |-> "", steps |-> <<>>, exercises |-> {}, refs |-> {}, hosts |-> {},
           method |-> "exact", seconds |-> 0, requests |-> 0, calls |-> 0]
Idle   == [at |-> "idle", verb |-> "", spec |-> NoSpec, probe |-> 0, head |-> 0,
           pairs |-> {}, sensor |-> 0, run |-> 0, base |-> 0, reports |-> {},
           judged |-> {}, todo |-> {}, absent |-> {}, carried |-> {}]

Init ==
    /\ probes = <<>> /\ runs = <<>> /\ baselines = <<>>
    /\ conflicts = <<>> /\ sensors = <<>>
    /\ items = [k \in Item |-> [bound |-> "active", head |-> 1, verified |-> TRUE,
                                retired |-> FALSE]]
    /\ world = Usual
    /\ cmd = [w \in Worker |-> Idle]
    /\ charged = {} /\ turns = 0 /\ kills = 0

-----------------------------------------------------------------------------
(* parse_probe: the files that become a definition.                         *)

ExpectationHolds(step) == step.tolerance \in Nat /\ step.status \in Nat

UsesDeclared(step, refs) == step.uses \subseteq refs

\* A step interpolates declared secrets only, and an http step has a host.
StepParses(step, refs) ==
    /\ step.kind \in {"http", "prompt"}
    /\ step.kind = "http" => step.host # ""
    /\ UsesDeclared(step, refs)
    /\ ExpectationHolds(step)

WithinLimits(file) ==
    /\ file.seconds \in 0 .. Ceiling
    /\ file.requests \in Nat /\ file.calls \in Nat

Hosts(file) == {step.host : step \in {step \in Range(file.steps) : step.kind = "http"}}

Parses(file) ==
    /\ file.name # "" /\ file.steps # <<>>
    /\ file.method = "exact"
    /\ \A step \in Range(file.steps) : StepParses(step, file.refs)
    /\ WithinLimits(file)
    /\ Hosts(file) \subseteq file.hosts

-----------------------------------------------------------------------------
(* What a run of a probe observes.  An output keeps what comparisons read:  *)
(* the status, the JSON fields present, and the text, a number whose        *)
(* distance to another stands for how unlike the two texts are.             *)

Output(step, w) ==
    IF step.kind = "http"
    THEN [kind |-> "http", status |-> w.status, fields |-> w.fields, text |-> w.text]
    ELSE [kind |-> "prompt", status |-> 0, fields |-> {}, text |-> w.text]

Violates(step, w) ==
    LET out == Output(step, w)
    IN  \/ step.status \notin {0, out.status}
        \/ step.timed /\ w.slow
        \/ ~(step.fields \subseteq out.fields)

Undeclared(spec, i) == spec.steps[i].kind = "http" /\ spec.steps[i].host \notin spec.hosts

MissingSecrets(spec, w) == spec.refs \ w.secrets

Spent(spec, kind, i) == Cardinality({j \in 1 .. i : spec.steps[j].kind = kind})

OverBudget(spec, i) ==
    \/ Spent(spec, "http", i) > spec.requests
    \/ Spent(spec, "prompt", i) > spec.calls

Unanswered(spec, w, i) ==
    \/ spec.steps[i].kind = "http" /\ ~w.up
    \/ spec.steps[i].kind = "prompt" /\ ~w.agent

Stops(spec, w) ==
    {i \in DOMAIN spec.steps :
        OverBudget(spec, i) \/ Undeclared(spec, i) \/ Unanswered(spec, w, i)}

\* The ways a run can end: how many steps were observed, and why it stopped.
\* A slow system may exhaust the wall clock at any step.
Endings(spec, w) ==
    IF MissingSecrets(spec, w) # {} THEN {[seen |-> 0, why |-> "unanswered"]}
    ELSE LET stop == IF Stops(spec, w) = {} THEN Len(spec.steps) + 1 ELSE Min(Stops(spec, w))
         IN  {[seen |-> stop - 1,
               why  |-> CASE stop > Len(spec.steps)  -> "done"
                          [] OverBudget(spec, stop)  -> "budget"
                          [] Undeclared(spec, stop)  -> "undeclared"
                          [] OTHER                   -> "unanswered"]}
             \cup {[seen |-> k, why |-> "budget"] : k \in IF w.slow THEN 0 .. stop - 2 ELSE {}}

-----------------------------------------------------------------------------
(* Comparing a run with a baseline.                                         *)

Distance(a, b) == IF a > b THEN a - b ELSE b - a

\* The fields that a step declares and that were there are still there.
FieldsLost(step, was, is) == (step.fields \cap was.fields) \ is.fields # {}

\* A step the probe does not have declares neither fields nor a tolerance: its
\* text may change, its status may not.
StepDrifted(steps, i, was, is) ==
    \/ was.status # is.status
    \/ /\ i \in DOMAIN steps /\ was # is
       /\ FieldsLost(steps[i], was, is) \/ Distance(was.text, is.text) > steps[i].tolerance

OutputsDrifted(was, is, steps) ==
    \E i \in 1 .. Max({Len(was), Len(is)}) :
        \/ i > Len(was)
        \/ i > Len(is)
        \/ i <= Len(was) /\ i <= Len(is) /\ StepDrifted(steps, i, was[i], is[i])

VerdictAcrossEdits(b, probe, rev, outputs, steps) ==
    CASE b = 0                  -> "no_baseline"
      [] OTHER -> IF OutputsDrifted(baselines[b].outputs, outputs, steps)
                  THEN "drift" ELSE "unchanged"

\* b = 0: there is no baseline.
Verdict(b, probe, rev, outputs, steps) ==
    CASE b = 0                  -> "no_baseline"
      [] b # 0 /\ <<baselines[b].probe, baselines[b].rev>> # <<probe, rev>>
                                -> "probe_changed"
      [] OTHER -> IF OutputsDrifted(baselines[b].outputs, outputs, steps)
                  THEN "drift" ELSE "unchanged"

Newest(S) == IF S = {} THEN 0 ELSE Max(S)

BaselineFor(probe, rev) ==
    Newest({b \in DOMAIN baselines : baselines[b].probe = probe /\ baselines[b].rev = rev})
ProbeBaseline(probe) == Newest({b \in DOMAIN baselines : baselines[b].probe = probe})
LatestRun(probe) ==
    Newest({r \in DOMAIN runs : runs[r].probe = probe /\ runs[r].outcome # "running"})

Outcome(spec, w, end, b, probe, rev) ==
    LET outputs == [i \in 1 .. end.seen |-> Output(spec.steps[i], w)]
    IN  CASE end.why = "unanswered" -> "failure"
          [] end.why = "undeclared" -> "blocked_by_manifest"
          [] end.why = "budget" -> IF end.seen = 0 THEN "blocked_by_manifest" ELSE "failure"
          [] OTHER ->
               IF \E i \in 1 .. end.seen : Violates(spec.steps[i], w) THEN "failure"
               ELSE IF Verdict(b, probe, rev, outputs, spec.steps) = "drift"
                    THEN "diff" ELSE "success"

-----------------------------------------------------------------------------
(* adopt probe add.                                                         *)

HeadRev(p)   == Len(probes[p].revs)
HeadSpec(p)  == Last(probes[p].revs).spec
Active(p)    == Last(probes[p].revs).status = "active"
Named(name)  == {p \in DOMAIN probes : probes[p].name = name}

AddRead(w) ==
    /\ cmd[w].at = "idle"
    /\ \E spec \in ProbeFiles :
         LET found == Named(spec.name)
             p     == IF found = {} THEN 0 ELSE Min(found)
         IN  /\ Parses(spec)
             /\ p # 0 => HeadSpec(p) # spec \/ ~Active(p)
             /\ cmd' = [cmd EXCEPT ![w] = [Idle EXCEPT
                           !.at = "adding", !.verb = "add", !.spec = spec, !.probe = p,
                           !.head = IF p = 0 THEN 0 ELSE HeadRev(p)]]
    /\ UNCHANGED <<store, items, world, charged, turns, kills>>

Revision(spec) == [spec |-> spec, status |-> "active"]

Create(w) ==
    /\ cmd[w].at = "adding" /\ cmd[w].probe = 0 /\ Len(probes) < MaxRevisions
    /\ probes' = Append(probes, [name |-> cmd[w].spec.name, revs |-> <<Revision(cmd[w].spec)>>])
    /\ cmd' = [cmd EXCEPT ![w] = Idle]
    /\ UNCHANGED <<runs, baselines, conflicts, sensors, items, world, charged, turns, kills>>

\* append_revision refuses a head that moved since it was read.
Revise(w) ==
    LET p == cmd[w].probe
    IN  /\ cmd[w].at = "adding" /\ p # 0 /\ HeadRev(p) < MaxRevisions
        /\ probes' = IF HeadRev(p) = cmd[w].head
                     THEN [probes EXCEPT ![p].revs = Append(@, Revision(cmd[w].spec))]
                     ELSE probes
        /\ cmd' = [cmd EXCEPT ![w] = Idle]
        /\ UNCHANGED <<runs, baselines, conflicts, sensors, items, world, charged, turns, kills>>

\* ProbeFacade.retire: the terminal revision repeats the head's content.
RetireProbe(w) ==
    /\ cmd[w].at = "idle"
    /\ \E p \in DOMAIN probes :
         /\ Active(p) /\ HeadRev(p) < MaxRevisions
         /\ probes' = [probes EXCEPT ![p].revs =
                          Append(@, [Last(@) EXCEPT !.status = "retired"])]
    /\ UNCHANGED <<runs, baselines, conflicts, sensors, items, world, cmd, charged, turns, kills>>

-----------------------------------------------------------------------------
(* adopt probe run, and the probe half of adopt refresh.                    *)

Stay == /\ UNCHANGED <<items, world, turns, kills>>
At(w, stage) == cmd[w].at = stage

\* The active revisions of the probes in scope, which run in their order.
Pairs(targets) == {[probe |-> p, rev |-> HeadRev(p)] : p \in {p \in targets : Active(p)}}

First(pairs) == CHOOSE pair \in pairs : \A other \in pairs : pair.probe <= other.probe

\* execute_in_scope: one probe or all of them, and the sensor if there is one.
Start(w) ==
    /\ At(w, "idle")
    /\ \E verb \in {"run", "refresh"} :
       \E targets \in {DOMAIN probes} \cup {{p} : p \in DOMAIN probes} :
         /\ Pairs(targets) # {}
         /\ verb = "refresh" => targets = DOMAIN probes
         /\ cmd' = [cmd EXCEPT ![w] = [Idle EXCEPT
                       !.at = IF sensors = <<>> THEN "register" ELSE "probe",
                       !.verb = verb, !.pairs = Pairs(targets),
                       !.sensor = IF sensors = <<>> THEN 0 ELSE 1]]
    /\ UNCHANGED <<store, charged>> /\ Stay

Register(w) ==
    /\ At(w, "register")
    /\ sensors' = Append(sensors, [health |-> "UNVERIFIED", beats |-> 0])
    /\ cmd' = [cmd EXCEPT ![w].at = "probe", ![w].sensor = Len(sensors) + 1]
    /\ UNCHANGED <<probes, runs, baselines, conflicts, charged>> /\ Stay

\* _baseline_for, then the clock is read: the row is inserted when the run
\* ends, and sorts by this moment.
Begin(w) ==
    /\ At(w, "probe") /\ cmd[w].pairs # {} /\ Len(runs) < MaxRuns
    /\ LET pair == First(cmd[w].pairs)
           base == BaselineFor(pair.probe, pair.rev)
       IN  /\ runs' = Append(runs, [probe |-> pair.probe, rev |-> pair.rev,
                                    outcome |-> "running", outputs |-> <<>>, base |-> base])
           /\ cmd' = [cmd EXCEPT ![w].at = "running", ![w].run = Len(runs) + 1, ![w].base = base]
    /\ UNCHANGED <<probes, baselines, conflicts, sensors, charged>> /\ Stay

\* execute_probe up to _record: one transaction for the run and its steps.
Record(w) ==
    LET pair == First(cmd[w].pairs)
        spec == probes[pair.probe].revs[pair.rev].spec
    IN  /\ At(w, "running")
        /\ \E end \in Endings(spec, world) :
             LET done == [runs[cmd[w].run] EXCEPT
                            !.outcome = Outcome(spec, world, end, cmd[w].base, pair.probe, pair.rev),
                            !.outputs = [i \in 1 .. end.seen |-> Output(spec.steps[i], world)]]
             IN  runs' = [runs EXCEPT ![cmd[w].run] = done]
        /\ cmd' = [cmd EXCEPT ![w].at = "beat", ![w].reports = @ \cup {cmd[w].run}]
        /\ UNCHANGED <<probes, baselines, conflicts, sensors, charged>> /\ Stay

Health(outcome) ==
    CASE outcome \in {"success", "diff"}     -> "HEALTHY"
      [] outcome = "failure"                 -> "FAILED"
      [] outcome = "blocked_by_manifest"     -> "DEGRADED"

Heartbeat(w) ==
    /\ At(w, "beat")
    /\ sensors' = [sensors EXCEPT ![cmd[w].sensor].health = Health(runs[cmd[w].run].outcome),
                                  ![cmd[w].sensor].beats = @ + 1]
    /\ cmd' = [cmd EXCEPT ![w].at = "probe", ![w].pairs = @ \ {First(@)}]
    /\ UNCHANGED <<probes, runs, baselines, conflicts, charged>> /\ Stay

\* conflicting_intents: the confirmed heads bound to an exercised referent.
Intents(exercises) ==
    {[identity |-> On[k], item |-> k, head |-> items[k].head] :
        k \in {k \in Item : /\ On[k] \in exercises
                            /\ items[k].bound # "retired"
                            /\ ~items[k].retired
                            /\ items[k].verified}}

Drifted(w) == {r \in cmd[w].reports : runs[r].outcome = "diff"}
Exercised(r) == probes[runs[r].probe].revs[runs[r].rev].spec.exercises

Judge(w) ==
    LET found == UNION {Intents(Exercised(r)) : r \in Drifted(w)}
    IN  /\ At(w, "probe") /\ cmd[w].pairs = {}
        /\ cmd' = [cmd EXCEPT ![w].at = "file", ![w].judged = found, ![w].todo = found]
        /\ UNCHANGED <<store, charged>> /\ Stay

OpenOnReferent(intent) == \E c \in DOMAIN conflicts : conflicts[c].identity = intent.identity

Open(intent) == \E c \in DOMAIN conflicts : conflicts[c] = intent

\* open_conflicts is asked outside the transaction that inserts.
Check(w) ==
    /\ At(w, "file") /\ cmd[w].absent = {}
    /\ \E intent \in cmd[w].todo :
         cmd' = IF Open(intent) THEN [cmd EXCEPT ![w].todo = @ \ {intent}]
                ELSE [cmd EXCEPT ![w].absent = {intent}]
    /\ UNCHANGED <<store, charged>> /\ Stay

Insert(w) ==
    /\ At(w, "file")
    /\ \E intent \in cmd[w].absent :
         /\ conflicts' = Append(conflicts, intent)
         /\ cmd' = [cmd EXCEPT ![w].todo = @ \ {intent}, ![w].absent = {}]
    /\ UNCHANGED <<probes, runs, baselines, sensors, charged>> /\ Stay

Filed(w) ==
    /\ At(w, "file") /\ cmd[w].todo = {}
    /\ cmd' = [cmd EXCEPT ![w].at = IF cmd[w].verb = "refresh" THEN "delta" ELSE "done"]
    /\ UNCHANGED <<store, charged>> /\ Stay

Finish(w) ==
    /\ At(w, "done")
    /\ cmd' = [cmd EXCEPT ![w] = Idle]
    /\ UNCHANGED <<store, charged>> /\ Stay

\* compare_in_scope: every probe of the scope, its latest run against its
\* newest baseline, the steps read from its active revision.
Compared(p) ==
    LET run == LatestRun(p)
    IN  IF run = 0 THEN "no_baseline"
        ELSE Verdict(ProbeBaseline(p), p, runs[run].rev, runs[run].outputs, HeadSpec(p).steps)

\* probe_delta: a drifted probe this refresh ran, read on the referents its
\* file exercises; record_refresh writes the entries in a later transaction.
Executed(w) == {runs[r].probe : r \in cmd[w].reports}

Delta(w) ==
    /\ At(w, "delta")
    /\ cmd' = [cmd EXCEPT ![w].at = "charge", ![w].carried =
                  UNION {{[identity |-> i, run |-> LatestRun(p), base |-> ProbeBaseline(p)] :
                             i \in Identity \cap
                                   UNION {Exercised(r) : r \in {r \in cmd[w].reports : runs[r].probe = p}}} :
                         p \in {p \in Executed(w) : Compared(p) = "drift"}}]
    /\ UNCHANGED <<store, charged>> /\ Stay

Charge(w) ==
    /\ At(w, "charge")
    /\ charged' = charged \cup cmd[w].carried
    /\ cmd' = [cmd EXCEPT ![w].at = "done"]
    /\ UNCHANGED store /\ Stay

-----------------------------------------------------------------------------
(* adopt ci-sense, the probe half: run here, stored and compared nowhere     *)
(* but on the plane.  What the tree shows is posted with it, and is not      *)
(* modelled here.                                                           *)

\* run_payload_probes: every active probe, read once.
SenseStart(w) ==
    /\ At(w, "idle") /\ Pairs(DOMAIN probes) # {}
    /\ cmd' = [cmd EXCEPT ![w] = [Idle EXCEPT !.at = "sense", !.verb = "sense",
                                              !.pairs = Pairs(DOMAIN probes)]]
    /\ UNCHANGED <<store, charged>> /\ Stay

\* _result and its heartbeat, which travel with the revision that was run.
Result(pair, outcome, outputs) ==
    [probe |-> pair.probe, rev |-> pair.rev, outcome |-> outcome, outputs |-> outputs,
     health |-> Health(outcome)]

\* execute_probe with no records and no baseline.
Observe(w) ==
    /\ At(w, "sense") /\ cmd[w].pairs # {}
    /\ LET pair == First(cmd[w].pairs)
           spec == probes[pair.probe].revs[pair.rev].spec
       IN  \E end \in Endings(spec, world) :
             cmd' = [cmd EXCEPT
                ![w].pairs = @ \ {pair},
                ![w].carried = @ \cup
                   {Result(pair, Outcome(spec, world, end, 0, pair.probe, pair.rev),
                           [i \in 1 .. end.seen |-> Output(spec.steps[i], world)])}]
    /\ UNCHANGED <<store, charged>> /\ Stay

\* build_payload and post_payload; a refused or lost post leaves nothing here.
Post(w) ==
    /\ At(w, "sense") /\ cmd[w].pairs = {}
    /\ cmd' = [cmd EXCEPT ![w] = Idle]
    /\ UNCHANGED <<store, charged>> /\ Stay

-----------------------------------------------------------------------------
(* adopt probe baseline --set.                                              *)

EligibleEver(p) ==
    {r \in DOMAIN runs : /\ runs[r].probe = p /\ runs[r].rev = HeadRev(p)
                         /\ runs[r].outcome # "running"}

Eligible(p) ==
    {r \in DOMAIN runs : /\ runs[r].probe = p /\ runs[r].rev = HeadRev(p)
                         /\ runs[r].outcome \in {"success", "diff"}}

BaselineOf(run) == [probe |-> runs[run].probe, rev |-> runs[run].rev, run |-> run,
                    outputs |-> runs[run].outputs]

\* One transaction per probe, in the order of the definitions.
StartBaselines(w) ==
    /\ At(w, "idle") /\ probes # <<>>
    /\ cmd' = [cmd EXCEPT ![w] = [Idle EXCEPT !.at = "baseline", !.verb = "baseline", !.probe = 1]]
    /\ UNCHANGED <<store, charged>> /\ Stay

SetBaseline(w) ==
    LET p   == cmd[w].probe
        run == Newest(Eligible(p))
    IN  /\ At(w, "baseline") /\ p <= Len(probes) /\ Len(baselines) < MaxBaselines
        /\ baselines' = IF run = 0 THEN baselines
                        ELSE Append(baselines, BaselineOf(run))
        /\ cmd' = [cmd EXCEPT ![w] = IF p = Len(probes) THEN Idle
                                     ELSE [cmd[w] EXCEPT !.probe = p + 1]]
        /\ UNCHANGED <<probes, runs, conflicts, sensors, charged>> /\ Stay

-----------------------------------------------------------------------------
(* Around the commands.                                                     *)

\* Killed anywhere: a run begun and not recorded never becomes a row.
Kill(w) ==
    /\ cmd[w].at # "idle" /\ kills < MaxKills
    /\ cmd' = [cmd EXCEPT ![w] = Idle]
    /\ kills' = kills + 1
    /\ UNCHANGED <<store, items, world, charged, turns>>

\* The client's system changes its behaviour.
Turn ==
    /\ turns < MaxTurns /\ turns' = turns + 1
    /\ world' \in World \ {world}
    /\ UNCHANGED <<store, items, cmd, charged, kills>>

\* Reviewers: a new head, confirmed or not; an item or a link withdrawn.
Rewrite ==
    \E k \in Item, verified \in BOOLEAN :
        /\ turns < MaxTurns /\ turns' = turns + 1
        /\ ~items[k].retired
        /\ items' = [items EXCEPT ![k].head = @ + 1, ![k].verified = verified]
        /\ UNCHANGED <<store, world, cmd, charged, kills>>

Withdraw ==
    \E k \in Item :
        /\ turns < MaxTurns /\ turns' = turns + 1
        /\ ~items[k].retired
        /\ items' = [items EXCEPT ![k].retired = TRUE, ![k].head = @ + 1]
        /\ UNCHANGED <<store, world, cmd, charged, kills>>

Unbind ==
    \E k \in Item, status \in {"moved", "retired"} :
        /\ turns < MaxTurns /\ turns' = turns + 1
        /\ items[k].bound = "active"
        /\ items' = [items EXCEPT ![k].bound = status]
        /\ UNCHANGED <<store, world, cmd, charged, kills>>

Next ==
    \/ \E w \in Editor : AddRead(w) \/ Create(w) \/ Revise(w) \/ RetireProbe(w)
    \/ \E w \in Runner :
          \/ Start(w) \/ Register(w) \/ Begin(w) \/ Record(w) \/ Heartbeat(w)
          \/ Judge(w) \/ Check(w) \/ Insert(w) \/ Filed(w) \/ Delta(w) \/ Charge(w) \/ Finish(w)
          \/ SenseStart(w) \/ Observe(w) \/ Post(w)
          \/ StartBaselines(w) \/ SetBaseline(w)
    \/ \E w \in Worker : Kill(w)
    \/ Turn \/ Rewrite \/ Withdraw \/ Unbind

Spec == Init /\ [][Next]_vars

-----------------------------------------------------------------------------
\* Every baseline is the whole output of a run that answered: a failed run's
\* shorter observations never become what later runs are compared with
\* (set_baselines, BASELINE_ELIGIBLE_OUTCOMES).  Nor do they on the plane: what
\* CI posts as a success is the whole output of the revision it names, though
\* the probe be edited while it is observed (_ci_sense_probes: "The revision id
\* travels with every result, and it is load-bearing").
BaselinesAreWhole ==
    /\ \A w \in Runner : \A r \in {r \in cmd[w].carried : cmd[w].verb = "sense"} :
          r.outcome = "success" =>
             Len(r.outputs) = Len(probes[r.probe].revs[r.rev].spec.steps)
    /\ \A b \in DOMAIN baselines :
          /\ Len(baselines[b].outputs) =
                Len(probes[baselines[b].probe].revs[baselines[b].rev].spec.steps)
          /\ runs[baselines[b].run].rev = baselines[b].rev
          /\ runs[baselines[b].run].outputs = baselines[b].outputs

\* When a run ends, every confirmed claim its drifts contradict has a conflict
\* row, and however often the runs are repeated, or killed half way and begun
\* again, it has only one (_record_conflicts).
DriftIsFiledOnce ==
    /\ \A w \in Runner : cmd[w].at \in {"delta", "charge", "done"} =>
          cmd[w].judged \subseteq Range(conflicts)
    /\ IsInjective(conflicts)

\* A refresh never reports our own edit of a probe as a change of the client's
\* system: what it compared are outputs of one revision (probe_delta:
\* "probe_changed is never drift").
EditsAreNotDrift ==
    \A c \in charged :
        /\ runs[c.run].probe = baselines[c.base].probe
        /\ runs[c.run].rev = baselines[c.base].rev

\* A refresh reports a change only where the system answered: a probe that
\* failed is no finding (probe_delta: "A failure is not a finding").
FailureIsNotAFinding ==
    \A c \in charged : runs[c.run].outcome \in {"success", "diff"}
=============================================================================
