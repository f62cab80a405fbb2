--------------------------- MODULE WorkflowJournal ---------------------------
(***************************************************************************)
(* The in-process workflow backend (packages/adopt-workflow): runs whose    *)
(* steps are recorded in one append-only file, driven by the process that   *)
(* started them, and re-driven by recover() after that process died.        *)
(*                                                                         *)
(* The file is only ever folded, so the model keeps the fold: one row per   *)
(* run, the effects committed, and whether the last line is incomplete.     *)
(* Every append is a step of its own; a process may die between two.        *)
(***************************************************************************)
EXTENDS Naturals, Sequences, FiniteSets

CONSTANTS
    Driver,       \* the process that starts and recovers runs
    Canceller,    \* processes that only cancel them
    Key,          \* idempotency keys
    NSteps,       \* steps in the workflow's body
    MaxAttempts,  \* RetryPolicy.max_attempts of each step
    TornWrites,   \* whether a kill may leave part of a line behind
    MaxRuns,      \* bound: runs that may be started
    MaxCrashes    \* bound: processes that may be killed

ASSUME WorkflowAssumption ==
    /\ NSteps \in Nat \ {0}
    /\ MaxAttempts \in Nat \ {0}
    /\ MaxRuns \in Nat
    /\ MaxCrashes \in Nat
    /\ TornWrites \in BOOLEAN

Worker == Driver \cup Canceller

VARIABLES
    run,      \* the journal folded by run, in the order the runs were minted
    effects,  \* the dedupe keys whose effect record is in the journal
    torn,     \* the journal ends in the middle of a line
    worker,   \* what each process is doing
    fired,    \* history: how often dedupe answered True, per effect
    crashes   \* how many processes have been killed

vars == <<run, effects, torn, worker, fired, crashes>>

Steps    == 1 .. NSteps
Run      == 1 .. MaxRuns
Effect   == Key \X Steps
Terminal == {"completed", "failed", "cancelled"}

\* known: the run_started record is readable.  args: "none" until a run_args
\* record is, then what it holds.
RunRow == [key       : Key,
           known     : BOOLEAN,
           status    : {"running"} \cup Terminal,
           args      : {"none", "given", "empty"},
           done      : SUBSET Steps,
           cancelled : BOOLEAN]

\* on: the run it drives or cancels, 0 for none; todo: the runs a recover() has
\* still to re-drive after it.
WorkerRow == [at      : {"idle", "start", "args", "body", "attempt", "step", "effect",
                         "record", "cancel", "cancelling"},
              key     : Key \cup {""},
              args    : {"none", "given", "empty"},
              on      : {0} \cup Run,
              todo    : SUBSET Run,
              step    : 0 .. NSteps + 1,
              attempt : 0 .. MaxAttempts]

Idle == [at |-> "idle", key |-> "", args |-> "none", on |-> 0, todo |-> {}, step |-> 0,
         attempt |-> 0]

TypeOK ==
    /\ run \in Seq(RunRow) /\ Len(run) <= MaxRuns
    /\ effects \subseteq Effect
    /\ torn \in BOOLEAN
    /\ worker \in [Worker -> WorkerRow]
    /\ fired \in [Effect -> Nat]
    /\ crashes \in 0 .. MaxCrashes

Init ==
    /\ run = <<>>
    /\ effects = {}
    /\ torn = FALSE
    /\ worker = [w \in Worker |-> Idle]
    /\ fired = [e \in Effect |-> 0]
    /\ crashes = 0

-----------------------------------------------------------------------------
(* The journal *)

\* Journal.append: behind an incomplete line the record becomes part of it, and
\* every later reader skips both.  A run row changes only if it is readable.
Fold(old, new) == IF torn THEN old ELSE new

AppendTo(r, row) ==
    /\ run' = [run EXCEPT ![r] = Fold(@, row)]
    /\ torn' = FALSE

\* Mutated form: the end of a failed run is logged and not recorded.
FinishUnlessFailed(r, status) ==
    IF status = "failed" THEN UNCHANGED <<run, torn>>
    ELSE AppendTo(r, [run[r] EXCEPT !.status = status])

\* _finish: later records win.
Finish(r, status) == AppendTo(r, [run[r] EXCEPT !.status = status])

Known       == {r \in DOMAIN run : run[r].known}
InFlight(r) == r \in Known /\ run[r].status \notin Terminal

-----------------------------------------------------------------------------
(* start *)

\* A key that was started returns the run's handle and starts nothing.
StartedUnder(key) == {r \in Known : run[r].key = key}

StartCheck(w, key) ==
    /\ worker[w].at = "idle"
    /\ Len(run) < MaxRuns
    /\ StartedUnder(key) = {}
    /\ worker' = [worker EXCEPT ![w] = [Idle EXCEPT !.at = "start", !.key = key]]
    /\ UNCHANGED <<run, effects, torn, fired, crashes>>

StartAppend(w) ==
    /\ worker[w].at = "start"
    /\ Len(run) < MaxRuns
    /\ run' = Append(run, [key |-> worker[w].key, known |-> ~torn, status |-> "running",
                           args |-> "none", done |-> {}, cancelled |-> FALSE])
    /\ torn' = FALSE
    /\ worker' = [worker EXCEPT ![w].at = "args", ![w].args = "given",
                                ![w].on = Len(run) + 1]
    /\ UNCHANGED <<effects, fired, crashes>>

-----------------------------------------------------------------------------
(* _drive *)

Current(w) == worker[w].on

\* The run that was minted first.
First(runs) == CHOOSE r \in runs : \A q \in runs : r <= q

\* What a process does that has these runs to drive, in the order they were minted.
Driving(runs) ==
    IF runs = {} THEN Idle
    ELSE [Idle EXCEPT !.at = "args", !.on = First(runs), !.todo = runs \ {First(runs)},
                      !.args = run[First(runs)].args]

\* The run is over for this process: the next of a recover(), or none.
Leave(w) == worker' = [worker EXCEPT ![w] = Driving(worker[w].todo)]

\* The arguments are recorded once; a recover() that finds none records none.
RecordArgs(w) ==
    /\ worker[w].at = "args"
    /\ LET r    == Current(w)
           args == IF worker[w].args = "none" THEN "empty" ELSE worker[w].args
       IN  /\ IF run[r].args # "none" THEN UNCHANGED <<run, torn>>
              ELSE AppendTo(r, [run[r] EXCEPT !.args = args])
           /\ worker' = [worker EXCEPT ![w].at = "body", ![w].args = args, ![w].step = 1]
    /\ UNCHANGED <<effects, fired, crashes>>

\* A body that reads arguments it was not given raises something _drive does not
\* catch: the run stays as it is, and the rest of a recover() is not reached.
BodyRaises(w) ==
    /\ worker[w].at = "body"
    /\ worker[w].args = "empty"
    /\ worker' = [worker EXCEPT ![w] = Idle]
    /\ UNCHANGED <<run, effects, torn, fired, crashes>>

InBody(w) ==
    /\ worker[w].at = "body"
    /\ worker[w].args # "empty"

BodyReturns(w) ==
    /\ InBody(w)
    /\ worker[w].step > NSteps
    /\ Finish(Current(w), "completed")
    /\ Leave(w)
    /\ UNCHANGED <<effects, fired, crashes>>

BodyCancelled(w) ==
    /\ InBody(w)
    /\ worker[w].step \in Steps
    /\ run[Current(w)].cancelled
    /\ Finish(Current(w), "cancelled")
    /\ Leave(w)
    /\ UNCHANGED <<effects, fired, crashes>>

-----------------------------------------------------------------------------
(* _run_step *)

\* Mutated form: only the last step_finished record of the run is looked at.
RecordedLast(r, k) == k \in run[r].done /\ k + 1 \notin run[r].done

Recorded(r, k) == k \in run[r].done

\* A step that finished is replayed from its record, any other is attempted.
EnterStep(w) ==
    /\ InBody(w)
    /\ worker[w].step \in Steps
    /\ ~run[Current(w)].cancelled
    /\ worker' = IF Recorded(Current(w), worker[w].step)
                 THEN [worker EXCEPT ![w].step = @ + 1]
                 ELSE [worker EXCEPT ![w].at = "attempt", ![w].attempt = 1]
    /\ UNCHANGED <<run, effects, torn, fired, crashes>>

\* step_started is history only; its line may still complete a torn one.
Attempt(w) ==
    /\ worker[w].at = "attempt"
    /\ torn' = FALSE
    /\ worker' = [worker EXCEPT ![w].at = "step"]
    /\ UNCHANGED <<run, effects, fired, crashes>>

EffectOf(w) == <<run[Current(w)].key, worker[w].step>>

\* Mutated form: every attempt commits its own effect.
FirstAttempt(w) == worker[w].attempt = 1 \/ EffectOf(w) \notin effects

\* dedupe: is this the first commit of the key?
Unseen(w) == EffectOf(w) \notin effects

DedupeCheck(w) ==
    /\ worker[w].at = "step"
    /\ worker' = [worker EXCEPT ![w].at = IF Unseen(w) THEN "effect" ELSE "record"]
    /\ UNCHANGED <<run, effects, torn, fired, crashes>>

\* The effect record is the commit; dedupe answers True.
DedupeCommit(w) ==
    /\ worker[w].at = "effect"
    /\ effects' = Fold(effects, effects \cup {EffectOf(w)})
    /\ torn' = FALSE
    /\ fired' = [fired EXCEPT ![EffectOf(w)] = @ + 1]
    /\ worker' = [worker EXCEPT ![w].at = "record"]
    /\ UNCHANGED <<run, crashes>>

AttemptsLeft(w) == worker[w].attempt < MaxAttempts

\* The step's function raises, before or after its effect: it is attempted again,
\* or the run fails.
StepRaises(w) ==
    /\ worker[w].at \in {"step", "record"}
    /\ IF AttemptsLeft(w)
       THEN /\ worker' = [worker EXCEPT ![w].at = "attempt", ![w].attempt = @ + 1]
            /\ UNCHANGED <<run, torn>>
       ELSE /\ Finish(Current(w), "failed")
            /\ Leave(w)
    /\ UNCHANGED <<effects, fired, crashes>>

StepReturns(w) ==
    /\ worker[w].at = "record"
    /\ AppendTo(Current(w), [run[Current(w)] EXCEPT !.done = @ \cup {worker[w].step}])
    /\ worker' = [worker EXCEPT ![w].at = "body", ![w].step = @ + 1, ![w].attempt = 0]
    /\ UNCHANGED <<effects, fired, crashes>>

-----------------------------------------------------------------------------
(* recover, cancel, and death *)

\* Mutated form: a run that failed is driven again.
UnfinishedOrFailed == {r \in Known : run[r].status \in {"running", "failed"}}

Unfinished == {r \in DOMAIN run : InFlight(r)}

Recover(w) ==
    /\ worker[w].at = "idle"
    /\ Unfinished # {}
    /\ worker' = [worker EXCEPT ![w] = Driving(Unfinished)]
    /\ UNCHANGED <<run, effects, torn, fired, crashes>>

\* cancel() appends its request, and then reads the status.
CancelRequest(w, r) ==
    /\ worker[w].at = "idle"
    /\ r \in Known /\ ~run[r].cancelled
    /\ AppendTo(r, [run[r] EXCEPT !.cancelled = TRUE])
    /\ worker' = [worker EXCEPT ![w] = [Idle EXCEPT !.at = "cancel", !.on = r]]
    /\ UNCHANGED <<effects, fired, crashes>>

CancelRead(w) ==
    /\ worker[w].at = "cancel"
    /\ worker' = [worker EXCEPT ![w] =
          IF InFlight(Current(w)) THEN [@ EXCEPT !.at = "cancelling"] ELSE Idle]
    /\ UNCHANGED <<run, effects, torn, fired, crashes>>

CancelFinish(w) ==
    /\ worker[w].at = "cancelling"
    /\ Finish(Current(w), "cancelled")
    /\ worker' = [worker EXCEPT ![w] = Idle]
    /\ UNCHANGED <<effects, fired, crashes>>

\* Where the process may be in the middle of a line.
Appending(w) ==
    \/ worker[w].at \in {"start", "args", "attempt", "effect", "record", "cancelling"}
    \/ worker[w].at = "step" /\ ~AttemptsLeft(w)
    \/ worker[w].at = "body" /\ (worker[w].step \notin Steps \/ run[Current(w)].cancelled)

Kill(w) ==
    /\ worker[w].at # "idle"
    /\ crashes < MaxCrashes
    /\ crashes' = crashes + 1
    /\ worker' = [worker EXCEPT ![w] = Idle]
    /\ torn' \in IF TornWrites /\ Appending(w) THEN BOOLEAN ELSE {torn}
    /\ UNCHANGED <<run, effects, fired>>

-----------------------------------------------------------------------------

\* What a process does without being asked, once it drives a run.
Drive(w) ==
    \/ StartAppend(w)
    \/ RecordArgs(w)
    \/ BodyRaises(w)
    \/ BodyReturns(w)
    \/ BodyCancelled(w)
    \/ EnterStep(w)
    \/ Attempt(w)
    \/ DedupeCheck(w)
    \/ DedupeCommit(w)
    \/ StepRaises(w)
    \/ StepReturns(w)
    \/ CancelRead(w)
    \/ CancelFinish(w)

Next ==
    \/ \E w \in Driver : \E key \in Key : StartCheck(w, key)
    \/ \E w \in Driver : Recover(w)
    \/ \E w \in Canceller : \E r \in DOMAIN run : CancelRequest(w, r)
    \/ \E w \in Worker : Drive(w)
    \/ \E w \in Worker : Kill(w)

\* A process that drives a run is scheduled, and after a death somebody calls
\* recover(): the drill's parent, or the next start of the host.
Fairness ==
    /\ \A w \in Worker : WF_vars(Drive(w))
    /\ \A w \in Driver : WF_vars(Recover(w))

Spec == Init /\ [][Next]_vars /\ Fairness

-----------------------------------------------------------------------------
(* Properties *)

\* "True on the first commit for key, False on every replay" (client.py,
\* dedupe): whatever is killed and recovered, an effect fires at most once.
EffectOnce == \A e \in Effect : fired[e] <= 1

\* A key names one run, however often it is started and whatever became of the
\* run it first started (start: a genuine replay returns the existing handle).
OneRunPerKey ==
    \A q, r \in Known : run[q].key = run[r].key => q = r

\* A run that is recorded as completed has a record of each of its steps, and
\* each recorded step has committed its effect: nothing was skipped on replay.
CompletedMeansDone ==
    \A r \in Known :
        /\ run[r].status = "completed" => run[r].done = Steps
        /\ \A k \in run[r].done : <<run[r].key, k>> \in effects

\* A resume replays finished steps from the journal: no step whose result is
\* recorded is executed again (_run_step).
FinishedStepsAreReplayed ==
    \A w \in Worker :
        worker[w].at \in {"attempt", "step", "effect", "record"}
            => worker[w].step \notin run[Current(w)].done

\* A caller who starts runs, lets them be recovered and cancels them sees runs that
\* are durable: what the journal says of them follows one step after another, and a
\* verdict stands.
Book == [r \in DOMAIN run |-> [key |-> run[r].key, done |-> run[r].done,
                               status |-> run[r].status, asked |-> run[r].cancelled]]

Durable == INSTANCE DurableRuns WITH book <- Book

RunsAreDurable == Durable!DurableSpec

\* "Re-drive every non-terminal run" (recover): under the fairness above, whichever
\* process dies at which point, each started run reaches a terminal status once its
\* arguments are recorded and no earlier run that lost its own stands in the way.
Unobstructed(r) ==
    \A q \in 1 .. r : run[q].args = "given" \/ run[q].status \in Terminal

EveryRunEnds ==
    \A r \in Run :
        (r \in Known /\ Unobstructed(r)) ~> (r \in Known /\ run[r].status \in Terminal)
=============================================================================
