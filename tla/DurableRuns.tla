---------------------------- MODULE DurableRuns -----------------------------
(***************************************************************************)
(* What a durable workflow promises whoever starts one of its runs.         *)
(*                                                                         *)
(* A key starts one run.  The steps of a run finish in their order, each    *)
(* after its effect, which happens once.  A run that is completed or failed *)
(* makes no more steps and gets no other verdict, except that a             *)
(* cancellation somebody asked for may still be entered over it.            *)
(***************************************************************************)
EXTENDS Naturals, Sequences

CONSTANTS
    Key,    \* what callers start runs under
    NSteps  \* steps in the workflow's body

VARIABLES
    book,   \* the runs, in the order they began
    fired   \* how often the effect of each key's step has happened

durableVars == <<book, fired>>

Step == 1 .. NSteps

Begun(key) == [key |-> key, done |-> {}, status |-> "running", asked |-> FALSE]

DurableInit ==
    /\ book = <<>>
    /\ fired = [e \in Key \X Step |-> 0]

Begin(key) ==
    /\ \A r \in DOMAIN book : book[r].key # key
    /\ book' = Append(book, Begun(key))
    /\ UNCHANGED fired

\* The run has had no verdict: its driver may not have seen that it is cancelled.
Unjudged(r) == book[r].status \in {"running", "cancelled"}

\* k is the step the run is at: all before it are finished, and no other.
AtStep(r, k) == Unjudged(r) /\ book[r].done = 1 .. (k - 1)

Happen(r, k) ==
    /\ AtStep(r, k)
    /\ fired[<<book[r].key, k>>] = 0
    /\ fired' = [fired EXCEPT ![<<book[r].key, k>>] = 1]
    /\ UNCHANGED book

FinishStep(r, k) ==
    /\ AtStep(r, k)
    /\ fired[<<book[r].key, k>>] = 1
    /\ book' = [book EXCEPT ![r].done = 1 .. k]
    /\ UNCHANGED fired

Judge(r, verdict) ==
    /\ book' = [book EXCEPT ![r].status = verdict]
    /\ UNCHANGED fired

Complete(r) == Unjudged(r) /\ book[r].done = Step /\ Judge(r, "completed")

Fail(r) == (\E k \in Step : AtStep(r, k)) /\ Judge(r, "failed")

Ask(r) ==
    /\ book' = [book EXCEPT ![r].asked = TRUE]
    /\ UNCHANGED fired

Cancel(r) == book[r].asked /\ Judge(r, "cancelled")

DurableNext ==
    \/ \E key \in Key : Begin(key)
    \/ \E r \in DOMAIN book :
          \/ \E k \in Step : Happen(r, k) \/ FinishStep(r, k)
          \/ Complete(r) \/ Fail(r) \/ Ask(r) \/ Cancel(r)

DurableSpec == DurableInit /\ [][DurableNext]_durableVars
=============================================================================
