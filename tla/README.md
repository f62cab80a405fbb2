# A verification of onboard-core

`adopt` keeps a team's operational knowledge beside the code it is about. Notes
are ingested from documents, mined from git history or drafted by an agent, bound
to *identities* (routes, settings, jobs, ...) extracted from the source tree,
reviewed by people, questioned again when a refresh or a probe finds that their
referents changed, served by `adopt ask`, and handed over to the team that will own
the system. All of it lives in one local SQLite database that any number of `adopt`
processes open, and in a few files beside it.

These TLA+ modules model the parts of that program where processes meet, commands
are killed half way, files are replaced, or what was read is used later. TLC checks
small instances; TLAPS proves every safety property the runs check for every
instance.

Paths below are relative to `packages/`.

## 1. Inventory

| Component | State | Operations | Interacts with | Module |
|---|---|---|---|---|
| **Revision chains** `adopt-store/revisions.py` | a parent row, its chain, the head, the parent's freshness | `create_item`, `append_revision`, `retire` | every facade | `KnowledgeStore`, `Probes`, `MapRefresh` |
| **Transactions** `adopt-store/sqlite/` | one connection per process, the log beside the file | `transaction`, autocommit reads, `close` | every facade | all; the file in `StoreFile` |
| **Knowledge, binding, governance facades** | items, bindings, batches and entries, escalations, gaps | create, append, retire; bind, supersede; open_batch, resolve; escalate; dispose_gap | ingest, review, ask | `KnowledgeStore`, `Questions`, `Handover` |
| **Identity and change facades** | identities, change events, classifications | observe, move, record_digest, retire; stale, freshen | map, refresh | `KnowledgeStore`, `MapRefresh` |
| **Ingest, review, changes** `adopt-knowledge/` | what a run or a person read before writing | per-document transactions; confirm, edit, reject; retire, rebind, confirm-current | store | `ReviewQueue` |
| **Harvest** `adopt-knowledge/harvest.py` | the commits of a range | a transaction per candidate, one batch | queue | `Harvest` |
| **Drafting and the agent** `adopt-knowledge/drafting.py`, `adopt-agent/` | a meter, recorded runs | draft_missing, drive, record_run | provider, annex, queue, packs | `Drafting` |
| **Map and refresh** `adopt-map/`, `commands/refresh.py` | identities, sightings, file snapshot | run_map, detect_moves, compute, record_refresh | identity facade, queue | `MapRefresh` |
| **Probes** `adopt-probe/`, sensors | definitions, runs, baselines, conflicts, health | run, judge, set baseline, probe_delta | refresh, items | `Probes` |
| **Ask, answers, freshness, coverage, search index** | index, escalations, covered cache, gaps | ask, answer, rebuild, recompute, dispose | store | `Questions` |
| **Handover** `adopt-handover/` | a trail of events, ownership, acceptance files | start, elicit, pack, verify, snapshot, close | gaps, escalations, changes | `Handover` |
| **Scopes, boundaries, policy** `adopt-scope/`, `adopt-policy/` | the scope tree, lifecycle, boundaries | init, boundary, validate, transition | detection | `Onboarding` |
| **Detection** `adopt-detect/` | none (pure) | walk, rules, ranking | init | `Detection` |
| **Workflow** `adopt-workflow/inproc/` | an append-only journal | start, step, cancel, recover | agent, CLI | `WorkflowJournal`, `DurableRuns` |
| **Store file, replicas, export, migrations** `adopt-cli/replica.py`, `commands/pull.py`, `adopt-export/`, `adopt-schema/` | database file, log, marker, bundle | open, migrate, write, export, import, pull | control plane | `StoreFile` |
| **Map packs, workflow purity, identity grammar, models, logging** | none | parsers, value types | | not modelled |

What is hard here, and what makes each part correct:

* **Somebody decides from what they read.** A command lists, a person decides, and
  only then does a transaction write. Correct: no text is written over a head its
  command had not read, a confirmation states the very text its entry proposed, an
  entry of the queue is answered once, a question is answered once, a slug is issued
  once.
* **Partial runs.** Ingest and harvest commit document by document and then their
  batch; refresh commits the map, then its conclusion, then a file. Correct: what
  an interrupted run left is found by the next one, and nothing is asked or reported
  twice.
* **Two tables, one fact.** An item's freshness and its head, a link's status and
  its successor, a batch's outcome and its entries. Correct: no committed state in
  which the halves disagree.
* **Conclusions from absence.** A referent was not seen, a probe did not answer, a
  baseline was recorded for something else. Correct: nothing is called dead, moved,
  changed or drifted unless it was.
* **Copies.** Index, cache, baselines, bundles and replicas repeat what the canon
  said once. Correct: what is served from them is current, or known not to be, and
  whole.
* **Death.** A process dies between an effect and its record, between two renames,
  between a question paid for and its answer stored. Correct: nothing that completed
  is repeated and nothing acknowledged is lost.

`PROJECT.json` lists the hazards line by line, with the properties that cover them
or the reason none does.

## 2. Modules

    DecisionLedger                 what the store promises (abstract)
         ^  refinement: ReviewQueue!Ledger, property KeepsLedger
    ReviewQueue                    ingest, bind, review, refresh as processes
     |   \ EXTENDS                 Harvest  EXTENDS ReviewQueue: a miner beside them
    KnowledgeStore                 the tables and the facade operations

    DurableRuns                    what a durable workflow promises (abstract)
         ^  refinement: WorkflowJournal!Durable, property RunsAreDurable
    WorkflowJournal                the journal, its drivers and cancellers

    MapRefresh    Probes    Questions    Drafting    Handover
    Onboarding EXTENDS Detection
    StoreFile

    MC<module>                     values of the constants for TLC
    <module>_proofs                theorems about it, with the lemmas they rest on;
                                   RecordedRuns_proofs is about WorkflowJournal and
                                   Drafting, Onboarding_proofs about Detection too

`ReviewQueue` and `Harvest` share the tables of `KnowledgeStore`. The other modules
keep only the columns their commands read and write, because a product of all
commands would be beyond any model checker; where they meet, the other side is an
environment action (`MapRefresh` queues entries, `Questions!MapMoves` lets a refresh
replace a referent, `Handover!Detect` and `RecordChange` let one classify it).

**A transaction is one step.** SQLite runs in WAL mode with a deferred `BEGIN`: a
transaction reads one snapshot, and its first write is refused when that snapshot is
stale. A transaction that commits therefore read the state it wrote over; one that
does not rolls back. Reads in autocommit see earlier states and are steps of their
own, and so is everything a command does to a file. `StoreFile` goes one level
deeper and has the pages, the log and the version of the file itself.

**Commands.** `job[p]`, `cmd[p]`, `mining[m]` or `worker[w]` is the command a process
runs, how far it is, and *what it has read*. A command opens with its reads and its
refusals as guards, goes through its stages in the order of the code, and may be
killed between any two (`Abandon`, `Kill`).

**History variables.** `lost`, `edited`, `settled` (MapRefresh), `charged` (Probes),
`settled` (Questions), `upset` (Handover), `checked` (Onboarding), `fired`
(WorkflowJournal), `ended` and `lost` (Harvest), and the columns `by` and `read` of a
revision (whose decision wrote it; how long the chain was when that command read its
head) remember what no table holds. No guard reads them.

### KnowledgeStore, ReviewQueue, DecisionLedger

`item[i]` is a knowledge item with its chain; a revision is known by its position, so
the head pointer is the chain's length. `link[i][d]` is the binding of the pair
(`idx_binding_pair` is unique), `ident[d]` an identity with the status and alias of
its derived head, `queue` the review batches with each entry's proposal and
disposition. `CreateItem`, `AppendRevision`, `RetireItem`, `Bind`, `OpenBatch`,
`Resolve` are the facades' methods.

| Command | Steps | Code |
|---|---|---|
| ingest | `IngestStart` (all reads), `IngestDocument` per document, `QueueVerification`, `QueueSuggestions` | `ingest.py:185-438` |
| bind | `BindStart`, `BindPair` | `commands/knowledge.py:301-407` |
| review --confirm, --confirm-batch, --edit | `ListQueue`, then `ConfirmCandidate`, `ConfirmSuggestions` or `EditEntry` per entry | `review.py:341-494` |
| review --reject | `ListQueue`, `RejectRead`, `RejectStamp`: no transaction surrounds them | `review.py:497-522` |
| review --resolve | `ListQueue`, `ReadCauses`, then `RetireEntry`, `RebindEntry` or `ConfirmCurrentEntry` | `changes.py:161-366` |
| refresh | `RefreshStart`, `MapObserve`, `MapMoves`, `RecordRefresh` | `_refresh_support.py:377-604`, `runner.py:221-385` |

Texts are model values and stand for their digests. Which identities a text refers to
is a constant relation: `Structural` for the tiers that bind at once, `Named` for the
tier that only suggests. A refresh here *chooses* what it concluded, within what
`diff.compute` can conclude; how it concludes is `MapRefresh`.

**DecisionLedger** is the promise: each item has a log; a command adds a text to it only
if nothing was added since it read the log, a withdrawal may follow entries its command
never read; a decision is spent once. It does not say that the *person* was shown the
newest text, and the code does not either: an entry shows the revision it proposes
(`_revision_of`) and carries the item's head, so answering an older entry may supersede
a newer text the reviewer was not shown. `ConfirmedIsWhatWasProposed` states what does
hold of a confirmation; `source_digest.cfg` shows such a step and what is wrong with the
revision it writes. `Ledger` maps the chains to the logs and decided entries to spent
decisions.

### Harvest

A run reads the range and everything comparative (`HarvestStart`, with the filters of
`gitlog.py` and `harvest.py`), writes each candidate in a transaction, the newest
first (`HarvestCandidate`), and opens one batch (`HarvestQueue`). A range is a set of
positions in the history. A mined item's `doc` is the
commit its first revision names. Reviewers are the processes of `ReviewQueue`.

### MapRefresh

A repository of places (address, extractor, file) with an attribute at each, edited,
reformatted and examined by an upgraded tool. `Run` goes through `adopt map` or `adopt
refresh`: the walk with its faults, a transaction per pack (`observe`, the digest, the
claim of an address), `Moves` (by digest and by counterpart), `compute` as an operator
with its exemptions and the version fence, the refresh transaction (classifications,
digests, staled links, the queue), and the snapshot of file states after it. The
operators return what the code returns, so the five classes are not assumed but
computed.

### Probes

`Create`, `Revise`, `RetireProbe` keep the revisions of definitions read from files
that pass or fail the manifest's checks. A run registers its sensor, records one
observation per repetition under its ceiling, and is judged against the latest
eligible baseline. Then the confirmed claims its drifts contradict are filed: `Check`
asks whether one has an open conflict, before the transaction (`Insert`) that writes it.
`Charge` is what a refresh makes of a drift. `SenseStart`, `Observe` and `Post` are
the probe half of `adopt ci-sense`, which runs every active probe
against a checkout with no baseline, stores and compares nothing, and posts the
observations; the plane judges. `Turn` changes how the system behaves.

### Questions

`Ask` reads the index or rebuilds it when the canon's watermark moved, reads the rows,
resolves the freshness of each candidate (`resolve.py`'s precedence over item,
load-bearing links and sensors), takes one of the three branches, is refused where no
boundary is declared, may escalate, and may have a model put it into prose, whose
citations `Ground` checks. `PackStart` to `PackStamp` are the reads of `adopt pack` in
their order: coverage, heads, gaps and contradictions, freshness.
`Answer` captures an answer as a verified item in one transaction. Every command that
writes is wrapped by the comparison of cache and recount before it and the rebuild
after it, two steps of their own, as in `coverage_cache_kept_current`.

### Handover

`events` is the only memory of a handover: the record is folded from it each time.
Each step reads the trail, requires its immediate predecessor, reads the clock, and
writes its papers or its bundle before its event. The questions of a round are in the
transaction of its event, the value event of a pack in one after it, and a pack of
several audiences repeats the two (`WriteValue`). A refresh dates a change (`Detect`)
before it records it (`RecordChange`), and a round may be recorded between. Of the rules
by which `_judge` invalidates a passed test, `Valid` keeps that of later changes; the
others (a referent dead, moved, not found, contradicted, stale or degraded) only take
more tests out. `Transfer` is the
close: the new assignment, the end of the old, the open gaps nobody owns, the closing
row, and the check of the owner, in one transaction.

### Drafting

`DraftMissing` reads which gaps have no draft, gathers facts per gap, and drives a
run: `Open`, `Answered` (charging the meter after each answer), `Lost` (wire retries),
`Negotiate` (a provider without tools), schema retries, `Record` under the run's key in
the annex, `Write` for a grounded draft, one batch at the end. `AssemblePack` reads the
canon and then the drafts. A referent is its rank among the gaps (`Identity`), so the
gaps a run has still to ask about are a set and the next one is its least member.

### Onboarding, Detection

`LookUp` and `Create` go down the path level by level, `Declare` appends the boundary;
`adopt boundary` enters the same path half way. `ValidateEnvelope` judges by the latest
boundary of the scope. `Detection` is the walk with its bounds, the rules with their
weights, the ranking and the threshold, as operators over a file tree: `Consider` is
the body of the loop over the files, `Reading` a recursive function that gives what has
been read after each of them. Scores are compared exactly, where the code divides,
rounds to six places and compares with 0.70; weights are integers of one digit, so the
two could differ only if they added up to more than a hundred thousand.

### WorkflowJournal, DurableRuns

The journal is an append-only file that is only ever folded, so the state is the fold
(`run`, `effects`) and whether the last line is torn. `StartCheck` and `StartAppend`
are two steps because nothing locks between them. `Kill` may leave half a line where
the process was appending; the next append then vanishes into it.

**DurableRuns** is the promise to whoever starts a run: a key starts one; the steps
finish in their order, each after its effect, which happens once; a run completes when
all are finished, fails at a step, and is cancelled only if somebody asked; after a
verdict there are no more steps and no other verdict, but that a cancellation under way
may be entered over it. `Book` is the journal's rows as a caller sees them. A driver
that has not seen a cancellation goes on, so `Unjudged` includes `cancelled`.

### StoreFile

`db` and `wal` are the file and the log beside it; a hot log is replayed by the next
open. `PullStart` checks the target and verifies the import in its temporary directory,
`SwapStore` and `StampMarker` are the two renames, `MayWrite` is the guard every
writing command asks. Export writes table by table, the manifest last; import verifies
the whole and applies it to an empty store; migrations commit one file at a time.

## 3. Checks

`CHECK_DEADLOCK FALSE` everywhere: a command-line tool stops when nobody issues another
command, and the bounds on commands are such a stop. Every bound is a constant
(`Max...`) and cuts commands or outside events, never the steps of a running command.

| Run | Shows | Bounds |
|---|---|---|
| `review_ingest` | `ConfirmedIsWhatWasProposed`, `BatchClosesWithLastEntry`, `KeepsLedger` | 2 processes, 4 commands, 2 documents of 2 texts, 3 revisions each, 2 batches |
| `review_changes` | `MovedMeansReplaced`, `StaleLinkHasAQuestion`, `OneWritePerDecision`, `HeadGovernsFreshness` | 2 processes, 5 commands, 1 note bound to 2 identities, a third appears |
| `harvest` | `OneItemPerDocument`, `SuggestionsAskedOnce`, `CandidatesReachReview` | 1 user, 1 miner, 1 document, 2 commits, 2 harvests, 3 commands, 3 batches |
| `refresh` | `DeadWasGone`, `OnlyEditsAreChanges`, `SecondRefreshIsClean`, `AliasesLead`, `StaleIsExplained` | 3 addresses, 2 extractors, 2 files, 2 edits, 3 runs, 1 fault, 2 versions |
| `probes` | `BaselinesAreWhole`, `DriftIsFiledOnce`, `EditsAreNotDrift` | 1 runner, 1 editor, 5 probe files, 5 behaviours of the system, 3 runs, 2 revisions |
| `questions` | `CitesTheHeadOfItsTime`, `AnsweredOnce`, `EvidenceIsKept` | 1 process that asks and packs, 2 who answer and edit, 3 items, 2 revisions, 2 links, 2 edits or kills |
| `handover` | `StepsInOrder`, `OwnedThroughout`, `ValidMeansUnchanged`, `NothingTransfersUnowned` | 2 operators, 6 events before a command begins, 2 tests, 1 gap, 1 outside event or kill |
| `drafting` | `OneDraftPerReferent`, `PaidForOnce`, `OverByOneAnswer`, `NoItemTwice` | 1 drafter, 2 gaps, 4 kinds of answer, 2 attempts, 1 schema retry, 1 outside event |
| `workflow` | `EffectOnce`, `FinishedStepsAreReplayed`, `RunsAreDurable`, `EveryRunEnds` | 2 keys, 2 steps, 2 attempts each, 2 kills, 1 driver, 1 canceller |
| `replica` | `MarkedStoreHoldsNoFieldWork`, `CopiesAreWhole`, `FieldWorkIsKept` | 2 systems, 2 rows of field work, 7 commands, a canon that grows once |
| `onboarding` | `OneRowPerPath`, `InitLeavesAWholeScope`, `JudgedByTheBoundaryInForce`, `VerdictIsTheEvidence` | 2 processes, 3 paths, 7 trees, 2 commands, 2 lifecycle events, 1 envelope |
| `retired_forever` | finds `RetiredForever` violated (below) | 1 process, 4 commands |

Why these are enough to be interesting. A lost update needs two writers and one row; a
double answer two processes and one entry; a batch two entries to close late; a rebind
a replaced link, a live one and a target, hence three identities; asking a text twice a
text that returns after another. A death that is not one needs a referent two
extractors see, one of which fails; a shared digest needs two referents of one attribute
and a successor. Drift across an edit needs two revisions and three runs (baseline,
edit, comparison). A stale citation needs a revision after the index was built; a lost
piece of evidence a rebuild during another command. Repeating a handover step needs a
whole handover and an event more. Paying twice needs a kill after `Record` and before
`Write`. A mixed store path needs two systems, a kill between the renames, and a command
after it: seven commands hold an import, a write and two pulls of which one is killed.
Two rows of a slug need both processes between `LookUp` and `Create` on one level, and a
name shared by two systems needs two paths.

Three choices deserve a word.

* `handover` bounds the events before a command *begins*; a started command still
  writes its own.
* `replica` has `PullsOverLog = FALSE`: commands are killed anywhere and leave their
  frames in the log, but no pull begins over a path whose log is still hot. With `TRUE`
  the properties that speak of files fail for the reason `mixed_replica.cfg` shows: a
  pull replaces the database by rename and not the log beside it, and SQLite replays
  that log over the new file.
* One process drives in `workflow`, one ingests in `harvest`, one drafts in `drafting`,
  one refreshes in `refresh`, one asks in `questions`. The code makes no promise for two
  at once, and what happens then is under the counterexamples below (`same_key.cfg`,
  `older_index.cfg`) or in the notes of
  `PROJECT.json`'s hazards (two first ingests of one file create two items).

**Fairness.** Only `WorkflowJournal` states any, for `EveryRunEnds`. `WF_vars(Drive(w))`:
a live process goes on with the run it drives, which is plain sequential Python.
`WF_vars(Recover(w))` for the driver: after a death somebody calls `recover()`, which
is what the backend's documentation asks of its host. Nothing obliges a process to be
killed, to start a run or to cancel it, and a body may raise as often as its retry
policy allows. `Unobstructed` excludes a run whose arguments were lost to a death
between `run_started` and `run_args`: its body raises in every `recover()`, which
abandons the runs behind it. No other module has liveness: nobody is obliged to answer
a queue, and every command may be killed.

**Mutants.** Each property of a passing run has a mutated definition, kept next to the
one it mutates, that a plausible mistake would produce and for which TLC finds the
property violated: a chain-fork guard dropped, a harvest that remembers only heads, a
crashed extractor not exempt, a baseline eligible for any revision, a cache rebuilt
whatever it disagreed with, a prior owner ended at any scope, a run found only when it
succeeded, a failed run taken up by the next recover, the marker renamed before the store, a slug not checked among its siblings.

### Where the code and its documentation part

`retired_forever` is a run. The others are configurations beside the runs, started by
hand; each makes TLC find a counterexample to one sentence of the repository
(`misclassified.cfg` to two, with `-continue`).

| Configuration | Module, property | The sentence | What happens |
|---|---|---|---|
| `retired_forever` | MCReviewQueue, `RetiredForever` | README.md:464-465: a retired item "resolves `retired` forever" | a terminal revision has no digest, so the next ingest of the unchanged file is an update: it appends a verified revision and the item is fresh again |
| `rejected_writes` | MCReviewQueue, `RejectedWritesNothing` | `facades/knowledge.py:358-363`: a second resolution is refused, as "rejecting a confirmed item would leave a binding whose review says it was rejected" | `resolve` reads before its transaction and `reject` has none around it: it overwrites a confirmation |
| `source_digest` | MCReviewQueue, `ConfirmedTextKeepsItsDigest` | `review.py:264-267`: `source_version` is "a body digest for a document" | confirming the older of two unverified revisions writes its text under the newer one's digest |
| `confirmed_change` | MCReviewQueue, `StaleLinkHasAQuestion` | `changes.py:222-228`: "a link left stale here could never be cleared again" | `--confirm` takes a change entry too, closes it, and leaves the link stale |
| `intact_link` | MCReviewQueue, `OnlyChangedLinksReplaced` | `_knowledge_support.py:647-653`: an action supersedes "exactly the links a change made wrong" | without a dead or moved cause, `rebind` also supersedes links that were only re-rendered |
| `lost_candidate` | MCHarvest, `RetryCompletes` | `test_write_atomicity`: "a retry after a failure completes it" | candidates of a harvest killed before its batch are known to the next one, which queues none of them |
| `misclassified` | MCMapRefresh, `EachReferentOnce` | `diff.py`: "would classify one referent twice in one run, which the UNIQUE index ... would refuse anyway" | a declaration sighted in two files and edited in one is in the diff twice |
| `misclassified` | MCMapRefresh, `GoneWasGone` | `diff.py`: a skipped file's identities are "Exempt by path" | death exempts them, the pairing of moves does not: a present referent is moved to an address with its digest |
| `failed_probe` | MCProbes, `FailureIsNotAFinding` | `_refresh_support.py:272-276`: "A failure is not a finding" | a run without observations is compared as changed |
| `answered_then_known` | MCQuestions, `AnsweredThenKnown` | `answer.py`: "The next `adopt ask` on this question answers KNOWN" | not while a stale candidate that matches it outranks the answer |
| `older_index` | MCQuestions, `CitesTheHeadOfItsTime` | `search.py:173-175`: "a full rebuild is right by construction, and the stamp is only ever asked whether it is equal" | of two asks, one has made the index current; the other then puts back the rows it read before an edit, and the first serves the replaced text |
| `own_writes` | MCQuestions, `OwnWritesAgree` | `_coverage_support.py`: the product's own writes never set off the alarm | two commands that overlap leave a cache that disagrees with the recount, and no later command touches it |
| `two_transfers` | MCHandover, `OneOpenHandover` | `event.py`: "two records of one transfer is the fork a resumable checklist must not silently make" | two operators read no open handover before either writes |
| `unlisted_conflict` | MCQuestions, `ContradictionsAreInThePack` | `render.py`: "confirmed statement(s) in this pack are contradicted" | heads and conflicts are two reads: a rewrite and a probe between them put a contradiction of the new text into a pack that holds the old |
| `same_key` | MCDrafting, `SameKeySameResult` | `annex.py`: two callers of one key "are both told the same thing" | both pay and each writes its own answer; the annex keeps one |
| `torn_journal` | WorkflowJournal, `EffectOnce` | `client.py`: "True on the first commit for key, False on every replay" | a line cut by a kill swallows the record appended next; the effect fires again |
| `mixed_replica` | StoreFile, `ReplicaAnswersFromThePull` | `pull.py`: "A crash after it leaves the new one intact and answering" | the log of a killed writer is replayed over the file that was renamed into place |
| `silent_depth` | MCOnboarding, `BoundsAreReported` | `detect.py:34-38`: "Hitting a bound is reported rather than silently truncating the evidence" | the depth bound prunes without setting `truncated` |

## 4. Proofs

All theorems hold for every value of the constants that satisfies the assumptions
named in the modules; TLC evaluates those assumptions in every run. Two of them deserve
notice: a path is discovered once, so `Docs` is injective (`DocsAssumption`), and a
document is not a commit (`HistoryAssumption`). Further hypotheses are in the theorem:

| Hypothesis | Says | Without it |
|---|---|---|
| `OneDriver` | one process drives workflow runs at a time | two racing `start()` of one key make two runs |
| `OneDrafter` | one process drafts at a time | `same_key.cfg`: both find no draft and no run, and both pay |
| `OneAsker` | one process asks at a time | `older_index.cfg` |
| `~TornWrites`, `~PullsOverLog` | no half line; no pull over a log still in use | `torn_journal.cfg`, `mixed_replica.cfg` |
| `ChangesAnsweredByActions` | change entries are answered with `--resolve`'s actions or rejected | `confirmed_change.cfg` |
| `OneIngestAtATime`, `OneHarvestAtATime` | nobody starts an ingest (a harvest) while one runs | two first ingests of one file both find no item, and both queue its suggestions |
| `OneOperator` | one process refreshes at a time | the second of two refreshes concludes from rows the first has moved |
| `OneRunner` | one process runs the probes at a time | two runs both find no open conflict (`Check`) and file two |
| `OnePlace` | an extractor declares a referent in one file | the referent's digest is that of whichever file it was sighted in last |

| Module | Theorem | States |
|---|---|---|
| ReviewQueue | `TypeCorrect`, `ReferencesCorrect` | types; links, entries and all a command read refer to rows that exist |
| | `ConfirmedIsWhatWasProposedHolds`, `OneWritePerDecisionHolds`, `HeadGovernsFreshnessHolds`, `BatchClosesHolds`, `MovedMeansReplacedHolds` | the safety properties of the review runs |
| | `NoLostUpdateHolds` | every revision but a withdrawal supersedes the head its command had read |
| | `LedgerKept` | the commands implement `DecisionLedger` |
| | `StaleLinksAreAsked` | with `ChangesAnsweredByActions`: an active stale link has an open or rejected entry |
| Harvest | `HarvestReferencesCorrect`, `HarvestBesideReview` | with miners beside them, the types, the references and the queue's promises stay |
| | `CandidatesReach` | a mined item is in a batch, or its run goes on, or was cut short |
| | `OneItemEach` | with one ingest and one harvest at a time: one item per document and per commit |
| | `SuggestionsOnce` | with one ingest at a time: what a text suggests is queued once |
| MapRefresh | `NoDeathByAbsence` | a dead identity had a declaration removed |
| | `StaleExplained` | a stale load-bearing link has an entry in the queue |
| | `AliasesLeadAway` | with `OneOperator`: no shared destination, no cycle of aliases |
| | `ChangesAreEdits`, `NothingTwice` | with `OneOperator` and `OnePlace`: what is judged changed was edited; a second refresh says nothing |
| Probes | `TypeCorrect` | types of the tables, the items and the commands |
| | `BaselinesWhole` | a baseline, and what CI posts as a success, is a whole output of the revision it names |
| | `EditsAreNeverDrift` | what a refresh reports as a change compares outputs of one revision |
| | `DriftIsFiled` | a run that ends has a conflict row for every claim its drifts contradicted |
| | `DriftFiledOnce` | with `OneRunner`: and only one, over repeated and killed runs |
| WorkflowJournal | `TypeCorrect` | types, whichever lines are torn |
| | `KeysNameOneRun`, `ReplayNeverExecutes` | one readable run per key; no finished step runs again, torn lines included |
| | `EffectsFireOnce`, `CompletedRunsAreDone` | with whole lines: an effect fires once; a completed run did every step |
| | `JournalIsDurable` | with whole lines: the journal implements `DurableRuns` |
| Drafting | `ReferentsDraftedOnce`, `QuestionsPaidForOnce` | with `OneDrafter`: one draft per referent; what is recorded is not paid for again |
| | `RunsOverByLessThanOneAnswer` | a run costs less than its cap and the dearest answer |
| | `PacksHoldNoItemTwice` | no item is in a pack's body and in its appendix |
| StoreFile | `TypeCorrect` | types of the path and the command, with `~PullsOverLog` |
| | `MarkedStoresHoldNoFieldWork`, `CopiesAlwaysWhole`, `FieldWorkKept` | with `~PullsOverLog`: the properties of `replica` |
| | `PullsAnswerFromWhatTheyFetched` | with `~PullsOverLog`: the property `mixed_replica.cfg` shows violated without it |
| Onboarding | `PathsNameOneRow` | a path names at most one row |
| | `EnvelopesJudgedInForce` | an envelope is judged by a boundary of its scope that was in force |
| | `InitIsWhole` | a successful init leaves the rows of its path and its boundary |
| Detection | `VerdictsAreTheEvidence` | a verdict on a tree the walk did not cut short is what the files within reach bear out |
| Handover | `TrailInOrder` | an event is preceded by one of every earlier step |
| | `ValidTestsAreUnchanged` | a valid test has no recorded change detected since a round of it |
| | `NothingIsUnowned` | a close leaves no uncovered referent's gap open and nobody's |
| | `AlwaysOwned` | once a handover has closed, the system has an owner a closed handover gave it to; no close takes from the engagement's other systems |
| Questions | `EscalationsAnsweredOnce` | an answered escalation has one captured item, an open one none |
| | `EvidenceKept` | only a reported rebuild erases a disagreement older than all running commands |
| | `ServedWhenCurrent` | with `OneAsker`: what is cited had not been replaced when its command began |

The arguments.

*ReviewQueue.* `TypeOK` is not inductive alone: a listing reads the head row of an item
a batch names, and a running ingest carries positions in chains. `Inv == TypeOK /\
ReferencesHold` is inductive, and needs what `ReferencesHold` says about *jobs*: a
remembered head never lies beyond the chain it was read from, because chains only grow.
`ReviewQueue_proofs` shows it action by action, on lemmas about the operations of
`KnowledgeStore`.
It then sorts the steps, once, by what they do to chains and queue (`StepKinds`):
quiet ones, one that publishes, one that opens a batch, one that disposes without a
text, one that decides and writes. Each safety property, and the refinement, is shown
over these five kinds. For `ConfirmedIsWhatWasProposed` two facts are carried along: a
verification asked for proposes a revision there is (`UnverifiedProposes`), and what a
running review was shown for an entry is the text of the revision it proposes
(`ListingsShowProposals`), which no other process can change because chains only grow.
`StaleInv` gives a stale link its witness: a batch that classed
the referent as changed, whose entry is open or rejected, and of which every action that
is about to decide the entry has read that the link is one of its causes; deciding it
then re-affirms or replaces the link, or retires the item.

*Harvest.* `HarvestInv` is `Inv` and, of a running miner, that what it wrote exists and
that its positions lie in the history. A miner's steps are of the same five kinds, so
the queue's promises follow at once. `CandidatesReach` counts a mined item among what its
run holds pending until the batch that names it. `MadeOnce` says that what a run found
unmade stays unmade until the run itself makes it: only two kinds of step make an item,
and the hypotheses leave one run of each kind. `AskedInv` says that every suggestion
batch there is, until the run opens its own, is among the digests the run read as
presented, and that what it collected is of none of them.

*MapRefresh.* A stored digest and a sighting stand for a declaration, which is there or
was removed (`DeadInv`); a referent a run examined and did not see is therefore among the
removed, once each exemption of `compute` has been accounted for. A link and its entry
are written by one transaction, which is all of `StaleExplained`. With one operator, what
was read before the run still describes the store until the run writes it (`OneInv`): an
alias leads from a referent the run knew to one it did not, so no chain of them closes.
`MatchInv` says that a stored digest tells the attribute of its extractor's declaration or
that declaration was edited since, and `SettledInv` that a refresh that examined
everything leaves a store that describes the tree (`Covered`): every class of the next
diff is then empty.

*Probes.* The tables only grow, but for a run that has begun and is recorded later
(`Later`). What a command carries refers to rows that stay (`Knows`), and a run in the
middle belongs to one command, which alone will record it (`Runs`, `Apart`). A recorded
run observed a prefix of the steps of a revision that is still there, and all of them if
it answered (`EndingFacts`, `OutcomeFacts`), which is what a baseline is taken from; a
comparison that says drift had a baseline of the run's own revision (`DriftCompares`).
`OnceInv` says that what the runner has found no conflict about has none until it files
one. With a second runner it is not an invariant.

*WorkflowJournal.* The invariant says of every process what its place in the code
implies about the journal: whoever is about to execute a step has not recorded it,
whoever is about to append a start has found no run of its key. The second is what
`OneDriver` buys. `Committed` adds, while lines are whole, that an effect was fired no
more often than it is in the journal and that a recorded step is. For the refinement,
`Ordered` adds that the finished steps of a run are the first ones of its body, that what
a driver drives or has still to drive has no verdict, and that what is about to be
cancelled was asked to be. From these follows where a step is (`AtItsStep`): all before
it are finished and it is not, which is what `DurableRuns` lets happen next. Each action
then writes one row, and the book changes in that row and nowhere else.

*Drafting.* `DraftingInv` holds for any number of drafters: the items are a list, a
command fits its place (the spend of a run that goes on is below the cap, since the
meter is asked before each call, and one answer adds no more than the dearest), recorded
runs are below `Ceiling`, and what a pack took from the canon was confirmed and stays so,
because nothing is ever unconfirmed; the drafts are read after, so no item is in both.
`DraftedOnce` needs one drafter: two drafts are of two referents, and none is of a
referent the command still has on its list. A reviewer who confirms a draft takes one
away; an author adds a confirmed item; only the drafter adds a draft, of the foremost
referent on its list.

*StoreFile.* A marked store holds rows of the canon only, which the guard `MayWrite`
keeps and the order of the two renames establishes; a bundle or an import is a prefix
from the first row on (`InOnePiece`); and between a command's open and its commit the
restriction it asked for still holds, because one command runs at a time.

*Onboarding.* Rows are only appended and `Create` reads the siblings in its own
transaction, so `Tree` (rows of one level, parent and slug are one row; parents come
before children) is inductive. `InForce` orders three things on one clock: boundaries
are declared in increasing moments, a command's moment is later than those it read, and
a judged envelope's boundary was the last before it. For `InitIsWhole` a command carries
the rows it found or made, level by level; rows keep their slug and parent, and nobody
removes one.

*Detection.* The verdict is about one step, but what it says depends on a walk over all
the files of a tree and on a sum over all the fired rules. Both are recursive functions,
so they have their values only by an induction. No induction theorem of the library can
be used, and none is needed: `AllNaturals` is induction of a *set* (a nonempty set of
naturals has a least member, `Least`), and each predicate becomes a set by
comprehension. `ReadingExists` builds the function length by length, `ReadingReads` shows
that it satisfies its equation, `WalkHits` that after `n` files, if nothing was cut, the
hits are the rules that some reached one of the first `n` fires. `SumExists` and
`WeightFacts` do the same for the sum, by the number of rules: it is a natural, zero only
of the empty set. `WinnerIsBest` says that no archetype scores more than the one
reported, so when the best is not confident none is.

*Handover.* `InOrder` says that what a running command read stays true because the
trail only grows: its handover has started, and its step's predecessor is recorded. The
order of *all* earlier steps follows by the position of the predecessor.
`Independence` adds that a referent that changed since a round of its test has a change
later than every round of that test; stamped moments never exceed the clock, and a
change takes a later one. `NothingIsUnowned` needs `NoOne \notin Owner`
(`HandoverAssumption`). `Ownership` says that the first assignment is what the system
came with, that each later one was written by a close and begins at a later moment than
all before it, so the latest narrow one is the last close's, and that one of them has no
end as soon as a handover has closed.

*Questions.* `Answers` adds to `AnsweredOnce` that no item answers an escalation there
is not yet and that whoever is about to capture names one there is; the status is read
in the transaction that writes. `Evidence` says of a command between its two recounts
that what it found before its body is no less than what is settled, and that one that
came to the cache without a report found nothing, so nothing is settled. For
`ServedWhenCurrent`, a stamp is read as the number of *some* of the revisions there are,
none of them newer than the indexed passage of its item (`Stamps`): it survives every
append, and an index whose stamp equals the store's count has stamped all of them
(`FS_Subset`). That the index an asker compared is the one it retrieves from is what
`OneAsker` buys.

Each proof module begins with the facts about its lists: `IsSeq` is a sequence whose
elements carry no declared type, `Greatest` the maximum of a bounded set, `Least` the
minimum.

The assumptions behind the last results are the code's own. `DraftingAssumption`: prices
and what an answer asks for are naturals, the cap is positive (`agent/api.py:90`,
`gt=0`), and some answer is the longest. `DetectionAssumption`: weights are positive, a
rule's identifier is its own within its archetype, the rules are finitely many.
`OnboardingAssumption`: a tree is a finite list of files.

**Model-checked only.** Liveness (`EveryRunEnds`) is out of the prover's reach under
fairness; it is the one property of a passing run that no theorem states. The
counterexamples are TLC's by nature. `OneRunPerKey` is checked by no run of its own: it
is what `Begin` of `DurableRuns` requires, and it is proved, torn lines included. No
module has a RECURSIVE operator.

## 5. Not modelled, and why

* **Map packs** (`adopt-map/packs/`): parsers from source text to referents, with no
  state. `MapRefresh` takes what they return as a function of tree and version.
* **Workflow purity**: a static check of a function's syntax tree at import.
* **Identity grammar, models, constants, logging**: value types and wording.
* **Rendering**: the text of packs, sections, snapshots, reports and exit codes. What a
  pack *selects* is in `Drafting`, what an acceptance record *covers* in `Handover`.
* **The passive question log**: `adopt ask` appends to it and nothing reads it.
* **Routes to a plane** (remote escalation, confirmation and review): the same writes
  over HTTP, decided on the other side, of which this repository holds the client only.
* **The artifact half of `adopt ci-sense`**: a map of a checkout posted as a file.
* **Tools and cancellation of agent runs**: no caller passes either.
* **Ratios of coverage per tier**: arithmetic for a report.
* **Signatures and the capability manifest of a policy**: pure predicates.
* **Two commands on one store path during a pull**: `check_target` reads the target and
  the rename comes later, so a write between them is replaced. `StoreFile` runs one
  command at a time.
* **Two refreshes at once, two ingests at once**: beyond the bounds of the runs; the
  hazards list says what the code does then.

## 6. What would come next

1. A second operator in `StoreFile` and in `MapRefresh`, over smaller repositories.
2. An abstract specification of the pull, of which the properties of `replica` are
   consequences, and its refinement by `StoreFile`.
3. `Questions` and `ReviewQueue` over one set of tables, for `AnsweredOnce` beside
   reviewers.
