------------------------------ MODULE Drafting ------------------------------
(***************************************************************************)
(* Drafting of missing knowledge (adopt_knowledge.drafting, adopt draft)    *)
(* through the agent runner (adopt-agent), the review of what landed, and   *)
(* the pack it is rendered into (adopt-handover).                           *)
(*                                                                         *)
(* A drafter reads the gaps, then the facts known about each, then asks the *)
(* provider once per gap.  A run is recorded in the annex, beside the store *)
(* and in a transaction of its own; a draft that survives grounding lands   *)
(* in one transaction; the batch that puts the drafts before a reviewer is  *)
(* the last.  Reviewers, authors, a refresh, packs and other drafters work  *)
(* between any two steps, and a drafter may be killed there.                *)
(***************************************************************************)
EXTENDS Naturals, Sequences, FiniteSets, SequencesExt, FiniteSetsExt

CONSTANTS
    Drafter,        \* processes that run adopt draft
    Referents,      \* how many there are
    Answers,        \* [text, calls, tokens] a provider may answer with
    UsdPerToken,    \* of the configured model; 0 for one in no price row
    MaxUsd, MaxToolCalls, SchemaRetries, MaxPerRun, MaxPosts, MaxAdjustments,
    MaxItems, MaxHappenings

\* A referent is its place in the order rank_gaps gives them.
Identity == 1..Referents

ASSUME DraftingAssumption ==
    /\ Referents \in Nat /\ UsdPerToken \in Nat
    /\ MaxUsd \in Nat \ {0}
    /\ \A a \in Answers : a.calls \in Nat /\ a.tokens \in Nat
    /\ \E longest \in Answers : \A a \in Answers : a.tokens <= longest.tokens

VARIABLES
    items,    \* knowledge items: [identity, verification, revision]
    observed, \* revisions of each identity that name a source
    waived,   \* identities whose gap is waived
    annex,    \* agent_run rows: [key, status, usd, by]
    reviews,  \* review items of the draft batches: [item, status]
    pack,     \* a pack being assembled: how far, and the items each read chose
    cmd,      \* what each drafter is doing
    happened  \* kills, and writes of other commands

draftingVars == <<items, observed, waived, annex, reviews, pack, cmd, happened>>

Resting == [at |-> "idle", targets |-> {}, facts |-> <<>>, landed |-> {}, spent |-> 0,
            tools |-> 0, retries |-> 0, attempt |-> 0, adjusted |-> 0, status |-> "",
            text |-> ""]

-----------------------------------------------------------------------------
(* What the drafter reads.                                                  *)

ItemsOf(i) == {n \in DOMAIN items : items[n].identity = i}

Confirmed == {n \in DOMAIN items : items[n].verification = "verified"}

\* Heads that cite the drafting prompt and that nobody has verified.
Drafts == DOMAIN items \ Confirmed

Uncovered(i) == ItemsOf(i) \cap Confirmed = {}

\* What is known of an identity: its address, where it was observed, and the
\* head of every item bound to it.
Facts(i) ==
    {<<"uri", i, 0>>} \cup {<<"source", i, k>> : k \in 1..observed[i]}
        \cup {<<"head", n, items[n].revision>> : n \in ItemsOf(i)}

\* A draft cites every fact, and only facts, it was given.
Grounded(text) == text = "draft"

Pending == {reviews[k].item : k \in {k \in DOMAIN reviews : reviews[k].status = "pending"}}

AlreadyDraftedAndPending == {items[n].identity : n \in Drafts \cap Pending}

AlreadyDrafted == {items[n].identity : n \in Drafts}

\* run_drafting passes over what is drafted already, and stops at its limit.
Worth(targets, drafted) ==
    LET left == targets \ drafted
    IN  {i \in left : Cardinality({j \in left : j < i}) < MaxPerRun}

\* The target a run is about.
Foremost(targets) == CHOOSE i \in targets : \A j \in targets : i <= j

-----------------------------------------------------------------------------
(* The annex.                                                               *)

IdempotencyKey(p) == <<Foremost(cmd[p].targets), cmd[p].facts[Foremost(cmd[p].targets)]>>

FindOkRun(key) == {r \in annex : r.key = key /\ r.status = "ok"}

FindRun(key) == {r \in annex : r.key = key}

\* The insert does nothing when the key is taken; the caller does not look.
RecordRun(row) == IF FindRun(row.key) = {} THEN annex \cup {row} ELSE annex

-----------------------------------------------------------------------------
(* The budget of one run.                                                   *)

Price(a) == a.tokens * UsdPerToken

ExhaustedAbove(usd, late) == usd > MaxUsd \/ late

\* A cap reached is a cap exhausted: dollars, or the wall clock.
Exhausted(usd, late) == usd >= MaxUsd \/ late

\* Each call of a turn is allowed before it is made.
MayCallTools(made, calls) == made + calls <= MaxToolCalls

-----------------------------------------------------------------------------
DraftingInit ==
    /\ items = <<>> /\ annex = {} /\ reviews = <<>> /\ happened = 0
    /\ observed = [i \in Identity |-> 0]
    /\ waived = {}
    /\ pack = [read |-> 0, canon |-> {}, drafts |-> {}]
    /\ cmd = [p \in Drafter |-> Resting]

At(p, stage) == cmd[p].at = stage

Goes(p, next) == cmd' = [cmd EXCEPT ![p] = next]

StoreUnchanged == UNCHANGED <<items, observed, waived, reviews, pack, happened>>

\* draft_gaps: the uncovered identities nobody waived, highest ranked first.
DraftMissing(p) ==
    /\ At(p, "idle")
    /\ Goes(p, [Resting EXCEPT !.at = "facts", !.targets =
                   {i \in Identity \ waived : Uncovered(i)}])
    /\ StoreUnchanged /\ UNCHANGED annex

\* draft_one_identity: whichever is named, covered or not.
DraftIdentity(p, i) ==
    /\ At(p, "idle")
    /\ Goes(p, [Resting EXCEPT !.at = "facts", !.targets = {i}])
    /\ StoreUnchanged /\ UNCHANGED annex

\* The facts, and which identities already carry a draft.
Gather(p) ==
    /\ At(p, "facts")
    /\ LET targets == Worth(cmd[p].targets, AlreadyDrafted)
       IN  Goes(p, [cmd[p] EXCEPT !.at = "ask", !.targets = targets,
                                  !.facts = [i \in targets |-> Facts(i)]])
    /\ StoreUnchanged /\ UNCHANGED annex

Discarded(p) ==
    LET left == cmd[p].targets \ {Foremost(cmd[p].targets)}
    IN  [Resting EXCEPT !.at = "ask", !.targets = left, !.landed = cmd[p].landed,
                     !.facts = [i \in left |-> cmd[p].facts[i]]]

Asks(p) == At(p, "ask") /\ cmd[p].targets # {}

\* A recorded run is replayed, without its output: there is nothing to write.
Replay(p) ==
    /\ Asks(p) /\ FindRun(IdempotencyKey(p)) # {}
    /\ Goes(p, Discarded(p))
    /\ StoreUnchanged /\ UNCHANGED annex

\* The prompt does not load; nothing is recorded.
RefuseSkill(p) ==
    /\ Asks(p)
    /\ Goes(p, Discarded(p))
    /\ StoreUnchanged /\ UNCHANGED annex

\* Only once nothing is recorded under the key: the adapter is unknown, denied
\* offline or not configured.  That is not recorded either.
RefuseAdapter(p) ==
    /\ Asks(p) /\ FindRun(IdempotencyKey(p)) = {}
    /\ Goes(p, Discarded(p))
    /\ StoreUnchanged /\ UNCHANGED annex

Open(p) ==
    /\ Asks(p) /\ FindRun(IdempotencyKey(p)) = {}
    /\ Goes(p, [cmd[p] EXCEPT !.at = "post"])
    /\ StoreUnchanged /\ UNCHANGED annex

Ended(p, status, text, usd) ==
    [cmd[p] EXCEPT !.at = "record", !.status = status, !.text = text, !.spent = usd]

NextTurn(p, usd) == [cmd[p] EXCEPT !.spent = usd, !.attempt = 0, !.adjusted = 0]

\* Tool calls are answered, one by one, in the next turn.
RunTools(p, a, usd) ==
    IF MayCallTools(cmd[p].tools, a.calls)
    THEN [NextTurn(p, usd) EXCEPT !.tools = @ + a.calls]
    ELSE Ended(p, "budget_exhausted", "none", usd)

Malformed(a) == a.text = "malformed"

\* An answer is charged before it is judged; one that breaks its schema is
\* asked for again.
Answered(p) ==
    /\ At(p, "post")
    /\ \E a \in Answers, late \in BOOLEAN :
         LET usd == cmd[p].spent + Price(a)
         IN  Goes(p,
               IF Exhausted(usd, late) THEN Ended(p, "budget_exhausted", "none", usd)
               ELSE IF a.calls > 0 THEN RunTools(p, a, usd)
               ELSE IF ~Malformed(a) THEN Ended(p, "ok", a.text, usd)
               ELSE IF cmd[p].retries >= SchemaRetries THEN Ended(p, "error", "none", usd)
               ELSE [NextTurn(p, usd) EXCEPT !.retries = @ + 1])
    /\ StoreUnchanged /\ UNCHANGED annex

\* A timeout or a status worth a retry; the provider may have worked for it.
Lost(p) ==
    /\ At(p, "post")
    /\ Goes(p, IF cmd[p].attempt + 1 < MaxPosts
               THEN [cmd[p] EXCEPT !.attempt = @ + 1]
               ELSE Ended(p, "error", "none", cmd[p].spent))
    /\ StoreUnchanged /\ UNCHANGED annex

\* A parameter is refused: without it, and without counting an attempt.
Negotiate(p) ==
    /\ At(p, "post") /\ cmd[p].adjusted < MaxAdjustments
    /\ Goes(p, [cmd[p] EXCEPT !.adjusted = @ + 1])
    /\ StoreUnchanged /\ UNCHANGED annex

\* Any other status, or a body that is not an answer.
ProviderError(p) ==
    /\ At(p, "post")
    /\ Goes(p, Ended(p, "error", "none", cmd[p].spent))
    /\ StoreUnchanged /\ UNCHANGED annex

AgentRun(p) == [key |-> IdempotencyKey(p), status |-> cmd[p].status, usd |-> cmd[p].spent, by |-> p]

\* Whatever the status.  What is not grounded persists nothing.
Record(p) ==
    /\ At(p, "record")
    /\ annex' = RecordRun(AgentRun(p))
    /\ Goes(p, IF cmd[p].status = "ok" /\ Grounded(cmd[p].text)
               THEN [cmd[p] EXCEPT !.at = "write"] ELSE Discarded(p))
    /\ StoreUnchanged

Item(i, verification) == [identity |-> i, verification |-> verification, revision |-> 1]

\* The item, its provenance, its load-bearing binding and its audience.
Write(p) ==
    /\ At(p, "write") /\ Len(items) < MaxItems
    /\ items' = Append(items, Item(Foremost(cmd[p].targets), "unverified"))
    /\ Goes(p, [Discarded(p) EXCEPT !.landed = @ \cup {Len(items) + 1}])
    /\ UNCHANGED <<observed, waived, annex, reviews, pack, happened>>

\* What landed is put before a reviewer, after everything.
OpenBatch(p) ==
    /\ At(p, "ask") /\ cmd[p].targets = {}
    /\ reviews' = reviews \o [n \in DOMAIN SetToSeq(cmd[p].landed) |->
                     [item |-> SetToSeq(cmd[p].landed)[n], status |-> "pending"]]
    /\ Goes(p, Resting)
    /\ UNCHANGED <<items, observed, waived, annex, pack, happened>>

-----------------------------------------------------------------------------
(* Review of the drafts.                                                    *)

Resolve(k, status) ==
    /\ reviews[k].status = "pending"
    /\ reviews' = [reviews EXCEPT ![k].status = status]
    /\ UNCHANGED <<observed, waived, annex, pack, cmd, happened>>

\* A verified revision, the draft's text or the reviewer's.
Confirm(k) ==
    /\ Resolve(k, "confirmed")
    /\ items' = [items EXCEPT ![reviews[k].item].verification = "verified",
                              ![reviews[k].item].revision = @ + 1]

\* The draft stays, unverified.
Reject(k) == Resolve(k, "rejected") /\ UNCHANGED items

-----------------------------------------------------------------------------
(* The pack reads the confirmed heads first and the drafts last, and writes *)
(* what it read.  No transaction holds the reads together.                  *)

PackOrderReversed == <<"drafts", "canon">>

PackOrder == <<"canon", "drafts">>

AssemblePack ==
    LET start == IF pack.read = 2 THEN [read |-> 0, canon |-> {}, drafts |-> {}] ELSE pack
        step  == PackOrder[start.read + 1]
        chosen == IF step = "canon" THEN Confirmed ELSE Drafts
    IN  /\ items # <<>>
        /\ pack' = [start EXCEPT !.read = @ + 1, ![step] = chosen]
        /\ UNCHANGED <<items, observed, waived, annex, reviews, cmd, happened>>

-----------------------------------------------------------------------------
(* Meanwhile.                                                               *)

Happens == happened < MaxHappenings /\ happened' = happened + 1

\* A refresh finds the identity at a new source.
Observe(i) ==
    /\ Happens /\ observed' = [observed EXCEPT ![i] = @ + 1]
    /\ UNCHANGED <<items, waived, annex, reviews, pack, cmd>>

\* Somebody answers, or ingests a document, about the identity.
Author(i) ==
    /\ Happens /\ Len(items) < MaxItems
    /\ items' = Append(items, Item(i, "verified"))
    /\ UNCHANGED <<observed, waived, annex, reviews, pack, cmd>>

\* adopt gaps waives it.
Waive(i) ==
    /\ Happens /\ waived' = waived \cup {i}
    /\ UNCHANGED <<items, observed, annex, reviews, pack, cmd>>

KillDrafter(p) ==
    /\ Happens /\ ~At(p, "idle")
    /\ Goes(p, Resting)
    /\ UNCHANGED <<items, observed, waived, annex, reviews, pack>>

DraftingNext ==
    \/ \E p \in Drafter : \/ DraftMissing(p) \/ Gather(p) \/ Replay(p) \/ RefuseSkill(p)
                          \/ RefuseAdapter(p) \/ Open(p)
                          \/ Answered(p) \/ Lost(p) \/ Negotiate(p) \/ ProviderError(p)
                          \/ Record(p) \/ Write(p) \/ OpenBatch(p) \/ KillDrafter(p)
                          \/ \E i \in Identity : DraftIdentity(p, i)
    \/ \E k \in DOMAIN reviews : Confirm(k) \/ Reject(k)
    \/ \E i \in Identity : Observe(i) \/ Author(i) \/ Waive(i)
    \/ AssemblePack

DraftingSpec == DraftingInit /\ [][DraftingNext]_draftingVars

-----------------------------------------------------------------------------
\* However its drafter was killed and whatever its reviewer said, an identity
\* has at most one draft nobody confirmed (already_drafted: "skipped rather
\* than re-drafted").  Of one drafter: two of them race between Gather and Write.
OneDraftPerReferent ==
    \A i \in Identity : Cardinality(ItemsOf(i) \cap Drafts) <= 1

\* A question whose run the annex holds, answered or failed, is not put to a
\* provider again (idempotency_key_for: "replays the recorded run rather than
\* paying for it twice").  Of one drafter.
PaidForOnce ==
    \A p \in Drafter : At(p, "post") => \A r \in annex : r.key # IdempotencyKey(p)

\* A run is over its cap by less than one answer, however many turns of tools,
\* retries of its schema and retries of its wire it took (Meter.check).
OverByOneAnswer ==
    \A r \in annex : r.usd < MaxUsd + Max({Price(a) : a \in Answers})

\* No text is both in a pack's body and in its unverified appendix, although a
\* reviewer may confirm it between the two reads (assemble_pack reads the canon
\* before the drafts, and a confirmed draft is no draft).
NoItemTwice == pack.canon \cap pack.drafts = {}

\* Who writes the answer of a run is who recorded it (record_run: two callers of
\* one key "are both told the same thing").
SameKeySameResult ==
    \A p \in Drafter : At(p, "write") => \A r \in annex : r.key = IdempotencyKey(p) => r.by = p
=============================================================================
