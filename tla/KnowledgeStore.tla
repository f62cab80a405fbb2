--------------------------- MODULE KnowledgeStore ---------------------------
(***************************************************************************)
(* The tables of the local knowledge store and the facade operations on    *)
(* them (packages/adopt-store): knowledge items with their append-only      *)
(* revision chains, bindings between items and identities, the identities   *)
(* themselves, and the review queue.                                        *)
(*                                                                         *)
(* One SQLite connection per process, WAL mode, deferred BEGIN: a committed *)
(* transaction that read and then wrote saw the last committed state (a     *)
(* stale snapshot is refused when it first writes), so a transaction is one *)
(* step.  The operators below are the parts such a step is made of; each    *)
(* changes one variable, and a transaction of ReviewQueue conjoins them.    *)
(***************************************************************************)
EXTENDS Naturals, Sequences, FiniteSets

CONSTANTS
    MaxItems,       \* bound: knowledge items that may be created
    MaxRevisions,   \* bound: revisions in one item's chain
    MaxBatches,     \* bound: review batches that may be opened
    Doc,            \* document paths
    Text,           \* document bodies; a body stands for its digest too
    Reason,         \* the text a terminal revision carries instead of a body
    Ref,            \* identities: the referents a map run can observe
    None            \* the null of a nullable column

ASSUME BoundsAssumption ==
    /\ MaxItems \in Nat
    /\ MaxRevisions \in Nat
    /\ MaxBatches \in Nat

ASSUME ValuesAssumption ==
    /\ Reason \notin Text
    /\ None \notin Text \cup {Reason} \cup Ref \cup Doc

VARIABLES
    item,   \* knowledge_item and its knowledge_revision chain
    link,   \* binding: one per (item, identity) pair, with its head's status
    ident,  \* identity, with the status and alias of its derived head
    queue   \* review_batch rows in the order they were opened

storeVars == <<item, link, ident, queue>>

Item == 1 .. MaxItems

Population  == {"ingest", "ingest-unverified", "refresh"}
Class       == {"dead", "moved", "semantics", "render", "new", "none"}
Disposition == {"confirmed", "corrected", "rejected"}

(***************************************************************************)
(* Rows.  A revision is known by its position in the chain, so the head     *)
(* pointer of an item is the chain's length and supersedes_revision_id is   *)
(* the position before.  Two columns of a revision are history only:        *)
(* "by" is the batch whose entry a person answered (0: `adopt ingest`),     *)
(* "read" the head its command had read, whatever text it put before anyone. *)
(***************************************************************************)
Revision == [text     : Text \cup {Reason},
             src      : Text \cup {None},
             verified : BOOLEAN,
             by       : Nat,
             read     : Nat]

ItemRow  == [doc   : Doc \cup {None},
             chain : Seq(Revision),
             fresh : {"unverified", "fresh", "retired"}]

LinkRow  == [status : {"none", "active", "moved"},
             fresh  : {"unverified", "fresh", "stale"},
             head   : Nat,
             bears  : BOOLEAN]

IdentRow == [status : {"absent", "active", "moved", "dead"},
             alias  : Ref \cup {None}]

\* disp[i] is the disposition of item i's entry: a batch holds at most one
\* entry per item.  prop[i] is proposed_revision_id, 0 for NULL.
BatchRow == [pop  : Population,
             cls  : [Ref -> Class],
             prop : [Item -> Nat],
             disp : [Item -> Disposition \cup {"absent", "open"}],
             res  : Disposition \cup {"open"}]

StoreTypeOK ==
    /\ item  \in [Item -> ItemRow]
    /\ link  \in [Item -> [Ref -> LinkRow]]
    /\ ident \in [Ref -> IdentRow]
    /\ queue \in Seq(BatchRow)

NoItem  == [doc |-> None, chain |-> <<>>, fresh |-> "unverified"]
NoLink  == [status |-> "none", fresh |-> "unverified", head |-> 0, bears |-> FALSE]
NoClass == [d \in Ref |-> "none"]

\* Mapped is the set of identities a first `adopt map` has already observed.
StoreInit(Mapped) ==
    /\ item  = [i \in Item |-> NoItem]
    /\ link  = [i \in Item |-> [d \in Ref |-> NoLink]]
    /\ ident = [d \in Ref |-> [status |-> IF d \in Mapped THEN "active" ELSE "absent",
                               alias  |-> None]]
    /\ queue = <<>>

-----------------------------------------------------------------------------
(* Knowledge items *)

HeadOf(i)  == Len(item[i].chain)
Created(i) == item[i].chain # <<>>
HeadRow(i) == item[i].chain[HeadOf(i)]

\* The next unused row.  Ids are minted in time order.
IsNextItem(i) == ~Created(i) /\ \A j \in Item : j < i => Created(j)

\* Only a verified revision is a person saying "this is current".
Affirms(rev) == rev.verified

CreateItem(i, d, rev) ==
    item' = [item EXCEPT ![i] =
        [doc   |-> d,
         chain |-> <<rev>>,
         fresh |-> IF Affirms(rev) THEN "fresh" ELSE "unverified"]]

\* Mutated form: the chain-fork guard is lost.
AppendWithoutGuard(i, expected, rev) ==
    /\ HeadOf(i) < MaxRevisions
    /\ item' = [item EXCEPT ![i].chain = Append(@, rev),
                            ![i].fresh = IF Affirms(rev) THEN "fresh" ELSE @]

\* Mutated form: the freshness rule holds at creation only.
AppendWithoutAffirming(i, expected, rev) ==
    /\ HeadOf(i) = expected
    /\ HeadOf(i) < MaxRevisions
    /\ item' = [item EXCEPT ![i].chain = Append(@, rev)]

\* Refused with REVISION_CHAIN_FORK unless `expected` is the current head.
AppendRevision(i, expected, rev) ==
    /\ HeadOf(i) = expected
    /\ HeadOf(i) < MaxRevisions
    /\ item' = [item EXCEPT ![i].chain = Append(@, rev),
                            ![i].fresh = IF Affirms(rev) THEN "fresh" ELSE @]

TerminalRevision(b, read) ==
    [text |-> Reason, src |-> None, verified |-> FALSE, by |-> b, read |-> read]

\* The withdrawal of an item, in place of a text.
Terminal(rev) == ~rev.verified /\ rev.text = Reason

\* Retiring reads the head itself, so it succeeds over whatever is current.
RetireItem(i, b, read) ==
    /\ HeadOf(i) < MaxRevisions
    /\ item' = [item EXCEPT ![i].chain = Append(@, TerminalRevision(b, read)),
                            ![i].fresh = "retired"]

-----------------------------------------------------------------------------
(* Bindings *)

Bound(i, d) == link[i][d].status # "none"

NewLink(bears) ==
    [status |-> "active", fresh |-> "unverified", head |-> 1, bears |-> bears]

\* idx_binding_pair is UNIQUE: a pair that is bound, whatever its status,
\* cannot be created again.
Bind(i, S, bears) ==
    /\ \A d \in S : ~Bound(i, d)
    /\ link' = [link EXCEPT ![i] =
                  [d \in Ref |-> IF d \in S THEN NewLink(bears) ELSE link[i][d]]]

Superseded(row)  == [row EXCEPT !.status = "moved", !.head = @ + 1]
Freshened(row)   == [row EXCEPT !.fresh = "fresh"]
Staled(row)      == [row EXCEPT !.fresh = "stale"]
Reactivated(row) == [row EXCEPT !.status = "active", !.head = @ + 1, !.fresh = "unverified"]

-----------------------------------------------------------------------------
(* Identities *)

\* The newest revision's alias, followed to the identity that replaced it.
ResolvedIdentity(d) ==
    LET hop[n \in 0 .. Cardinality(Ref)] ==
          IF n = 0 THEN d
          ELSE IF ident[hop[n-1]].alias = None
               THEN hop[n-1]
               ELSE ident[hop[n-1]].alias
    IN  hop[Cardinality(Ref)]

-----------------------------------------------------------------------------
(* The review queue *)

Members(b)     == {i \in Item : queue[b].disp[i] # "absent"}
IsOpen(b, i)   == queue[b].disp[i] = "open"
Entries        == {e \in (DOMAIN queue) \X Item : queue[e[1]].disp[e[2]] # "absent"}

\* What a closed batch's outcome is, given its entries'.
BatchResolution(outcomes) ==
    IF outcomes = {"confirmed"} THEN "confirmed"
    ELSE IF outcomes = {"rejected"} THEN "rejected"
    ELSE "corrected"

\* `props` gives each queued item its proposed revision (0 for none).
OpenBatch(pop, cls, props) ==
    /\ DOMAIN props # {}
    /\ Len(queue) < MaxBatches
    /\ queue' = Append(queue,
         [pop  |-> pop,
          cls  |-> cls,
          prop |-> [i \in Item |-> IF i \in DOMAIN props THEN props[i] ELSE 0],
          disp |-> [i \in Item |-> IF i \in DOMAIN props THEN "open" ELSE "absent"],
          res  |-> "open"])

\* Mutated form: a batch that is closed keeps the outcome it was closed with.
StampOnce(b, i, d) ==
    LET outcomes == {IF j = i THEN d ELSE queue[b].disp[j] : j \in Members(b)}
    IN  queue' = [queue EXCEPT ![b].disp[i] = d,
                               ![b].res = IF "open" \in outcomes \/ @ # "open" THEN @
                                          ELSE BatchResolution(outcomes)]

\* Write a disposition, and the batch's when no entry of it is left open.
Stamp(b, i, d) ==
    LET outcomes == {IF j = i THEN d ELSE queue[b].disp[j] : j \in Members(b)}
    IN  queue' = [queue EXCEPT ![b].disp[i] = d,
                               ![b].res = IF "open" \in outcomes THEN @
                                          ELSE BatchResolution(outcomes)]

\* Mutated form: an entry that is already decided is decided again.
ResolveAgain(b, i, d) == Stamp(b, i, d)

\* GovernanceFacade.resolve inside the caller's transaction: an entry that is
\* already decided refuses, and the whole transaction rolls back.
Resolve(b, i, d) ==
    /\ IsOpen(b, i)
    /\ Stamp(b, i, d)

\* Revision ids, and (item, digest) pairs, that the queue has already carried.
PresentedRevisions ==
    {<<e[2], queue[e[1]].prop[e[2]]>> : e \in {f \in Entries : queue[f[1]].prop[f[2]] # 0}}

PresentedTexts ==
    {<<e[2], item[e[2]].chain[queue[e[1]].prop[e[2]]].src>> :
        e \in {f \in Entries : queue[f[1]].pop = "ingest" /\ queue[f[1]].prop[f[2]] # 0}}
=============================================================================
