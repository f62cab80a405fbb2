---------------------------- MODULE ReviewQueue ----------------------------
(***************************************************************************)
(* `adopt ingest`, `adopt review`, `adopt bind` and the store half of       *)
(* `adopt refresh`, run by several processes over one knowledge store.      *)
(*                                                                         *)
(* A command reads what it needs, decides, and then writes in one or more   *)
(* transactions.  What it read is in job[p]; each transaction is one step;  *)
(* between two steps other processes run, and a command may end anywhere    *)
(* (a refusal, a locked database, a killed process), leaving behind only    *)
(* the transactions it committed.                                           *)
(***************************************************************************)
EXTENDS KnowledgeStore

CONSTANTS
    Proc,           \* processes running commands over the store
    Docs,           \* the discovered documents, in the order they are written
    Structural,     \* (body, identity): the body refers to the identity outright
    Named,          \* (body, identity): the body names it and no more
    Mapped,         \* identities observed before the first command
    Verbs,          \* the commands issued in this instance
    MaxCommands,    \* bound: commands issued in all
    ChangeClasses   \* what a refresh of this instance may conclude of known referents

AllVerbs == {"ingest", "ingest-unverified", "bind", "refresh",
             "confirm", "confirm-batch", "edit", "reject",
             "retire", "rebind", "confirm-current"}

\* A path is discovered once.
ASSUME DocsAssumption    == /\ Docs \in Seq(Doc)
                            /\ \A m, n \in DOMAIN Docs : Docs[m] = Docs[n] => m = n
ASSUME MatchAssumption   == /\ Structural \subseteq Text \X Ref
                            /\ Named \subseteq Text \X Ref
ASSUME MappedAssumption  == Mapped \subseteq Ref
ASSUME VerbsAssumption   == Verbs \subseteq AllVerbs
ASSUME CommandsAssumption == MaxCommands \in Nat
ASSUME ClassesAssumption == ChangeClasses \subseteq Class \ {"new", "none"}

VARIABLES
    job,    \* job[p]: the command process p is running, and what it read
    issued  \* how many commands have been issued

vars == <<item, link, ident, queue, job, issued>>

-----------------------------------------------------------------------------
(* What a running command holds. *)

Idle == [at |-> "idle"]

\* One pending entry as the listing showed it.
Listing == [head : Nat,
            text : Text \cup {Reason},
            src  : Text \cup {None},
            sugg : SUBSET Ref]

ReviewJob ==
    [at       : {"causes", "decide", "stamp"},
     verb     : Verbs,
     batch    : Nat,
     seen     : [Item -> Listing \cup {None}],
     affected : SUBSET Ref,
     target   : Ref \cup {None}]

\* A stored document as the run found it: item 0 is a document never ingested.
StoredDocument == [item : Item \cup {0}, head : Nat, digest : Text \cup {None}]

IngestJob ==
    [at         : {"document", "queue"},
     unverified : BOOLEAN,
     todo       : Seq(Doc),
     body       : [Doc -> Text],
     stored     : [Doc -> StoredDocument],
     pairs      : SUBSET (Item \X Ref),
     active     : SUBSET Ref,
     shownRevs  : SUBSET (Item \X Nat),
     shownTexts : SUBSET (Item \X (Text \cup {None})),
     verify     : SUBSET (Item \X Nat),
     suggest    : SUBSET (Item \X Nat)]

BindJob == [at : {"bind"}, item : Item, ref : Ref, was : LinkRow, bears : BOOLEAN]

RefreshJob ==
    [at    : {"observe", "moves", "record"},
     cls   : [Ref -> Class],
     succ  : [Ref -> Ref \cup {None}],
     fresh : SUBSET Ref]

Job == {Idle} \cup ReviewJob \cup IngestJob \cup BindJob \cup RefreshJob

TypeOK ==
    /\ StoreTypeOK
    /\ job \in [Proc -> Job]
    /\ issued \in 0 .. MaxCommands

Init ==
    /\ StoreInit(Mapped)
    /\ job = [p \in Proc |-> Idle]
    /\ issued = 0

-----------------------------------------------------------------------------
(* Helpers of more than one command. *)

At(p, where)  == job[p].at = where
Goes(p, j)    == job' = [job EXCEPT ![p] = j]

\* A process with nothing to do runs one more command.
Issue(p, j) ==
    /\ At(p, "idle")
    /\ issued < MaxCommands
    /\ issued' = issued + 1
    /\ Goes(p, j)

\* A running command goes on.
Becomes(p, j) == Goes(p, j) /\ UNCHANGED issued

Refs(matches, text) == {d \in Ref : <<text, d>> \in matches}
BoundRefs(i)        == {d \in Ref : Bound(i, d)}

\* Every way a command ends without committing its next transaction: a guard
\* refused it and it rolled back, the store was busy, the process was killed.
Abandon(p) ==
    /\ ~At(p, "idle")
    /\ Becomes(p, Idle)
    /\ UNCHANGED storeVars

-----------------------------------------------------------------------------
(* adopt ingest [--unverified] *)

\* The document's item is the one whose provenance names the path; the newest
\* wins when two do.
StoredAs(d) ==
    LET mine == {i \in Item : Created(i) /\ item[i].doc = d}
    IN  IF mine = {} THEN [item |-> 0, head |-> 0, digest |-> None]
        ELSE LET i == CHOOSE k \in mine : \A j \in mine : j <= k
             IN  [item |-> i, head |-> HeadOf(i), digest |-> HeadRow(i).src]

\* A document of the store that this run does not find; it reads no body of it.
Undiscovered(d) == \A n \in DOMAIN Docs : Docs[n] # d

\* Everything comparative is read before the first write.
IngestStart(p) ==
    /\ \E unverified \in BOOLEAN, body \in [Doc -> Text] :
         /\ (IF unverified THEN "ingest-unverified" ELSE "ingest") \in Verbs
         /\ \A d \in Doc : Undiscovered(d) => body[d] = CHOOSE text \in Text : TRUE
         /\ Issue(p, [at         |-> "document",
                        unverified |-> unverified,
                        todo       |-> Docs,
                        body       |-> body,
                        stored     |-> [d \in Doc |-> StoredAs(d)],
                        pairs      |-> {e \in Item \X Ref : Bound(e[1], e[2])},
                        active     |-> {d \in Ref : ident[d].status = "active"},
                        shownRevs  |-> PresentedRevisions,
                        shownTexts |-> PresentedTexts,
                        verify     |-> {},
                        suggest    |-> {}])
    /\ UNCHANGED storeVars

\* The revision a document's text becomes: verified unless --unverified.
DocumentRevision(j, d) ==
    [text |-> j.body[d], src |-> j.body[d], verified |-> ~j.unverified,
     by |-> 0, read |-> j.stored[d].head]

\* Create the item, leave it alone, or append to it over the head stored at
\* the start of the run.
WriteDocument(j, d, i) ==
    \/ /\ j.stored[d].item = 0
       /\ IsNextItem(i)
       /\ CreateItem(i, d, DocumentRevision(j, d))
    \/ /\ i = j.stored[d].item
       /\ j.stored[d].digest = j.body[d]
       /\ UNCHANGED item
    \/ /\ i = j.stored[d].item
       /\ j.stored[d].digest # j.body[d]
       /\ AppendRevision(i, j.stored[d].head, DocumentRevision(j, d))

\* The tiers of match_document, less the pairs the run read as bound.
StructuralMatches(j, d)  == Refs(Structural, j.body[d]) \cap j.active
SuggestedMatches(j, d, i) ==
    {r \in Refs(Named, j.body[d]) \cap j.active :
        r \notin StructuralMatches(j, d) /\ <<i, r>> \notin j.pairs}

\* Mutated form: only the revision id keeps a suggestion from being asked again.
AskedByRevision(j, d, i, rev) == <<i, rev>> \notin j.shownRevs

\* A text's suggestions are queued once, by revision and by digest.
NotYetPresented(j, d, i, rev) ==
    /\ <<i, rev>> \notin j.shownRevs
    /\ <<i, j.body[d]>> \notin j.shownTexts

\* One document: its item and revision, its structural bindings, and what of it
\* the batches of this run will carry.  One transaction.
IngestDocument(p) ==
    LET j == job[p]
        d == Head(j.todo)
    IN  /\ At(p, "document")
        /\ j.todo # <<>>
        /\ \E i \in Item :
             /\ WriteDocument(j, d, i)
             /\ Bind(i, {r \in StructuralMatches(j, d) : <<i, r>> \notin j.pairs}, TRUE)
             /\ LET wrote == j.stored[d].item = 0 \/ j.stored[d].digest # j.body[d]
                    rev   == IF wrote THEN j.stored[d].head + 1 ELSE j.stored[d].head
                IN  Becomes(p,
                      [j EXCEPT
                         !.todo    = Tail(@),
                         !.verify  = IF wrote /\ j.unverified THEN @ \cup {<<i, rev>>} ELSE @,
                         !.suggest = IF /\ SuggestedMatches(j, d, i) # {}
                                        /\ ~(wrote /\ j.unverified)
                                        /\ NotYetPresented(j, d, i, rev)
                                     THEN @ \cup {<<i, rev>>} ELSE @])
        /\ UNCHANGED <<ident, queue>>

Proposals(pairs) ==
    [i \in {e[1] : e \in pairs} |-> CHOOSE n \in {e[2] : e \in pairs} : <<i, n>> \in pairs]

\* The verification batch, in a transaction of its own.
QueueVerification(p) ==
    /\ At(p, "document")
    /\ job[p].todo = <<>>
    /\ IF job[p].verify = {}
       THEN UNCHANGED queue
       ELSE OpenBatch("ingest-unverified", NoClass, Proposals(job[p].verify))
    /\ Becomes(p, [job[p] EXCEPT !.at = "queue"])
    /\ UNCHANGED <<item, link, ident>>

\* The suggestion batch, in another.
QueueSuggestions(p) ==
    /\ At(p, "queue")
    /\ IF job[p].suggest = {}
       THEN UNCHANGED queue
       ELSE OpenBatch("ingest", NoClass, Proposals(job[p].suggest))
    /\ Becomes(p, Idle)
    /\ UNCHANGED <<item, link, ident>>

-----------------------------------------------------------------------------
(* adopt bind *)

\* The pair's row is read before the write.
BindStart(p) ==
    /\ "bind" \in Verbs
    /\ \E i \in Item, d, t \in Ref, bears \in BOOLEAN :
         /\ Created(i)
         /\ ident[d].status # "absent"
         /\ t = ResolvedIdentity(d)
         /\ Issue(p, [at |-> "bind", item |-> i, ref |-> t,
                        was |-> link[i][t], bears |-> bears])
    /\ UNCHANGED storeVars

\* A superseded pair is revived over the head that was read, and restarted.
Revive(i, t, was) ==
    /\ link[i][t].head = was.head
    /\ link' = [link EXCEPT ![i][t] = Reactivated(@)]

BindPair(p) ==
    LET j == job[p]
    IN  /\ At(p, "bind")
        /\ \/ j.was.status = "moved" /\ Revive(j.item, j.ref, j.was)
           \/ j.was.status # "moved" /\ Bind(j.item, {j.ref}, j.bears)
        /\ Becomes(p, Idle)
        /\ UNCHANGED <<item, ident, queue>>

-----------------------------------------------------------------------------
(* adopt review: the listing every decision is made from *)

\* Mutated form: the item's newest text is shown, and confirmed.
ListingFromHead(b, i) ==
    [head |-> HeadOf(i),
     text |-> HeadRow(i).text,
     src  |-> HeadRow(i).src,
     sugg |-> IF queue[b].pop = "ingest"
              THEN {d \in Refs(Named, HeadRow(i).text) :
                       ident[d].status = "active" /\ ~Bound(i, d)}
              ELSE {}]

\* The text an entry is about: the proposed revision's if there is one, the
\* head's otherwise.  Suggestions and source_version come from the head, which
\* may be newer than the text a person is shown.
ListingOf(b, i) ==
    LET prop == queue[b].prop[i]
    IN  [head |-> HeadOf(i),
         text |-> IF prop = 0 THEN HeadRow(i).text ELSE item[i].chain[prop].text,
         src  |-> HeadRow(i).src,
         sugg |-> IF queue[b].pop = "ingest"
                  THEN {d \in Refs(Named, HeadRow(i).text) :
                           ident[d].status = "active" /\ ~Bound(i, d)}
                  ELSE {}]

ChangeActions == {"retire", "rebind", "confirm-current"}

\* Which entries an invocation may name: the three actions resolve change
\* items only, the other verbs resolve anything open.
Accepts(verb, b) == verb \in ChangeActions => queue[b].pop = "refresh"

ListQueue(p) ==
    /\ \E verb \in Verbs \cap (ChangeActions \cup {"confirm", "confirm-batch", "edit", "reject"}),
          b \in DOMAIN queue, S \in SUBSET Item :
         /\ Accepts(verb, b)
         /\ S # {}
         /\ S \subseteq {i \in Item : IsOpen(b, i)}
         /\ IF verb = "confirm-batch" THEN S = {i \in Item : IsOpen(b, i)}
                                      ELSE Cardinality(S) = 1
         /\ Issue(p, [at       |-> IF verb \in ChangeActions THEN "causes" ELSE "decide",
                        verb     |-> verb,
                        batch    |-> b,
                        seen     |-> [i \in Item |-> IF i \in S THEN ListingOf(b, i) ELSE None],
                        affected |-> {},
                        target   |-> None])
    /\ UNCHANGED storeVars

\* The entries of the invocation that are still to be decided.
Pending(p) == {i \in Item : job[p].seen[i] # None}

\* Where a rebind may go: --to, its aliases followed, or the one successor the
\* changed referents record.
RebindTargets(affected) ==
    {t \in Ref :
        \/ \E d \in Ref : ident[d].status # "absent" /\ t = ResolvedIdentity(d)
        \/ {ident[d].alias : d \in affected} \ {None} = {t}}

\* The links to classified referents that are still active, and a rebind's
\* target, are read after the listing and before the transaction.
ReadCauses(p) ==
    LET j        == job[p]
        affected == {d \in Ref : /\ queue[j.batch].cls[d] # "none"
                                 /\ \E i \in Pending(p) : link[i][d].status = "active"}
    IN  /\ At(p, "causes")
        /\ \E t \in IF j.verb = "rebind" THEN RebindTargets(affected) ELSE {None} :
              Becomes(p, [j EXCEPT !.at = "decide", !.affected = affected, !.target = t])
        /\ UNCHANGED storeVars

Deciding(p, verbs, i) ==
    /\ At(p, "decide")
    /\ job[p].verb \in verbs
    /\ i \in Pending(p)

\* One entry of the invocation is done; a batch confirmation goes on.
Done(p, i) ==
    Becomes(p, IF Pending(p) = {i} THEN Idle ELSE [job[p] EXCEPT !.seen[i] = None])

\* What a person's decision on entry (b, i) appends, over the listing's head.
HumanRevision(p, i, text) ==
    [text |-> text, src |-> job[p].seen[i].src, verified |-> TRUE,
     by |-> job[p].batch, read |-> job[p].seen[i].head]

AppendHuman(p, i, text) ==
    AppendRevision(i, job[p].seen[i].head, HumanRevision(p, i, text))

-----------------------------------------------------------------------------
(* adopt review --confirm | --confirm-batch | --edit | --reject *)

\* Confirming unverified text appends it as verified.
ConfirmCandidate(p, i) ==
    /\ Deciding(p, {"confirm", "confirm-batch"}, i)
    /\ queue[job[p].batch].pop = "ingest-unverified"
    /\ Resolve(job[p].batch, i, "confirmed")
    /\ AppendHuman(p, i, job[p].seen[i].text)
    /\ Done(p, i)
    /\ UNCHANGED <<link, ident>>

\* Confirming suggestions binds them, less the pairs bound meanwhile.
ConfirmSuggestions(p, i) ==
    /\ Deciding(p, {"confirm", "confirm-batch"}, i)
    /\ queue[job[p].batch].pop # "ingest-unverified"
    /\ Resolve(job[p].batch, i, "confirmed")
    /\ Bind(i, job[p].seen[i].sugg \ BoundRefs(i), TRUE)
    /\ Done(p, i)
    /\ UNCHANGED <<item, ident>>

\* A correction supplies the text itself.
EditEntry(p, i) ==
    /\ Deciding(p, {"edit"}, i)
    /\ Resolve(job[p].batch, i, "corrected")
    /\ \E text \in Text : AppendHuman(p, i, text)
    /\ Done(p, i)
    /\ UNCHANGED <<link, ident>>

\* A rejection has no transaction around it: the entry is read first ...
RejectRead(p, i) ==
    /\ Deciding(p, {"reject"}, i)
    /\ IsOpen(job[p].batch, i)
    /\ Becomes(p, [job[p] EXCEPT !.at = "stamp"])
    /\ UNCHANGED storeVars

\* ... and stamped afterwards, whatever has become of it.
RejectStamp(p, i) ==
    /\ At(p, "stamp")
    /\ i \in Pending(p)
    /\ Stamp(job[p].batch, i, "rejected")
    /\ Done(p, i)
    /\ UNCHANGED <<item, link, ident>>

-----------------------------------------------------------------------------
(* adopt review --resolve --action retire | rebind | confirm-current *)

\* The load-bearing links of the item this entry is about.
Mine(p, i) == {d \in job[p].affected : link[i][d].bears}

ClassOf(p, d) == queue[job[p].batch].cls[d]

RetireEntry(p, i) ==
    /\ Deciding(p, {"retire"}, i)
    /\ Resolve(job[p].batch, i, "corrected")
    /\ RetireItem(i, job[p].batch, job[p].seen[i].head)
    /\ Done(p, i)
    /\ UNCHANGED <<link, ident>>

\* Mutated form: a target the item is bound to already is not bound again,
\* and not refused either.
RebindBoundTarget(i, replaced, live, t) ==
    link' = [link EXCEPT ![i] = [d \in Ref |->
                IF d \in replaced THEN Superseded(@[d])
                ELSE IF d = t /\ ~Bound(i, d) THEN NewLink(TRUE)
                ELSE IF d \in live THEN Freshened(@[d])
                ELSE @[d]]]

\* Mutated form: the links whose referent still exists are left as they are.
RebindOnly(i, replaced, live, t) ==
    /\ ~Bound(i, t)
    /\ link' = [link EXCEPT ![i] = [d \in Ref |->
                   IF d \in replaced THEN Superseded(@[d])
                   ELSE IF d = t THEN NewLink(TRUE)
                   ELSE @[d]]]

\* Supersede the replaced links, bind the target, freshen the live ones.
Rebind(i, replaced, live, t) ==
    /\ ~Bound(i, t)
    /\ link' = [link EXCEPT ![i] = [d \in Ref |->
                   IF d \in replaced THEN Superseded(@[d])
                   ELSE IF d = t THEN NewLink(TRUE)
                   ELSE IF d \in live THEN Freshened(@[d])
                   ELSE @[d]]]

\* The dead or moved referents' links are replaced; all of them when none is.
RebindEntry(p, i) ==
    LET gone     == {d \in Mine(p, i) : ClassOf(p, d) \in {"dead", "moved"}}
        replaced == IF gone = {} THEN Mine(p, i) ELSE gone
    IN  /\ Deciding(p, {"rebind"}, i)
        /\ replaced # {}
        /\ Resolve(job[p].batch, i, "corrected")
        /\ Rebind(i, replaced, Mine(p, i) \ replaced, job[p].target)
        /\ Done(p, i)
        /\ UNCHANGED <<item, ident>>

\* The links a confirmation re-affirms: those whose referent changed meaning.
Reaffirm(p, i) ==
    link' = [link EXCEPT ![i] = [d \in Ref |->
                IF d \in Mine(p, i) /\ ClassOf(p, d) = "semantics"
                THEN Freshened(@[d]) ELSE @[d]]]

ConfirmCurrentEntry(p, i) ==
    /\ Deciding(p, {"confirm-current"}, i)
    /\ Resolve(job[p].batch, i, "confirmed")
    /\ AppendHuman(p, i, job[p].seen[i].text)
    /\ Reaffirm(p, i)
    /\ Done(p, i)
    /\ UNCHANGED ident

-----------------------------------------------------------------------------
(* adopt refresh: what one run concluded, and its writes *)

Known  == {d \in Ref : ident[d].status = "active"}
Unseen == {d \in Ref : ident[d].status = "absent"}

\* What a run concluded: a class for each known referent, the successor of each
\* moved one, and the referents it had not seen (successors are not news).
Concluded(found, to, fresh) ==
    [at    |-> "observe",
     cls   |-> [d \in Ref |-> IF d \in DOMAIN found THEN found[d]
                               ELSE IF d \in fresh /\ \A e \in DOMAIN to : to[e] # d
                                    THEN "new" ELSE "none"],
     succ  |-> [d \in Ref |-> IF d \in DOMAIN to THEN to[d] ELSE None],
     fresh |-> fresh]

\* The tree is compared with the identities stored now.  A moved referent's
\* successor, like any new one, is not in the store yet.
RefreshStart(p) ==
    /\ "refresh" \in Verbs
    /\ \E found \in [Known -> ChangeClasses \cup {"none"}], fresh \in SUBSET Unseen :
         \E to \in [{d \in Known : found[d] = "moved"} -> fresh] :
           /\ \A d, e \in DOMAIN to : to[d] = to[e] => d = e
           /\ fresh # {} \/ \E d \in Known : found[d] # "none"
           /\ Issue(p, Concluded(found, to, fresh))
    /\ UNCHANGED storeVars

\* run_map observes every referent; the ones it has not seen become active.
MapObserve(p) ==
    /\ At(p, "observe")
    /\ ident' = [d \in Ref |->
                   IF d \in job[p].fresh /\ ident[d].status = "absent"
                   THEN [status |-> "active", alias |-> None] ELSE ident[d]]
    /\ Becomes(p, [job[p] EXCEPT !.at = "moves"])
    /\ UNCHANGED <<item, link, queue>>

\* run_map then records the moves it detected.
MapMoves(p) ==
    /\ At(p, "moves")
    /\ ident' = [d \in Ref |->
                   IF job[p].cls[d] = "moved"
                   THEN [status |-> "moved", alias |-> job[p].succ[d]] ELSE ident[d]]
    /\ Becomes(p, [job[p] EXCEPT !.at = "record"])
    /\ UNCHANGED <<item, link, queue>>

Actionable == {"dead", "moved", "semantics"}

\* The items a run puts in front of a person: any load-bearing link counts,
\* superseded ones included.
Queued(cls) ==
    {i \in Item : \E d \in Ref : cls[d] \in Actionable /\ Bound(i, d) /\ link[i][d].bears}

\* Retirements, digests, propagation and the batch commit together.
RecordRefresh(p) ==
    LET cls    == job[p].cls
        queued == Queued(cls)
    IN  /\ At(p, "record")
        /\ ident' = [d \in Ref |->
              IF cls[d] = "dead"      THEN [status |-> "dead", alias |-> None]
              ELSE IF cls[d] = "semantics" THEN [status |-> "active", alias |-> None]
              ELSE ident[d]]
        /\ link' = [i \in Item |-> [d \in Ref |->
              IF cls[d] = "semantics" /\ Bound(i, d) /\ link[i][d].bears
              THEN Staled(link[i][d]) ELSE link[i][d]]]
        /\ IF queued = {} THEN UNCHANGED queue
           ELSE OpenBatch("refresh", cls, [i \in queued |-> 0])
        /\ Becomes(p, Idle)
        /\ UNCHANGED item

-----------------------------------------------------------------------------

Ingest(p) == \/ IngestStart(p)
             \/ IngestDocument(p)
             \/ QueueVerification(p)
             \/ QueueSuggestions(p)

Decide(p) == \E i \in Item :
             \/ ConfirmCandidate(p, i)
             \/ ConfirmSuggestions(p, i)
             \/ EditEntry(p, i)
             \/ RejectRead(p, i)
             \/ RejectStamp(p, i)
             \/ RetireEntry(p, i)
             \/ RebindEntry(p, i)
             \/ ConfirmCurrentEntry(p, i)

Refresh(p) == \/ RefreshStart(p)
              \/ MapObserve(p)
              \/ MapMoves(p)
              \/ RecordRefresh(p)

Next == \E p \in Proc :
          \/ Abandon(p)
          \/ Ingest(p)
          \/ BindStart(p)
          \/ BindPair(p)
          \/ ListQueue(p)
          \/ ReadCauses(p)
          \/ Decide(p)
          \/ Refresh(p)

Spec == Init /\ [][Next]_vars

-----------------------------------------------------------------------------
(* Properties *)

\* Nothing points at a row that is not there: links and queue entries name
\* created items, an entry's proposal is a revision of its item, and what a
\* running command has read is never ahead of the store, whatever was committed
\* or abandoned since it read it.
LinksToItems ==
    \A i \in Item, d \in Ref : Bound(i, d) => Created(i)

EntriesToRevisions ==
    \A b \in DOMAIN queue : \A i \in Members(b) :
        Created(i) /\ queue[b].prop[i] <= HeadOf(i)

IngestKnows(j) ==
    /\ \A d \in Doc : IF j.stored[d].item = 0
                      THEN j.stored[d].head = 0
                      ELSE j.stored[d].head \in 1 .. HeadOf(j.stored[d].item)
    /\ \A e \in j.verify \cup j.suggest : e[2] \in 1 .. HeadOf(e[1])

ReviewKnows(j) ==
    /\ j.batch \in DOMAIN queue
    /\ \A i \in Item : j.seen[i] # None =>
          i \in Members(j.batch) /\ j.seen[i].head \in 1 .. HeadOf(i)
    /\ j.at = "decide" /\ j.verb = "rebind" => j.target \in Ref

JobKnows(j) ==
    /\ j.at \in {"document", "queue"} => IngestKnows(j)
    /\ j.at \in {"causes", "decide", "stamp"} => ReviewKnows(j)
    /\ j.at = "bind" => Created(j.item)

ReferencesHold ==
    /\ LinksToItems
    /\ EntriesToRevisions
    /\ \A p \in Proc : JobKnows(job[p])

\* Two commands that read one head never both state a text: every revision but
\* a withdrawal supersedes the head its own command had read, whatever others
\* committed in between.  It is about what the command read, not about the text
\* a person was shown.  (append_revision's REVISION_CHAIN_FORK.)
NoLostUpdate ==
    \A i \in Item : \A n \in DOMAIN item[i].chain :
        ~Terminal(item[i].chain[n]) => item[i].chain[n].read = n - 1

\* A confirmed verification stands with its own revision, which states, as
\* verified, the text of the very revision the entry proposed, whatever the
\* item's text had become since, over the head its command had read.  The head
\* it supersedes may state a newer text that nobody was shown.  (_revision_of:
\* "what a reviewer reads must not change under them"; confirm, in one
\* transaction with the append.)
ConfirmedIsWhatWasProposed ==
    \A e \in Entries :
        LET b     == e[1]
            chain == item[e[2]].chain
        IN  queue[b].pop = "ingest-unverified" /\ queue[b].disp[e[2]] = "confirmed" =>
               \E n \in DOMAIN chain :
                  /\ chain[n].by = b
                  /\ chain[n].verified
                  /\ chain[n].read = n - 1
                  /\ chain[n].text = chain[queue[b].prop[e[2]]].text

\* One decision writes at most once: no entry of the queue is the author of two
\* revisions, and an entry that authored one is no longer open.  (The guard in
\* GovernanceFacade.resolve, and the transaction around it.)
OneWritePerDecision ==
    \A i \in Item : \A n \in DOMAIN item[i].chain :
        LET b == item[i].chain[n].by
        IN  b # 0 =>
              /\ b \in DOMAIN queue
              /\ queue[b].disp[i] \in Disposition
              /\ \A m \in DOMAIN item[i].chain : item[i].chain[m].by = b => m = n

\* A batch is closed exactly when none of its entries is open, as confirmed or
\* rejected when every one was, as corrected otherwise; also when the rejection
\* of a racing reviewer, who read the entry while it was open, overwrites its
\* disposition after another reviewer's last answer closed the batch.
BatchClosesWithLastEntry ==
    \A b \in DOMAIN queue :
        IF \E i \in Item : queue[b].disp[i] = "open"
        THEN queue[b].res = "open"
        ELSE queue[b].res =
               IF \A i \in Members(b) : queue[b].disp[i] = "confirmed" THEN "confirmed"
               ELSE IF \A i \in Members(b) : queue[b].disp[i] = "rejected" THEN "rejected"
               ELSE "corrected"

\* The freshness of an item and its head revision are written together: a
\* verified head is served as fresh and a terminal one as retired, in every
\* state any process can read.  (_affirms and retire, inside the transaction.)
HeadGovernsFreshness ==
    \A i \in Item : Created(i) =>
        /\ HeadRow(i).verified => item[i].fresh = "fresh"
        /\ Terminal(HeadRow(i)) => item[i].fresh = "retired"

\* `moved` means replaced: an item with a superseded link still has an active
\* one, so no rebind leaves a note anchored to nothing.
MovedMeansReplaced ==
    \A i \in Item :
        (\E d \in Ref : link[i][d].status = "moved") =>
            \E d \in Ref : link[i][d].status = "active"

EverRetired(i) == \E n \in DOMAIN item[i].chain : item[i].chain[n].text = Reason

\* A stale link never outlives the question that can clear it: while an active
\* link of an item nobody retired is stale, an entry about that change is open
\* or was rejected.  ("A link left stale here could never be cleared again".)
StaleLinkHasAQuestion ==
    \A i \in Item, d \in Ref :
        /\ link[i][d].status = "active"
        /\ link[i][d].fresh = "stale"
        /\ ~EverRetired(i)
        => \E b \in DOMAIN queue :
              /\ queue[b].cls[d] = "semantics"
              /\ queue[b].disp[i] \in {"open", "rejected"}

\* A document, or a commit a harvest mined, has one item: an interrupted run that
\* is started again finds what the first one committed, whatever review has
\* appended to it in between.  (stored_documents, harvested_commits.)
OneItemPerDocument ==
    \A i, j \in Item : Created(i) /\ item[i].doc = item[j].doc => i = j

\* The suggestions a text carries are queued once, over interrupted runs,
\* re-ingests and the revisions that repeat a text.
SuggestionsAskedOnce ==
    \A e, f \in Entries :
        /\ e[2] = f[2]
        /\ queue[e[1]].pop = "ingest" /\ queue[f[1]].pop = "ingest"
        /\ item[e[2]].chain[queue[e[1]].prop[e[2]]].src =
           item[e[2]].chain[queue[f[1]].prop[e[2]]].src
        => e = f

\* The store implements the ledger: its chains are the logs, its decided
\* entries the spent decisions.
LogOf(chain) ==
    [n \in DOMAIN chain |->
        [by |-> chain[n].by, read |-> chain[n].read, ends |-> Terminal(chain[n])]]

Ledger == INSTANCE DecisionLedger WITH
    Batch <- 1 .. MaxBatches,
    log   <- [i \in Item |-> LogOf(item[i].chain)],
    spent <- {e \in Entries : ~IsOpen(e[1], e[2])}

KeepsLedger == Ledger!LedgerSpec

-----------------------------------------------------------------------------
(* What the documentation says and the code does not do *)

\* README: "A terminal revision is appended and the item resolves `retired`
\* forever."
RetiredForever ==
    [][\A i \in Item : item[i].fresh = "retired" => item'[i].fresh = "retired"]_vars

\* GovernanceFacade.resolve: a second resolution is refused because "rejecting a
\* confirmed item would leave a binding whose review says it was rejected".
RejectedWritesNothing ==
    \A e \in Entries :
        queue[e[1]].disp[e[2]] = "rejected" =>
            \A n \in DOMAIN item[e[2]].chain : item[e[2]].chain[n].by # e[1]

\* changed_bindings: the classifications let "an action supersede exactly the
\* links a change made wrong and leave the item's other bindings alone".
OnlyChangedLinksReplaced ==
    [][\A i \in Item, d \in Ref :
          link[i][d].status = "active" /\ link'[i][d].status = "moved" =>
             \E b \in DOMAIN queue : queue[b].disp[i] = "open" /\ queue'[b].disp[i] # "open"
                                   /\ queue[b].cls[d] \in Actionable]_vars

\* PendingItem.source_version: "a commit sha for a candidate, a body digest for a
\* document" - so a confirmed document revision names the digest of its own body.
ConfirmedTextKeepsItsDigest ==
    \A e \in Entries :
        queue[e[1]].disp[e[2]] = "confirmed" /\ queue[e[1]].pop = "ingest-unverified" =>
            \A n \in DOMAIN item[e[2]].chain :
                LET rev == item[e[2]].chain[n]
                IN  rev.by = e[1] /\ rev.src # None => rev.src = rev.text
=============================================================================
