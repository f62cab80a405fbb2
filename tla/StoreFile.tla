------------------------------ MODULE StoreFile ------------------------------
(***************************************************************************)
(* The files of one store path and the commands that replace or restore     *)
(* them: the database and its write-ahead log, the replica marker beside     *)
(* it, a bundle directory, and the control plane adopt pull copies from.     *)
(*                                                                         *)
(* One operator runs one command at a time, and any command may be killed    *)
(* between two of its effects on the disk: a killed writer leaves its log    *)
(* beside the file, and the next command reads through it.  What a pull does *)
(* in its own temporary directory is seen by nobody and takes no step.       *)
(***************************************************************************)
EXTENDS Naturals, Sequences, FiniteSets

CONSTANTS
    System,       \* systems the plane operates
    Local,        \* rows that field work writes
    Altered,      \* a row somebody put into a bundle or an archive afterwards
    PullsOverLog, \* whether a pull may replace a file whose log a killed command left in use
    MaxPlane,     \* bound: how often each system's canon grows
    MaxCommands   \* bound: commands the operator runs

ASSUME StoreFileAssumption ==
    /\ MaxPlane \in Nat \ {0}
    /\ MaxCommands \in Nat
    /\ PullsOverLog \in BOOLEAN
    /\ "none" \notin System
    /\ Local \cap (System \X Nat) = {}
    /\ Altered \notin Local \cup (System \X Nat)

VARIABLES
    plane,     \* how far the canon of each system has grown; never empty
    db,        \* the database file
    wal,       \* the log beside it; hot while it has frames the file has not
    marker,    \* the replica marker beside the database
    bundle,    \* the bundle directory
    cmd,       \* the command that runs
    commands   \* commands started so far

vars == <<plane, db, wal, marker, bundle, cmd, commands>>

Row      == Local \cup (System \X (1 .. MaxPlane)) \cup {Altered}
Version  == {3, 4}                 \* schema versions the migration files produce
Verb     == {"init", "write", "rebuild", "migrate", "export", "import", "pull"}

Page     == [version : {0} \cup Version, tables : SUBSET Version, rows : SUBSET Row]

Command  == [verb    : Verb \cup {"none"},
             at      : {"idle", "open", "migrate", "verify", "writing", "export", "store",
                        "marker", "done"},
             init    : BOOLEAN,
             system  : System \cup {"none"},
             digest  : SUBSET Row,
             pending : SUBSET Version]

Blank    == [version |-> 0, tables |-> {}, rows |-> {}]
NoDb     == [exists |-> FALSE, page |-> Blank]
NoLog    == [hot |-> FALSE, page |-> Blank]
NoMarker == [system |-> "none", digest |-> {}]
NoBundle == [tables |-> {}, rows |-> {}, digest |-> {}, manifest |-> FALSE]
Idle     == [verb |-> "none", at |-> "idle", init |-> FALSE, system |-> "none",
             digest |-> {}, pending |-> {}]

TypeOK ==
    /\ plane \in [System -> 1 .. MaxPlane]
    /\ db \in [exists : BOOLEAN, page : Page]
    /\ wal \in [hot : BOOLEAN, page : Page]
    /\ marker \in [system : System \cup {"none"}, digest : SUBSET Row]
    /\ bundle \in [tables : SUBSET Version, rows : SUBSET Row, digest : SUBSET Row,
                   manifest : BOOLEAN]
    /\ cmd \in Command
    /\ commands \in 0 .. MaxCommands

Canon(s) == {s} \X (1 .. plane[s])

\* A bundle of another store: what a field store or a system's holds, exported whole.
Whole(rows) == [tables |-> Version, rows |-> rows, digest |-> rows, manifest |-> TRUE]

\* A path nothing was done with yet, or a field store an older binary wrote.
Init ==
    /\ plane = [s \in System |-> 1]
    /\ db \in {NoDb, [exists |-> TRUE, page |-> [version |-> 3, tables |-> {3}, rows |-> {}]]}
    /\ wal = NoLog
    /\ marker = NoMarker
    /\ bundle \in {NoBundle, Whole(Local)} \cup {Whole(Canon(s)) : s \in System}
    /\ cmd = Idle
    /\ commands = 0

-----------------------------------------------------------------------------
(* The database *)

\* What a connection to the path reads: the frames of a log that was left beside
\* the file win over its pages, whichever file they were written for.
Pages == IF wal.hot THEN wal.page ELSE db.page

Rows == Pages.rows

Start(verb, at) ==
    /\ cmd = Idle
    /\ commands < MaxCommands
    /\ commands' = commands + 1
    /\ cmd' = [Idle EXCEPT !.verb = verb, !.at = at]

Goto(at) == cmd' = [cmd EXCEPT !.at = at]

Ends == cmd' = Idle

IsReplica == marker # NoMarker

Writable == db.exists /\ Pages.version \in Version

\* Mutated form: the guard is left to each verb, and this one forgets it.
MayWriteAnywhere == Writable

\* open_configured_store(read_only=False): refused where a marker is.
MayWrite == Writable /\ ~IsReplica

\* Closing the last connection moves the log into the file.
Checkpointed == [db EXCEPT !.page = Pages]

\* Every transaction is committed to the log; opening for a write is one, which
\* appends a schema_meta row.
Commit(page) == wal' = [hot |-> TRUE, page |-> page]

CommitRows(rows) == Commit([Pages EXCEPT !.rows = rows])

-----------------------------------------------------------------------------
(* Migrations *)

\* pending: files are chosen by the version the store says it is at.
Pending == {v \in Version : v > Pages.version}

NextFile == CHOOSE v \in cmd.pending : \A u \in cmd.pending : v <= u

\* The next thing an open command does, when these files are still to be applied.
AfterOpen(pending) ==
    cmd' = [cmd EXCEPT !.pending = pending,
                       !.at = IF pending # {} THEN "migrate"
                              ELSE IF cmd.verb = "import" THEN "verify" ELSE "done"]

\* One transaction per file: its tables, user_version, the schema_meta row.  The
\* pragmas in front of it change no page.
MigrateFile ==
    /\ cmd.at = "migrate"
    /\ Commit([Pages EXCEPT !.tables = @ \cup {NextFile}, !.version = NextFile])
    /\ AfterOpen(cmd.pending \ {NextFile})
    /\ UNCHANGED <<plane, db, marker, bundle, commands>>

\* adopt init and adopt store migrate: only the first asks for the marker.
OpenForMigration(verb) ==
    /\ verb = "init" => ~IsReplica
    /\ Start(verb, "open")
    /\ UNCHANGED <<plane, db, wal, marker, bundle>>

OpenAndCreate ==
    /\ cmd.at = "open"
    /\ db' = [db EXCEPT !.exists = TRUE]
    /\ AfterOpen(Pending)
    /\ IF Pending = {} THEN CommitRows(Rows) ELSE UNCHANGED wal
    /\ UNCHANGED <<plane, marker, bundle, commands>>

CloseStore ==
    /\ cmd.at = "done"
    /\ db' = Checkpointed
    /\ wal' = NoLog
    /\ Ends
    /\ UNCHANGED <<plane, marker, bundle, commands>>

-----------------------------------------------------------------------------
(* Verbs that write in place *)

WriteStart ==
    /\ MayWrite
    /\ Start("write", "writing")
    /\ CommitRows(Rows)
    /\ UNCHANGED <<plane, db, marker, bundle>>

WriteCanon ==
    /\ cmd.verb = "write" /\ cmd.at = "writing"
    /\ \E row \in Local \ Rows : CommitRows(Rows \cup {row})
    /\ Goto("done")
    /\ UNCHANGED <<plane, db, marker, bundle, commands>>

\* coverage recompute --rebuild: a replica allows it, and it changes no canon.
RebuildStart ==
    /\ Writable
    /\ Start("rebuild", "writing")
    /\ CommitRows(Rows)
    /\ UNCHANGED <<plane, db, marker, bundle>>

RebuildCache ==
    /\ cmd.verb = "rebuild" /\ cmd.at = "writing"
    /\ CommitRows(Rows)
    /\ Goto("done")
    /\ UNCHANGED <<plane, db, marker, bundle, commands>>

-----------------------------------------------------------------------------
(* Export and import *)

\* write_bundle writes the manifest when every table is there.
ManifestIsDue(tables) == tables = Version

ExportStart ==
    /\ db.exists
    /\ bundle = NoBundle
    /\ Start("export", "export")
    /\ UNCHANGED <<plane, db, wal, marker, bundle>>

\* Each table is read by a statement of its own; a table the store does not have
\* ends the command and leaves what it wrote.
ExportTable ==
    /\ cmd.at = "export"
    /\ LET next   == IF bundle.tables = {} THEN 3 ELSE 4
           tables == bundle.tables \cup {next}
       IN  IF next \notin Pages.tables
           THEN Ends /\ UNCHANGED bundle
           ELSE /\ bundle' = [tables |-> tables, rows |-> Rows, digest |-> Rows,
                              manifest |-> ManifestIsDue(tables)]
                /\ IF tables = Version THEN Ends ELSE UNCHANGED cmd
    /\ UNCHANGED <<plane, db, wal, marker, commands>>

\* The operator starts over with an empty directory, or a bundle is edited.
DiscardBundle ==
    /\ cmd = Idle
    /\ bundle' = NoBundle
    /\ UNCHANGED <<plane, db, wal, marker, cmd, commands>>

AlterBundle ==
    /\ cmd = Idle
    /\ bundle.manifest
    /\ bundle' = [bundle EXCEPT !.rows = @ \cup {Altered}]
    /\ UNCHANGED <<plane, db, wal, marker, cmd, commands>>

\* adopt import opens its target, creating and migrating it, before it reads.
ImportStart ==
    /\ Start("import", "open")
    /\ UNCHANGED <<plane, db, wal, marker, bundle>>

\* Mutated form: the files the manifest names are there, whatever they hold.
Present(b) == b.manifest /\ b.tables = Version

\* Every declared table is there and has the digest the manifest records.
Verified(b) == b.manifest /\ b.tables = Version /\ b.rows = b.digest

\* No canon table of the target has a row.
EmptyTarget == Rows = {}

ApplyBundle ==
    /\ cmd.verb = "import" /\ cmd.at = "verify"
    /\ IF Verified(bundle) /\ EmptyTarget
       THEN CommitRows(Rows \cup bundle.rows)
       ELSE UNCHANGED wal
    /\ Goto("done")
    /\ UNCHANGED <<plane, db, marker, bundle, commands>>

-----------------------------------------------------------------------------
(* Pull *)

PlaneGrows(s) ==
    /\ plane[s] < MaxPlane
    /\ plane' = [plane EXCEPT ![s] = @ + 1]
    /\ UNCHANGED <<db, wal, marker, bundle, cmd, commands>>

\* check_target
MayReplace(s, init) == init \/ ~db.exists \/ marker.system = s

\* Mutated form: the marker is renamed first.
MarkerThenStore == <<"marker", "store">>

\* The two renames that end a pull.
StoreThenMarker == <<"store", "marker">>

\* The fetch, its digest, the import into a fresh file: an archive that arrives
\* altered, or a plane that cannot be reached, leaves no trace.  Nothing looks for
\* a log beside the file it is going to replace.
PullStart(s, init) ==
    /\ MayReplace(s, init)
    /\ wal.hot => PullsOverLog
    /\ cmd = Idle
    /\ commands < MaxCommands
    /\ commands' = commands + 1
    /\ cmd' = [Idle EXCEPT !.verb = "pull", !.at = StoreThenMarker[1], !.init = init,
                           !.system = s, !.digest = Canon(s)]
    /\ UNCHANGED <<plane, db, wal, marker, bundle>>

AfterRename(name) == IF StoreThenMarker[1] = name THEN Goto(StoreThenMarker[2]) ELSE Ends

SwapStore ==
    /\ cmd.verb = "pull" /\ cmd.at = "store"
    /\ db' = [exists |-> TRUE,
              page |-> [version |-> 4, tables |-> Version, rows |-> cmd.digest]]
    /\ AfterRename("store")
    /\ UNCHANGED <<plane, wal, marker, bundle, commands>>

StampMarker ==
    /\ cmd.verb = "pull" /\ cmd.at = "marker"
    /\ marker' = [system |-> cmd.system, digest |-> cmd.digest]
    /\ AfterRename("marker")
    /\ UNCHANGED <<plane, db, wal, bundle, commands>>

Kill ==
    /\ cmd # Idle
    /\ Ends
    /\ UNCHANGED <<plane, db, wal, marker, bundle, commands>>

-----------------------------------------------------------------------------

Next ==
    \/ \E verb \in {"init", "migrate"} : OpenForMigration(verb)
    \/ OpenAndCreate
    \/ MigrateFile
    \/ CloseStore
    \/ WriteStart
    \/ WriteCanon
    \/ RebuildStart
    \/ RebuildCache
    \/ ExportStart
    \/ ExportTable
    \/ DiscardBundle
    \/ AlterBundle
    \/ ImportStart
    \/ ApplyBundle
    \/ \E s \in System : PlaneGrows(s)
    \/ \E s \in System, init \in BOOLEAN : PullStart(s, init)
    \/ SwapStore
    \/ StampMarker
    \/ Kill

Spec == Init /\ [][Next]_vars

-----------------------------------------------------------------------------
(* Properties *)

\* Field work leaves the path only with a pull that was given --init-replica
\* (check_target: "nothing recovers it"), whichever command is killed wherever:
\* a pull between its renames, an import or a writer with its log in use.
FieldWorkIsKept ==
    [][\A row \in Local \cap Rows : row \notin Rows' => cmd.init]_vars

\* A marker never vouches for field work: no row of the field is in a store that
\* the next pull replaces without a word (run_pull, refuse_write_to_replica).
MarkedStoreHoldsNoFieldWork == IsReplica => Local \cap Rows = {}

\* Whatever a store holds of a system was served or exported in one piece, from
\* its first row on and with nothing altered (apply_bundle: verified whole).
CopiesAreWhole ==
    /\ Altered \notin Rows
    /\ \A s \in System : \E n \in 0 .. MaxPlane : Rows \cap ({s} \X Nat) = {s} \X (1 .. n)

\* "A crash after it leaves the new one intact and answering" (pull.py): when a
\* pull writes its marker, what it fetched is what the path answers from.
ReplicaAnswersFromThePull ==
    [][marker' # marker => Rows' = marker'.digest]_vars
=============================================================================
