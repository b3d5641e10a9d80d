------------------------------- MODULE Storage -------------------------------
(***************************************************************************)
(* The database file that all kanna processes share: the start of a process  *)
(* (core/bootstrap.py, Database.__init__, migrate) and its single statements *)
(* afterwards (Database.execute, query). The other modules treat a statement *)
(* as one step that succeeds; this one looks inside.                         *)
(*                                                                         *)
(* A connection belongs to one process. Its threads share it behind a lock,  *)
(* so a process does one thing at a time here, whichever thread does it.     *)
(* SQLite (WAL) has one write lock for all connections. Python's sqlite3     *)
(* begins a transaction before an INSERT, UPDATE or DELETE outside one, and  *)
(* leaves it open when the statement fails; execute() does not roll back.    *)
(* A statement that waits for the lock gives up after five seconds.          *)
(***************************************************************************)
EXTENDS Integers, Sequences, FiniteSets

CONSTANTS
    Proc,
    Scripts,    \* the migrations, in order of version: the tables of each
    MaxWrites   \* bound: calls of execute() of all processes together

ASSUME StorageAssumption ==
    /\ MaxWrites \in Nat
    /\ Scripts \in Seq(Seq(STRING) \ {<<>>})

VARIABLES
    tables,     \* the tables that exist, schema_migrations aside
    versions,   \* rows of schema_migrations
    rows,       \* committed writes
    pc,         \* where each process is
    existing,   \* the versions migrate() found recorded
    version,    \* the migration its loop is at
    made,       \* statements of the current script that have been executed
    tx,         \* the transaction of its connection
    snap,       \* what that transaction sees, once it has read
    cur,        \* the write being executed
    issued,     \* writes begun
    returned,   \* history: writes whose execute() returned
    raised      \* history: writes whose execute() raised

contents == <<tables, versions, rows>>
history  == <<issued, returned, raised>>
vars     == <<contents, pc, tx, existing, version, made, snap, cur, history>>

Version == DOMAIN Scripts

NoSnapshot == <<{}, {}, {}>>

local == <<existing, version, made, snap, cur>>

Init ==
    /\ tables = {} /\ versions = {} /\ rows = {}
    /\ pc = [p \in Proc |-> "off"] /\ existing = [p \in Proc |-> {}]
    /\ version = [p \in Proc |-> 1]
    /\ made = [p \in Proc |-> 0]
    /\ tx = [p \in Proc |-> "auto"] /\ snap = [p \in Proc |-> NoSnapshot]
    /\ cur = [p \in Proc |-> 0]
    /\ issued = 0 /\ returned = {} /\ raised = {}

Goto(p, label) == pc' = [pc EXCEPT ![p] = label]
Tx(p, state)   == tx' = [tx EXCEPT ![p] = state]

-----------------------------------------------------------------------------
(* SQLite. *)

LockFree(p) == \A q \in Proc \ {p} : tx[q] # "write"

\* A transaction that has read can only write if nobody has committed since.
CanWrite(p) == LockFree(p) /\ (tx[p] = "read" => snap[p] = contents)

\* The connection is closed, by the code or with its process: a rollback.
Ends(p) ==
    /\ Goto(p, "off") /\ Tx(p, "auto")
    /\ existing' = [existing EXCEPT ![p] = {}] /\ version' = [version EXCEPT ![p] = 1]
    /\ made' = [made EXCEPT ![p] = 0]
    /\ snap' = [snap EXCEPT ![p] = NoSnapshot] /\ cur' = [cur EXCEPT ![p] = 0]

-----------------------------------------------------------------------------
(* bootstrap(): a connection, then migrate(). *)

Connect(p) ==
    /\ pc[p] = "off"
    /\ Goto(p, "list")
    /\ UNCHANGED <<contents, tx, local, history>>

\* Fault: the newest version is taken for all of them.
ListUpToNewest(p) ==
    /\ pc[p] = "list"
    /\ existing' = [existing EXCEPT ![p] = IF versions = {} THEN {} ELSE Version]
    /\ version' = [version EXCEPT ![p] = 1]
    /\ Goto(p, "next")
    /\ UNCHANGED <<contents, made, tx, snap, cur, history>>

\* existing is read once, before the loop.
ListApplied(p) ==
    /\ pc[p] = "list"
    /\ existing' = [existing EXCEPT ![p] = versions]
    /\ version' = [version EXCEPT ![p] = 1]
    /\ Goto(p, "next")
    /\ UNCHANGED <<contents, made, tx, snap, cur, history>>

\* for version, path in _discover_migrations(): a version that was there is
\* skipped; after the last one bootstrap() is done.
NextMigration(p) ==
    /\ pc[p] = "next"
    /\ \/ version[p] \notin Version /\ Goto(p, "ready")
          /\ existing' = [existing EXCEPT ![p] = {}] /\ UNCHANGED <<version, made>>
       \/ /\ version[p] \in existing[p]
          /\ version' = [version EXCEPT ![p] = @ + 1] /\ UNCHANGED <<pc, existing, made>>
       \/ /\ version[p] \in Version \ existing[p]
          /\ Goto(p, "script") /\ UNCHANGED <<existing, version, made>>
    /\ UNCHANGED <<contents, tx, snap, cur, history>>

\* Fault: the last statement is left out.
RunScriptShort(p) ==
    /\ pc[p] = "script"
    /\ LET script == Scripts[version[p]]
           table  == script[made[p] + 1]
       IN
       \/ /\ LockFree(p) \/ table \in tables
          /\ tables' = tables \cup {table}
          /\ made' = [made EXCEPT ![p] = @ + 1]
          /\ Goto(p, IF made'[p] + 1 >= Len(script) THEN "record" ELSE "script")
          /\ UNCHANGED <<tx, existing, version, snap, cur>>
       \/ ~(LockFree(p) \/ table \in tables) /\ Ends(p) /\ UNCHANGED tables
    /\ UNCHANGED <<versions, rows, history>>

\* executescript(): every CREATE ... IF NOT EXISTS commits by itself, and writes
\* nothing if the table is there.
RunScript(p) ==
    /\ pc[p] = "script"
    /\ LET script == Scripts[version[p]]
           table  == script[made[p] + 1]
       IN
       \/ /\ LockFree(p) \/ table \in tables
          /\ tables' = tables \cup {table}
          /\ made' = [made EXCEPT ![p] = @ + 1]
          /\ Goto(p, IF made'[p] = Len(script) THEN "record" ELSE "script")
          /\ UNCHANGED <<tx, existing, version, snap, cur>>
       \/ ~(LockFree(p) \/ table \in tables) /\ Ends(p) /\ UNCHANGED tables
    /\ UNCHANGED <<versions, rows, history>>

\* The version is inserted; the primary key refuses it if another process was
\* faster, and bootstrap() fails.
Record(p) ==
    /\ pc[p] = "record"
    /\ \/ /\ LockFree(p) /\ version[p] \notin versions
          /\ Tx(p, "write") /\ Goto(p, "commit_version") /\ UNCHANGED local
       \/ (~LockFree(p) \/ version[p] \in versions) /\ Ends(p)
    /\ UNCHANGED <<contents, history>>

CommitVersion(p) ==
    /\ pc[p] = "commit_version"
    /\ versions' = versions \cup {version[p]}
    /\ version' = [version EXCEPT ![p] = @ + 1] /\ made' = [made EXCEPT ![p] = 0]
    /\ Goto(p, "next") /\ Tx(p, "auto")
    /\ UNCHANGED <<tables, rows, existing, snap, cur, history>>

-----------------------------------------------------------------------------
(* A process in service. *)

\* Fault: no commit.
ExecuteOnly(p) ==
    /\ pc[p] = "ready" /\ issued < MaxWrites
    /\ issued' = issued + 1 /\ cur' = [cur EXCEPT ![p] = issued']
    /\ CanWrite(p) /\ Tx(p, "write")
    /\ returned' = returned \cup {issued'}
    /\ UNCHANGED <<contents, pc, existing, version, made, snap, raised>>

\* execute(), up to its commit. A statement that is refused by a constraint has
\* the lock all the same; one that waited in vain leaves a transaction without.
Execute(p) ==
    /\ pc[p] = "ready" /\ issued < MaxWrites
    /\ issued' = issued + 1 /\ cur' = [cur EXCEPT ![p] = issued']
    /\ \/ CanWrite(p) /\ Tx(p, "write") /\ Goto(p, "commit") /\ UNCHANGED raised
       \/ CanWrite(p) /\ Tx(p, "write") /\ Goto(p, "failed") /\ raised' = raised \cup {issued'}
       \/ /\ ~CanWrite(p)
          /\ Tx(p, IF tx[p] = "auto" THEN "begun" ELSE tx[p])
          /\ raised' = raised \cup {issued'} /\ UNCHANGED pc
    /\ UNCHANGED <<contents, existing, version, made, snap, returned>>

Commit(p) ==
    /\ pc[p] = "commit"
    /\ rows' = rows \cup {cur[p]} /\ returned' = returned \cup {cur[p]}
    /\ Tx(p, "auto") /\ Goto(p, "ready")
    /\ snap' = [snap EXCEPT ![p] = NoSnapshot] /\ cur' = [cur EXCEPT ![p] = 0]
    /\ UNCHANGED <<tables, versions, existing, version, made, issued, raised>>

\* query(), from whichever thread. Only in a transaction that was left open does
\* it leave something behind.
Query(p) ==
    /\ pc[p] = "ready" /\ tx[p] = "begun"
    /\ Tx(p, "read") /\ snap' = [snap EXCEPT ![p] = contents]
    /\ UNCHANGED <<contents, pc, existing, version, made, cur, history>>

\* Fault: the failure is not logged.
ReportNothing(p) ==
    /\ pc[p] = "failed"
    /\ Goto(p, "ready")
    /\ UNCHANGED <<contents, tx, local, history>>

\* A tool whose statement was refused ends in ToolRegistry._finish(), whose own
\* execute() writes the log; a row of an import is followed by the next one.
Report(p) ==
    /\ pc[p] = "failed"
    /\ issued' = issued + 1 /\ cur' = [cur EXCEPT ![p] = issued']
    /\ Goto(p, "commit")
    /\ UNCHANGED <<contents, existing, version, made, tx, snap, returned, raised>>

\* A command ends, after its work or with an exception.
Close(p) ==
    /\ pc[p] \in {"ready", "failed"}
    /\ Ends(p)
    /\ UNCHANGED <<contents, history>>

Crash(p) ==
    /\ pc[p] # "off"
    /\ Ends(p)
    /\ UNCHANGED <<contents, history>>

Next ==
    \E p \in Proc :
        \/ Connect(p) \/ ListApplied(p) \/ NextMigration(p) \/ RunScript(p) \/ Record(p)
        \/ CommitVersion(p) \/ Execute(p) \/ Commit(p) \/ Query(p) \/ Report(p) \/ Close(p) \/ Crash(p)

\* A commit takes its time and no more, and no caller waits for anyone between
\* a refused statement and the next one or the end.
Fairness ==
    \A p \in Proc :
        /\ WF_vars(Commit(p)) /\ WF_vars(CommitVersion(p))
        /\ WF_vars(pc[p] = "failed" /\ (Report(p) \/ Close(p)))

Spec == Init /\ [][Next]_vars /\ Fairness

-----------------------------------------------------------------------------
(* Properties. *)

StorageTypeOK ==
    /\ tables \subseteq UNION {{Scripts[v][i] : i \in DOMAIN Scripts[v]} : v \in Version}
    /\ versions \subseteq Version
    /\ pc \in [Proc -> {"off", "list", "next", "script", "record", "commit_version",
                        "ready", "commit", "failed"}]
    /\ tx \in [Proc -> {"auto", "begun", "read", "write"}]
    /\ \A p \in Proc : pc[p] \in {"script", "record", "commit_version"} => version[p] \in Version
    /\ \A p \in Proc : pc[p] = "script" => made[p] < Len(Scripts[version[p]])
    /\ \A p \in Proc : pc[p] \in {"commit_version", "commit", "failed"} => tx[p] = "write"
    /\ \A p \in Proc : pc[p] \in {"off", "list", "next", "script", "record"} => tx[p] = "auto"
    /\ rows \subseteq 1..issued

\* Whatever the crashes and races of first starts, a version that is recorded
\* as applied has all its tables.
VersionsImplyTables ==
    \A v \in versions : \A i \in DOMAIN Scripts[v] : Scripts[v][i] \in tables

\* A process that has left bootstrap() finds every table of every migration,
\* whoever created them.
ReadyMeansMigrated ==
    \A p \in Proc : pc[p] \in {"ready", "commit", "failed"} => versions = Version

\* A call of execute() that returned is in the file for good, and one that
\* raised is not, although its transaction may be committed by a later call.
CallersKnow == returned \subseteq rows /\ raised \cap rows = {}

\* A refused statement, which keeps the write lock, does not keep it for good:
\* other processes get to write again.
LockIsPassedOn == \A p \in Proc : tx[p] = "write" ~> tx[p] # "write"

\* docs/DESKTOP.md: querying the worker's Database from the Tk thread is safe,
\* "so browsing history never blocks or is blocked by a task actually running".
\* When nobody else is writing, a process in service can write.
BrowsingBlocksNobody ==
    \A p \in Proc : pc[p] = "ready" /\ LockFree(p) => CanWrite(p)
=============================================================================
