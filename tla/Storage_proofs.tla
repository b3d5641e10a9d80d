---------------------------- MODULE Storage_proofs ----------------------------
(***************************************************************************)
(* Proofs about Storage, for any number of processes, migrations, tables and *)
(* writes.                                                                  *)
(***************************************************************************)
EXTENDS Storage, TLAPS

Label == {"off", "list", "next", "script", "record", "commit_version", "ready", "commit", "failed"}

Loop == {"next", "script", "record", "commit_version"}

Typed ==
    /\ versions \subseteq Version
    /\ pc \in [Proc -> Label]
    /\ existing \in [Proc -> SUBSET Version] /\ version \in [Proc -> Nat]
    /\ made \in [Proc -> Nat] /\ cur \in [Proc -> Nat]
    /\ issued \in Nat /\ rows \subseteq 1..issued /\ raised \subseteq 1..issued

\* What the script of p has created so far is there.
ScriptAt(p) ==
    /\ pc[p] \in {"off", "list", "next"} => made[p] = 0
    /\ pc[p] = "script" =>
          /\ version[p] \in Version /\ made[p] < Len(Scripts[version[p]])
          /\ \A i \in 1..made[p] : Scripts[version[p]][i] \in tables
    /\ pc[p] \in {"record", "commit_version"} =>
          /\ version[p] \in Version
          /\ \A i \in 1..Len(Scripts[version[p]]) : Scripts[version[p]][i] \in tables

\* Everything the loop of p has passed is recorded, and what it found stays so.
PassedAt(p) ==
    /\ existing[p] \subseteq versions
    /\ pc[p] \in Loop => version[p] > 0 /\ \A v \in 1..(version[p] - 1) : v \in versions
    /\ pc[p] \in {"ready", "commit", "failed"} => versions = Version

\* A write that may still be committed has not been reported as refused.
PendingAt(p) ==
    pc[p] = "commit" => cur[p] \in 1..issued /\ cur[p] \notin raised

SInv ==
    /\ Typed /\ VersionsImplyTables /\ CallersKnow
    /\ \A p \in Proc : ScriptAt(p) /\ PassedAt(p) /\ PendingAt(p)

LEMMA ScriptTypes ==
    /\ Version = 1..Len(Scripts) /\ Len(Scripts) \in Nat
    /\ \A v \in Version : /\ DOMAIN Scripts[v] = 1..Len(Scripts[v])
                           /\ Len(Scripts[v]) \in Nat /\ Len(Scripts[v]) > 0
<1>1. Scripts \in Seq(Seq(STRING) \ {<<>>})
  BY StorageAssumption DEF StorageAssumption
<1>2. Version = 1..Len(Scripts) /\ Len(Scripts) \in Nat
  BY <1>1 DEF Version
<1>3. \A v \in Version : Scripts[v] \in Seq(STRING) /\ Scripts[v] # <<>>
  BY <1>1, <1>2
<1> QED
  BY <1>2, <1>3

Action(p) ==
    \/ Connect(p) \/ ListApplied(p) \/ NextMigration(p) \/ RunScript(p) \/ Record(p)
    \/ CommitVersion(p) \/ Execute(p) \/ Commit(p) \/ Query(p) \/ Report(p) \/ Close(p) \/ Crash(p)

LEMMA InitSInv == Init => SInv
  BY ScriptTypes DEF Init, SInv, Typed, ScriptAt, VersionsImplyTables, PassedAt, PendingAt,
     CallersKnow, Label, Loop

\* Every variable keeps its type.
LEMMA TypedStep == ASSUME SInv, NEW p \in Proc, Action(p) PROVE Typed'
<1>1. CASE Connect(p)
  BY <1>1 DEF SInv, Typed, Connect, Goto, Tx, contents, local, history, Label
<1>2. CASE ListApplied(p)
  BY <1>2 DEF SInv, Typed, ListApplied, Goto, Tx, contents, local, history, Label
<1>3. CASE NextMigration(p)
  BY <1>3 DEF SInv, Typed, NextMigration, Goto, Tx, contents, local, history, Label
<1>4. CASE RunScript(p)
  <2>1. pc' \in [Proc -> Label]
    BY <1>4 DEF SInv, Typed, RunScript, Goto, Tx, contents, local, history, Ends, NoSnapshot, Label
  <2>2. existing' \in [Proc -> SUBSET Version]
    BY <1>4 DEF SInv, Typed, RunScript, Goto, Tx, contents, local, history, Ends, NoSnapshot
  <2>3. version' \in [Proc -> Nat] /\ made' \in [Proc -> Nat]
    BY <1>4 DEF SInv, Typed, RunScript, Goto, Tx, contents, local, history, Ends, NoSnapshot
  <2>4. issued' \in Nat /\ cur' \in [Proc -> Nat]
    BY <1>4 DEF SInv, Typed, RunScript, Goto, Tx, contents, local, history, Ends, NoSnapshot
  <2>5. versions' \subseteq Version /\ rows' \subseteq 1..issued' /\ raised' \subseteq 1..issued'
    BY <1>4 DEF SInv, Typed, RunScript, Goto, Tx, contents, local, history, Ends, NoSnapshot
  <2> QED
    BY <2>1, <2>2, <2>3, <2>4, <2>5 DEF Typed
<1>5. CASE Record(p)
  BY <1>5 DEF SInv, Typed, Record, Goto, Tx, contents, local, history, Ends, NoSnapshot, Label
<1>6. CASE CommitVersion(p)
  BY <1>6 DEF SInv, Typed, CommitVersion, Goto, Tx, contents, local, history, Label, ScriptAt
<1>7. CASE Execute(p)
  <2>1. pc' \in [Proc -> Label]
    BY <1>7 DEF SInv, Typed, Execute, Goto, Tx, contents, local, history, Label
  <2>2. existing' \in [Proc -> SUBSET Version]
    BY <1>7 DEF SInv, Typed, Execute, Goto, Tx, contents, local, history
  <2>3. version' \in [Proc -> Nat] /\ made' \in [Proc -> Nat]
    BY <1>7 DEF SInv, Typed, Execute, Goto, Tx, contents, local, history
  <2>4. issued' \in Nat /\ cur' \in [Proc -> Nat]
    BY <1>7 DEF SInv, Typed, Execute, Goto, Tx, contents, local, history
  <2>5. versions' \subseteq Version /\ rows' \subseteq 1..issued' /\ raised' \subseteq 1..issued'
    <3>1. /\ versions' = versions /\ rows' = rows /\ issued' = issued + 1
          /\ raised' \subseteq raised \cup {issued + 1}
      BY <1>7 DEF Execute, contents
    <3> QED
      BY <3>1 DEF SInv, Typed
  <2> QED
    BY <2>1, <2>2, <2>3, <2>4, <2>5 DEF Typed
<1>8. CASE Commit(p)
  BY <1>8 DEF SInv, Typed, Commit, Goto, Tx, contents, local, history, Label, PendingAt
<1>9. CASE Query(p)
  BY <1>9 DEF SInv, Typed, Query, Goto, Tx, contents, local, history, Label
<1>10. CASE Report(p)
  BY <1>10 DEF SInv, Typed, Report, Goto, Tx, contents, local, history, Label
<1>11. CASE Close(p)
  BY <1>11 DEF SInv, Typed, Close, Goto, Tx, contents, local, history, Ends, NoSnapshot, Label
<1>12. CASE Crash(p)
  BY <1>12 DEF SInv, Typed, Crash, Goto, Tx, contents, local, history, Ends, NoSnapshot, Label
<1> QED
  BY <1>1, <1>2, <1>3, <1>4, <1>5, <1>6, <1>7, <1>8, <1>9, <1>10, <1>11, <1>12 DEF Action

\* A step of p leaves the other processes where they are, and takes nothing away.
LEMMA OthersStay ==
    ASSUME SInv, NEW p \in Proc, Action(p)
    PROVE  /\ tables \subseteq tables' /\ versions \subseteq versions'
           /\ issued' \in {issued, issued + 1}
           /\ \A q \in Proc \ {p} :
                 /\ pc'[q] = pc[q] /\ version'[q] = version[q] /\ made'[q] = made[q]
                 /\ existing'[q] = existing[q] /\ cur'[q] = cur[q]
<1>1. CASE Connect(p)
  BY <1>1 DEF SInv, Typed, Connect, Goto, Tx, contents, local, history
<1>2. CASE ListApplied(p)
  BY <1>2 DEF SInv, Typed, ListApplied, Goto, Tx, contents, local, history
<1>3. CASE NextMigration(p)
  BY <1>3 DEF SInv, Typed, NextMigration, Goto, Tx, contents, local, history
<1>4. CASE RunScript(p)
  BY <1>4 DEF SInv, Typed, RunScript, Goto, Tx, contents, local, history, Ends, NoSnapshot
<1>5. CASE Record(p)
  BY <1>5 DEF SInv, Typed, Record, Goto, Tx, contents, local, history, Ends, NoSnapshot
<1>6. CASE CommitVersion(p)
  BY <1>6 DEF SInv, Typed, CommitVersion, Goto, Tx, contents, local, history
<1>7. CASE Execute(p)
  BY <1>7 DEF SInv, Typed, Execute, Goto, Tx, contents, local, history
<1>8. CASE Commit(p)
  BY <1>8 DEF SInv, Typed, Commit, Goto, Tx, contents, local, history
<1>9. CASE Query(p)
  BY <1>9 DEF SInv, Typed, Query, Goto, Tx, contents, local, history
<1>10. CASE Report(p)
  BY <1>10 DEF SInv, Typed, Report, Goto, Tx, contents, local, history
<1>11. CASE Close(p)
  BY <1>11 DEF SInv, Typed, Close, Goto, Tx, contents, local, history, Ends, NoSnapshot
<1>12. CASE Crash(p)
  BY <1>12 DEF SInv, Typed, Crash, Goto, Tx, contents, local, history, Ends, NoSnapshot
<1> QED
  BY <1>1, <1>2, <1>3, <1>4, <1>5, <1>6, <1>7, <1>8, <1>9, <1>10, <1>11, <1>12 DEF Action

\* What the script of p has created is there after its step too.
LEMMA ScriptStep == ASSUME SInv, NEW p \in Proc, Action(p) PROVE ScriptAt(p)'
<1> USE ScriptTypes
<1>1. CASE Connect(p)
  BY <1>1 DEF SInv, Typed, ScriptAt, Connect, Goto, Tx, contents, local, history
<1>2. CASE ListApplied(p)
  BY <1>2 DEF SInv, Typed, ScriptAt, ListApplied, Goto, Tx, contents, local, history
<1>3. CASE NextMigration(p)
  <2>1. CASE version[p] \notin Version /\ Goto(p, "ready")
    BY <1>3, <2>1 DEF SInv, Typed, ScriptAt, NextMigration, Goto, contents
  <2>2. CASE version[p] \in existing[p] /\ version' = [version EXCEPT ![p] = version[p] + 1] /\ UNCHANGED pc
    BY <1>3, <2>2 DEF SInv, Typed, ScriptAt, NextMigration, contents
  <2>3. CASE /\ version[p] \in Version \ existing[p]
             /\ Goto(p, "script") /\ UNCHANGED <<version, made>>
    BY <1>3, <2>3 DEF SInv, Typed, ScriptAt, NextMigration, Goto, contents
  <2> QED
    BY <1>3, <2>1, <2>2, <2>3 DEF NextMigration
<1>4. CASE RunScript(p)
  <2> DEFINE v == version[p]
             n == made[p] + 1
  <2>1. CASE Ends(p)
    BY <2>1 DEF SInv, Typed, ScriptAt, Ends, Goto
  <2>2. CASE /\ tables' = tables \cup {Scripts[v][n]} /\ made' = [made EXCEPT ![p] = n]
             /\ Goto(p, IF made'[p] = Len(Scripts[v]) THEN "record" ELSE "script")
             /\ UNCHANGED version
    <3>1. v \in Version /\ made[p] < Len(Scripts[v]) /\ made[p] \in Nat /\ Len(Scripts[v]) \in Nat
          /\ \A i \in 1..made[p] : Scripts[v][i] \in tables
      BY <1>4, ScriptTypes DEF SInv, Typed, ScriptAt, RunScript
    <3>2. made'[p] = n /\ version'[p] = v
          /\ pc'[p] = IF n = Len(Scripts[v]) THEN "record" ELSE "script"
      BY <2>2 DEF SInv, Typed, Goto
    <3>3. \A i \in 1..n : Scripts[v][i] \in tables'
      BY <2>2, <3>1
    <3> HIDE DEF v, n
    <3> QED
      BY <3>1, <3>2, <3>3 DEF ScriptAt, n
  <2> QED
    BY <1>4, <2>1, <2>2 DEF RunScript
<1>5. CASE Record(p)
  BY <1>5 DEF SInv, Typed, ScriptAt, Record, Goto, Tx, contents, local, history, Ends, NoSnapshot
<1>6. CASE CommitVersion(p)
  BY <1>6 DEF SInv, Typed, ScriptAt, CommitVersion, Goto, Tx, contents, local, history
<1>7. CASE Execute(p)
  BY <1>7 DEF SInv, Typed, ScriptAt, Execute, Goto, Tx, contents, local, history
<1>8. CASE Commit(p)
  BY <1>8 DEF SInv, Typed, ScriptAt, Commit, Goto, Tx, contents, local, history
<1>9. CASE Query(p)
  BY <1>9 DEF SInv, Typed, ScriptAt, Query, Goto, Tx, contents, local, history
<1>10. CASE Report(p)
  BY <1>10 DEF SInv, Typed, ScriptAt, Report, Goto, Tx, contents, local, history
<1>11. CASE Close(p)
  BY <1>11 DEF SInv, Typed, ScriptAt, Close, Goto, Tx, contents, local, history, Ends, NoSnapshot
<1>12. CASE Crash(p)
  BY <1>12 DEF SInv, Typed, ScriptAt, Crash, Goto, Tx, contents, local, history, Ends, NoSnapshot
<1> QED
  BY <1>1, <1>2, <1>3, <1>4, <1>5, <1>6, <1>7, <1>8, <1>9, <1>10, <1>11, <1>12 DEF Action

\* What the loop of p has passed is recorded after its step too.
LEMMA PassedStep == ASSUME SInv, NEW p \in Proc, Action(p) PROVE PassedAt(p)'
<1> USE ScriptTypes
<1>1. CASE Connect(p)
  BY <1>1 DEF SInv, Typed, PassedAt, Loop, Connect, Goto, Tx, contents, local, history
<1>2. CASE ListApplied(p)
  BY <1>2 DEF SInv, Typed, PassedAt, Loop, ListApplied, Goto, Tx, contents, local, history
<1>3. CASE NextMigration(p)
  <2>1. CASE version[p] \notin Version /\ Goto(p, "ready")
    <3>1. /\ pc[p] = "next" /\ pc'[p] = "ready" /\ versions' = versions
          /\ existing'[p] \subseteq existing[p]
      BY <1>3, <2>1 DEF SInv, Typed, NextMigration, Goto, contents
    <3>2. version[p] \in Nat /\ version[p] > 0 /\ \A v \in 1..(version[p] - 1) : v \in versions
      BY <3>1 DEF SInv, Typed, PassedAt, Loop
    <3>3. \A v \in Version : v \in 1..(version[p] - 1)
      BY <2>1, <3>2
    <3>4. versions = Version
      BY <3>2, <3>3 DEF SInv, Typed
    <3> QED
      BY <3>1, <3>4 DEF SInv, PassedAt, Loop
  <2>2. CASE version[p] \in existing[p] /\ version' = [version EXCEPT ![p] = version[p] + 1] /\ UNCHANGED pc
    BY <1>3, <2>2 DEF SInv, Typed, PassedAt, Loop, NextMigration, contents
  <2>3. CASE /\ version[p] \in Version \ existing[p]
             /\ Goto(p, "script") /\ UNCHANGED <<version, made>>
    BY <1>3, <2>3 DEF SInv, Typed, PassedAt, Loop, NextMigration, Goto, contents
  <2> QED
    BY <1>3, <2>1, <2>2, <2>3 DEF NextMigration
<1>4. CASE RunScript(p)
  BY <1>4 DEF SInv, Typed, PassedAt, Loop, RunScript, Goto, Tx, contents, local, history, Ends, NoSnapshot
<1>5. CASE Record(p)
  BY <1>5 DEF SInv, Typed, PassedAt, Loop, Record, Goto, Tx, contents, local, history, Ends, NoSnapshot
<1>6. CASE CommitVersion(p)
  BY <1>6 DEF SInv, Typed, PassedAt, Loop, CommitVersion, Goto, Tx, contents, local, history
<1>7. CASE Execute(p)
  BY <1>7 DEF SInv, Typed, PassedAt, Loop, Execute, Goto, Tx, contents, local, history
<1>8. CASE Commit(p)
  BY <1>8 DEF SInv, Typed, PassedAt, Loop, Commit, Goto, Tx, contents, local, history
<1>9. CASE Query(p)
  BY <1>9 DEF SInv, Typed, PassedAt, Loop, Query, Goto, Tx, contents, local, history
<1>10. CASE Report(p)
  BY <1>10 DEF SInv, Typed, PassedAt, Loop, Report, Goto, Tx, contents, local, history
<1>11. CASE Close(p)
  BY <1>11 DEF SInv, Typed, PassedAt, Loop, Close, Goto, Tx, contents, local, history, Ends, NoSnapshot
<1>12. CASE Crash(p)
  BY <1>12 DEF SInv, Typed, PassedAt, Loop, Crash, Goto, Tx, contents, local, history, Ends, NoSnapshot
<1> QED
  BY <1>1, <1>2, <1>3, <1>4, <1>5, <1>6, <1>7, <1>8, <1>9, <1>10, <1>11, <1>12 DEF Action

\* A refused write does not become the one that is committed.
LEMMA PendingStep == ASSUME SInv, NEW p \in Proc, Action(p) PROVE PendingAt(p)'
<1>1. CASE Connect(p)
  BY <1>1 DEF SInv, Typed, PendingAt, Connect, Goto, Tx, contents, local, history
<1>2. CASE ListApplied(p)
  BY <1>2 DEF SInv, Typed, PendingAt, ListApplied, Goto, Tx, contents, local, history
<1>3. CASE NextMigration(p)
  BY <1>3 DEF SInv, Typed, PendingAt, NextMigration, Goto, Tx, contents, local, history
<1>4. CASE RunScript(p)
  BY <1>4 DEF SInv, Typed, PendingAt, RunScript, Goto, Tx, contents, local, history, Ends, NoSnapshot
<1>5. CASE Record(p)
  BY <1>5 DEF SInv, Typed, PendingAt, Record, Goto, Tx, contents, local, history, Ends, NoSnapshot
<1>6. CASE CommitVersion(p)
  BY <1>6 DEF SInv, Typed, PendingAt, CommitVersion, Goto, Tx, contents, local, history
<1>7. CASE Execute(p)
  BY <1>7 DEF SInv, Typed, PendingAt, Execute, Goto, Tx, contents, local, history
<1>8. CASE Commit(p)
  BY <1>8 DEF SInv, Typed, PendingAt, Commit, Goto, Tx, contents, local, history
<1>9. CASE Query(p)
  BY <1>9 DEF SInv, Typed, PendingAt, Query, Goto, Tx, contents, local, history
<1>10. CASE Report(p)
  BY <1>10 DEF SInv, Typed, PendingAt, Report, Goto, Tx, contents, local, history
<1>11. CASE Close(p)
  BY <1>11 DEF SInv, Typed, PendingAt, Close, Goto, Tx, contents, local, history, Ends, NoSnapshot
<1>12. CASE Crash(p)
  BY <1>12 DEF SInv, Typed, PendingAt, Crash, Goto, Tx, contents, local, history, Ends, NoSnapshot
<1> QED
  BY <1>1, <1>2, <1>3, <1>4, <1>5, <1>6, <1>7, <1>8, <1>9, <1>10, <1>11, <1>12 DEF Action

\* A version is recorded when its script is done, and a write returns when it is
\* committed.
LEMMA RecordsStep == ASSUME SInv, NEW p \in Proc, Action(p) PROVE (VersionsImplyTables /\ CallersKnow)'
<1>1. CASE Connect(p)
  BY <1>1, ScriptTypes DEF SInv, Typed, VersionsImplyTables, ScriptAt, Connect, Goto, Tx, contents, local, history, CallersKnow, PendingAt
<1>2. CASE ListApplied(p)
  BY <1>2, ScriptTypes DEF SInv, Typed, VersionsImplyTables, ScriptAt, ListApplied, Goto, Tx, contents, local, history, CallersKnow, PendingAt
<1>3. CASE NextMigration(p)
  BY <1>3, ScriptTypes DEF SInv, Typed, VersionsImplyTables, ScriptAt, NextMigration, Goto, Tx, contents, local, history, CallersKnow, PendingAt
<1>4. CASE RunScript(p)
  BY <1>4, ScriptTypes DEF SInv, Typed, VersionsImplyTables, ScriptAt, RunScript, Goto, Tx, contents, local, history, Ends, NoSnapshot, CallersKnow, PendingAt
<1>5. CASE Record(p)
  BY <1>5, ScriptTypes DEF SInv, Typed, VersionsImplyTables, ScriptAt, Record, Goto, Tx, contents, local, history, Ends, NoSnapshot, CallersKnow, PendingAt
<1>6. CASE CommitVersion(p)
  BY <1>6, ScriptTypes DEF SInv, Typed, VersionsImplyTables, ScriptAt, CommitVersion, Goto, Tx, contents, local, history, CallersKnow, PendingAt
<1>7. CASE Execute(p)
  <2>1. VersionsImplyTables'
    BY <1>7, ScriptTypes DEF SInv, Typed, VersionsImplyTables, ScriptAt, Execute, Goto, Tx, contents, local, history
  <2>2. CallersKnow'
    <3>1. rows' = rows /\ returned' = returned /\ raised' \subseteq raised \cup {issued + 1}
      BY <1>7 DEF Execute, contents
    <3>2. issued + 1 \notin rows
      BY DEF SInv, Typed
    <3> QED
      BY <3>1, <3>2 DEF SInv, CallersKnow
  <2> QED
    BY <2>1, <2>2
<1>8. CASE Commit(p)
  BY <1>8, ScriptTypes DEF SInv, Typed, VersionsImplyTables, ScriptAt, Commit, Goto, Tx, contents, local, history, CallersKnow, PendingAt
<1>9. CASE Query(p)
  BY <1>9, ScriptTypes DEF SInv, Typed, VersionsImplyTables, ScriptAt, Query, Goto, Tx, contents, local, history, CallersKnow, PendingAt
<1>10. CASE Report(p)
  BY <1>10, ScriptTypes DEF SInv, Typed, VersionsImplyTables, ScriptAt, Report, Goto, Tx, contents, local, history, CallersKnow, PendingAt
<1>11. CASE Close(p)
  BY <1>11, ScriptTypes DEF SInv, Typed, VersionsImplyTables, ScriptAt, Close, Goto, Tx, contents, local, history, Ends, NoSnapshot, CallersKnow, PendingAt
<1>12. CASE Crash(p)
  BY <1>12, ScriptTypes DEF SInv, Typed, VersionsImplyTables, ScriptAt, Crash, Goto, Tx, contents, local, history, Ends, NoSnapshot, CallersKnow, PendingAt
<1> QED
  BY <1>1, <1>2, <1>3, <1>4, <1>5, <1>6, <1>7, <1>8, <1>9, <1>10, <1>11, <1>12 DEF Action

\* Only the write that was begun last is ever refused.
LEMMA RaisedStep == ASSUME SInv, NEW p \in Proc, Action(p) PROVE raised' \subseteq raised \cup {issued + 1}
<1>1. CASE Connect(p)
  BY <1>1 DEF SInv, Typed, Connect, Goto, Tx, contents, local, history
<1>2. CASE ListApplied(p)
  BY <1>2 DEF SInv, Typed, ListApplied, Goto, Tx, contents, local, history
<1>3. CASE NextMigration(p)
  BY <1>3 DEF SInv, Typed, NextMigration, Goto, Tx, contents, local, history
<1>4. CASE RunScript(p)
  BY <1>4 DEF SInv, Typed, RunScript, Goto, Tx, contents, local, history, Ends, NoSnapshot
<1>5. CASE Record(p)
  BY <1>5 DEF SInv, Typed, Record, Goto, Tx, contents, local, history, Ends, NoSnapshot
<1>6. CASE CommitVersion(p)
  BY <1>6 DEF SInv, Typed, CommitVersion, Goto, Tx, contents, local, history
<1>7. CASE Execute(p)
  BY <1>7 DEF SInv, Typed, Execute, Goto, Tx, contents, local, history
<1>8. CASE Commit(p)
  BY <1>8 DEF SInv, Typed, Commit, Goto, Tx, contents, local, history
<1>9. CASE Query(p)
  BY <1>9 DEF SInv, Typed, Query, Goto, Tx, contents, local, history
<1>10. CASE Report(p)
  BY <1>10 DEF SInv, Typed, Report, Goto, Tx, contents, local, history
<1>11. CASE Close(p)
  BY <1>11 DEF SInv, Typed, Close, Goto, Tx, contents, local, history, Ends, NoSnapshot
<1>12. CASE Crash(p)
  BY <1>12 DEF SInv, Typed, Crash, Goto, Tx, contents, local, history, Ends, NoSnapshot
<1> QED
  BY <1>1, <1>2, <1>3, <1>4, <1>5, <1>6, <1>7, <1>8, <1>9, <1>10, <1>11, <1>12 DEF Action

LEMMA NextKeepsSInv == SInv /\ [Next]_vars => SInv'
<1> SUFFICES ASSUME SInv, [Next]_vars PROVE SInv'
  OBVIOUS
<1>1. CASE UNCHANGED vars
  BY <1>1 DEF vars, contents, local, history, SInv, Typed, ScriptAt, VersionsImplyTables,
              PassedAt, PendingAt, CallersKnow
<1>2. CASE Next
  <2>1. PICK p \in Proc : Action(p)
    BY <1>2 DEF Next, Action
  <2>2. \A q \in Proc \ {p} : (ScriptAt(q) /\ PassedAt(q) /\ PendingAt(q))'
    <3> SUFFICES ASSUME NEW q \in Proc \ {p} PROVE (ScriptAt(q) /\ PassedAt(q) /\ PendingAt(q))'
      OBVIOUS
    <3>1. ScriptAt(q)'
      BY <2>1, OthersStay DEF SInv, ScriptAt
    <3>2. PassedAt(q)'
      BY <2>1, OthersStay, TypedStep DEF SInv, Typed, PassedAt
    <3>3. PendingAt(q)'
      BY <2>1, OthersStay, RaisedStep DEF SInv, Typed, PendingAt
    <3> QED
      BY <3>1, <3>2, <3>3
  <2> QED
    BY <2>1, <2>2, TypedStep, ScriptStep, PassedStep, PendingStep, RecordsStep DEF SInv
<1> QED
  BY <1>1, <1>2

\* The invariant holds in every reachable state of any number of processes.
THEOREM StorageInvariant == Spec => []SInv
  BY InitSInv, NextKeepsSInv, PTL DEF Spec

\* However many processes start at once and wherever they crash, a migration is
\* recorded as applied only when all its tables exist.
THEOREM RecordedIsApplied == Spec => []VersionsImplyTables
<1>1. SInv => VersionsImplyTables
  BY DEF SInv
<1> QED
  BY <1>1, StorageInvariant, PTL

\* A process that got through bootstrap() finds every migration applied, those
\* that it left to others included.
THEOREM StartedIsMigrated == Spec => []ReadyMeansMigrated
<1>1. SInv => ReadyMeansMigrated
  BY DEF SInv, PassedAt, ReadyMeansMigrated
<1> QED
  BY <1>1, StorageInvariant, PTL

\* What execute() returned from is in the file, and what it raised from is not,
\* also when a later commit ends the transaction the refused statement began.
THEOREM ExecuteIsHonest == Spec => []CallersKnow
<1>1. SInv => CallersKnow
  BY DEF SInv
<1> QED
  BY <1>1, StorageInvariant, PTL

-----------------------------------------------------------------------------
(* The rest of the types: whose tables they are, and who has a transaction. *)

OfScripts == UNION {{Scripts[v][i] : i \in DOMAIN Scripts[v]} : v \in Version}

Transactions ==
    /\ tables \subseteq OfScripts
    /\ tx \in [Proc -> {"auto", "begun", "read", "write"}]
    /\ \A p \in Proc : pc[p] \in {"commit_version", "commit", "failed"} => tx[p] = "write"
    /\ \A p \in Proc : pc[p] \in {"off", "list", "next", "script", "record"} => tx[p] = "auto"

LEMMA TablesStep == ASSUME SInv, tables \subseteq OfScripts, NEW p \in Proc, Action(p)
                    PROVE  tables' \subseteq OfScripts
<1>1. CASE RunScript(p)
  <2>1. version[p] \in Version /\ made[p] + 1 \in DOMAIN Scripts[version[p]]
    BY <1>1, ScriptTypes DEF RunScript, SInv, ScriptAt, Typed
  <2>2. Scripts[version[p]][made[p] + 1] \in OfScripts
    BY <2>1 DEF OfScripts
  <2> QED
    BY <1>1, <2>2 DEF RunScript
<1>2. CASE ~RunScript(p)
  BY <1>2 DEF Action, Connect, ListApplied, NextMigration, Record, CommitVersion, Execute, Commit,
     Query, Report, Close, Crash, contents
<1> QED
  BY <1>1, <1>2

LEMMA TransactionsStep == ASSUME SInv, Transactions, NEW p \in Proc, Action(p) PROVE Transactions'
<1> USE DEF Goto, Tx
<1>0. pc \in [Proc -> Label] /\ tx \in [Proc -> {"auto", "begun", "read", "write"}]
  BY DEF SInv, Typed, Transactions
<1>1. tables' \subseteq OfScripts
  BY TablesStep DEF Transactions
<1>2. CASE Connect(p) \/ ListApplied(p) \/ NextMigration(p)
  BY <1>0, <1>1, <1>2 DEF Connect, ListApplied, NextMigration, Transactions
<1>3. CASE RunScript(p)
  BY <1>0, <1>1, <1>3 DEF RunScript, Ends, Transactions
<1>4. CASE Record(p) \/ CommitVersion(p)
  BY <1>0, <1>1, <1>4 DEF Record, CommitVersion, Ends, Transactions
<1>5. CASE Execute(p)
  BY <1>0, <1>1, <1>5 DEF Execute, Transactions
<1>6. CASE Commit(p) \/ Query(p) \/ Report(p)
  BY <1>0, <1>1, <1>6 DEF Commit, Query, Report, Transactions
<1>7. CASE Close(p) \/ Crash(p)
  BY <1>0, <1>1, <1>7 DEF Close, Crash, Ends, Transactions
<1> QED
  BY <1>2, <1>3, <1>4, <1>5, <1>6, <1>7 DEF Action

\* The values of the variables; in particular a process that is about to commit, or whose statement a
\* constraint refused, has the write lock, and one that migrates has no transaction open
\* (migrate(), Database.execute()).
THEOREM StorageTypes == Spec => []StorageTypeOK
<1>1. Init => Transactions
  BY DEF Init, Transactions
<1>2. SInv /\ Transactions /\ [Next]_vars => Transactions'
  <2> SUFFICES ASSUME SInv, Transactions, [Next]_vars PROVE Transactions'
    OBVIOUS
  <2>1. CASE Next
    BY <2>1, TransactionsStep DEF Next, Action
  <2>2. CASE UNCHANGED vars
    BY <2>2 DEF vars, contents, Transactions
  <2> QED
    BY <2>1, <2>2
<1>3. SInv /\ Transactions => StorageTypeOK
  BY DEF SInv, Typed, Label, ScriptAt, Transactions, OfScripts, StorageTypeOK
<1> QED
  BY <1>1, <1>2, <1>3, StorageInvariant, PTL DEF Spec

=============================================================================
