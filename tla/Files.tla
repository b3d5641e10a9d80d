-------------------------------- MODULE Files --------------------------------
(***************************************************************************)
(* The tools that write, read and remove files: fs_*, document_generate_*,   *)
(* document_convert_to_pdf, project_scaffold, process_run, and the           *)
(* verification of what they report. Several processes (the desktop          *)
(* application, commands, the scheduler) work on one directory; each does    *)
(* one call after its policy decision, with the retries of a plan step.      *)
(*                                                                         *)
(* Looking whether a file is there, opening it for writing, which empties    *)
(* it, and filling it are steps of their own; so is the minute soffice may   *)
(* take. Writing may fail half way, and a process may be killed.             *)
(***************************************************************************)
EXTENDS Integers, Sequences, FiniteSets, Functions

CONSTANTS
    Proc,
    Source, Dest,   \* two paths for plain files
    Dir, Template,  \* a directory and the files a project skeleton has in it, in order
    Outside,        \* a path outside every sandbox root
    MaxMatches,     \* what fs_search_files stops at, _MAX_MATCHES
    MaxCorrections, \* retries of one plan step
    OldData,        \* bound: what the last file of the project may hold at first
    Kinds           \* bound: the tools in play

File == {Source, Dest} \cup Range(Template)
Path == File \cup {Dir}

\* What the tools tell apart: UTF-8 text of at most _MAX_FILE_BYTES, longer text, anything else.
Data == {"text", "long_text", "binary"}

ASSUME FilesAssumption ==
    /\ Dir \notin File /\ Outside \notin Path /\ "old" \notin Proc
    /\ Template \in Seq(Range(Template)) /\ Template # <<>> /\ IsInjective(Template)
    /\ Source \notin Range(Template) /\ Dest \notin Range(Template)
    /\ MaxMatches \in Nat \ {0} /\ MaxCorrections \in Nat /\ OldData \subseteq Data

VARIABLES
    fs,         \* what is at each path
    op,         \* the call of each process
    pc,         \* "idle", "check", "convert", "look", "open", "fill", "remove", "scan", "run", "returned", "done"
    attempt,
    todo,       \* the paths still to open, remove or scan
    seen,       \* the paths found to exist, which decides between created and modified
    wrote,      \* the paths this invocation has written
    found,      \* what fs_search_files or fs_list_directory has collected
    exit,       \* exit code of the program, -1 when it was killed after its timeout
    result,     \* "ok" or the error code
    verdict,    \* what the plan step, or the command, comes to
    before,     \* history: fs when the invocation began
    replaced,   \* history: files a process has replaced without being asked to overwrite
    touched     \* history: paths that others have changed since the invocation began

mine == <<op, pc, attempt, todo, seen, wrote, found, exit, result, verdict>>
disk == <<fs, replaced, touched>>
vars == <<mine, disk, before>>

None == [type |-> "none"]
Folder == [type |-> "dir"]
Content(p, whole, data) == [type |-> "file", by |-> p, whole |-> whole, data |-> data]

NoFiles == [x \in Path |-> None]

Exists(x) == fs[x] # None
IsDir(x)  == fs[x] = Folder
IsFile(x) == Exists(x) /\ ~IsDir(x)

Inside(x) == x \in Path     \* Sandbox.resolve()

-----------------------------------------------------------------------------
(* Calls. *)

Writers == {"write", "generate", "convert", "scaffold"}

Op(by, kind, path, overwrite) == [by |-> by, kind |-> kind, path |-> path, overwrite |-> overwrite]

\* For fs_delete, "overwrite" stands for "recursive".
Ops == {o \in [by : {"loop", "cli"}, kind : Kinds, path : Path \cup {Outside}, overwrite : BOOLEAN] :
    \/ o.kind = "write" /\ o.by = "loop" /\ o.path \in {Dest, Dir, Outside, Head(Template)}
    \/ o.kind \in {"generate", "convert"} /\ o.path = Dest
    \/ o.kind = "scaffold" /\ o.by = "loop" /\ o.path = Dir
    \/ o.kind = "delete" /\ o.by = "loop" /\ o.path \in {Source, Dest, Dir, Head(Template)}
    \/ o.kind \in {"read", "info", "search"} /\ o.by = "loop" /\ o.path = Dest /\ ~o.overwrite
    \/ /\ o.kind \in {"mkdir", "read", "list", "search", "run", "forbid"}
       /\ o.by = "loop" /\ o.path = Dir /\ ~o.overwrite}

\* default_policy(): creating is allowed, overwriting and deleting are asked about; on the
\* command line --overwrite is the person's word.
NeedsApproval(o) ==
    o.by = "loop" /\ (o.kind = "delete" \/ (o.kind \in Writers /\ o.overwrite))

Guard(when, code) == [when |-> when, code |-> code]

WriteGuards(o) ==
    <<Guard(IsDir(o.path), "is_a_directory"), Guard(Exists(o.path) /\ ~o.overwrite, "already_exists")>>

GenerateGuards(o) ==
    <<Guard(IsDir(o.path), "is_a_directory"), Guard(Exists(o.path) /\ ~o.overwrite, "already_exists")>>

ConvertGuards(o) ==
    <<Guard(~IsFile(Source), "not_found"), Guard(IsDir(o.path), "is_a_directory"),
      Guard(Exists(o.path) /\ ~o.overwrite, "already_exists")>>

\* `kanna document generate | convert` have their own looks at the disk.
CliGuards(o) ==
    <<Guard(o.kind = "convert" /\ ~IsFile(Source), "error"), Guard(Exists(o.path) /\ ~o.overwrite, "error")>>

\* Fault: the skeleton is refused only when all of its files are there.
ScaffoldGuardsLenient(o) ==
    <<Guard(IsFile(o.path), "not_a_directory"),
      Guard((\A x \in Range(Template) : Exists(x)) /\ ~o.overwrite, "would_overwrite")>>

ScaffoldGuards(o) ==
    <<Guard(IsFile(o.path), "not_a_directory"),
      Guard((\E x \in Range(Template) : Exists(x)) /\ ~o.overwrite, "would_overwrite")>>

DeleteGuards(o) ==
    <<Guard(~Exists(o.path), "not_found"), Guard(IsDir(o.path) /\ ~o.overwrite, "is_a_directory")>>

MkdirGuards(o) == <<Guard(IsFile(o.path), "not_a_directory")>>

ReadGuards(o) == <<Guard(~Exists(o.path), "not_found"), Guard(IsDir(o.path), "is_a_directory")>>

InfoGuards(o) == <<Guard(~Exists(o.path), "ok")>>     \* that it does not exist is the answer

ListGuards(o) == <<Guard(~Exists(o.path), "not_found"), Guard(~IsDir(o.path), "not_a_directory")>>

SearchGuards(o) == <<Guard(~IsDir(o.path), "not_found")>>

\* "forbid": an executable that is not on the list, or an empty command.
RunGuards(o) == <<Guard(o.kind = "forbid", "executable_not_allowed"), Guard(~IsDir(o.path), "not_found")>>

\* The early returns of each execute(), in order.
Guards(o) ==
    CASE ~Inside(o.path) -> <<Guard(TRUE, "sandbox_violation")>>
      [] Inside(o.path) /\ o.by = "cli" -> CliGuards(o)
      [] Inside(o.path) /\ o.by = "loop" ->
        CASE o.kind = "write" -> WriteGuards(o)
          [] o.kind = "generate" -> GenerateGuards(o)
          [] o.kind = "convert" -> ConvertGuards(o)
          [] o.kind = "scaffold" -> ScaffoldGuards(o)
          [] o.kind = "delete" -> DeleteGuards(o)
          [] o.kind = "mkdir" -> MkdirGuards(o)
          [] o.kind = "read" -> ReadGuards(o)
          [] o.kind = "info" -> InfoGuards(o)
          [] o.kind = "list" -> ListGuards(o)
          [] o.kind = "search" -> SearchGuards(o)
          [] o.kind \in {"run", "forbid"} -> RunGuards(o)

Refuses(o, code) ==
    \E i \in DOMAIN Guards(o) :
        /\ Guards(o)[i].when /\ Guards(o)[i].code = code
        /\ \A j \in 1..(i - 1) : ~Guards(o)[j].when

Passes(o) == \A i \in DOMAIN Guards(o) : ~Guards(o)[i].when

Targets(o) == IF o.kind = "scaffold" THEN Template ELSE <<o.path>>

\* What rglob() or iterdir() collects, and what rmtree() goes through. Only rmtree() does it in any
\* order; nothing below depends on the order of the others.
Entries ==
    LET there == {x \in Range(Template) : Exists(x)}
    IN  {s \in [1..Cardinality(there) -> there] : Range(s) = there}

\* The codes after which a plan step is not tried again.
Terminal(code) ==
    code \in {"approval_denied", "sandbox_violation", "document_generation_unavailable",
              "document_conversion_unavailable"}

-----------------------------------------------------------------------------
(* Changes of the file system, with their histories. *)

Put(p, x, content) ==
    /\ fs' = IF x \in Range(Template) THEN [fs EXCEPT ![x] = content, ![Dir] = Folder]
             ELSE [fs EXCEPT ![x] = content]
    /\ replaced' = IF fs[x].type = "file" /\ fs[x].by # p /\ content.type = "file" /\ ~op[p].overwrite
                   THEN [replaced EXCEPT ![p] = @ \cup {<<x, fs[x]>>}] ELSE replaced
    /\ touched' = [q \in Proc |-> IF q = p THEN touched[q] ELSE touched[q] \cup {x}]

Keeps == UNCHANGED <<fs, replaced, touched>>

Goto(p, where) == pc' = [pc EXCEPT ![p] = where]

Returns(p, code) ==
    /\ result' = [result EXCEPT ![p] = code] /\ Goto(p, "returned")

-----------------------------------------------------------------------------
(* One invocation. *)

Begin(p, o) ==
    /\ op' = [op EXCEPT ![p] = o]
    /\ attempt' = [attempt EXCEPT ![p] = @ + 1]
    /\ todo' = [todo EXCEPT ![p] = <<>>] /\ seen' = [seen EXCEPT ![p] = {}]
    /\ wrote' = [wrote EXCEPT ![p] = {}] /\ found' = [found EXCEPT ![p] = {}]
    /\ exit' = [exit EXCEPT ![p] = 0]
    /\ before' = [before EXCEPT ![p] = fs]
    /\ replaced' = [replaced EXCEPT ![p] = {}] /\ touched' = [touched EXCEPT ![p] = {}]
    /\ \/ Goto(p, "check") /\ result' = [result EXCEPT ![p] = "none"]
       \/ NeedsApproval(o) /\ Returns(p, "approval_denied")
    /\ UNCHANGED <<fs, verdict>>

Call(p, o) == pc[p] = "idle" /\ Begin(p, o)

Refuse(p) ==
    /\ pc[p] = "check"
    /\ \E i \in DOMAIN Guards(op[p]) :
        Refuses(op[p], Guards(op[p])[i].code) /\ Returns(p, Guards(op[p])[i].code)
    /\ Keeps /\ UNCHANGED <<op, attempt, todo, seen, wrote, found, exit, verdict, before>>

Proceed(p) ==
    LET o == op[p] IN
    /\ pc[p] = "check" /\ Passes(o)
    /\ seen' = [seen EXCEPT ![p] = IF o.kind \in {"write", "generate", "convert", "mkdir"} /\ Exists(o.path)
                                   THEN {o.path} ELSE {}]
    /\ \E s \in Entries :
        todo' = [todo EXCEPT ![p] =
            CASE o.kind \in Writers \cup {"read", "info", "mkdir"} -> Targets(o)
              [] o.kind = "delete" -> IF IsDir(o.path) THEN Append(s, o.path) ELSE <<o.path>>
              [] o.kind \in {"list", "search"} -> s
              [] OTHER -> <<>>]
    /\ Goto(p, CASE o.kind = "convert" -> "convert"
                 [] o.kind = "scaffold" -> "look"
                 [] o.kind \in {"write", "generate", "mkdir"} -> "open"
                 [] o.kind = "delete" -> "remove"
                 [] o.kind \in {"read", "info", "list", "search"} -> "scan"
                 [] o.kind = "run" -> "run")
    /\ Keeps /\ UNCHANGED <<op, attempt, wrote, found, exit, result, verdict, before>>

\* The package a renderer needs is missing, or LibreOffice is, or it fails or takes too long.
Unavailable(p) ==
    /\ \/ pc[p] = "open" /\ op[p].kind = "generate" /\ Returns(p, "document_generation_unavailable")
       \/ pc[p] = "convert" /\ Returns(p, "document_conversion_unavailable")
    /\ Keeps /\ UNCHANGED <<op, attempt, todo, seen, wrote, found, exit, verdict, before>>

\* soffice has produced the PDF in a directory of its own.
Soffice(p) ==
    /\ pc[p] = "convert" /\ IsFile(Source) /\ fs[Source].whole
    /\ Goto(p, "open")
    /\ Keeps /\ UNCHANGED <<op, attempt, todo, seen, wrote, found, exit, result, verdict, before>>

Target(p) == Head(todo[p])

\* The parent cannot be made, or a directory is where the file should go.
Blocked(p) ==
    \/ IsDir(Target(p)) /\ op[p].kind # "mkdir"
    \/ IsFile(Target(p)) /\ op[p].kind = "mkdir"
    \/ Target(p) \in Range(Template) /\ IsFile(Dir)

\* Only project_scaffold looks again at each file, before it makes the parents and opens it.
Look(p) ==
    LET x == Target(p) IN
    /\ pc[p] = "look"
    /\ seen' = IF Exists(x) THEN [seen EXCEPT ![p] = @ \cup {x}] ELSE seen
    /\ Goto(p, "open")
    /\ Keeps /\ UNCHANGED <<op, attempt, todo, wrote, found, exit, result, verdict, before>>

\* open(..., "w"), which makes the parents and empties the file. mkdir() is done with it, and
\* so is a move inside one file system.
Open(p) ==
    LET x == Target(p)
        data == IF op[p].kind \in {"write", "scaffold"} THEN "text" ELSE "binary" IN
    /\ pc[p] = "open" /\ ~Blocked(p)
    /\ wrote' = [wrote EXCEPT ![p] = @ \cup {x}]
    /\ \/ op[p].kind = "mkdir" /\ Put(p, x, Folder) /\ Returns(p, "ok")
       \/ op[p].kind = "convert" /\ Put(p, x, Content(p, TRUE, data)) /\ Returns(p, "ok")
       \/ /\ op[p].kind \notin {"mkdir", "convert"} /\ Put(p, x, Content(p, FALSE, data))
          /\ Goto(p, "fill") /\ UNCHANGED result
    /\ UNCHANGED <<op, attempt, todo, seen, found, exit, verdict, before>>

\* The file is written to its end, if it is still there and nobody else has opened it since.
Fill(p) ==
    LET x == Target(p) IN
    /\ pc[p] = "fill"
    /\ IF fs[x].type = "file" /\ fs[x].by = p THEN Put(p, x, [fs[x] EXCEPT !.whole = TRUE]) ELSE Keeps
    /\ todo' = [todo EXCEPT ![p] = Tail(@)]
    /\ IF Len(todo[p]) = 1
       \* the size of a document is asked for afterwards, which raises if it is gone
       THEN Returns(p, IF ~Exists(x) /\ op[p].kind \in {"generate", "convert"} THEN "execution_error" ELSE "ok")
       ELSE Goto(p, "look") /\ UNCHANGED result
    /\ UNCHANGED <<op, attempt, seen, wrote, found, exit, verdict, before>>

\* Fault: project_scaffold skips a file that it cannot write.
RaisesSkipping(p) ==
    /\ pc[p] \in {"open", "fill"} /\ todo' = [todo EXCEPT ![p] = Tail(@)]
    /\ IF Len(todo[p]) = 1 THEN Returns(p, "ok") ELSE Goto(p, "look") /\ UNCHANGED result
    /\ Keeps /\ UNCHANGED <<op, attempt, seen, wrote, found, exit, verdict, before>>

\* An OSError, out of execute(): a full disk, no permission, something in the way.
Raises(p) ==
    /\ pc[p] \in {"open", "fill", "remove"}
    /\ Returns(p, "execution_error")
    /\ Keeps /\ UNCHANGED <<op, attempt, todo, seen, wrote, found, exit, verdict, before>>

\* unlink(), or one step of rmtree(); the directory goes last and must be empty by then.
Remove(p) ==
    LET x == Target(p) IN
    /\ pc[p] = "remove" /\ Exists(x)
    /\ IsDir(x) => (todo[p] = <<x>> /\ op[p].overwrite /\ \A y \in Range(Template) : ~Exists(y))
    /\ Put(p, x, None)
    /\ wrote' = [wrote EXCEPT ![p] = @ \cup {x}]
    /\ todo' = [todo EXCEPT ![p] = Tail(@)]
    /\ IF Len(todo[p]) = 1 THEN Returns(p, "ok") ELSE UNCHANGED <<pc, result>>
    /\ UNCHANGED <<op, attempt, seen, found, exit, verdict, before>>

\* Enough lines match.
Full(p) == op[p].kind = "search" /\ Cardinality(found[p]) >= MaxMatches

\* Fault: an entry that cannot be read ends the search.
ScanStops(p) ==
    /\ pc[p] = "scan" /\ todo[p] # <<>>
    /\ LET x == Target(p) IN
        IF fs[x].type = "file" /\ fs[x].data = "text"
        THEN found' = [found EXCEPT ![p] = @ \cup {x}] /\ todo' = [todo EXCEPT ![p] = Tail(@)] /\ UNCHANGED <<pc, result>>
        ELSE UNCHANGED <<found, todo>> /\ Returns(p, "ok")
    /\ Keeps /\ UNCHANGED <<op, attempt, seen, wrote, exit, verdict, before>>

\* One entry: listed with what stat() says, or searched if it is still there, text, and not
\* over _MAX_FILE_BYTES (search.py:55); nothing tells of the entries that are passed over.
Scan(p) ==
    LET x == Target(p) IN
    /\ pc[p] = "scan" /\ todo[p] # <<>> /\ op[p].kind \in {"list", "search"}
    /\ ~Full(p)
    /\ found' = IF op[p].kind = "list" \/ (fs[x].type = "file" /\ fs[x].data = "text")
                THEN [found EXCEPT ![p] = @ \cup {x}] ELSE found
    /\ todo' = [todo EXCEPT ![p] = Tail(@)]
    /\ Keeps /\ UNCHANGED <<op, pc, attempt, seen, wrote, exit, result, verdict, before>>

\* All entries are through, or enough lines match.
ScanEnds(p) ==
    /\ pc[p] = "scan" /\ op[p].kind \in {"list", "search"}
    /\ todo[p] = <<>> \/ Full(p)
    /\ Returns(p, "ok")
    /\ Keeps /\ UNCHANGED <<op, attempt, todo, seen, wrote, found, exit, verdict, before>>

\* stat() and read_bytes(): what was there may be gone by now, and need not be text.
Read(p) ==
    LET x == Target(p) IN
    /\ pc[p] = "scan" /\ op[p].kind \in {"read", "info"}
    /\ Returns(p, CASE ~Exists(x) -> "execution_error"
                    [] Exists(x) /\ op[p].kind = "info" -> "ok"
                    [] IsDir(x) /\ op[p].kind = "read" -> "execution_error"
                    [] IsFile(x) /\ op[p].kind = "read" -> IF fs[x].data = "binary" THEN "not_text" ELSE "ok")
    /\ found' = IF result'[p] = "ok" THEN [found EXCEPT ![p] = {x}] ELSE found
    /\ Keeps /\ UNCHANGED <<op, attempt, todo, seen, wrote, exit, verdict, before>>

\* A program may leave a file behind and end with any code, or be killed after its timeout; or what
\* it printed does not decode, which text=True raises out of execute().
RunProgram(p) ==
    /\ pc[p] = "run"
    /\ \/ /\ Keeps \/ Put(p, Dest, Content(p, TRUE, "text"))
          /\ \/ Returns(p, "ok") /\ \E c \in {0, 1, -1} : exit' = [exit EXCEPT ![p] = c]
             \/ Returns(p, "execution_error") /\ UNCHANGED exit
       \/ Keeps /\ Returns(p, "spawn_failed") /\ UNCHANGED exit
    /\ UNCHANGED <<op, attempt, todo, seen, wrote, found, verdict, before>>

-----------------------------------------------------------------------------
(* What becomes of the result. *)

\* files_created and files_modified of a successful call.
Created(p)  == IF op[p].kind \in Writers \cup {"mkdir"} THEN wrote[p] \ seen[p] ELSE {}
Modified(p) == IF op[p].kind \in Writers THEN wrote[p] \cap seen[p] ELSE {}

\* verify(): the files reported are there, and a program has ended well.
Verified(p) ==
    /\ result[p] = "ok"
    /\ \A x \in Created(p) \cup Modified(p) : Exists(x)
    /\ op[p].kind = "run" => exit[p] = 0

\* The locals of the call are gone, and with them its histories.
Forget(p) ==
    /\ attempt' = [attempt EXCEPT ![p] = 0] /\ todo' = [todo EXCEPT ![p] = <<>>]
    /\ seen' = [seen EXCEPT ![p] = {}] /\ wrote' = [wrote EXCEPT ![p] = {}]
    /\ found' = [found EXCEPT ![p] = {}] /\ before' = [before EXCEPT ![p] = NoFiles]
    /\ replaced' = [replaced EXCEPT ![p] = {}] /\ UNCHANGED <<fs, touched>>

Judge(p) ==
    /\ pc[p] = "returned"
    /\ verdict' = [verdict EXCEPT ![p] =
            IF (IF op[p].by = "cli" THEN result[p] = "ok" ELSE Verified(p)) THEN "ok" ELSE "failed"]
    /\ Goto(p, "done")
    /\ Forget(p) /\ UNCHANGED <<op, exit, result>>

\* A revision may ask to overwrite; then the person is asked.
Retry(p, overwrite) ==
    /\ pc[p] = "returned" /\ op[p].by = "loop"
    /\ result[p] # "ok" /\ ~Terminal(result[p]) /\ attempt[p] <= MaxCorrections
    /\ Begin(p, [op[p] EXCEPT !.overwrite = overwrite])

\* The process is killed.
Crash(p) ==
    /\ pc[p] \notin {"idle", "returned", "done"}
    /\ Goto(p, "done") /\ result' = [result EXCEPT ![p] = "killed"]
    /\ Forget(p) /\ UNCHANGED <<op, exit, verdict>>

-----------------------------------------------------------------------------
Old(data) == Content("old", TRUE, data)

Init ==
    /\ \E there \in SUBSET (File \ {Source}), last \in OldData :
        fs = [x \in Path |-> IF x = Source THEN Old("binary")
                             ELSE IF x \in there THEN Old(IF x = Template[Len(Template)] THEN last ELSE "text")
                             ELSE IF x = Dir /\ there \cap Range(Template) # {} THEN Folder ELSE None]
    /\ op = [p \in Proc |-> Op("cli", "none", Dest, FALSE)]
    /\ pc = [p \in Proc |-> "idle"] /\ attempt = [p \in Proc |-> 0]
    /\ todo = [p \in Proc |-> <<>>] /\ seen = [p \in Proc |-> {}] /\ wrote = [p \in Proc |-> {}]
    /\ found = [p \in Proc |-> {}] /\ exit = [p \in Proc |-> 0]
    /\ result = [p \in Proc |-> "none"] /\ verdict = [p \in Proc |-> "none"]
    /\ before = [p \in Proc |-> NoFiles] /\ replaced = [p \in Proc |-> {}] /\ touched = [p \in Proc |-> {}]

Step(p) ==
    \/ \E o \in Ops : Call(p, o)
    \/ Refuse(p) \/ Proceed(p) \/ Unavailable(p) \/ Soffice(p) \/ Look(p) \/ Open(p) \/ Fill(p) \/ Raises(p)
    \/ Remove(p) \/ Scan(p) \/ ScanEnds(p) \/ Read(p) \/ RunProgram(p)
    \/ Judge(p) \/ (\E b \in {op[p].overwrite, TRUE} : Retry(p, b)) \/ Crash(p)

Next == \E p \in Proc : Step(p)

Spec == Init /\ [][Next]_vars

-----------------------------------------------------------------------------
(* Properties. *)

FilesTypeOK ==
    /\ DOMAIN fs = Path
    /\ \A p \in Proc : attempt[p] <= MaxCorrections + 1 /\ wrote[p] \subseteq Path
                        /\ seen[p] \subseteq Path /\ Range(todo[p]) \subseteq Path

\* A file is not replaced by a call unless overwriting was asked for and approved, or another process
\* has changed it since the call began: whatever the others do between the look and the write, and
\* although a skeleton consists of several files (write.py:44, tools.py:67 of tools/scaffold).
OldFilesSurvive ==
    \A p \in Proc : op[p].kind \in Writers =>
        \A r \in replaced[p] : r[1] \in touched[p]

\* A call that counts as done has left whole files of its own behind, all that it promised,
\* unless somebody else has changed them since; a program counts as done only if it ended with 0,
\* not when it failed or was killed; and what is reported as created was not there when the call
\* began, what as modified was (verifier.py:43-59, convert.py:82, write.py:55).
OkIsEarned ==
    \A p \in Proc :
        /\ verdict[p] = "ok" =>
            /\ op[p].kind \in Writers => \A x \in Range(Targets(op[p])) :
                x \in touched[p] \/ (fs[x].type = "file" /\ fs[x].by = p /\ fs[x].whole)
            /\ op[p].kind = "run" => exit[p] = 0
        /\ pc[p] = "returned" /\ result[p] = "ok" =>
            /\ \A x \in Created(p) \ touched[p] : before[p][x] = None
            /\ \A x \in Modified(p) \ touched[p] : before[p][x] # None

\* A listing has every file that was there all along, and a search that is not cut short every
\* one of them that is text of at most _MAX_FILE_BYTES, although files come and go while they run
\* and some are no text or too long (search.py:51-67, list_dir.py:41). A longer text is passed over
\* and the answer still says truncated = False.
SearchIsComplete ==
    \A p \in Proc : pc[p] = "returned" /\ result[p] = "ok" /\ op[p].kind \in {"list", "search"}
                        /\ ~Full(p) =>
        \A x \in Range(Template) \ touched[p] :
            /\ before[p][x].type = "file"
            /\ op[p].kind = "search" => before[p][x].data = "text"
            => x \in found[p]
=============================================================================
