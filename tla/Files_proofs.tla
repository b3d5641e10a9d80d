---------------------------- MODULE Files_proofs ----------------------------
(***************************************************************************)
(* The promises of the file tools, for every set of processes, skeleton of a *)
(* project, limit of a search and number of corrections.                     *)
(*                                                                         *)
(* A call looks at the disk, and acts on what it saw some steps later. What  *)
(* it may still rely on is Undisturbed: a path that nobody else has touched  *)
(* since the call began and that the call itself has not written is as it    *)
(* was at the beginning. The rest of the invariant is what one process       *)
(* believes of its own paths; a step of another process keeps all of it      *)
(* (AnotherStep), by what such a step may do at most (Elsewhere).            *)
(***************************************************************************)
EXTENDS Files, FiniteSetTheorems, SequenceTheorems, TLAPS

Node ==
    [type : {"none"}] \cup [type : {"dir"}] \cup
    [type : {"file"}, by : Proc \cup {"old"}, whole : BOOLEAN, data : Data]

Makers == Writers \cup {"mkdir"}
Plain == {"write", "generate", "convert", "mkdir"}     \* the tools that write one path
Finders == {"list", "search"}

Calls ==
    {o \in [by : {"loop", "cli"},
            kind : Makers \cup Finders \cup {"none", "read", "info", "delete", "run", "forbid"},
            path : Path \cup {Outside}, overwrite : BOOLEAN] :
        /\ o.by = "cli" => o.kind \in {"none", "generate", "convert"}
        /\ o.kind = "none" => o.by = "cli"
        /\ o.kind \in {"generate", "convert"} => o.path = Dest
        /\ o.kind \in {"scaffold", "mkdir"} => o.path = Dir}

DiskTypes == fs \in [Path -> Node]

HistoryTypes ==
    /\ before \in [Proc -> [Path -> Node]]
    /\ replaced \in [Proc -> SUBSET (Path \X Node)] /\ touched \in [Proc -> SUBSET Path]

Refused ==
    {"approval_denied", "sandbox_violation", "is_a_directory", "not_a_directory", "already_exists",
     "would_overwrite", "not_found", "executable_not_allowed", "error"}

Codes ==
    Refused \cup
    {"none", "ok", "document_generation_unavailable", "document_conversion_unavailable",
     "execution_error", "not_text", "spawn_failed", "killed"}

Verdicts == {"none", "ok", "failed"}

Points == {"idle", "check", "convert", "look", "open", "fill", "remove", "scan", "run", "returned", "done"}

LocalTypes ==
    /\ op \in [Proc -> Calls]
    /\ pc \in [Proc -> Points]
    /\ attempt \in [Proc -> 0..(MaxCorrections + 1)]
    /\ todo \in [Proc -> Seq(Path)] /\ seen \in [Proc -> SUBSET Path]
    /\ wrote \in [Proc -> SUBSET Path] /\ found \in [Proc -> SUBSET Path]
    /\ exit \in [Proc -> {0, 1, -1}]
    /\ result \in [Proc -> Codes] /\ verdict \in [Proc -> Verdicts]

\* The files of a project have their directory.
DirIsThere == \A x \in Range(Template) : Exists(x) => IsDir(Dir)

-----------------------------------------------------------------------------
(* What a process may rely on. *)

Untouched(q) == Path \ touched[q]
Own(q, x) == fs[x].type = "file" /\ fs[x].by = q /\ fs[x].whole

\* Where a call is, by what it is.
Stage(q) ==
    /\ pc[q] = "idle" => attempt[q] = 0
    /\ pc[q] # "idle" => op[q].kind # "none"
    /\ pc[q] = "convert" => op[q].kind = "convert"
    /\ pc[q] \in {"open", "fill"} => op[q].kind \in Makers
    /\ pc[q] = "look" => op[q].kind = "scaffold"
    /\ pc[q] = "fill" => op[q].kind # "mkdir"
    /\ pc[q] = "remove" => op[q].kind = "delete"
    /\ pc[q] = "scan" => op[q].kind \in Finders \cup {"read", "info"}
    /\ pc[q] = "run" => op[q].kind = "run"
    /\ pc[q] = "remove" \/ (pc[q] = "scan" /\ op[q].kind \notin Finders) => todo[q] # <<>>
    /\ pc[q] \in {"check", "convert", "scan"} => wrote[q] = {}

Undisturbed(q) ==
    pc[q] \in {"check", "convert", "look", "open", "fill", "remove", "scan", "run"} =>
        \A x \in Untouched(q) \ wrote[q] :
            \/ fs[x] = before[q][x]
            \/ x = Dir /\ before[q][x] = None /\ IsDir(x)   \* another process has made a file in it

\* A writer's targets: those still to be opened, and those it is done with.
Working(q) ==
    pc[q] \in {"convert", "look", "open", "fill"} =>
        /\ todo[q] # <<>> /\ IsInjective(todo[q])
        /\ Range(todo[q]) \subseteq Range(Targets(op[q]))
        /\ pc[q] # "fill" => wrote[q] \cap Range(todo[q]) = {}
        /\ pc[q] = "fill" =>
            /\ Head(todo[q]) \in wrote[q] /\ wrote[q] \cap Range(Tail(todo[q])) = {}
            /\ Head(todo[q]) \in Untouched(q) =>
                fs[Head(todo[q])].type = "file" /\ fs[Head(todo[q])].by = q
        /\ \A x \in Range(Targets(op[q])) \ Range(todo[q]) : x \in Untouched(q) => Own(q, x)
        /\ op[q].kind \in Writers /\ ~op[q].overwrite =>
            \A x \in Range(todo[q]) \cap Untouched(q) : fs[x].type = "file" => fs[x].by = q

\* The targets that a scaffold has looked at.
Looked(q) == wrote[q] \cup (IF pc[q] = "open" THEN {Head(todo[q])} ELSE {})

\* What was seen is what was there at the beginning.
SeenRightly(q) ==
    pc[q] \in {"convert", "look", "open", "fill"} \/ (pc[q] = "returned" /\ result[q] = "ok") =>
        /\ op[q].kind \in Makers => wrote[q] \subseteq Range(Targets(op[q]))
        /\ op[q].kind \in Plain /\ op[q].path \in Untouched(q) =>
            /\ op[q].path \notin seen[q] => before[q][op[q].path] = None
            /\ op[q].path \in seen[q] /\ op[q].kind # "mkdir" => before[q][op[q].path] # None
        /\ op[q].kind = "scaffold" =>
            /\ seen[q] \subseteq Looked(q)
            /\ \A x \in Looked(q) \cap Untouched(q) : x \in seen[q] <=> before[q][x] # None

\* What a search or listing must find.
Wanted(q) ==
    {x \in Range(Template) \cap Untouched(q) :
        before[q][x].type = "file" /\ (op[q].kind = "search" => before[q][x].data = "text")}

Scanning(q) ==
    pc[q] = "scan" /\ op[q].kind \in Finders => Wanted(q) \subseteq found[q] \cup Range(todo[q])

\* Of what a writer has promised, all is there that nobody else has touched.
Delivered(q) ==
    /\ Range(Targets(op[q])) \subseteq Path
    /\ \A x \in Range(Targets(op[q])) : x \in Untouched(q) => Own(q, x)

Returned(q) ==
    pc[q] = "returned" /\ result[q] = "ok" =>
        /\ op[q].kind \in Writers => Delivered(q)
        /\ op[q].kind \in Finders /\ ~Full(q) => Wanted(q) \subseteq found[q]

Judged(q) ==
    verdict[q] = "ok" =>
        /\ pc[q] = "done"
        /\ op[q].kind \in Writers => Delivered(q)
        /\ op[q].kind = "run" => exit[q] = 0

Asked(q) ==
    op[q].kind \in Writers => \A r \in replaced[q] : r[1] \in touched[q]

Relies(q) ==
    /\ Stage(q) /\ Undisturbed(q) /\ Working(q) /\ SeenRightly(q)
    /\ Scanning(q) /\ Returned(q) /\ Judged(q) /\ Asked(q)

FInv ==
    /\ DiskTypes /\ HistoryTypes /\ LocalTypes /\ DirIsThere
    /\ \A q \in Proc : Relies(q)

-----------------------------------------------------------------------------
(* Sequences, and the parameters. *)

LEMMA HeadAndTail ==
    ASSUME NEW S, NEW s \in Seq(S), s # <<>>
    PROVE  /\ Head(s) \in S /\ Tail(s) \in Seq(S) /\ Head(s) \in Range(s)
           /\ Range(s) = {Head(s)} \cup Range(Tail(s))
           /\ Len(s) = 1 => Range(Tail(s)) = {}
           /\ Len(s) # 1 => Tail(s) # <<>>
           /\ IsInjective(s) => IsInjective(Tail(s)) /\ Head(s) \notin Range(Tail(s))
<1>1. /\ Len(s) \in Nat \ {0} /\ DOMAIN s = 1..Len(s) /\ Head(s) = s[1]
      /\ Tail(s) \in Seq(S) /\ DOMAIN Tail(s) = 1..(Len(s) - 1) /\ Len(Tail(s)) = Len(s) - 1
      /\ \A i \in 1..(Len(s) - 1) : Tail(s)[i] = s[i + 1]
  OBVIOUS
<1>2. Head(s) \in S /\ Head(s) \in Range(s)
  BY <1>1 DEF Range
<1>3. Range(Tail(s)) \subseteq Range(s)
  BY <1>1 DEF Range
<1>4. Range(s) \subseteq {Head(s)} \cup Range(Tail(s))
  <2> SUFFICES ASSUME NEW i \in 1..Len(s), i # 1
               PROVE  s[i] \in Range(Tail(s))
    BY <1>1 DEF Range
  <2>1. i - 1 \in 1..(Len(s) - 1) /\ (i - 1) + 1 = i
    BY <1>1
  <2> QED
    BY <1>1, <2>1 DEF Range
<1>5. Len(s) = 1 => Range(Tail(s)) = {}
  BY <1>1 DEF Range
<1>6. Len(s) # 1 => Tail(s) # <<>>
  BY <1>1
<1>7. IsInjective(s) => IsInjective(Tail(s)) /\ Head(s) \notin Range(Tail(s))
  BY <1>1 DEF IsInjective, Range
<1> QED
  BY <1>1, <1>2, <1>3, <1>4, <1>5, <1>6, <1>7

LEMMA OneElement ==
    ASSUME NEW S, NEW x \in S
    PROVE  <<x>> \in Seq(S) /\ <<x>> # <<>> /\ Range(<<x>>) = {x} /\ IsInjective(<<x>>)
  BY DEF Range, IsInjective

\* A project has files, none of which is one of the other two or the directory.
LEMMA Skeleton ==
    /\ Template \in Seq(Path) /\ Template # <<>> /\ IsInjective(Template)
    /\ Range(Template) \subseteq Path /\ Dir \in Path /\ Dir \notin Range(Template)
    /\ Source \in Path /\ Dest \in Path /\ Source # Dir /\ Dest # Dir
    /\ Source \notin Range(Template) /\ Dest \notin Range(Template)
    /\ Outside \notin Path /\ Head(Template) \in Range(Template)
<1>1. Range(Template) \subseteq Path
  BY DEF Path, File
<1>2. Template \in Seq(Path)
  BY <1>1, SeqMonotonic, FilesAssumption DEF FilesAssumption
<1>3. Head(Template) \in Range(Template)
  BY <1>2, HeadAndTail, FilesAssumption DEF FilesAssumption
<1> QED
  BY <1>1, <1>2, <1>3, FilesAssumption DEF FilesAssumption, Path, File

\* What a call writes.
LEMMA TargetsOfACall ==
    ASSUME NEW o \in Calls, o.path \in Path
    PROVE  /\ Targets(o) \in Seq(Path) /\ Targets(o) # <<>> /\ IsInjective(Targets(o))
           /\ o.kind # "scaffold" => Targets(o) = <<o.path>> /\ Range(Targets(o)) = {o.path}
           /\ o.kind = "scaffold" => Targets(o) = Template
  BY Skeleton, OneElement DEF Targets, Calls

LEMMA EntriesAreSequences ==
    ASSUME NEW s \in Entries
    PROVE  s \in Seq(Path) /\ Range(s) = {x \in Range(Template) : Exists(x)}
<1> DEFINE there == {x \in Range(Template) : Exists(x)}
<1>1. IsFiniteSet(Range(Template))
  <2>1. Len(Template) \in Nat /\ DOMAIN Template = 1..Len(Template)
    BY Skeleton, LenProperties
  <2>2. IsFiniteSet(1..Len(Template))
    BY <2>1, FS_Interval
  <2>3. Template \in Surjection(1..Len(Template), Range(Template))
    BY <2>1, Skeleton DEF Surjection, Range
  <2> QED
    BY <2>2, <2>3, FS_Surjection
<1>2. IsFiniteSet(there) /\ Cardinality(there) \in Nat
  BY <1>1, FS_Subset, FS_CardinalityType
<1>3. s \in [1..Cardinality(there) -> there] /\ Range(s) = there
  BY DEF Entries
<1>4. s \in Seq(there)
  <2> HIDE DEF there
  <2> QED
    BY <1>2, <1>3
<1>5. s \in Seq(Path)
  BY <1>4, Skeleton, SeqMonotonic
<1> QED
  BY <1>3, <1>5

LEMMA Nodes ==
    /\ None \in Node /\ Folder \in Node /\ None # Folder
    /\ None.type = "none" /\ Folder.type = "dir"
    /\ \A n \in Node :
        /\ n \in {None, Folder} \/ n.type = "file"
        /\ n.type = "file" => n # None /\ n # Folder
    /\ \A p \in Proc, whole \in BOOLEAN, data \in Data :
        /\ Content(p, whole, data) \in Node /\ Content(p, whole, data).type = "file"
        /\ Content(p, whole, data).by = p /\ Content(p, whole, data).whole = whole
<1>1. /\ None \in Node /\ Folder \in Node /\ None # Folder
      /\ None.type = "none" /\ Folder.type = "dir"
  BY DEF Node, None, Folder
<1>2. ASSUME NEW n \in Node
      PROVE  /\ n \in {None, Folder} \/ n.type = "file"
             /\ n.type = "file" => n # None /\ n # Folder
  BY DEF Node, None, Folder
<1>3. ASSUME NEW p \in Proc, NEW whole \in BOOLEAN, NEW data \in Data
      PROVE  /\ Content(p, whole, data) \in Node /\ Content(p, whole, data).type = "file"
             /\ Content(p, whole, data).by = p /\ Content(p, whole, data).whole = whole
  BY DEF Node, Content
<1> QED
  BY <1>1, <1>2, <1>3

LEMMA FilledNode ==
    ASSUME NEW n \in Node, n.type = "file"
    PROVE  /\ [n EXCEPT !.whole = TRUE] \in Node
           /\ [n EXCEPT !.whole = TRUE].type = "file" /\ [n EXCEPT !.whole = TRUE].by = n.by
           /\ [n EXCEPT !.whole = TRUE].whole
<1>1. n \in [type : {"file"}, by : Proc \cup {"old"}, whole : BOOLEAN, data : Data]
  BY DEF Node
<1>2. [n EXCEPT !.whole = TRUE] \in [type : {"file"}, by : Proc \cup {"old"}, whole : BOOLEAN, data : Data]
  BY <1>1
<1> QED
  BY <1>1, <1>2 DEF Node

-----------------------------------------------------------------------------
(* Steps on the disk, and of another process. *)

\* A path that stays as it is, or the directory of a project that comes with a file of it.
Kept(x) == fs'[x] = fs[x] \/ (x = Dir /\ fs[x] = None /\ fs'[x] = Folder)

\* What a step of another process does to q at most.
Elsewhere(q) ==
    /\ op'[q] = op[q] /\ pc'[q] = pc[q] /\ attempt'[q] = attempt[q] /\ todo'[q] = todo[q]
    /\ seen'[q] = seen[q] /\ wrote'[q] = wrote[q] /\ found'[q] = found[q] /\ exit'[q] = exit[q]
    /\ result'[q] = result[q] /\ verdict'[q] = verdict[q]
    /\ before'[q] = before[q] /\ replaced'[q] = replaced[q]
    /\ touched[q] \subseteq touched'[q]
    /\ \A x \in Path \ touched'[q] : Kept(x)

LEMMA PutOnDisk ==
    ASSUME NEW p \in Proc, NEW x \in Path, NEW c \in Node,
           DiskTypes, HistoryTypes, DirIsThere, Put(p, x, c),
           x \in Range(Template) => ~IsFile(Dir),
           x = Dir /\ c # Folder => \A y \in Range(Template) : ~Exists(y)
    PROVE  /\ DiskTypes' /\ DirIsThere'
           /\ replaced' \in [Proc -> SUBSET (Path \X Node)] /\ touched' \in [Proc -> SUBSET Path]
           /\ fs'[x] = c /\ \A y \in Path \ {x} : Kept(y)
           /\ touched'[p] = touched[p]
           /\ \A q \in Proc \ {p} :
                /\ touched'[q] = touched[q] \cup {x} /\ replaced'[q] = replaced[q]
                /\ \A y \in Path \ touched'[q] : Kept(y)
           /\ \A r \in replaced'[p] :
                \/ r \in replaced[p]
                \/ r = <<x, fs[x]>> /\ fs[x].type = "file" /\ fs[x].by # p /\ ~op[p].overwrite
<1> USE Skeleton, Nodes
<1>1. DiskTypes' /\ fs'[x] = c
  BY DEF DiskTypes, Put
<1>2. ASSUME NEW y \in Path \ {x}
      PROVE  Kept(y)
  BY DEF DiskTypes, Put, Kept, IsFile, IsDir, Exists
<1>3. DirIsThere'
  BY DEF DiskTypes, Put, DirIsThere, IsFile, IsDir, Exists
<1>4. /\ touched' \in [Proc -> SUBSET Path] /\ touched'[p] = touched[p]
      /\ \A q \in Proc \ {p} : touched'[q] = touched[q] \cup {x}
  BY DEF HistoryTypes, Put
<1>5. /\ replaced' \in [Proc -> SUBSET (Path \X Node)]
      /\ \A q \in Proc \ {p} : replaced'[q] = replaced[q]
      /\ \A r \in replaced'[p] :
            \/ r \in replaced[p]
            \/ r = <<x, fs[x]>> /\ fs[x].type = "file" /\ fs[x].by # p /\ ~op[p].overwrite
  <2>1. <<x, fs[x]>> \in Path \X Node
    BY DEF DiskTypes
  <2> QED
    BY <2>1 DEF HistoryTypes, Put
<1>6. \A q \in Proc \ {p} : \A y \in Path \ touched'[q] : Kept(y)
  BY <1>2, <1>4
<1> QED
  BY <1>1, <1>2, <1>3, <1>4, <1>5, <1>6

\* Another process takes nothing of what q relies on.
LEMMA AnotherStep ==
    ASSUME NEW q \in Proc, DiskTypes, HistoryTypes, LocalTypes, Relies(q), Elsewhere(q),
           HistoryTypes', LocalTypes'
    PROVE  Relies(q)'
<1> USE Nodes
<1>0. /\ op'[q] = op[q] /\ pc'[q] = pc[q] /\ attempt'[q] = attempt[q] /\ todo'[q] = todo[q]
      /\ seen'[q] = seen[q] /\ wrote'[q] = wrote[q] /\ found'[q] = found[q] /\ exit'[q] = exit[q]
      /\ result'[q] = result[q] /\ verdict'[q] = verdict[q]
      /\ before'[q] = before[q] /\ replaced'[q] = replaced[q]
      /\ touched[q] \subseteq touched'[q]
  BY DEF Elsewhere
<1>1. Untouched(q)' \subseteq Untouched(q) /\ Wanted(q)' \subseteq Wanted(q) /\ (Full(q)' <=> Full(q))
  BY <1>0 DEF Untouched, Wanted, Full
<1>2. ASSUME NEW x \in Untouched(q)'
      PROVE  x \in Untouched(q) /\ x \in Path /\ fs[x] \in Node /\ Kept(x)
  BY <1>0, <1>1 DEF Untouched, Elsewhere, DiskTypes
<1>3. ASSUME NEW x \in Untouched(q)', Own(q, x)
      PROVE  Own(q, x)'
  BY <1>2, <1>3 DEF Own, Kept
<1>4. Stage(q)'
  BY <1>0 DEF Stage, Relies
<1>5. Undisturbed(q)'
  BY <1>0, <1>2 DEF Undisturbed, Relies, Kept, IsDir
<1>6. Working(q)'
  <2> SUFFICES ASSUME pc[q] \in {"convert", "look", "open", "fill"}
               PROVE  Working(q)'
    BY <1>0 DEF Working
  <2>1. Working(q)
    BY DEF Relies
  <2>2. pc[q] = "fill" /\ Head(todo[q]) \in Untouched(q)' =>
            fs'[Head(todo[q])].type = "file" /\ fs'[Head(todo[q])].by = q
    BY <2>1, <1>2 DEF Working, Kept
  <2>3. \A x \in Range(Targets(op[q])) \ Range(todo[q]) : x \in Untouched(q)' => Own(q, x)'
    BY <2>1, <1>2, <1>3 DEF Working
  <2>4. op[q].kind \in Writers /\ ~op[q].overwrite =>
            \A x \in Range(todo[q]) \cap Untouched(q)' : fs'[x].type = "file" => fs'[x].by = q
    BY <2>1, <1>2 DEF Working, Kept
  <2> QED
    BY <2>1, <2>2, <2>3, <2>4, <1>0 DEF Working
<1>7. SeenRightly(q)'
  <2>1. Looked(q)' = Looked(q)
    BY <1>0 DEF Looked
  <2> QED
    BY <1>0, <1>1, <2>1 DEF SeenRightly, Relies
<1>8. Scanning(q)'
  BY <1>0, <1>1 DEF Scanning, Relies
<1>9. Returned(q)' /\ Judged(q)'
  <2>1. Delivered(q) => Delivered(q)'
    BY <1>0, <1>1, <1>3 DEF Delivered
  <2> QED
    BY <1>0, <1>1, <2>1 DEF Returned, Judged, Relies
<1>10. Asked(q)'
  BY <1>0 DEF Asked, Relies
<1> QED
  BY <1>4, <1>5, <1>6, <1>7, <1>8, <1>9, <1>10 DEF Relies

\* A step of p that keeps the types, the directory and what p relies on, and is elsewhere to all
\* the others.
Good(p) ==
    /\ DiskTypes' /\ HistoryTypes' /\ LocalTypes' /\ DirIsThere' /\ Relies(p)'
    /\ \A q \in Proc \ {p} : Elsewhere(q)

LEMMA GoodStep ==
    ASSUME NEW p \in Proc, FInv, Good(p)
    PROVE  FInv'
  BY AnotherStep DEF FInv, Good

-----------------------------------------------------------------------------
(* The first states. *)

LEMMA InitFInv == Init => FInv
<1> SUFFICES ASSUME Init
             PROVE  FInv
  OBVIOUS
<1> USE Skeleton, Nodes
<1>1. PICK there \in SUBSET (File \ {Source}), last \in OldData :
        fs = [x \in Path |-> IF x = Source THEN Old("binary")
                             ELSE IF x \in there THEN Old(IF x = Template[Len(Template)] THEN last ELSE "text")
                             ELSE IF x = Dir /\ there \cap Range(Template) # {} THEN Folder ELSE None]
  BY DEF Init
<1>2. \A data \in Data : Old(data) \in Node
  BY DEF Old, Content, Node
<1>3. DiskTypes
  <2>1. last \in Data /\ "text" \in Data /\ "binary" \in Data
    BY FilesAssumption DEF FilesAssumption, Data
  <2> QED
    BY <1>1, <1>2, <2>1 DEF DiskTypes
<1>4. DirIsThere
  <2> SUFFICES ASSUME NEW x \in Range(Template), fs[x] # None
               PROVE  fs[Dir] = Folder
    BY DEF DirIsThere, Exists, IsDir
  <2>1. x \in there /\ Dir \notin there /\ Dir # Source
    BY <1>1, FilesAssumption DEF FilesAssumption
  <2> QED
    BY <1>1, <2>1
<1>5. HistoryTypes
  BY DEF Init, HistoryTypes, NoFiles
<1>6. LocalTypes
  <2>1. Op("cli", "none", Dest, FALSE) \in Calls
    BY DEF Op, Calls
  <2>2. <<>> \in Seq(Path) /\ 0 \in 0..(MaxCorrections + 1)
    BY FilesAssumption DEF FilesAssumption
  <2>3. op \in [Proc -> Calls] /\ todo \in [Proc -> Seq(Path)] /\ attempt \in [Proc -> 0..(MaxCorrections + 1)]
    BY <2>1, <2>2 DEF Init
  <2>4. /\ seen \in [Proc -> SUBSET Path] /\ wrote \in [Proc -> SUBSET Path]
        /\ found \in [Proc -> SUBSET Path] /\ exit \in [Proc -> {0, 1, -1}]
    BY DEF Init
  <2>5. pc \in [Proc -> Points] /\ result \in [Proc -> Codes] /\ verdict \in [Proc -> Verdicts]
    BY DEF Init, Points, Codes, Verdicts
  <2> QED
    BY <2>3, <2>4, <2>5 DEF LocalTypes
<1>7. ASSUME NEW q \in Proc
      PROVE  Relies(q)
  BY DEF Init, Relies, Stage, Undisturbed, Working, SeenRightly, Scanning, Returned, Judged, Asked
<1> QED
  BY <1>3, <1>4, <1>5, <1>6, <1>7 DEF FInv

-----------------------------------------------------------------------------
(* The steps. *)

LEMMA OpsAreCalls == Ops \subseteq Calls
  BY DEF Ops, Calls, Writers, Makers, Finders

\* A new invocation, by a first call or after a correction.
LEMMA BeginStep ==
    ASSUME NEW p \in Proc, NEW o \in Calls, o.kind # "none", FInv, Begin(p, o),
           attempt[p] <= MaxCorrections, verdict[p] # "ok"
    PROVE  FInv'
<1> USE DEF FInv
<1>1. DiskTypes' /\ HistoryTypes' /\ DirIsThere'
  BY DEF Begin, DiskTypes, HistoryTypes, DirIsThere, Exists, IsDir
<1>2. LocalTypes'
  <2>1. <<>> \in Seq(Path) /\ attempt[p] + 1 \in 0..(MaxCorrections + 1)
    BY FilesAssumption DEF FilesAssumption, LocalTypes
  <2>2. op' \in [Proc -> Calls] /\ todo' \in [Proc -> Seq(Path)]
    BY <2>1 DEF Begin, LocalTypes
  <2>3. attempt' \in [Proc -> 0..(MaxCorrections + 1)]
    BY <2>1 DEF Begin, LocalTypes
  <2>4. /\ seen' \in [Proc -> SUBSET Path] /\ wrote' \in [Proc -> SUBSET Path]
        /\ found' \in [Proc -> SUBSET Path] /\ exit' \in [Proc -> {0, 1, -1}]
    BY DEF Begin, LocalTypes
  <2>5. pc' \in [Proc -> Points] /\ result' \in [Proc -> Codes] /\ verdict' \in [Proc -> Verdicts]
    BY DEF Begin, LocalTypes, Goto, Returns, Points, Codes, Refused
  <2> QED
    BY <2>2, <2>3, <2>4, <2>5 DEF LocalTypes
<1>3. \A q \in Proc \ {p} : Elsewhere(q)
  BY DEF Begin, Elsewhere, LocalTypes, HistoryTypes, Goto, Returns, Kept
<1>4. /\ wrote'[p] = {} /\ before'[p] = fs /\ fs' = fs /\ replaced'[p] = {}
      /\ verdict'[p] = verdict[p] /\ pc'[p] \in {"check", "returned"}
      /\ pc'[p] = "returned" => result'[p] # "ok"
  BY DEF Begin, LocalTypes, HistoryTypes, Goto, Returns
<1>5. Relies(p)'
  <2>1. op'[p] = o
    BY DEF Begin, LocalTypes
  <2> QED
    BY <1>4, <2>1 DEF Relies, Stage, Undisturbed, Working, SeenRightly, Scanning, Returned, Judged, Asked,
                      Untouched
<1> QED
  BY <1>1, <1>2, <1>3, <1>5, GoodStep DEF Good

LEMMA CallStep ==
    ASSUME NEW p \in Proc, NEW o \in Ops, FInv, Call(p, o)
    PROVE  FInv'
<1>1. attempt[p] = 0 /\ verdict[p] # "ok"
  BY DEF Call, FInv, Relies, Stage, Judged
<1>2. attempt[p] <= MaxCorrections
  BY <1>1, FilesAssumption DEF FilesAssumption
<1>3. o \in Calls /\ o.kind # "none"
  BY OpsAreCalls DEF Ops
<1> QED
  BY <1>1, <1>2, <1>3, BeginStep DEF Call

LEMMA RetryStep ==
    ASSUME NEW p \in Proc, NEW b \in {op[p].overwrite, TRUE}, FInv, Retry(p, b)
    PROVE  FInv'
<1>1. verdict[p] # "ok"
  BY DEF Retry, FInv, Relies, Judged
<1>2. [op[p] EXCEPT !.overwrite = b] \in Calls /\ [op[p] EXCEPT !.overwrite = b].kind # "none"
  <2>1. op[p] \in Calls /\ op[p].kind # "none"
    BY DEF FInv, LocalTypes, Retry, Relies, Stage
  <2> QED
    BY <2>1 DEF Calls
<1> QED
  BY <1>1, <1>2, BeginStep DEF Retry

\* The early returns of a call, by its tool.
LEMMA GuardsOfACall ==
    ASSUME NEW o \in Calls
    PROVE  /\ ~Inside(o.path) => Guards(o) = <<Guard(TRUE, "sandbox_violation")>>
           /\ Inside(o.path) /\ o.by = "cli" => Guards(o) = CliGuards(o)
           /\ Inside(o.path) /\ o.by = "loop" =>
                /\ o.kind = "write" => Guards(o) = WriteGuards(o)
                /\ o.kind = "generate" => Guards(o) = GenerateGuards(o)
                /\ o.kind = "convert" => Guards(o) = ConvertGuards(o)
                /\ o.kind = "scaffold" => Guards(o) = ScaffoldGuards(o)
                /\ o.kind = "delete" => Guards(o) = DeleteGuards(o)
                /\ o.kind = "mkdir" => Guards(o) = MkdirGuards(o)
                /\ o.kind = "read" => Guards(o) = ReadGuards(o)
                /\ o.kind = "info" => Guards(o) = InfoGuards(o)
                /\ o.kind = "list" => Guards(o) = ListGuards(o)
                /\ o.kind = "search" => Guards(o) = SearchGuards(o)
                /\ o.kind \in {"run", "forbid"} => Guards(o) = RunGuards(o)
  BY DEF Guards, Calls

\* Only fs_file_info is done with its work when it "refuses".
LEMMA CodesOfRefusals ==
    ASSUME NEW o \in Calls, NEW i \in DOMAIN Guards(o)
    PROVE  Guards(o)[i].code \in Refused \/ (o.kind = "info" /\ Guards(o)[i].code = "ok")
<1> USE DEF Guard, Refused
<1>1. CASE ~Inside(o.path) \/ o.by = "cli"
  BY <1>1, GuardsOfACall DEF CliGuards
<1>2. CASE Inside(o.path) /\ o.by = "loop" /\ o.kind \in {"write", "generate", "convert", "scaffold"}
  BY <1>2, GuardsOfACall DEF WriteGuards, GenerateGuards, ConvertGuards, ScaffoldGuards
<1>3. CASE Inside(o.path) /\ o.by = "loop" /\ o.kind \in {"delete", "mkdir", "read", "info"}
  BY <1>3, GuardsOfACall DEF DeleteGuards, MkdirGuards, ReadGuards, InfoGuards
<1>4. CASE Inside(o.path) /\ o.by = "loop" /\ o.kind \in {"list", "search", "run", "forbid"}
  BY <1>4, GuardsOfACall DEF ListGuards, SearchGuards, RunGuards
<1> QED
  BY <1>1, <1>2, <1>3, <1>4 DEF Calls, Makers, Writers, Finders

LEMMA NoGuardHolds ==
    ASSUME NEW o, Passes(o), NEW when1, NEW code1, NEW when2, NEW code2,
           Guards(o) = <<Guard(when1, code1), Guard(when2, code2)>>
    PROVE  ~Guard(when1, code1).when /\ ~Guard(when2, code2).when
<1>1. 1 \in DOMAIN Guards(o) /\ 2 \in DOMAIN Guards(o)
  OBVIOUS
<1>2. ~Guards(o)[1].when /\ ~Guards(o)[2].when
  BY <1>1 DEF Passes
<1> QED
  BY <1>2

\* What a call has seen when nothing refuses it.
LEMMA WhatPasses ==
    ASSUME NEW o \in Calls, Passes(o)
    PROVE  /\ o.path \in Path /\ o.kind # "forbid"
           /\ o.kind = "write" => ~IsDir(o.path)
           /\ o.kind \in {"write", "generate", "convert"} => o.overwrite \/ ~Exists(o.path)
           /\ o.kind = "mkdir" => ~IsFile(o.path)
           /\ o.kind = "scaffold" => o.overwrite \/ \A x \in Range(Template) : ~Exists(x)
<1>1. Inside(o.path)
  BY GuardsOfACall DEF Passes, Guard
<1>2. CASE o.by = "cli"
  <2>1. o.kind # "none" => o.overwrite \/ ~Exists(o.path)
    <3> SUFFICES ASSUME o.kind # "none"
                 PROVE  o.overwrite \/ ~Exists(o.path)
      OBVIOUS
    <3>1. Guards(o) = CliGuards(o)
      BY <1>1, <1>2, GuardsOfACall
    <3>2. 2 \in DOMAIN CliGuards(o)
      BY DEF CliGuards
    <3>3. ~CliGuards(o)[2].when
      BY <3>1, <3>2 DEF Passes
    <3> QED
      BY <3>3 DEF CliGuards, Guard
  <2> QED
    BY <1>1, <1>2, <2>1 DEF Calls, Inside
<1>3. CASE o.by = "loop"
  <2>1. o.kind = "write" => ~IsDir(o.path) /\ (o.overwrite \/ ~Exists(o.path))
    BY <1>1, <1>3, GuardsOfACall, NoGuardHolds DEF Guard, WriteGuards
  <2>2. o.kind = "generate" => o.overwrite \/ ~Exists(o.path)
    BY <1>1, <1>3, GuardsOfACall, NoGuardHolds DEF Guard, GenerateGuards
  <2>3. o.kind = "convert" => o.overwrite \/ ~Exists(o.path)
    <3> SUFFICES ASSUME o.kind = "convert"
                 PROVE  o.overwrite \/ ~Exists(o.path)
      OBVIOUS
    <3>1. Guards(o) = ConvertGuards(o)
      BY <1>1, <1>3, GuardsOfACall
    <3>2. 3 \in DOMAIN ConvertGuards(o)
      BY DEF ConvertGuards
    <3>3. ~ConvertGuards(o)[3].when
      BY <3>1, <3>2 DEF Passes
    <3> QED
      BY <3>3 DEF ConvertGuards, Guard
  <2>4. o.kind = "scaffold" => o.overwrite \/ \A x \in Range(Template) : ~Exists(x)
    BY <1>1, <1>3, GuardsOfACall, NoGuardHolds DEF Guard, ScaffoldGuards
  <2>5. o.kind = "mkdir" => ~IsFile(o.path)
    BY <1>1, <1>3, GuardsOfACall DEF Passes, Guard, MkdirGuards
  <2>6. o.kind # "forbid"
    <3> SUFFICES ASSUME o.kind = "forbid"
                 PROVE  FALSE
      OBVIOUS
    <3>1. Guards(o) = RunGuards(o)
      BY <1>1, <1>3, GuardsOfACall
    <3>2. 1 \in DOMAIN RunGuards(o)
      BY DEF RunGuards
    <3>3. ~RunGuards(o)[1].when
      BY <3>1, <3>2 DEF Passes
    <3> QED
      BY <3>3 DEF RunGuards, Guard
  <2> QED
    BY <1>1, <2>1, <2>2, <2>3, <2>4, <2>5, <2>6 DEF Inside
<1> QED
  BY <1>2, <1>3 DEF Calls

\* A call that returns, and leaves the disk alone as it does.
LEMMA ReturnsQuietly ==
    ASSUME NEW p \in Proc, FInv, NEW code \in Codes, Returns(p, code), Keeps,
           UNCHANGED <<op, attempt, todo, seen, wrote, verdict, before>>,
           found' \in [Proc -> SUBSET Path], exit' \in [Proc -> {0, 1, -1}],
           \A q \in Proc \ {p} : found'[q] = found[q] /\ exit'[q] = exit[q],
           pc[p] \notin {"idle", "done"},
           code = "ok" =>
                /\ op[p].kind \notin Makers
                /\ op[p].kind \in Finders => found' = found /\ (~Full(p) => Wanted(p) \subseteq found[p])
    PROVE  FInv'
<1> USE DEF FInv
<1>1. DiskTypes' /\ HistoryTypes' /\ DirIsThere' /\ (\A q \in Proc \ {p} : Elsewhere(q))
  BY DEF Keeps, DiskTypes, HistoryTypes, DirIsThere, Exists, IsDir, Elsewhere, LocalTypes,
         Returns, Goto, Kept
<1>2. LocalTypes'
  BY DEF LocalTypes, Returns, Goto, Points
<1>3. /\ pc'[p] = "returned" /\ result'[p] = code /\ wrote'[p] = wrote[p] /\ op'[p] = op[p]
      /\ verdict'[p] = verdict[p] /\ verdict[p] # "ok" /\ before'[p] = before[p]
      /\ replaced'[p] = replaced[p] /\ touched'[p] = touched[p]
  BY DEF Keeps, LocalTypes, Returns, Goto, Relies, Judged
<1>4. Relies(p)'
  <2>1. Stage(p)' /\ Undisturbed(p)' /\ Working(p)' /\ Scanning(p)' /\ Judged(p)'
    BY <1>3 DEF Relies, Stage, Undisturbed, Working, Scanning, Judged
  <2>2. SeenRightly(p)'
    BY <1>3 DEF SeenRightly, Makers, Writers, Plain
  <2>3. Returned(p)'
    <3>1. Wanted(p)' = Wanted(p) /\ (found' = found => (Full(p)' <=> Full(p)))
      BY <1>3 DEF Wanted, Untouched, Full
    <3> QED
      BY <1>3, <3>1 DEF Returned, Makers
  <2>4. Asked(p)'
    BY <1>3 DEF Asked, Relies
  <2> QED
    BY <2>1, <2>2, <2>3, <2>4 DEF Relies
<1> QED
  BY <1>1, <1>2, <1>4, GoodStep DEF Good

LEMMA RefuseStep ==
    ASSUME NEW p \in Proc, FInv, Refuse(p)
    PROVE  FInv'
<1>1. PICK i \in DOMAIN Guards(op[p]) : Returns(p, Guards(op[p])[i].code)
  BY DEF Refuse
<1> DEFINE code == Guards(op[p])[i].code
<1>2. code \in Refused \/ (op[p].kind = "info" /\ code = "ok")
  BY CodesOfRefusals DEF FInv, LocalTypes
<1> HIDE DEF code
<1>3. Returns(p, code) /\ code \in Codes
  BY <1>1, <1>2 DEF code, Codes
<1>4. code = "ok" => op[p].kind \notin Makers \cup Finders
  BY <1>2 DEF Refused, Makers, Writers, Finders
<1> QED
  BY <1>3, <1>4, ReturnsQuietly DEF Refuse, FInv, LocalTypes

LEMMA UnavailableStep ==
    ASSUME NEW p \in Proc, FInv, Unavailable(p)
    PROVE  FInv'
<1>1. PICK code \in {"document_generation_unavailable", "document_conversion_unavailable"} : Returns(p, code)
  BY DEF Unavailable
<1> QED
  BY <1>1, ReturnsQuietly DEF Unavailable, FInv, LocalTypes, Codes

LEMMA RaisesStep ==
    ASSUME NEW p \in Proc, FInv, Raises(p)
    PROVE  FInv'
  BY ReturnsQuietly DEF Raises, FInv, LocalTypes, Codes

LEMMA ScanEndsStep ==
    ASSUME NEW p \in Proc, FInv, ScanEnds(p)
    PROVE  FInv'
<1>1. op[p].kind \in Finders /\ op[p].kind \notin Makers
  BY DEF ScanEnds, Finders, Makers, Writers
<1>2. ~Full(p) => Wanted(p) \subseteq found[p]
  BY <1>1 DEF ScanEnds, FInv, Relies, Scanning, Range
<1> QED
  BY <1>1, <1>2, ReturnsQuietly DEF ScanEnds, FInv, LocalTypes, Codes

LEMMA ReadStep ==
    ASSUME NEW p \in Proc, FInv, Read(p)
    PROVE  FInv'
<1>1. op[p].kind \notin Makers \cup Finders
  BY DEF Read, Finders, Makers, Writers
<1>2. PICK code \in {"ok", "execution_error", "not_text"} : Returns(p, code)
  BY DEF Read, IsFile
<1>3. found' \in [Proc -> SUBSET Path] /\ \A q \in Proc \ {p} : found'[q] = found[q]
  <2>1. todo[p] \in Seq(Path) /\ todo[p] # <<>>
    BY <1>1 DEF Read, FInv, LocalTypes, Relies, Stage
  <2>2. Target(p) \in Path
    BY <2>1, HeadAndTail DEF Target
  <2> QED
    BY <2>2 DEF Read, FInv, LocalTypes
<1> QED
  BY <1>1, <1>2, <1>3, ReturnsQuietly DEF Read, FInv, LocalTypes, Codes

\* The call is judged, or its process killed: it forgets everything.
LEMMA DoneForgetting ==
    ASSUME NEW p \in Proc, FInv, Forget(p), Goto(p, "done"), UNCHANGED <<op, exit>>, pc[p] # "idle",
           result' \in [Proc -> Codes], verdict' \in [Proc -> Verdicts],
           \A q \in Proc \ {p} : result'[q] = result[q] /\ verdict'[q] = verdict[q],
           verdict'[p] = "ok" =>
                /\ op[p].kind \in Writers => Delivered(p)
                /\ op[p].kind = "run" => exit[p] = 0
    PROVE  FInv'
<1> USE DEF FInv
<1>1. DiskTypes' /\ HistoryTypes' /\ DirIsThere'
  BY Nodes DEF Forget, DiskTypes, HistoryTypes, DirIsThere, Exists, IsDir, NoFiles
<1>2. \A q \in Proc \ {p} : Elsewhere(q)
  BY DEF Forget, Goto, Elsewhere, LocalTypes, HistoryTypes, Kept
<1>3. LocalTypes'
  <2>1. <<>> \in Seq(Path) /\ 0 \in 0..(MaxCorrections + 1)
    BY FilesAssumption DEF FilesAssumption
  <2>2. attempt' \in [Proc -> 0..(MaxCorrections + 1)] /\ todo' \in [Proc -> Seq(Path)]
    BY <2>1 DEF Forget, LocalTypes
  <2> QED
    BY <2>2 DEF Forget, Goto, LocalTypes, Points
<1>4. /\ pc'[p] = "done" /\ op'[p] = op[p] /\ exit'[p] = exit[p] /\ replaced'[p] = {}
      /\ Untouched(p)' = Untouched(p) /\ fs' = fs
  BY DEF Forget, Goto, LocalTypes, HistoryTypes, Untouched
<1>5. Judged(p)'
  BY <1>4 DEF Judged, Own, Delivered
<1>6. Relies(p)'
  BY <1>4, <1>5 DEF Relies, Stage, Undisturbed, Working, SeenRightly, Scanning, Returned, Asked
<1> QED
  BY <1>1, <1>2, <1>3, <1>6, GoodStep DEF Good

LEMMA JudgeStep ==
    ASSUME NEW p \in Proc, FInv, Judge(p)
    PROVE  FInv'
<1>1. verdict'[p] = "ok" => result[p] = "ok" /\ (op[p].by = "cli" \/ Verified(p))
  BY DEF Judge, FInv, LocalTypes, Verified
<1>2. op[p].kind = "run" => op[p].by # "cli"
  BY DEF FInv, LocalTypes, Calls
<1>3. verdict'[p] = "ok" /\ op[p].kind = "run" => exit[p] = 0
  BY <1>1, <1>2 DEF Verified
<1>4. verdict'[p] = "ok" /\ op[p].kind \in Writers => Delivered(p)
  BY <1>1 DEF Judge, FInv, Relies, Returned
<1>5. /\ result' \in [Proc -> Codes] /\ verdict' \in [Proc -> Verdicts]
      /\ \A q \in Proc \ {p} : result'[q] = result[q] /\ verdict'[q] = verdict[q]
  BY DEF Judge, FInv, LocalTypes, Verdicts
<1> QED
  BY <1>3, <1>4, <1>5, DoneForgetting DEF Judge

LEMMA CrashStep ==
    ASSUME NEW p \in Proc, FInv, Crash(p)
    PROVE  FInv'
<1>1. verdict[p] # "ok" /\ verdict' = verdict
  BY DEF Crash, FInv, Relies, Judged
<1>2. /\ result' \in [Proc -> Codes] /\ verdict' \in [Proc -> Verdicts]
      /\ \A q \in Proc \ {p} : result'[q] = result[q] /\ verdict'[q] = verdict[q]
  BY <1>1 DEF Crash, FInv, LocalTypes, Codes
<1> QED
  BY <1>1, <1>2, DoneForgetting DEF Crash

LEMMA SofficeStep ==
    ASSUME NEW p \in Proc, FInv, Soffice(p)
    PROVE  FInv'
<1> USE DEF FInv
<1>1. DiskTypes' /\ HistoryTypes' /\ DirIsThere' /\ (\A q \in Proc \ {p} : Elsewhere(q))
  BY DEF Soffice, Keeps, DiskTypes, HistoryTypes, DirIsThere, Exists, IsDir, Elsewhere, LocalTypes,
         Goto, Kept
<1>2. LocalTypes'
  BY DEF Soffice, LocalTypes, Goto, Points
<1>3. /\ pc[p] = "convert" /\ pc'[p] = "open" /\ op[p].kind = "convert"
      /\ UNCHANGED <<fs, op, attempt, todo, seen, wrote, found, exit, result, verdict, before, replaced, touched>>
  BY DEF Soffice, Keeps, LocalTypes, Goto, Relies, Stage
<1>4. Stage(p)' /\ Scanning(p)' /\ Returned(p)' /\ Judged(p)' /\ Asked(p)'
  BY <1>3 DEF Relies, Stage, Scanning, Returned, Judged, Asked, Makers, Writers
<1>5. Undisturbed(p)' /\ SeenRightly(p)'
  BY <1>3 DEF Relies, Undisturbed, SeenRightly, Untouched, IsDir
<1>6. Working(p)'
  BY <1>3 DEF Relies, Working, Untouched, Own
<1> QED
  BY <1>1, <1>2, <1>4, <1>5, <1>6, GoodStep DEF Good, Relies

LEMMA RunProgramStep ==
    ASSUME NEW p \in Proc, FInv, RunProgram(p)
    PROVE  FInv'
<1> USE DEF FInv
<1>1. op[p].kind = "run" /\ pc[p] = "run" /\ op[p].kind \notin Makers \cup Finders
  BY DEF RunProgram, Relies, Stage, Makers, Writers, Finders
<1>2. exit' \in [Proc -> {0, 1, -1}] /\ \A q \in Proc \ {p} : exit'[q] = exit[q]
  BY DEF RunProgram, LocalTypes
<1>3. PICK code \in {"ok", "execution_error", "spawn_failed"} : Returns(p, code)
  BY DEF RunProgram
<1>4. CASE Keeps
  BY <1>1, <1>2, <1>3, <1>4, ReturnsQuietly DEF RunProgram, LocalTypes, Codes
<1>5. CASE Put(p, Dest, Content(p, TRUE, "text"))
  <2>1. Dest \in Path /\ Dest \notin Range(Template) /\ Dest # Dir /\ Content(p, TRUE, "text") \in Node
    BY Skeleton, Nodes DEF Data
  <2>2. /\ DiskTypes' /\ DirIsThere' /\ touched' \in [Proc -> SUBSET Path]
        /\ replaced' \in [Proc -> SUBSET (Path \X Node)]
        /\ \A q \in Proc \ {p} :
            /\ touched'[q] = touched[q] \cup {Dest} /\ replaced'[q] = replaced[q]
            /\ \A y \in Path \ touched'[q] : Kept(y)
    BY <1>5, <2>1, PutOnDisk
  <2>3. HistoryTypes'
    BY <2>2 DEF HistoryTypes, RunProgram
  <2>4. LocalTypes'
    BY <1>2, <1>3 DEF RunProgram, LocalTypes, Returns, Goto, Codes, Points
  <2>5. \A q \in Proc \ {p} : Elsewhere(q)
    BY <1>2, <1>3, <2>2 DEF RunProgram, Elsewhere, LocalTypes, Returns, Goto
  <2>6. pc'[p] = "returned" /\ op'[p] = op[p] /\ verdict'[p] = verdict[p] /\ verdict[p] # "ok"
    BY <1>1, <1>3 DEF RunProgram, LocalTypes, Returns, Goto, Relies, Judged
  <2>7. Relies(p)'
    BY <1>1, <2>6 DEF Relies, Stage, Undisturbed, Working, SeenRightly, Scanning, Returned, Judged, Asked,
                      Makers, Plain
  <2> QED
    BY <2>2, <2>3, <2>4, <2>5, <2>7, GoodStep DEF Good
<1> QED
  BY <1>4, <1>5 DEF RunProgram

LEMMA ScanStep ==
    ASSUME NEW p \in Proc, FInv, Scan(p)
    PROVE  FInv'
<1> USE DEF FInv
<1>1. todo[p] \in Seq(Path) /\ todo[p] # <<>> /\ pc[p] = "scan" /\ op[p].kind \in Finders
  BY DEF Scan, LocalTypes, Finders
<1>2. /\ Target(p) \in Path /\ Tail(todo[p]) \in Seq(Path)
      /\ Range(todo[p]) = {Target(p)} \cup Range(Tail(todo[p]))
  BY <1>1, HeadAndTail DEF Target
<1>3. DiskTypes' /\ HistoryTypes' /\ DirIsThere'
  BY DEF Scan, Keeps, DiskTypes, HistoryTypes, DirIsThere, Exists, IsDir
<1>4. LocalTypes'
  BY <1>2 DEF Scan, LocalTypes
<1>5. \A q \in Proc \ {p} : Elsewhere(q)
  BY DEF Scan, Keeps, Elsewhere, LocalTypes, Kept
<1>6. UNCHANGED <<fs, op, pc, attempt, seen, wrote, exit, result, verdict, before, replaced, touched>>
  BY DEF Scan, Keeps
<1>7. todo'[p] = Tail(todo[p])
  BY DEF Scan, LocalTypes
<1>8. Scanning(p)'
  <2>1. Wanted(p) \subseteq found[p] \cup {Target(p)} \cup Range(Tail(todo[p]))
    BY <1>1, <1>2 DEF Relies, Scanning
  <2>2. Target(p) \in Wanted(p) => Target(p) \in found'[p]
    <3> SUFFICES ASSUME Target(p) \in Wanted(p)
                 PROVE  Target(p) \in found'[p]
      OBVIOUS
    <3>1. Target(p) \in Untouched(p) \ wrote[p] /\ Target(p) # Dir
      BY <1>1, Skeleton DEF Wanted, Relies, Stage
    <3>2. fs[Target(p)] = before[p][Target(p)]
      BY <1>1, <3>1 DEF Relies, Undisturbed
    <3> QED
      BY <3>2 DEF Scan, Wanted, LocalTypes
  <2>3. found[p] \subseteq found'[p]
    BY DEF Scan, LocalTypes
  <2>4. Wanted(p)' = Wanted(p)
    BY <1>6 DEF Wanted, Untouched
  <2> QED
    BY <1>7, <2>1, <2>2, <2>3, <2>4 DEF Scanning
<1>9. Relies(p)'
  BY <1>1, <1>6, <1>8 DEF Relies, Stage, Undisturbed, Working, SeenRightly, Returned, Judged, Asked,
                          Untouched, IsDir
<1> QED
  BY <1>3, <1>4, <1>5, <1>9, GoodStep DEF Good

LEMMA RemoveStep ==
    ASSUME NEW p \in Proc, FInv, Remove(p)
    PROVE  FInv'
<1> USE DEF FInv
<1> DEFINE x == Target(p)
<1>1. /\ pc[p] = "remove" /\ op[p].kind = "delete" /\ todo[p] \in Seq(Path) /\ todo[p] # <<>>
      /\ op[p].kind \notin Makers \cup Finders
  BY DEF Remove, LocalTypes, Relies, Stage, Makers, Writers, Finders
<1>2. x \in Path /\ Tail(todo[p]) \in Seq(Path) /\ (Len(todo[p]) # 1 => Tail(todo[p]) # <<>>)
  BY <1>1, HeadAndTail DEF Target
<1>3. /\ x \in Range(Template) => ~IsFile(Dir)
      /\ x = Dir /\ None # Folder => \A y \in Range(Template) : ~Exists(y)
  BY DEF Remove, DirIsThere, IsFile, Exists
<1>4. Put(p, x, None)
  BY DEF Remove
<1> HIDE DEF x
<1>5. /\ DiskTypes' /\ DirIsThere' /\ touched' \in [Proc -> SUBSET Path] /\ touched'[p] = touched[p]
      /\ replaced' \in [Proc -> SUBSET (Path \X Node)]
      /\ \A y \in Path \ {x} : Kept(y)
      /\ \A q \in Proc \ {p} :
          /\ touched'[q] = touched[q] \cup {x} /\ replaced'[q] = replaced[q]
          /\ \A y \in Path \ touched'[q] : Kept(y)
  BY <1>2, <1>3, <1>4, Nodes, PutOnDisk
<1>6. HistoryTypes'
  BY <1>5 DEF HistoryTypes, Remove
<1>7. LocalTypes'
  BY <1>2 DEF Remove, LocalTypes, Returns, Goto, Codes, Points, x
<1>8. \A q \in Proc \ {p} : Elsewhere(q)
  BY <1>5 DEF Remove, Elsewhere, LocalTypes, Returns, Goto
<1>9. /\ op'[p] = op[p] /\ verdict'[p] = verdict[p] /\ verdict[p] # "ok" /\ before'[p] = before[p]
      /\ wrote'[p] = wrote[p] \cup {x} /\ todo'[p] = Tail(todo[p])
      /\ pc'[p] = "returned" \/ (pc'[p] = "remove" /\ Tail(todo[p]) # <<>>)
  BY <1>1, <1>2 DEF Remove, LocalTypes, Returns, Goto, Relies, Judged, x
<1>10. Undisturbed(p)'
  <2> SUFFICES ASSUME NEW y \in Path, y \notin touched[p], y \notin wrote[p], y # x
               PROVE  \/ fs'[y] = before[p][y]
                      \/ y = Dir /\ before[p][y] = None /\ fs'[y] = Folder
    BY <1>5, <1>9 DEF Undisturbed, Untouched, IsDir
  <2>1. fs[y] = before[p][y] \/ (y = Dir /\ before[p][y] = None /\ fs[y] = Folder)
    BY <1>1 DEF Relies, Undisturbed, Untouched, IsDir
  <2>2. Kept(y)
    BY <1>5
  <2> QED
    BY <2>1, <2>2, Nodes DEF Kept
<1>11. Relies(p)'
  BY <1>1, <1>9, <1>10 DEF Relies, Stage, Working, SeenRightly, Scanning, Returned, Judged, Asked,
                          Makers, Plain
<1> QED
  BY <1>5, <1>6, <1>7, <1>8, <1>11, GoodStep DEF Good

\* What the call has looked at is as it was when it began, unless others have touched it.
LEMMA ProceedStep ==
    ASSUME NEW p \in Proc, FInv, Proceed(p)
    PROVE  FInv'
<1> USE DEF FInv
<1> DEFINE o == op[p]
<1>1. /\ o \in Calls /\ o.kind # "none" /\ pc[p] = "check" /\ wrote[p] = {} /\ verdict[p] # "ok"
      /\ Passes(o)
  BY DEF Proceed, LocalTypes, Relies, Stage, Judged
<1>2. /\ o.path \in Path /\ o.kind # "forbid"
      /\ o.kind = "write" => ~IsDir(o.path)
      /\ o.kind \in {"write", "generate", "convert"} => o.overwrite \/ ~Exists(o.path)
      /\ o.kind = "mkdir" => ~IsFile(o.path)
      /\ o.kind = "scaffold" => o.overwrite \/ \A x \in Range(Template) : ~Exists(x)
  BY <1>1, WhatPasses
<1>3. PICK s \in Entries :
        todo' = [todo EXCEPT ![p] =
            CASE o.kind \in Writers \cup {"read", "info", "mkdir"} -> Targets(o)
              [] o.kind = "delete" -> IF IsDir(o.path) THEN Append(s, o.path) ELSE <<o.path>>
              [] o.kind \in {"list", "search"} -> s
              [] OTHER -> <<>>]
  BY DEF Proceed
<1>4. s \in Seq(Path) /\ Range(s) = {x \in Range(Template) : Exists(x)}
  BY EntriesAreSequences
<1>5. /\ Targets(o) \in Seq(Path) /\ Targets(o) # <<>> /\ IsInjective(Targets(o))
      /\ o.kind # "scaffold" => Targets(o) = <<o.path>> /\ Range(Targets(o)) = {o.path}
      /\ o.kind = "scaffold" => Targets(o) = Template
  BY <1>1, <1>2, TargetsOfACall
<1>6. o.kind \in Makers \cup Finders \cup {"read", "info", "delete", "run"}
  BY <1>1, <1>2 DEF Calls
<1>7. /\ o.kind \in Makers => todo'[p] = Targets(o) /\ pc'[p] \in {"convert", "look", "open"}
      /\ pc'[p] = "convert" => o.kind = "convert"
      /\ pc'[p] = "look" <=> o.kind = "scaffold"
      /\ o.kind \in {"read", "info"} => todo'[p] = Targets(o) /\ pc'[p] = "scan"
      /\ o.kind = "delete" => todo'[p] \in {Append(s, o.path), <<o.path>>} /\ pc'[p] = "remove"
      /\ o.kind \in Finders => todo'[p] = s /\ pc'[p] = "scan"
      /\ o.kind = "run" => todo'[p] = <<>> /\ pc'[p] = "run"
  <2>1. /\ o.kind \in Makers \cup {"read", "info"} => todo'[p] = Targets(o)
        /\ o.kind = "delete" => todo'[p] \in {Append(s, o.path), <<o.path>>}
        /\ o.kind \in Finders => todo'[p] = s
        /\ o.kind = "run" => todo'[p] = <<>>
    <3> HIDE DEF o
    <3> QED
      BY <1>3 DEF LocalTypes, Writers, Makers, Finders
  <2>2. pc'[p] = CASE o.kind = "convert" -> "convert"
                 [] o.kind = "scaffold" -> "look"
                 [] o.kind \in {"write", "generate", "mkdir"} -> "open"
                 [] o.kind = "delete" -> "remove"
                 [] o.kind \in {"read", "info", "list", "search"} -> "scan"
                 [] o.kind = "run" -> "run"
    BY DEF Proceed, Goto, LocalTypes
  <2>3. /\ o.kind \in Makers => pc'[p] \in {"convert", "look", "open"}
        /\ o.kind \in Finders \cup {"read", "info"} => pc'[p] = "scan"
        /\ o.kind = "delete" => pc'[p] = "remove"
        /\ o.kind = "run" => pc'[p] = "run"
    <3> HIDE DEF o
    <3> QED
      BY <2>2 DEF Writers, Makers, Finders
  <2>4. (pc'[p] = "convert" => o.kind = "convert") /\ (pc'[p] = "look" <=> o.kind = "scaffold")
    <3> HIDE DEF o
    <3> QED
      BY <1>6, <2>2 DEF Writers, Makers, Finders
  <2> QED
    BY <2>1, <2>3, <2>4
<1>8. todo'[p] \in Seq(Path) /\ (o.kind \notin Finders \cup {"run"} => todo'[p] # <<>>)
  <2>1. Append(s, o.path) \in Seq(Path) /\ Append(s, o.path) # <<>>
    BY <1>2, <1>4
  <2>2. <<o.path>> \in Seq(Path) /\ <<o.path>> # <<>> /\ <<>> \in Seq(Path)
    BY <1>2
  <2> QED
    BY <1>4, <1>5, <1>7, <1>6, <2>1, <2>2
<1>9. pc'[p] \in Points \ {"idle", "check", "fill", "returned", "done"}
  BY <1>7, <1>6 DEF Points
<1>10. seen'[p] = IF o.kind \in Plain /\ Exists(o.path) THEN {o.path} ELSE {}
  BY DEF Proceed, LocalTypes, Plain
<1>11. /\ UNCHANGED <<fs, op, attempt, wrote, found, exit, result, verdict, before, replaced, touched>>
       /\ \A q \in Proc \ {p} : todo'[q] = todo[q] /\ pc'[q] = pc[q] /\ seen'[q] = seen[q]
       /\ pc' \in [Proc -> Points] /\ todo' \in [Proc -> Seq(Path)] /\ seen' \in [Proc -> SUBSET Path]
  <2>1. pc' \in [Proc -> Points] /\ \A q \in Proc \ {p} : pc'[q] = pc[q]
    BY <1>9 DEF Proceed, LocalTypes, Goto
  <2>2. todo' \in [Proc -> Seq(Path)] /\ \A q \in Proc \ {p} : todo'[q] = todo[q]
    BY <1>3, <1>8 DEF LocalTypes
  <2>3. seen' \in [Proc -> SUBSET Path] /\ \A q \in Proc \ {p} : seen'[q] = seen[q]
    BY <1>2 DEF Proceed, LocalTypes
  <2> QED
    BY <2>1, <2>2, <2>3 DEF Proceed, Keeps
<1>12. DiskTypes' /\ HistoryTypes' /\ LocalTypes' /\ DirIsThere' /\ (\A q \in Proc \ {p} : Elsewhere(q))
  BY <1>11 DEF DiskTypes, HistoryTypes, LocalTypes, DirIsThere, Exists, IsDir, Elsewhere, Kept
<1> HIDE DEF o
<1>13. ASSUME NEW x \in Untouched(p)
       PROVE  fs[x] = before[p][x] \/ (x = Dir /\ before[p][x] = None /\ IsDir(x))
  BY <1>1 DEF Relies, Undisturbed
<1>14. Stage(p)'
  BY <1>1, <1>7, <1>6, <1>8, <1>9, <1>11 DEF Stage, o, Makers, Writers, Finders
<1>15. Undisturbed(p)' /\ Returned(p)' /\ Judged(p)' /\ Asked(p)'
  BY <1>1, <1>9, <1>11, <1>13 DEF Relies, Undisturbed, Returned, Judged, Asked, Untouched, IsDir
<1>16. Working(p)'
  <2> SUFFICES ASSUME o.kind \in Makers
               PROVE  Working(p)'
    BY <1>7, <1>6, <1>11 DEF Working, Finders
  <2>1. o.kind \in Writers /\ ~o.overwrite => \A x \in Range(Targets(o)) : ~Exists(x)
    BY <1>2, <1>5 DEF Writers
  <2> QED
    BY <1>1, <1>5, <1>7, <1>9, <1>11, <2>1, Nodes DEF Working, o, Exists
<1>17. SeenRightly(p)'
  <2>1. o.kind \in Plain /\ o.path \in Untouched(p) =>
            /\ o.path \notin seen'[p] => before[p][o.path] = None
            /\ o.path \in seen'[p] /\ o.kind # "mkdir" => before[p][o.path] # None
    <3> SUFFICES ASSUME o.kind \in Plain, o.path \in Untouched(p)
                 PROVE  /\ ~Exists(o.path) => before[p][o.path] = None
                        /\ Exists(o.path) /\ o.kind # "mkdir" => before[p][o.path] # None
      BY <1>10
    <3>1. o.kind # "mkdir" => ~IsDir(o.path) \/ o.path # Dir
      BY <1>1, <1>2, Skeleton DEF Plain, Calls
    <3> QED
      BY <1>13, <3>1, Nodes DEF Exists, IsDir
  <2> QED
    BY <1>1, <1>7, <1>9, <1>10, <1>11, <2>1 DEF SeenRightly, Looked, o, Untouched, Plain
<1>18. Scanning(p)'
  <2>1. Wanted(p)' = Wanted(p)
    BY <1>11 DEF Wanted, Untouched
  <2>2. Wanted(p) \subseteq {x \in Range(Template) : Exists(x)}
    BY <1>13, Skeleton, Nodes DEF Wanted, Exists
  <2> QED
    BY <1>4, <1>7, <1>11, <2>1, <2>2 DEF Scanning, o
<1> QED
  BY <1>12, <1>14, <1>15, <1>16, <1>17, <1>18, GoodStep DEF Good, Relies

\* Where a writer stands.
LEMMA AtATarget ==
    ASSUME NEW p \in Proc, FInv, pc[p] \in {"look", "open", "fill"}
    PROVE  /\ op[p] \in Calls /\ op[p].kind \in Makers /\ verdict[p] # "ok"
           /\ todo[p] \in Seq(Path) /\ Target(p) \in Path /\ Tail(todo[p]) \in Seq(Path)
           /\ Range(todo[p]) = {Target(p)} \cup Range(Tail(todo[p]))
           /\ Target(p) \notin Range(Tail(todo[p])) /\ IsInjective(Tail(todo[p]))
           /\ Len(todo[p]) = 1 => Range(Tail(todo[p])) = {}
           /\ Len(todo[p]) # 1 => Tail(todo[p]) # <<>>
           /\ Target(p) \in Range(Targets(op[p]))
           /\ op[p].kind # "scaffold" => op[p].path = Target(p) /\ Range(Targets(op[p])) = {Target(p)}
           /\ op[p].kind = "scaffold" => Range(Targets(op[p])) = Range(Template)
           /\ op[p].kind \in {"convert", "generate"} => Target(p) = Dest
           /\ op[p].kind = "mkdir" => Target(p) = Dir
<1>1. /\ op[p] \in Calls /\ op[p].kind \in Makers /\ verdict[p] # "ok" /\ todo[p] \in Seq(Path)
      /\ todo[p] # <<>> /\ IsInjective(todo[p]) /\ Range(todo[p]) \subseteq Range(Targets(op[p]))
  BY DEF FInv, LocalTypes, Relies, Stage, Working, Judged, Makers, Writers
<1>2. /\ Target(p) \in Path /\ Tail(todo[p]) \in Seq(Path)
      /\ Range(todo[p]) = {Target(p)} \cup Range(Tail(todo[p]))
      /\ Target(p) \notin Range(Tail(todo[p])) /\ IsInjective(Tail(todo[p]))
      /\ Len(todo[p]) = 1 => Range(Tail(todo[p])) = {}
      /\ Len(todo[p]) # 1 => Tail(todo[p]) # <<>>
  BY <1>1, HeadAndTail DEF Target
<1>3. /\ op[p].kind # "scaffold" => Range(Targets(op[p])) = {op[p].path}
      /\ op[p].kind = "scaffold" => Range(Targets(op[p])) = Range(Template)
  BY DEF Targets, Range
<1> QED
  BY <1>1, <1>2, <1>3 DEF Calls

\* A file that nobody else has touched since the call began is there now if it was there then.
LEMMA LookStep ==
    ASSUME NEW p \in Proc, FInv, Look(p)
    PROVE  FInv'
<1> USE DEF FInv
<1> DEFINE x == Target(p)
           o == op[p]
<1>1. pc[p] = "look" /\ o.kind = "scaffold"
  BY DEF Look, Relies, Stage
<1>2. x \in Path /\ x \in Range(todo[p]) /\ x \in Range(Template)
  BY <1>1, AtATarget
<1>3. x \notin wrote[p] /\ x # Dir
  BY <1>1, <1>2, Skeleton DEF Relies, Working
<1>4. x \in Untouched(p) => fs[x] = before[p][x]
  BY <1>1, <1>3 DEF Relies, Undisturbed
<1>5. UNCHANGED <<fs, op, attempt, todo, wrote, found, exit, result, verdict, before, replaced, touched>>
  BY DEF Look, Keeps
<1>6. pc' = [pc EXCEPT ![p] = "open"]
      /\ seen' = IF Exists(x) THEN [seen EXCEPT ![p] = @ \cup {x}] ELSE seen
  BY DEF Look, Goto
<1>7. DiskTypes' /\ HistoryTypes' /\ DirIsThere'
  BY <1>5 DEF DiskTypes, HistoryTypes, DirIsThere, Exists, IsDir
<1>8. LocalTypes'
  BY <1>2, <1>5, <1>6 DEF LocalTypes, Points
<1>9. /\ pc'[p] = "open" /\ seen'[p] = (IF Exists(x) THEN seen[p] \cup {x} ELSE seen[p])
      /\ \A q \in Proc \ {p} : pc'[q] = pc[q] /\ seen'[q] = seen[q]
  BY <1>6 DEF LocalTypes
<1>10. ASSUME NEW q \in Proc \ {p}
       PROVE  Elsewhere(q)
  BY <1>5, <1>9 DEF Elsewhere, Kept
<1>11. Stage(p)' /\ Scanning(p)' /\ Returned(p)' /\ Judged(p)' /\ Asked(p)'
  BY <1>1, <1>5, <1>9 DEF Relies, Stage, Scanning, Returned, Judged, Asked, Makers, Writers
<1>12. Undisturbed(p)'
  BY <1>1, <1>5, <1>9 DEF Relies, Undisturbed, Untouched, IsDir
<1>13. Working(p)'
  BY <1>1, <1>5, <1>9 DEF Relies, Working, Untouched, Own
<1>14. SeenRightly(p)'
  <2>1. /\ wrote[p] \subseteq Range(Targets(o)) /\ seen[p] \subseteq wrote[p]
        /\ \A y \in wrote[p] \cap Untouched(p) : y \in seen[p] <=> before[p][y] # None
    BY <1>1 DEF Relies, SeenRightly, Looked, Makers, Writers
  <2>2. Looked(p)' = wrote[p] \cup {x}
    BY <1>5, <1>9 DEF Looked, Target
  <2> QED
    BY <1>1, <1>3, <1>4, <1>5, <1>9, <2>1, <2>2 DEF SeenRightly, Untouched, Exists, Plain
<1> QED
  BY <1>7, <1>8, <1>10, <1>11, <1>12, <1>13, <1>14, GoodStep DEF Good, Relies

\* A file is opened: what was asked before the call is still true of it, or others have touched it.
LEMMA OpenStep ==
    ASSUME NEW p \in Proc, FInv, Open(p)
    PROVE  FInv'
<1> USE DEF FInv
<1> DEFINE x == Target(p)
           o == op[p]
<1>1. pc[p] = "open" /\ ~Blocked(p)
  BY DEF Open
<1>2. /\ o \in Calls /\ o.kind \in Makers /\ verdict[p] # "ok"
      /\ todo[p] \in Seq(Path) /\ x \in Path
      /\ Range(todo[p]) = {x} \cup Range(Tail(todo[p])) /\ x \notin Range(Tail(todo[p]))
      /\ x \in Range(Targets(o))
      /\ o.kind # "scaffold" => o.path = x /\ Range(Targets(o)) = {x}
      /\ o.kind = "scaffold" => Range(Targets(o)) = Range(Template)
      /\ o.kind = "mkdir" => x = Dir
  BY <1>1, AtATarget
<1>3. PICK c \in Node :
        /\ Put(p, x, c)
        /\ \/ o.kind = "mkdir" /\ c = Folder /\ Returns(p, "ok")
           \/ o.kind = "convert" /\ c.type = "file" /\ c.by = p /\ c.whole /\ Returns(p, "ok")
           \/ o.kind # "mkdir" /\ c.type = "file" /\ c.by = p /\ Goto(p, "fill") /\ UNCHANGED result
  <2> DEFINE data == IF o.kind \in {"write", "scaffold"} THEN "text" ELSE "binary"
  <2>1. data \in Data
    BY DEF Data
  <2>2. \/ o.kind = "mkdir" /\ Put(p, x, Folder) /\ Returns(p, "ok")
        \/ o.kind = "convert" /\ Put(p, x, Content(p, TRUE, data)) /\ Returns(p, "ok")
        \/ o.kind # "mkdir" /\ Put(p, x, Content(p, FALSE, data)) /\ Goto(p, "fill") /\ UNCHANGED result
    BY DEF Open
  <2>3. ASSUME NEW whole \in BOOLEAN
        PROVE  /\ Content(p, whole, data) \in Node /\ Content(p, whole, data).type = "file"
               /\ Content(p, whole, data).by = p /\ Content(p, whole, data).whole = whole
    BY <2>1, Nodes
  <2>4. Folder \in Node
    BY Nodes
  <2> HIDE DEF data, x, o
  <2> QED
    BY <2>2, <2>3, <2>4
<1>4. /\ x \in Range(Template) => ~IsFile(Dir)
      /\ x = Dir /\ c # Folder => \A y \in Range(Template) : ~Exists(y)
  BY <1>1, <1>3, Nodes DEF Blocked, DirIsThere
<1>5. /\ wrote'[p] = wrote[p] \cup {x} /\ op'[p] = o /\ todo'[p] = todo[p] /\ verdict'[p] = verdict[p]
      /\ before'[p] = before[p]
      /\ seen'[p] = seen[p]
  BY DEF Open, LocalTypes
<1>6. \/ o.kind = "mkdir" /\ c = Folder /\ pc'[p] = "returned"
      \/ o.kind = "convert" /\ c.type = "file" /\ c.by = p /\ c.whole /\ pc'[p] = "returned"
      \/ o.kind # "mkdir" /\ c.type = "file" /\ c.by = p /\ pc'[p] = "fill"
  BY <1>3 DEF LocalTypes, Returns, Goto
<1>7. LocalTypes'
  <2>1. /\ wrote' \in [Proc -> SUBSET Path] /\ seen' \in [Proc -> SUBSET Path]
    BY <1>2 DEF Open, LocalTypes
  <2>2. pc' \in [Proc -> Points] /\ result' \in [Proc -> Codes]
    BY <1>3 DEF LocalTypes, Returns, Goto, Points, Codes
  <2> QED
    BY <2>1, <2>2 DEF Open, LocalTypes
<1>8. \A q \in Proc \ {p} :
        /\ op'[q] = op[q] /\ pc'[q] = pc[q] /\ attempt'[q] = attempt[q] /\ todo'[q] = todo[q]
        /\ seen'[q] = seen[q] /\ wrote'[q] = wrote[q] /\ found'[q] = found[q] /\ exit'[q] = exit[q]
        /\ result'[q] = result[q] /\ verdict'[q] = verdict[q] /\ before'[q] = before[q]
  BY <1>3 DEF Open, LocalTypes, Returns, Goto
<1>9. before' = before
  BY DEF Open
<1> HIDE DEF x, o
<1>10. /\ DiskTypes' /\ DirIsThere' /\ touched' \in [Proc -> SUBSET Path] /\ touched'[p] = touched[p]
       /\ replaced' \in [Proc -> SUBSET (Path \X Node)]
       /\ fs'[x] = c /\ \A y \in Path \ {x} : Kept(y)
       /\ \A q \in Proc \ {p} :
            /\ touched'[q] = touched[q] \cup {x} /\ replaced'[q] = replaced[q]
            /\ \A y \in Path \ touched'[q] : Kept(y)
       /\ \A r \in replaced'[p] :
            \/ r \in replaced[p]
            \/ r = <<x, fs[x]>> /\ fs[x].type = "file" /\ fs[x].by # p /\ ~op[p].overwrite
  BY <1>2, <1>3, <1>4, PutOnDisk
<1>11. HistoryTypes' /\ (\A q \in Proc \ {p} : Elsewhere(q))
  BY <1>8, <1>9, <1>10 DEF HistoryTypes, Elsewhere
<1>12. Untouched(p)' = Untouched(p)
  BY <1>10 DEF Untouched
<1>13. /\ Range(todo[p]) \subseteq Range(Targets(o)) /\ todo[p] # <<>> /\ IsInjective(todo[p])
       /\ wrote[p] \cap Range(todo[p]) = {} /\ wrote[p] \subseteq Range(Targets(o))
       /\ \A y \in Range(Targets(o)) \ Range(todo[p]) : y \in Untouched(p) => Own(p, y)
       /\ o.kind \in Writers /\ ~o.overwrite =>
            \A y \in Range(todo[p]) \cap Untouched(p) : fs[y].type = "file" => fs[y].by = p
  BY <1>1, <1>2 DEF Relies, Working, SeenRightly, o
<1>14. ASSUME NEW y \in Untouched(p), y \notin wrote[p], y # x
       PROVE  \/ fs'[y] = before[p][y]
              \/ y = Dir /\ before[p][y] = None /\ fs'[y] = Folder
  <2>1. fs[y] = before[p][y] \/ (y = Dir /\ before[p][y] = None /\ fs[y] = Folder)
    BY <1>1, <1>14 DEF Relies, Undisturbed, IsDir
  <2> QED
    BY <2>1, <1>10, <1>14, Nodes DEF Kept, Untouched
<1>15. Stage(p)' /\ Undisturbed(p)' /\ Scanning(p)' /\ Judged(p)'
  BY <1>2, <1>5, <1>6, <1>12, <1>14 DEF Stage, Undisturbed, Scanning, Judged, IsDir, Makers, Writers
<1>16. Working(p)'
  <2> SUFFICES ASSUME pc'[p] = "fill"
               PROVE  Working(p)'
    BY <1>6 DEF Working
  <2>1. c.type = "file" /\ c.by = p
    BY <1>6
  <2>2. Head(todo[p]) = x
    BY DEF x, Target
  <2>3. ASSUME NEW y \in Range(Targets(o)) \ Range(todo[p]), y \in Untouched(p)
        PROVE  Own(p, y)'
    BY <1>2, <1>10, <1>13, <2>3, Nodes DEF Kept, Own, Untouched
  <2>4. ASSUME o.kind \in Writers, ~o.overwrite, NEW y \in Range(todo[p]) \cap Untouched(p), fs'[y].type = "file"
        PROVE  fs'[y].by = p
    BY <1>10, <1>13, <2>1, <2>4, Nodes DEF Kept, Untouched
  <2> QED
    BY <1>2, <1>5, <1>10, <1>12, <1>13, <2>1, <2>2, <2>3, <2>4 DEF Working, o
<1>17. SeenRightly(p)'
  <2>1. o.kind = "scaffold" =>
            /\ seen'[p] \subseteq wrote'[p]
            /\ \A y \in wrote'[p] \cap Untouched(p) : y \in seen'[p] <=> before[p][y] # None
    <3>1. Looked(p) = wrote'[p]
      BY <1>1, <1>5 DEF Looked, x, Target
    <3> QED
      BY <1>1, <1>5, <3>1 DEF Relies, SeenRightly, o
  <2>2. o.kind \in Plain /\ o.path \in Untouched(p) =>
            /\ o.path \notin seen'[p] => before[p][o.path] = None
            /\ o.path \in seen'[p] /\ o.kind # "mkdir" => before[p][o.path] # None
    BY <1>1, <1>5 DEF Relies, SeenRightly, o, Plain
  <2>3. wrote'[p] \subseteq Range(Targets(o))
    BY <1>2, <1>5, <1>13
  <2>4. Looked(p)' = wrote'[p]
    BY <1>6 DEF Looked
  <2> QED
    BY <1>5, <1>12, <2>1, <2>2, <2>3, <2>4 DEF SeenRightly, o
<1>18. Returned(p)'
  BY <1>2, <1>5, <1>6, <1>10 DEF Returned, Delivered, Own, o, Makers, Writers, Finders
<1>19. Asked(p)'
  <2>1. ASSUME o.kind \in Writers, ~o.overwrite, fs[x].type = "file", fs[x].by # p
        PROVE  x \in touched[p]
    BY <1>2, <1>13, <2>1 DEF Untouched
  <2>2. o.kind \in Writers => \A r \in replaced[p] : r[1] \in touched[p]
    BY DEF Relies, Asked, o
  <2> QED
    BY <1>5, <1>10, <2>1, <2>2 DEF Asked, o
<1> QED
  BY <1>7, <1>10, <1>11, <1>15, <1>16, <1>17, <1>18, <1>19, GoodStep DEF Good, Relies

LEMMA FillStep ==
    ASSUME NEW p \in Proc, FInv, Fill(p)
    PROVE  FInv'
<1> USE DEF FInv
<1> DEFINE x == Target(p)
           o == op[p]
<1>1. pc[p] = "fill"
  BY DEF Fill
<1>2. /\ o \in Calls /\ o.kind \in Makers /\ verdict[p] # "ok"
      /\ todo[p] \in Seq(Path) /\ x \in Path /\ Tail(todo[p]) \in Seq(Path)
      /\ Range(todo[p]) = {x} \cup Range(Tail(todo[p]))
      /\ IsInjective(Tail(todo[p]))
      /\ Len(todo[p]) = 1 => Range(Tail(todo[p])) = {}
      /\ Len(todo[p]) # 1 => Tail(todo[p]) # <<>>
  BY <1>1, AtATarget
<1>3. /\ Range(todo[p]) \subseteq Range(Targets(o))
      /\ x \in wrote[p] /\ wrote[p] \cap Range(Tail(todo[p])) = {}
      /\ x \in Untouched(p) => fs[x].type = "file" /\ fs[x].by = p
      /\ \A y \in Range(Targets(o)) \ Range(todo[p]) : y \in Untouched(p) => Own(p, y)
      /\ o.kind \in Writers /\ ~o.overwrite =>
            \A y \in Range(todo[p]) \cap Untouched(p) : fs[y].type = "file" => fs[y].by = p
  BY <1>1 DEF Relies, Working, Target
<1>4. o.kind # "mkdir"
  BY <1>1 DEF Relies, Stage
<1>5. /\ DiskTypes' /\ DirIsThere' /\ touched' \in [Proc -> SUBSET Path] /\ touched'[p] = touched[p]
      /\ replaced' \in [Proc -> SUBSET (Path \X Node)] /\ replaced'[p] \subseteq replaced[p]
      /\ x \in Untouched(p) => fs'[x].type = "file" /\ fs'[x].by = p /\ fs'[x].whole
      /\ \A y \in Path \ {x} : Kept(y)
      /\ \A q \in Proc \ {p} :
            /\ touched[q] \subseteq touched'[q] /\ replaced'[q] = replaced[q]
            /\ \A y \in Path \ touched'[q] : Kept(y)
  <2>1. CASE fs[x].type = "file" /\ fs[x].by = p
    <3> DEFINE c == [fs[x] EXCEPT !.whole = TRUE]
    <3>1. fs[x] \in Node
      BY <1>2 DEF DiskTypes
    <3>2. c \in Node /\ c.type = "file" /\ c.by = p /\ c.whole
      BY <2>1, <3>1, FilledNode
    <3>3. Put(p, x, c)
      BY <2>1 DEF Fill
    <3>4. Exists(x) /\ ~IsDir(x)
      BY <2>1, <3>1, Nodes DEF Exists, IsDir
    <3>5. /\ x \in Range(Template) => ~IsFile(Dir)
          /\ x = Dir /\ c # Folder => \A y \in Range(Template) : ~Exists(y)
      BY <3>4 DEF DirIsThere, IsFile
    <3> HIDE DEF c, x
    <3>6. /\ DiskTypes' /\ DirIsThere' /\ touched' \in [Proc -> SUBSET Path] /\ touched'[p] = touched[p]
          /\ replaced' \in [Proc -> SUBSET (Path \X Node)]
          /\ fs'[x] = c /\ \A y \in Path \ {x} : Kept(y)
          /\ \A q \in Proc \ {p} :
                /\ touched'[q] = touched[q] \cup {x} /\ replaced'[q] = replaced[q]
                /\ \A y \in Path \ touched'[q] : Kept(y)
          /\ \A r \in replaced'[p] :
                \/ r \in replaced[p]
                \/ r = <<x, fs[x]>> /\ fs[x].type = "file" /\ fs[x].by # p /\ ~op[p].overwrite
      BY <1>2, <3>2, <3>3, <3>5, PutOnDisk
    <3> QED
      BY <2>1, <3>2, <3>6
  <2>2. CASE ~(fs[x].type = "file" /\ fs[x].by = p)
    <3>1. Keeps
      BY <2>2 DEF Fill
    <3> QED
      BY <1>3, <2>2, <3>1 DEF Keeps, DiskTypes, HistoryTypes, DirIsThere, Exists, IsDir, Kept
  <2> QED
    BY <2>1, <2>2
<1>6. PICK code \in {"ok", "execution_error"} :
        \/ Len(todo[p]) = 1 /\ Returns(p, code)
        \/ Len(todo[p]) # 1 /\ Goto(p, "look") /\ UNCHANGED result
  BY DEF Fill
<1>7. /\ UNCHANGED <<op, attempt, seen, wrote, found, exit, verdict, before>>
      /\ todo' = [todo EXCEPT ![p] = Tail(@)]
  BY DEF Fill
<1> HIDE DEF x, o
<1>8. LocalTypes'
  <2>1. todo' \in [Proc -> Seq(Path)]
    BY <1>2, <1>7 DEF LocalTypes
  <2>2. pc' \in [Proc -> Points] /\ result' \in [Proc -> Codes]
    <3>1. "returned" \in Points /\ "look" \in Points /\ code \in Codes
      BY DEF Points, Codes
    <3>2. CASE Returns(p, code)
      BY <3>1, <3>2 DEF LocalTypes, Returns, Goto
    <3>3. CASE Goto(p, "look") /\ UNCHANGED result
      BY <3>1, <3>3 DEF LocalTypes, Goto
    <3> QED
      BY <1>6, <3>2, <3>3
  <2> QED
    BY <1>7, <2>1, <2>2 DEF LocalTypes
<1>9. HistoryTypes'
  BY <1>5, <1>7 DEF HistoryTypes
<1>10. ASSUME NEW q \in Proc \ {p}
       PROVE  Elsewhere(q)
  <2>1. pc'[q] = pc[q] /\ result'[q] = result[q] /\ todo'[q] = todo[q]
    BY <1>6, <1>7 DEF LocalTypes, Returns, Goto
  <2> QED
    BY <1>5, <1>7, <2>1 DEF Elsewhere
<1>11. /\ Untouched(p)' = Untouched(p) /\ op'[p] = o /\ todo'[p] = Tail(todo[p])
       /\ \/ Len(todo[p]) = 1 /\ pc'[p] = "returned"
          \/ Len(todo[p]) # 1 /\ pc'[p] = "look"
  BY <1>5, <1>6, <1>7 DEF Untouched, LocalTypes, Returns, Goto, o
<1>12. \A y \in Range(Targets(o)) \ Range(Tail(todo[p])) : y \in Untouched(p) => Own(p, y)'
  BY <1>2, <1>3, <1>5, Nodes DEF Kept, Own, Untouched
<1>13. Stage(p)' /\ Scanning(p)' /\ Judged(p)'
  <2>1. o.kind # "scaffold" => Len(todo[p]) = 1
    <3> SUFFICES ASSUME o.kind # "scaffold", Len(todo[p]) # 1
                 PROVE  FALSE
      OBVIOUS
    <3>1. Range(Tail(todo[p])) \subseteq {Target(p)} /\ Target(p) \notin Range(Tail(todo[p]))
      BY <1>1, <1>3, AtATarget DEF o
    <3>2. Head(Tail(todo[p])) \in Range(Tail(todo[p]))
      BY <1>2, HeadAndTail
    <3> QED
      BY <3>1, <3>2
  <2> QED
    BY <1>2, <1>4, <1>7, <1>11, <2>1 DEF Stage, Scanning, Judged, o, Makers, Writers
<1>14. Undisturbed(p)'
  <2>1. ASSUME NEW y \in Untouched(p), y \notin wrote[p]
        PROVE  \/ fs'[y] = before[p][y]
               \/ y = Dir /\ before[p][y] = None /\ fs'[y] = Folder
    <3>1. fs[y] = before[p][y] \/ (y = Dir /\ before[p][y] = None /\ fs[y] = Folder)
      BY <1>1, <2>1 DEF Relies, Undisturbed, IsDir
    <3>2. Kept(y)
      BY <1>3, <1>5, <2>1 DEF Untouched
    <3> QED
      BY <3>1, <3>2, Nodes DEF Kept
  <2> QED
    BY <1>7, <1>11, <2>1 DEF Undisturbed, IsDir
<1>15. Working(p)'
  <2> SUFFICES ASSUME pc'[p] = "look"
               PROVE  Working(p)'
    BY <1>11 DEF Working
  <2>1. Tail(todo[p]) # <<>>
    BY <1>2, <1>11
  <2>2. ASSUME o.kind \in Writers, ~o.overwrite,
               NEW y \in Range(Tail(todo[p])) \cap Untouched(p), fs'[y].type = "file"
        PROVE  fs'[y].by = p
    <3>1. y \in Path /\ y # x
      BY <1>3, <2>2 DEF Untouched
    <3>2. fs[y].type = "file" => fs[y].by = p
      BY <1>2, <1>3, <2>2
    <3> QED
      BY <1>5, <2>2, <3>1, <3>2, Nodes DEF Kept
  <2> QED
    BY <1>2, <1>3, <1>7, <1>11, <1>12, <2>1, <2>2 DEF Working, o
<1>16. SeenRightly(p)'
  <2>1. Looked(p)' = Looked(p)
    BY <1>1, <1>7, <1>11 DEF Looked
  <2> QED
    BY <1>1, <1>7, <1>11, <2>1 DEF Relies, SeenRightly, o
<1>17. Returned(p)'
  <2>1. \/ Range(Targets(o)) = {Target(p)} /\ Target(p) \in Path
        \/ Range(Targets(o)) = Range(Template)
    BY <1>1, AtATarget DEF o
  <2>2. Range(Targets(o)) \subseteq Path
    BY <2>1, Skeleton
  <2> QED
    BY <1>2, <1>4, <1>11, <1>12, <2>2 DEF Returned, Delivered, o, Makers, Writers, Finders
<1>18. Asked(p)'
  BY <1>5, <1>7 DEF Relies, Asked
<1> QED
  BY <1>5, <1>8, <1>9, <1>10, <1>13, <1>14, <1>15, <1>16, <1>17, <1>18, GoodStep DEF Good, Relies

-----------------------------------------------------------------------------
(* Results. *)

LEMMA NextKeepsFInv == FInv /\ [Next]_vars => FInv'
<1> SUFFICES ASSUME FInv, [Next]_vars
             PROVE  FInv'
  OBVIOUS
<1>1. ASSUME NEW p \in Proc, Step(p)
      PROVE  FInv'
  <2>1. ASSUME NEW o \in Ops, Call(p, o)
        PROVE  FInv'
    BY <2>1, CallStep
  <2>2. ASSUME NEW b \in {op[p].overwrite, TRUE}, Retry(p, b)
        PROVE  FInv'
    BY <2>2, RetryStep
  <2> QED
    BY <1>1, <2>1, <2>2, RefuseStep, ProceedStep, UnavailableStep, SofficeStep, LookStep, OpenStep, FillStep,
       RaisesStep, RemoveStep, ScanStep, ScanEndsStep, ReadStep, RunProgramStep, JudgeStep, CrashStep
       DEF Step
<1>2. CASE UNCHANGED vars
  <2>1. DiskTypes' /\ HistoryTypes' /\ LocalTypes' /\ DirIsThere'
    BY <1>2 DEF vars, mine, disk, FInv, DiskTypes, HistoryTypes, LocalTypes, DirIsThere, Exists, IsDir
  <2>2. \A q \in Proc : Elsewhere(q)
    BY <1>2 DEF vars, mine, disk, Elsewhere, Kept
  <2> QED
    BY <2>1, <2>2, AnotherStep DEF FInv
<1> QED
  BY <1>1, <1>2 DEF Next

\* What every process may rely on while the others work, in every state.
THEOREM FilesInvariant == Spec => []FInv
<1> QED
  BY InitFInv, NextKeepsFInv, PTL DEF Spec

\* The values of the variables: the retries stay within their bound, the paths are the sandbox's.
THEOREM FilesTypes == Spec => []FilesTypeOK
<1>1. FInv => FilesTypeOK
  <2> SUFFICES ASSUME FInv, NEW p \in Proc
               PROVE  /\ attempt[p] <= MaxCorrections + 1 /\ wrote[p] \subseteq Path
                      /\ seen[p] \subseteq Path /\ Range(todo[p]) \subseteq Path
    BY DEF FilesTypeOK, FInv, DiskTypes
  <2>1. todo[p] \in Seq(Path)
    BY DEF FInv, LocalTypes
  <2>2. Range(todo[p]) \subseteq Path
    BY <2>1 DEF Range
  <2> QED
    BY <2>2, FilesAssumption DEF FilesAssumption, FInv, LocalTypes
<1> QED
  BY <1>1, FilesInvariant, PTL

\* No call replaces a file unasked that nobody else has touched since it began: write.py, tools.py
\* of documents and scaffold, document.py of the command line.
THEOREM NothingReplacedUnasked == Spec => []OldFilesSurvive
<1>1. FInv => OldFilesSurvive
  BY DEF FInv, Relies, Asked, OldFilesSurvive
<1> QED
  BY <1>1, FilesInvariant, PTL

\* What counts as done is done and what is reported is true: verifier.py, convert.py, write.py.
THEOREM DoneIsEarned == Spec => []OkIsEarned
<1>1. FInv => OkIsEarned
  <2> SUFFICES ASSUME FInv, NEW p \in Proc
               PROVE  /\ verdict[p] = "ok" =>
                        /\ op[p].kind \in Writers => \A x \in Range(Targets(op[p])) :
                            x \in touched[p] \/ (fs[x].type = "file" /\ fs[x].by = p /\ fs[x].whole)
                        /\ op[p].kind = "run" => exit[p] = 0
                      /\ pc[p] = "returned" /\ result[p] = "ok" =>
                        /\ \A x \in Created(p) \ touched[p] : before[p][x] = None
                        /\ \A x \in Modified(p) \ touched[p] : before[p][x] # None
    BY DEF OkIsEarned
  <2>1. ASSUME verdict[p] = "ok"
        PROVE  /\ op[p].kind \in Writers => \A x \in Range(Targets(op[p])) :
                    x \in touched[p] \/ (fs[x].type = "file" /\ fs[x].by = p /\ fs[x].whole)
               /\ op[p].kind = "run" => exit[p] = 0
    BY <2>1 DEF FInv, Relies, Judged, Delivered, Own, Untouched
  <2>2. ASSUME pc[p] = "returned", result[p] = "ok", op[p].kind \in Makers
        PROVE  /\ \A x \in Created(p) \ touched[p] : before[p][x] = None
               /\ \A x \in Modified(p) \ touched[p] : before[p][x] # None
    <3>1. SeenRightly(p) /\ wrote[p] \subseteq Path
      BY DEF FInv, Relies, LocalTypes
    <3>2. op[p].kind # "scaffold" => Range(Targets(op[p])) = {op[p].path}
      BY DEF Targets, Range
    <3>3. Looked(p) = wrote[p]
      BY <2>2 DEF Looked
    <3> QED
      BY <2>2, <3>1, <3>2, <3>3 DEF SeenRightly, Created, Modified, Untouched, Plain, Makers, Writers
  <2> QED
    BY <2>1, <2>2 DEF Created, Modified, Makers
<1> QED
  BY <1>1, FilesInvariant, PTL

\* A listing has all the files that were there all along, a search that is not cut short all those
\* that are text of at most _MAX_FILE_BYTES: search.py, list_dir.py.
THEOREM SearchesAreComplete == Spec => []SearchIsComplete
<1>1. FInv => SearchIsComplete
  BY Skeleton DEF FInv, Relies, Returned, Finders, Wanted, Untouched, SearchIsComplete
<1> QED
  BY <1>1, FilesInvariant, PTL
=============================================================================
