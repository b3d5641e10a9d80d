---------------------------- MODULE FinanceLedger ----------------------------
(***************************************************************************)
(* The finance tables as several kanna processes write them at once: imports *)
(* of CSV files and of scanned statements and receipts, single additions,    *)
(* and recurring expenses turned into transactions (finance/service.py,      *)
(* repository.py, imports/). Every SQL statement is a transaction and a step *)
(* of its own; nothing else keeps two processes apart.                       *)
(*                                                                         *)
(* A date is a number of days. What content_hash() covers besides the date   *)
(* (amount, currency, merchant, description) is an Item. Keyword rules,      *)
(* budgets and queries write nothing another operation depends on.           *)
(***************************************************************************)
EXTENDS Integers, FiniteSets, SequencesExt

CONSTANTS
    Proc,           \* processes, and threads with a service of their own
    Item, MaxDay,   \* contents; bound on the dates of transactions
    NoCategory,
    Defaults,       \* DEFAULT_CATEGORIES, in the order they are seeded
    Unreadable,     \* a row without a date or amount, or not a debit
    Files,          \* the files that are imported: sequences of rows
    Recurring,      \* rows of finance_recurring, all active
    ItemOf, First,  \* their content and first next_occurrence
    Period,         \* days to the next occurrence, 0 for an unknown frequency
    MaxOps          \* bound: operations of all processes together

Day == 0..MaxDay

Content == Item \X Day

\* A row of a file; a row's category is the name found in its column.
IsRow(row) == row = Unreadable \/ row.content \in Content

ASSUME LedgerAssumption ==
    /\ MaxDay \in Nat /\ MaxOps \in Nat
    /\ Defaults \in Seq(Range(Defaults))
    /\ \A f \in Files : f \in Seq(Range(f)) /\ \A i \in DOMAIN f : IsRow(f[i])
    /\ IsFiniteSet(Recurring)
    /\ ItemOf \in [Recurring -> Item]
    /\ First \in [Recurring -> Day] /\ Period \in [Recurring -> Nat]

VARIABLES
    booked,     \* rows of finance_transactions, by content
    categories, \* finance_categories.name
    nextOcc,    \* finance_recurring.next_occurrence
    pc,         \* where each process is
    kind,       \* the operation it executes
    work,       \* its rows, or the recurring expenses it found due
    seeded,     \* default categories it has created
    report,     \* what became of each row: ImportResult, or the list returned
    ops         \* operations begun

tables == <<booked, categories, nextOcc>>
vars   == <<booked, categories, nextOcc, pc, kind, work, seeded, report, ops>>

Over == {"idle", "done", "raised", "crashed"}

row(p) == work[p][Len(report[p]) + 1]

Init ==
    /\ booked = [c \in Content |-> 0] /\ categories = {} /\ nextOcc = First
    /\ pc = [p \in Proc |-> "idle"] /\ kind = [p \in Proc |-> "none"]
    /\ work = [p \in Proc |-> <<>>] /\ seeded = [p \in Proc |-> 0]
    /\ report = [p \in Proc |-> <<>>] /\ ops = 0

\* The first statement for row n of an operation.
Stage(k, w, n) ==
    IF n > Len(w) THEN "done"
    ELSE IF k = "apply" THEN "insert"
    ELSE IF w[n] = Unreadable THEN "unreadable"
    ELSE IF k \in {"csv", "add"} /\ w[n].category # NoCategory THEN "category"
    ELSE IF k = "add" THEN "insert" ELSE "lookup"

Goto(p, label) == pc' = [pc EXCEPT ![p] = label]

RowDone(p, what) ==
    /\ report' = [report EXCEPT ![p] = Append(@, what)]
    /\ Goto(p, Stage(kind[p], work[p], Len(report'[p]) + 1))

\* An exception in the middle of a row: import_csv() notes it and goes on, any
\* other operation ends with it.
Fails(p) ==
    \/ kind[p] = "csv" /\ RowDone(p, "error")
    \/ kind[p] # "csv" /\ Goto(p, "raised") /\ UNCHANGED report

-----------------------------------------------------------------------------
(* Beginning: FinanceService(), which seeds the categories of an empty table. *)

Begin(p, k, w) ==
    /\ pc[p] \in Over /\ ops < MaxOps
    /\ ops' = ops + 1
    /\ Goto(p, "service")
    /\ kind' = [kind EXCEPT ![p] = k] /\ work' = [work EXCEPT ![p] = w]
    /\ seeded' = [seeded EXCEPT ![p] = 0] /\ report' = [report EXCEPT ![p] = <<>>]
    /\ UNCHANGED tables

\* The list of what is due is read when the service exists (ListDue).
Start(p) ==
    \/ \E k \in {"csv", "scan"}, f \in Files : Begin(p, k, f)
    \/ \E f \in Files : \E i \in DOMAIN f : f[i] # Unreadable /\ Begin(p, "add", <<f[i]>>)
    \/ Begin(p, "apply", <<>>)

Ready(p) == IF kind[p] = "apply" THEN "list" ELSE Stage(kind[p], work[p], 1)

\* ensure_default_categories(): if cat_repo.list(): return
LookAtCategories(p) ==
    /\ pc[p] = "service"
    /\ Goto(p, IF categories = {} /\ Defaults # <<>> THEN "seed" ELSE Ready(p))
    /\ UNCHANGED <<tables, kind, work, seeded, report, ops>>

\* One cat_repo.create(); the UNIQUE name refuses a second one.
Seed(p) ==
    /\ pc[p] = "seed"
    /\ LET name == Defaults[seeded[p] + 1] IN
       \/ /\ name \notin categories
          /\ categories' = categories \cup {name}
          /\ seeded' = [seeded EXCEPT ![p] = @ + 1]
          /\ Goto(p, IF seeded'[p] = Len(Defaults) THEN Ready(p) ELSE "seed")
       \/ name \in categories /\ Goto(p, "raised") /\ UNCHANGED <<categories, seeded>>
    /\ UNCHANGED <<booked, nextOcc, kind, work, report, ops>>

-----------------------------------------------------------------------------
(* The rows of an import or an addition. *)

\* Fault: the rest of the file is given up.
StopAtUnreadable(p) ==
    /\ pc[p] = "unreadable"
    /\ report' = [report EXCEPT ![p] = Append(@, "error")] /\ Goto(p, "done")
    /\ UNCHANGED <<tables, kind, work, seeded, ops>>

SkipUnreadable(p) ==
    /\ pc[p] = "unreadable"
    /\ RowDone(p, "error")
    /\ UNCHANGED <<tables, kind, work, seeded, ops>>

AfterCategory(p) == Goto(p, IF kind[p] = "csv" THEN "lookup" ELSE "insert")

\* get_or_create(): the look.
ReadCategory(p) ==
    /\ pc[p] = "category"
    /\ IF row(p).category \in categories THEN AfterCategory(p) ELSE Goto(p, "create_category")
    /\ UNCHANGED <<tables, kind, work, seeded, report, ops>>

\* get_or_create(): the insert, refused if another process was faster.
CreateCategory(p) ==
    /\ pc[p] = "create_category"
    /\ \/ /\ row(p).category \notin categories
          /\ categories' = categories \cup {row(p).category}
          /\ AfterCategory(p) /\ UNCHANGED report
       \/ row(p).category \in categories /\ Fails(p) /\ UNCHANGED categories
    /\ UNCHANGED <<booked, nextOcc, kind, work, seeded, ops>>

\* exists_with_hash()
LookUp(p) ==
    /\ pc[p] = "lookup"
    /\ IF booked[row(p).content] > 0 THEN RowDone(p, "skipped")
                                     ELSE Goto(p, "insert") /\ UNCHANGED report
    /\ UNCHANGED <<tables, kind, work, seeded, ops>>

Inserted(p) ==
    IF kind[p] = "apply" THEN Goto(p, "advance") /\ UNCHANGED report ELSE RowDone(p, "created")

\* Fault: INSERT OR IGNORE.
InsertOrIgnore(p) ==
    /\ pc[p] = "insert"
    /\ booked' = [booked EXCEPT ![row(p).content] = 1]
    /\ Inserted(p)
    /\ UNCHANGED <<categories, nextOcc, kind, work, seeded, ops>>

\* TransactionRepository.create(); the unique index refuses a second row.
Insert(p) ==
    /\ pc[p] = "insert"
    /\ \/ /\ booked[row(p).content] = 0
          /\ booked' = [booked EXCEPT ![row(p).content] = 1]
          /\ Inserted(p)
       \/ booked[row(p).content] > 0 /\ Fails(p) /\ UNCHANGED booked
    /\ UNCHANGED <<categories, nextOcc, kind, work, seeded, ops>>

-----------------------------------------------------------------------------
(* apply_due_recurring() *)

DueEntry(r) == [rec |-> r, content |-> <<ItemOf[r], nextOcc[r]>>]

\* due(as_of): earliest first, in any order within a day.
DueLists(asOf) ==
    {w \in SetToSeqs({DueEntry(r) : r \in {s \in Recurring : nextOcc[s] <= asOf}}) :
        \A i, j \in DOMAIN w : i < j => w[i].content[2] <= w[j].content[2]}

ListDue(p) ==
    /\ pc[p] = "list"
    /\ \E asOf \in Day : \E w \in DueLists(asOf) :
          work' = [work EXCEPT ![p] = w] /\ Goto(p, Stage("apply", w, 1))
    /\ UNCHANGED <<tables, kind, seeded, report, ops>>

\* Fault: the next occurrence is counted from the day of the call.
AdvanceFromToday(p) ==
    /\ pc[p] = "advance"
    /\ LET r == row(p).rec IN
       /\ Period[r] > 0
       /\ nextOcc' = [nextOcc EXCEPT ![r] = MaxDay + Period[r]]
       /\ RowDone(p, "created")
    /\ UNCHANGED <<booked, categories, kind, work, seeded, ops>>

\* next_occurrence(), which raises for an unknown frequency, then
\* update_next_occurrence().
Advance(p) ==
    /\ pc[p] = "advance"
    /\ LET r == row(p).rec IN
       \/ /\ Period[r] > 0
          /\ nextOcc' = [nextOcc EXCEPT ![r] = row(p).content[2] + Period[r]]
          /\ RowDone(p, "created")
       \/ Period[r] = 0 /\ Goto(p, "raised") /\ UNCHANGED <<nextOcc, report>>
    /\ UNCHANGED <<booked, categories, kind, work, seeded, ops>>

Crash(p) ==
    /\ pc[p] \notin Over
    /\ Goto(p, "crashed")
    /\ UNCHANGED <<tables, kind, work, seeded, report, ops>>

Next ==
    \E p \in Proc :
        \/ Start(p) \/ LookAtCategories(p) \/ Seed(p)
        \/ SkipUnreadable(p) \/ ReadCategory(p) \/ CreateCategory(p) \/ LookUp(p) \/ Insert(p)
        \/ ListDue(p) \/ Advance(p) \/ Crash(p)

Spec == Init /\ [][Next]_vars

-----------------------------------------------------------------------------
(* Properties. *)

LedgerTypeOK ==
    /\ booked \in [Content -> Nat]
    /\ nextOcc \in [Recurring -> Nat]
    /\ pc \in [Proc -> Over \cup {"service", "seed", "list", "unreadable", "category",
                                  "create_category", "lookup", "insert", "advance"}]
    /\ kind \in [Proc -> {"none", "csv", "scan", "add", "apply"}]
    /\ seeded \in [Proc -> 0..Len(Defaults)]
    /\ \A p \in Proc : pc[p] = "seed" => seeded[p] < Len(Defaults)
    /\ \A p \in Proc : pc[p] \notin Over \cup {"service", "seed", "list"} =>
          Len(report[p]) < Len(work[p])
    /\ ops \in 0..MaxOps

\* What the users are told of an import adds up to the ledger: no two operations claim to have
\* created one transaction, and when a CSV import returns, every readable row that needed no new
\* category is there, whatever the other rows and processes did (csv_import.py:77-91).
ReportsAddUp ==
    /\ \A p, q \in Proc : \A i \in DOMAIN report[p], j \in DOMAIN report[q] :
        /\ report[p][i] = "created" /\ report[q][j] = "created"
        /\ work[p][i].content = work[q][j].content
        => p = q /\ i = j
    /\ \A p \in Proc :
        pc[p] = "done" /\ kind[p] = "csv" =>
            \A i \in DOMAIN work[p] :
                work[p][i] # Unreadable /\ work[p][i].category = NoCategory =>
                    booked[work[p][i].content] = 1

\* A recurring expense only moves past an occurrence that has been booked:
\* none is lost to a crash, a late call or two processes applying it at once.
OccurrencesBooked ==
    \A r \in Recurring, d \in Day :
        /\ First[r] <= d /\ d < nextOcc[r]
        /\ Period[r] > 0 /\ (d - First[r]) % Period[r] = 0
        => booked[<<ItemOf[r], d>>] > 0

\* next_occurrence never goes back: a process that was slow between its insert
\* and its update does not undo what faster ones did since.
NeverTakenBack == [][\A r \in Recurring : nextOcc'[r] >= nextOcc[r]]_nextOcc

\* docs/FINANCE.md: apply_due_recurring() "materializes every due recurring
\* expense as a real transaction and advances next_occurrence".
DueIsMaterialised ==
    \A p \in Proc :
        kind[p] = "apply" /\ pc[p] \in {"done", "raised"} =>
            \A i \in DOMAIN work[p] : nextOcc[work[p][i].rec] > work[p][i].content[2]
=============================================================================
