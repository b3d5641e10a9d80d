# Kanna in TLA+

Kanna is a local assistant: a planner turns a request into a few tool calls, an agent loop executes
them one after the other behind a permission policy, and everything that happened is kept in one
SQLite database which several processes share (the desktop application, CLI commands, the scheduler
daemon). This directory holds TLA+ models of the parts of it whose correctness depends on order,
interleaving and failure, the TLC configurations that check them, and TLAPS proofs.

To run things from this directory: `tlc -config <name>.cfg <module>` for a run of the tables below,
`tlapm <name>_proofs.tla` for the theorems about a module: `AgentLoop` (with `RunHistory`), `DesktopWorker`,
`Scheduler`, `FinanceLedger`, `Storage`, `Devices`, `Files`, `Documents` (some minutes).

## 1. The system

| Component (source) | State it keeps | Operations | Modelled in |
|---|---|---|---|
| Agent loop (`core/agent/loop.py`) | plan, current step, attempt, resolved arguments; a cancel event it is given | `run`, `_run_step`, `_revise`, `_record` | `AgentLoop` |
| Tool registry (`core/tools/registry.py`) | the tools; writes `execution_log` | `invoke`: schema, policy, gate, body, output schema, log | `AgentLoop` |
| Policy, gates, trust (`core/permissions/`) | table `trust_rules` | `decide`, `approve`, `kanna trust add/remove` | `Permissions`, `AgentLoop` |
| Plan and log rows (`core/memory/repositories/plans.py`, `execution_log.py`) | tables `plans`, `plan_steps`, `execution_log` | `create`, `record_step_result`, `set_status`, `record` | `AgentLoop`, `AgentRun` |
| Run history (`core/agent/history.py`) | none, reads the three tables | `get_run`, `list_runs` | `RunHistory` |
| Planners, result references (`core/planner/`) | none | `create_plan`, `revise_step`, `resolve` | choices of `AgentLoop` |
| Verifier (`core/agent/verifier.py`) | none, looks at the world | `verify` | its verdict is a choice of `AgentLoop`; for files, `Files` |
| Desktop worker (`interfaces/desktop/worker.py`) | command and event queue, `ready`, `_busy`, `_stop`, `_cancel`, approval requests | `submit`, `cancel`, `close`, `DesktopGate.approve` | `DesktopWorker` |
| Desktop window (`interfaces/desktop/app.py`) | `busy`, `recording`, `closing`, the dialog, the buttons | clicks, `_poll` | `DesktopWorker` |
| Schedule arithmetic (`automation/scheduler/schedule.py`) | none | `compute_next_run`, `is_due` | `Schedules` |
| Scheduler (`scheduler.py`, `daemon.py`, `store.py`) | tables `schedules`, `jobs`; the stop flag | `tick`, `run_forever`, signals, `add`, `remove` | `Scheduler` |
| Finance ledger (`finance/service.py`, `repository.py`, `imports/`) | tables `finance_transactions`, `finance_categories`, `finance_recurring` | imports, additions, `apply_due_recurring`, seeding | `FinanceLedger` |
| Database, migrations, start-up (`core/memory/db.py`, `core/bootstrap.py`) | the connection and its transaction, `schema_migrations` | `execute`, `query`, `migrate`, `close` | `Storage`; in the other modules a statement is an atomic step |
| Browser, computer and phone agents (`tools/browser`, `tools/computer`) | one Playwright page per process; the screen, the mouse, the windows and the phone outside | a script of external commands per method | `Devices` |
| File, process and scaffold tools (`tools/filesystem`, `process`, `scaffold`, `documents`, `documents/convert.py`) | the files | `fs_*`, `process_run`, `project_scaffold`, `document_generate_*`, `document_convert_to_pdf` | `Files` |
| Documents, authoring, vision (`documents/`, `authoring/`, `vision/document/`, `tools/authoring`, `core/tools/schema.py`) | none; JSON values handed from tool to tool | read, extract, author, answer, render | `Documents` |
| Tasks, sessions, settings, event bus | small tables, a JSON file, a list of handlers | create, update, load, publish | not modelled |
| LLM providers | none | network calls | choices and exceptions of `AgentLoop`; replies of `Documents` |
| Desktop singleton, hotkey, start-up entry, dialogs | a local socket, OS entries | `acquire`, `notify` | planned |
| CLI (`interfaces/cli/`) | none | thin commands over the above | where they write: `AgentLoop`, `Scheduler`, `FinanceLedger` |

How they interact. `bootstrap()` builds one registry, policy, planner and database per process and
hands a gate to the loop. The loop calls the registry, the registry the gate, the gate a person:
through the terminal (`CLIPromptGate`), through the desktop's queues (`DesktopGate`), or nobody
(`DenyAllGate`, the scheduler). Behind every gate but the last resort stands the trust store, read
anew for each invocation. The desktop's worker thread runs the loop and talks to the Tk thread through
two queues and two events. The daemon runs the loop for due schedules. Readers of the history and other
processes meet all of this only in the database, statement by statement.

What is hard about it: cancellation that arrives at any point of a run; answers that come late;
retries of something that already had its effect; the process dying between two of the many small
transactions of one run; two processes that look before they write; a copy of a flag in another
thread; one bad row, schedule or provider that must not take the rest with it. `PROJECT.json` lists
each such hazard with its line and the property that watches it.

## 2. Modules

    Permissions              policy, trust rules                      (operators only)
      AgentLoop              one run, its rows, the people around it
        RunHistory           a reader beside the run          -> MCAgentLoop
          AgentLoop_proofs   theorems on both, the refinement of AgentRun
      AgentRun               what the rows promise to a reader (the abstract specification)
    DesktopWorker            worker thread, Tk thread, voice thread, gate
      DesktopWorker_proofs   theorems
    Schedules                when a schedule fires                    (operators only)
      Scheduler              tick, daemon, store, signals     -> MCScheduler
        Scheduler_proofs     theorems
    FinanceLedger            imports, additions, recurring    -> MCFinanceLedger
      FinanceLedger_proofs   theorems
    Storage                  start-up, migrations, transactions -> MCStorage
      Storage_proofs         theorems
    Devices                  screen, phone and browser, and their callers
      Devices_proofs         theorems
    Files                    tools and processes on one directory -> MCFiles
      Files_proofs           theorems
    Documents                reading, authoring, rendering
      Documents_proofs       theorems

Definitions named in a comment "Fault: ..." are not part of a specification. Each is the definition
below it with one plausible mistake in it (a dropped guard, a swapped order); `PROJECT.json` pairs it
with the property that notices the mistake, so that no property is there that nothing could break.

### AgentLoop

One call of `AgentLoop.run(request)`. `pc` is the line the agent thread is at; between two values of
`pc` lies at most one SQL statement, one look at the cancel event, one call of a person, a planner or
a tool. `Planning` inserts the plan and its steps row by row. `Stepping` walks the steps and binds
references. `Invoking` is `ToolRegistry.invoke()`: input schema, policy, trust store, gate, body and
output schema, `_finish()`. `Judging` is what `_run_step()` and `run()` do with the result: no retry
after success, a refusal or an unavailable backend, otherwise at most `MaxCorrections` revisions, then
the row and perhaps the end of the run. `User` grants, denies, cancels and edits trust rules from
another process at any moment. `Raise` is any exception that leaves `run()`, `Crash` the end of the
process.

Data: a tool is a name with a level; a set of arguments is opaque, and all that is known about it is
whether it overwrites, which schemas accept it and which trust patterns cover it. What a tool does is
the six outcomes the code tells apart (`BodyResult`). `gate` is chosen at the start, as `bootstrap()`
does. `calls` is a history of finished invocations, for the properties only.

`AgentRun` says what the rows promise: steps are written, then achieved one after the other, then the
status is settled once, `complete` exactly when all is achieved. `KeepsPromise` is refinement under
`status <- planRow, total <- Len(rows), done <- the rows that say ok`.

### RunHistory

`get_run()` reads the `plans` row and then, in another query, the `plan_steps` rows, with any number of
steps of the run between them, and turns each status into a message.

The composition of the two is what TLC runs: `MCAgentLoop` has one plan with a reader beside it.

### DesktopWorker

The worker's `_run()` line by line, the gate's wait for an answer, and each click the window offers,
guarded by exactly the flags the code tests. A click reads and writes the worker's flags in place (the
code does so under a lock or on a single attribute). A task is reduced to what crosses the threads: it
may ask, it may notice the cancel event, it ends. History variables record which cancellations were
accepted, which requests were granted or given up.

### Schedules and Scheduler

Time is counted in slots, `SlotsPerDay` of them a day, day 0 a Monday. `ComputeNextRun` follows
`compute_next_run()` including the bounded search for a weekly date and what makes it raise (`Raises`).
`Scheduler` has one step per statement of `tick()`: `rows` is how many schedules were ever added, `todo` the
set of those `list(active_only=True)` returned, which are visited in the order they were added (its least
element is `current`). It also has the loop of the daemon with its two looks at the
stop flag, the signal handler, which may run between any two of them, rows added and removed by
commands in other processes, and crashes followed by the service manager's restart. `setting`, chosen at
the start, is the catalog of schedules, the last day and whether anybody sends a signal, so that one run
explores several lives of a scheduler.

### FinanceLedger

Any number of processes, each executing one operation at a time: a CSV import, an import of a scanned
statement or receipt, one addition, or `apply_due_recurring()`. Each begins with the construction of a
`FinanceService`, which seeds an empty category table. A transaction is its content (what
`content_hash()` covers); the unique index is the guard of `Insert`. A look (`LookUp`, `ReadCategory`,
`ListDue`) and the write it decides are steps of their own, because they are statements of their own.
Month lengths are abstracted: an occurrence is followed by the one `Period` days later, and period 0
stands for a frequency `next_occurrence()` does not know (the tool's schema accepts any text).
Nothing in `src/` calls `apply_due_recurring()` outside the tests; it is modelled as the operation of
the service that it is.

### Storage

The layer below all of these. `Connect` to `CommitVersion` are `migrate()` line by line: the versions
found once, then for each missing one the script, whose statements commit one by one, and the row that
records it. `Execute` and `Commit` are the two lines of `Database.execute()`, `Query` the reads.
`tx` and `snap` are what SQLite and Python's driver keep for a connection and the code never mentions: a
transaction that a failed statement leaves open, with the write lock (a refused constraint) or without
(a lock waited for in vain), and what it sees once it has read. `Scripts` is the list of migrations, each
a list of names; every statement of the two real scripts is a CREATE ... IF NOT EXISTS. What a process does
after a refused statement is `Report` (`ToolRegistry._finish()` writes the log; other callers go on with
their next row) or `Close`. `Database.cursor()` has no caller in `src/` and no action here.

### Devices

A method of `FedoraAgent`, `WindowsAgent`, `AdbPhoneAgent` or `PlaywrightBackend` is a script: the list of
commands it issues, each with what it does and with whether the code looks at its exit code (`Checked`),
does not (`Ignored`), or survives even its timeout (`Optional`). `Fedora`, `Windows`, `Phone` and `Browser`
are those scripts, method by method; `Done`, `Refused`, `TimedOut`, `NotThere`, `LaunchFails` and
`ActionFails` are what may become of the next command. A command that times out may have worked. Around
it stand the two callers: a plan step with the approval its level asks for and the retries of
`_run_step()`, and `kanna computer`, which calls the backend itself. The person moves the mouse, opens and
closes windows, plugs phones in and out and loses the browser between any two commands.

### Files

One call of a process is a row of guards, evaluated at `check` in the order of the code, and then the
effects one by one: opening a file for writing (which empties it), filling it, removing, scanning a
directory entry by entry, the minute `soffice` may take. Between any two of them the other process does the
same; a write may fail half way (`Raises`), a process may be killed (`Crash`). `before`, `replaced` and
`touched` are histories. What `rmtree()` comes across first is any order (`Entries`). `Judge` is `verify()`
on what the tool reported, `Retry` the revision of the step, which may ask to overwrite. What a file
contains is who wrote it, whether it is whole and whether it is text.

### Documents

The chain read or look, author or answer, render, each tool fed with the result of the one before. A JSON
value carries its type, because the schemas and the parsers of model replies (`Structure`, `ParseStatement`,
`ParseReceipt`, `AuthorResult`, `Questions`, `SolveResult`) look at nothing else. Each schema is the
predicate that its `validate()` computes (`ReadOutput`, `AuthorInput`, `GenerateInput`, ...), put together
from `Str`, `Array`, `Obj` and `Property` as the code puts it together from `string()`, `array()` and
`obj()`. A text is a sequence of opaque words, so that an id (`"Q", 3`) and an answer to it differ for every
number; white space around a text is a word of its own (`Space`), which `Strip` takes off, and a number in
digits is one (`Digits`). A value may be absent, null, true, a half, or of any other wrong type. A table of
a file keeps after how many headings it stands (`under`), which the reader does not look at: it gives all
tables to the last section and keeps the last of them. `Grid` is the table as a writer makes it, its rows
cut or filled to the number of headers. The loops of the code are recursive functions: `Picked` (one with a
`continue`), `Joined` (one that extends a list), `Placed` (the reader's, with its current section). A reply
of the model has any number of parts up to the bound and in one of them one defect of a list (`Defects`): a
field missing, of another type, empty, out of range. `ReadDocx` and `DocxBlocks`, `PdfBlocks`, `PptxBlocks`
are the reader and the three renderers, paragraph by paragraph. The document that is looked at or authored
from is closed afterwards (`NoFile`), which bounds the runs; a rendered one may be read again.

## 3. Runs

Passing runs (all bounds are named constants of the cfg):

| Run | What it explores | What it shows |
|---|---|---|
| `MCAgentLoop` | four tools of all levels, two argument objects of which one overwrites, four plans of one or two steps, two with references, one trust rule that comes and goes, one correction, all three gates; a history reader whose two queries fall anywhere | `Authorised`, `NoReplay`, `DenialIsFinal`, `OneLateCall`: what may be invoked, and when. `RowsInOrder`, `StatusHonest`, `AuditTrail`, `KeepsPromise`: what the database says about it, after crashes too, and where its two records differ. `SettledViewIsFinal`: a settled run is shown as it is, although it is read in two transactions. `RunEnds`: a cancelled run ends, and an unattended one waits for nobody |
| `DesktopWorker` | two tasks, two approval requests, one recording, a start-up that may fail | `NoGrantAfterGivingUp`, `CancelsOnlyItsTask`, `NoOrphanDialog`, `ComposerReturns`, `QuitInTimeCloses` |
| `Scheduler` | a reminder and an interval with a signal at any time; a weekly schedule beside one that ends the tick; 15 days of a fortnightly one; in each one stop or crash with its restart, rows added and removed while ticking, late ticks | `OncePerOccurrence`: no occurrence is run twice and an interval keeps its distance. `OnceUnlessInterrupted`. `DueIsRun`: what is due does not stay due, and is run or removed, but for the weekly occurrence that a midnight takes away. `StopEndsLoop` |
| `FinanceLedger` | two processes, three operations, a file with a new category, an unreadable row and a row that collides with a recurring expense; a daily expense and one of unknown frequency | `ReportsAddUp`: one process reports each row as created, and good rows arrive. `OccurrencesBooked`, `NeverTakenBack` |
| `Storage` | three processes that start at once, two migrations of two tables and one, two writes (and the log of those refused), crashes at any point | `VersionsImplyTables`, `ReadyMeansMigrated`, `CallersKnow`, `LockIsPassedOn` |
| `Devices` | every method on X11, on Windows, on a machine with neither, on no, one or two phones and in the browser; two points, two windows, one correction, two notches of a scroll, two browser sessions | `SuccessIsReal`: what a success of a computer tool means, scroll excluded, and on X11 the clipboard. `ActsOnce`: nothing irreversible happens unasked or twice in a step. `NoStrayBrowser`: what stays behind is only what `close()` itself failed to end. `SameSession` |
| `Files` | two processes with any of the tools on two files and a project of two, from every set of files that may be there, the last of the project being a text too long for a search; one correction | `OldFilesSurvive`: no file that others leave alone is replaced unasked. `OkIsEarned`: what counts as done is done, what is reported is true. `SearchIsComplete`: no file that was there all along is missed, but for too long a text |
| `Documents` | every document of up to three paragraphs, the second with white space around its text, and two tables at any place; every reply of up to two parts with one defect; five calls in any order the references allow (103 680 distinct states) | `TextIsKept`: reading; every text and every table once, in order, the texts under their headings, the tables all with the last section. `ReadBack`: reading what was written, cells included. `BadPartsOnly`: a malformed section, row or item of a reply costs only itself, but for `level: true`. `HandedOnFits`, `AnswersMatch` |

`CHECK_DEADLOCK FALSE` is set because every one of these systems may really stop: a run returns, a window
is destroyed, a daemon is told to stop, a bound is reached. The type invariants
(`TypeOK`, `DesktopTypeOK`, `SchedulerTypeOK`, ...) are proved in section 4; `Documents` has none, as its
values carry their types and its properties are about these.

Why the bounds are enough: two steps are needed for an order among rows and a reference, one correction
for a retry and for a cancellation between the two attempts, two tasks and two requests for one to
inherit something of the other, two schedules for one to harm the other, one crash for every recovery
there is (nothing in the code counts crashes), 15 days for two occurrences of a fortnightly schedule
with a wrong week between them, two processes and three operations for one to overtake the other twice,
three processes for one to wait while another commits and a third starts. Two points tell a click in the
right place from one in the wrong place, two windows a closed one from one still open, two sessions a page
from the page that took its place. Two files of a project are enough for a skeleton that is half there or
half written, two matches for a search cut short, two processes for a look that is stale at the write
(no file tool counts its competitors). Three paragraphs make a text before a heading, a heading and what
follows it; two parts a good one after a bad one; five calls the longest chain: read, author,
render, and in the next plan read and render what was written. The replies to an author or a solver are
explored for sources of one section: what the code asks of the source is only whether there is text in it.
What holds for every value of the constants is in section 4.

Runs that end in a violation state what a text of the repository says and the code does not do; the
findings in `PROJECT.json` quote both.

| Run | Property | What happens |
|---|---|---|
| `Desktop_lost_cancel` | `AcceptedCancelIsKept` | a cancellation between `submit()` and the worker's `clear()` is accepted and erased |
| `Scheduler_poison` | `DueIsRun` | a weekly cadence that starts far ahead ends every tick, so later schedules never run |
| `Finance_stuck_recurring` | `DueIsMaterialised` | a crash between two statements leaves a recurring expense stuck for good |
| `Storage_stuck_reader` | `BrowsingBlocksNobody` | a read after a statement that timed out fixes the connection's snapshot; after the next commit elsewhere all its writes are refused for good |

Other disagreements met while modelling, without a run of their own.

* The run. A cancellation while a step is being revised is followed by one more invocation, although
  docs/DESKTOP.md:114 promises a stop at the next safe point (`loop.py:159`; `OneLateCall` says it is one).
  A run in progress, or whose process died, is shown with steps "Not run — an earlier step failed first"
  although none did (`Shown` in `RunHistory`; `history.py:37` says what pending means). `_revise()` is
  commented "Never raises" but lets a provider's error through (`Raise`; the plan stays `in_progress`). A
  step whose checks fail has a row "failed" beside an `execution_log` entry "success", which the registry
  wrote before the checks (`verification_failed`, `loop.py:167`; `AuditTrail` names it as the only way in
  which the two records differ). `validate_template()` raises a TypeError for a literal `source_text`, whose
  schema is a `OneOfSchema` (`bindings.py:30`).
* The desktop. A task sent with Ctrl+Enter before the window has polled `ready` runs with its Cancel button
  disabled (`Poll`; docs/DESKTOP.md:110). A quit in the moment between the poll of `stopped` and the end of
  the worker thread never closes the window (which is why `QuitInTimeCloses` has its condition).
* The daemon. A signal between `install_signal_handlers()` and the first line of `run_forever()` is
  forgotten (which is why `StopEndsLoop` speaks of a stop inside the loop).
* The database. The slower of two first starts raises an IntegrityError out of `migrate()` (`Record` in
  `Storage`), which docs/ARCHITECTURE.md calls "safe to call on every startup".
* The ledger. A CSV row that loses the race for a new category is reported as an error and its expense is
  not booked (which is why the second half of `ReportsAddUp` excludes it).
* Devices. adb's exit code is ignored for taps, text and keys (`Phone`; `phone.py:170` against
  `phone.py:248`), so their success says little; `SuccessIsReal` is about the computer. There xclip's exit
  code is ignored too (`fedora.py:142`), so `computer_set_clipboard` can report a success on X11 with
  nothing copied, although `fedora.py:13` has every operation either act or raise and docs/DEVICES.md:174
  says "never a silent no-op reported as success"; the property leaves this one method out. It leaves out
  `computer_scroll` as well, which may be asked for no notch, and whose positive `dy` goes up on Windows
  although its description says down (`tools/computer/tools.py:129`). After its browser has died the page is
  kept, and each browser action fails until the process is reset (`EnsurePage`). `close()` swallows its
  failures and drops its references (`playwright_backend.py:142`), so a driver or a browser it could not end
  is `lost` and runs on. `page.title()` after a click is outside the `try`: the step becomes an execution
  error and is retried, which clicks again (`ActsOnce` leaves the browser out).
* Files. `fs_write_file` looks and then opens: a file created in between is replaced unasked (`write.py:41`
  against `write.py:11`; `OldFilesSurvive` is about files that nobody else has touched since the call began,
  so it does not cover what this window costs). A search passes over a text of more than 2 MB and still says
  `truncated: false` (`search.py:55`; `long_text` in `OldData`, which is why `SearchIsComplete` speaks of
  texts up to that size). Output of a program that is no UTF-8 makes `run_program` an execution error after
  the program has run, and the retry runs it again (`run_process.py:98`). A PDF half copied over by a
  conversion that fails stays (`convert.py:87` against `convert.py:45`). A write or a skeleton that failed
  half way makes its own retry fail, as what it left exists. `fs_read_file` may cut its limit through a
  character and report a text file as `not_text` (`read.py:44`).
* Documents, reading and writing. A document with text before its first heading, Kanna's own with a subtitle
  or an author among them, is read into a section whose heading is None, and the read is refused as
  `invalid_output` (`reader.py:93`; which is why `ReadBack` asks for none). All tables of a document are
  given to its last section, wherever they stand, and the last of them is kept there (`reader.py:117`),
  although the reader "preserves its structure" (`reader.py:4`); `TextIsKept` says so, and `ReadBack` asks
  for a table under the last heading or none. The writers cut the rows of a table to the number of its
  headers and fill the short ones, without a word (`docx_writer.py:46`); a table without headers is not
  written. Texts are stripped when read. A paragraph without text is written and not read back (which is why
  `ReadBack` asks for texts without white space around them and none blank). A slide with bullets drops its
  paragraphs.
* Documents, replies. A section with `"level": true` passes the parser, as a bool is an int
  (`anthropic_document.py:305`), and is refused by `schema.py:71`: one bad part makes the whole call
  `invalid_output`, although the parsers say that a malformed entry is left out
  (`anthropic_document.py:200`, `:275`). `BadPartsOnly` states it as its one exception. Levels, fields and
  line items of a wrong type are dropped without the note the docstrings announce. Authored levels are not
  bounded although generation takes 1 to 9 (`tools/authoring/tools.py:66` says "directly compatible"; which
  is why `HandedOnFits` has its condition). `int()` takes "2", true and 2.5 for a level, and raises for any
  other text; `list()` takes an absent field for an empty one and raises for null (`llm_author.py:78`).
  Paragraphs given as one string become one paragraph per character (`llm_author.py:84`). A null title of
  the questions makes the answers `invalid_output`. Of questions with the same id the first gets the answers
  (`assignment.py:152`; which is why `AnswersMatch` asks for a question with the id, not for the one meant).

Behaviours the code accepts and no property forbids: a trust rule removed while the call it covers is on its
way; a cancellation during the last step of a run; two daemons at once; a seeding of the categories that
dies half way; a task accepted just before the worker closes; a weekly occurrence that no tick got to before
midnight, the daemon being down, busy or asleep (`schedule.py:64`; `ForgottenAtMidnight`, for schedules that
have never run). All but the second daemon are in the models.

Fairness. `AgentLoop` has `WF_vars(Agent)`: the thread is scheduled, provider and tool calls carry
timeouts, and none of the actions in `Agent` waits for a person; `GateGrants`, `UserDenies`,
`RequestCancel` are not fair. `DesktopWorker` has weak fairness of the worker thread, the poll (a Tk
timer) and the end of a recording (it lasts a fixed time); no click is fair. `Scheduler` has weak
fairness of the daemon process and of the service manager's restart; time, signals, commands and
crashes are not fair. `Storage` has weak fairness of the two commits and of what a
caller does after a refused statement (it waits for nobody), for `LockIsPassedOn` alone; no process has to
start, write or end. `FairHSpec` of `RunHistory` is the fairness of `AgentLoop`; the reader may stop
anywhere. `FinanceLedger`, `Devices`, `Files` and `Documents` have only safety properties and no fairness.

## 4. Proofs

Every safety invariant and action property that a passing run checks is proved, for every value of the
constants; so is the refinement of `AgentRun`. The assumptions are those
the modules name (`PermissionAssumption`, `LoopAssumption`, ...), which TLC evaluates in each run; they
type the constants and say little more. Almost none of the properties is inductive. Below is, for each
module, what had to be added and why that is so; the proofs have one lemma or step per conjunct and
action.

### AgentLoop and RunHistory

For every registry, set of valid plans, schema, set of trust rules, gate and correction budget:

| Theorem | States |
|---|---|
| `TypeCorrect`, `RowsStayInOrder`, `StatusStaysHonest` | `[]TypeOK`, `[]RowsInOrder`, `[]StatusHonest` |
| `NothingUnauthorised`, `NeverReplayed`, `DenialEndsCalls`, `LateCallIsLast` | `[]Authorised`, `[]NoReplay`, `[]DenialIsFinal`, `[]OneLateCall` |
| `RecordsAgree` | `[]AuditTrail`: the last entry of a recorded step says what its row says, or its checks failed |
| `RunKeepsPromise` | `KeepsPromise`: the rows implement `AgentRun` |
| `ViewIsFinal`, `ReaderIsHarmless` | `[]SettledViewIsFinal` of a run with a reader; such a run is a run |

That a row is overwritten with "ok" in order needs to know that the step in progress is the first one
still pending, and that `complete` is only written when all rows are ok needs to know that `idx` counts
them. `IInv` therefore adds `Position` (what the thread's place says about plan, index, arguments and
result) and `Progress` (what it says about the rows: before `idx` all ok, after it all pending, at it
pending until it is recorded).

The properties of the calls speak of a history; the code only has local variables. `CInv` adds what
connects the two: a body that is about to run was let run (`LetRun`; between that decision and the body
lie the trust store and the gate), the calls of the step in progress have not succeeded as long as the
thread may still call (`CallsSoFar`), it is not past a refusal or a cancelled call (`NothingFollows`), and
what is missing in the log was swallowed (`AllLogged`).

In the refinement six actions are steps of `AgentRun` (`InsertPlan`, `InsertStep`, `Record` of a success,
and the three that settle the status), all others stutter, a failed step's row included. For the reader
it is enough that a run whose status is settled writes no row any more (`View`): the second query then
reads what the first one implied.

### DesktopWorker

`DesktopTypes`, `GivenUpIsDenied` (`[]NoGrantAfterGivingUp`) and `CancelIsForItsTask`
(`[]CancelsOnlyItsTask`), for any number of tasks, requests and recordings. The cancel event is shared by
all tasks, and the click and the worker's `clear()` are not synchronised. What saves the code is `busy`:
it stands for exactly one task, the one last submitted, which is in the queue or in the worker's hands
(`OneTask`); so a click that finds `busy` means that task, or the event is cleared before the next one
starts (`CancelIsMine`). For the gate, `LastRequest` says that only the last request can be undecided, and
that one given up stays given up because the reason (stop or cancel) still holds at the verdict.

### Scheduler

`SchedulerTypes`, `OccurrencesRunOnce` (`[]OncePerOccurrence`), `RemindersRunOnce`
(`[]OnceUnlessInterrupted`) and `DueIsNeverDropped` (`DueIsKept`, the safety half of `DueIsRun`), for every
catalog of schedules, length of a day, number of crashes, with signals and without. The row recorded for a
job answers a new occurrence because of a look at `last_run_at()` two statements earlier; `DueNow` carries
that decision, which stays true as nobody but the tick writes jobs. `RunsAccounted` counts the executions of
a reminder: each is followed by its row, or by the crash that loses it. `DueIsNeverDropped` needs no
invariant but the types: it follows from what `NextRun` is for a later time and the same last run. Two
lemmas are about the arithmetic: the bounded search for a weekly date finds an occurrence later than the
last run, if it finds anything (`WeeklyOccurrence`), and a schedule that is due has an occurrence since its
last run (`DueOccurrence`).

### FinanceLedger

For any number of processes, files, recurring expenses, operations and crashes, and for every period (files
are sequences of rows, the recurring expenses are finitely many): `LedgerTypes`, `NoOccurrenceLost`
(`[]OccurrencesBooked`), `OccurrencesOnlyAdvance` (`NeverTakenBack`) and `ReportsAlwaysAddUp`
(`[]ReportsAddUp`).

The code has no lock around the look, the insert and the update of an occurrence; the argument why this
is safe is the inductive invariant `LInv`. What a process read as due is an occurrence (`Known`,
`Beat`), and if its insert is accepted nobody has moved the expense since, because an expense only moves
past what is booked (`NotPassed`). From then on the unique index keeps every other process from the same
row: between its insert and its update a process is alone with its transaction (`Alone`) and the expense
stays where it was read (`Mine`), so that the late update is never a step back. Two lemmas on remainders
(`BeatGoesOn`, `BeatSkipsNothing`) say that one period further is the next occurrence and that there is
none between.

`RInv` extends it to what the imports report. A report may only claim a transaction when the insert was
accepted; `Unclaimed` says that until the claim is written down nobody else has it, and `OneClaim` that
afterwards nobody gets it. `CsvBooked` is the converse for readable rows of a CSV file, whichever process
booked them.

### Storage

For any processes, migrations and writes (the scripts are sequences of names, none empty):
`RecordedIsApplied` (`[]VersionsImplyTables`), `StartedIsMigrated` (`[]ReadyMeansMigrated`),
`ExecuteIsHonest` (`[]CallersKnow`) and `StorageTypes`, which says who has the write lock.

The inductive invariant `SInv` says of each process what its script has created so far (`ScriptAt`), that
all versions its loop has passed are recorded (`PassedAt`), and that a write it may still commit has not
been reported as refused (`PendingAt`). Tables, versions and rows only grow, so a step of one process
keeps what is known of the others (`OthersStay`); the write lock is not needed for the argument, as every
statement of a migration may be repeated.

### Devices

`DevicesTypes`, `SuccessIsAlwaysReal` (`[]SuccessIsReal`), `OnceAndAsked` (`[]ActsOnce`), `NeverStray`
(`[]NoStrayBrowser`) and `OneSessionAtATime` (`SameSession`), for any points, windows, corrections, notches
and browser sessions. `SuccessIsReal` speaks of the methods of `Promised` that owe their effect (`Owes`),
which on X11 `set_clipboard` does not. The first half of the module is about the tables alone: what every
script of `Fedora`, `Windows`, `Phone` and `Browser` is like (one lemma for each, joined in `ScriptsSound`):
it has at most one irreversible command, the tools that ask nobody have none that is grave, a browser
without a page launches first, what keeps a promise has its exit code looked at. The second half is the
invariant `DInv`. A success is reported when nothing is left to do, so the promise has to be kept by what is
done together with what is still to come, whichever commands fail or are skipped on the way (`OnTheWay`).
`NoSecond` does the same for the irreversible ones, over the attempts of a step: as long as one is to come
none was done, and an attempt that has done one is not retried.

### Files

For every set of processes, skeleton of a project, limit of a search and number of corrections (the paths
are different, the skeleton has no file twice): `FilesTypes`, `NothingReplacedUnasked`
(`[]OldFilesSurvive`), `DoneIsEarned` (`[]OkIsEarned`) and `SearchesAreComplete` (`[]SearchIsComplete`).

A call looks at the disk and acts on it some steps later, without a lock. What it may still rely on is
`Undisturbed`: a path that nobody else has touched since the call began, and that the call itself has not
written, is as it was at the beginning, but for the directory another process may have made. On this
stand the conjuncts about one process: the targets it has yet to open and those it has filled
(`Working`), what it saw (`SeenRightly`), what a search must still come across (`Scanning`), what its
result and verdict are worth (`Returned`, `Judged`), and what it may have replaced (`Asked`). A step of one
process keeps all of them for every other (`AnotherStep`), because of the little it can do to a path
without touching it (`Elsewhere`).

### Documents

For documents with any number of paragraphs and tables, replies with any number of parts, sources and chains of
any length:

| Theorem | States |
|---|---|
| `TextSurvivesReading`, `WrittenComesBack` | `[]TextIsKept`, `[]ReadBack` |
| `BadPartsCostThemselves`, `AnswersStandRight` | `[]BadPartsOnly`, `[]AnswersMatch` |
| `HandedOnIsAccepted`, `ChainInvariant` | `[]HandedOnFits`, `[]ChainInv` |

The replies are those of the model: in one part of a reply one defect of the list, at any place. The lemmas
about the provider's parsers (`StructureFits`, `StructureKeeps`, `StatementKeeps`, `ReceiptKeeps`) are for
any reply whose parts are null or objects with the fields that were asked for, whatever these hold, in any
number of parts.

Three loops are functions that LET defines by recursion. What such a function computes cannot be cited, as
the theorems of the library that say it exists take an operator; so the proofs begin with a set of numbers
that is closed under adding one (`Induction`, by the least element it would miss), and with it a function
that iterates the steps exists on every 0..m (`Recursion`). From it follow the steps of each
(`PickedUnfolds`, `JoinedUnfolds`, `PlacedUnfolds`), and from then on only these are used. `PickedInOrder`
says what `continue` leaves: as many items as there are positions, the item of a position at its rank.

`TextIsKept` follows by induction on the paragraphs read so far: the sections stand for the headings among
them, and each has, in order, the texts after its heading and before the next (`PlaceHeadingKeeps`,
`PlaceTextKeeps`); a text before the first heading opens a section that no heading stands for. The tables
come after all paragraphs, so that they fall to the last section.

`ChainInv` is what relates the steps of a chain. A document is either written by a person or what `Render`
makes of arguments that fit the schema of the renderers (`Made`); a value that is handed on has the parts
the next tool looks at, each of the type its schema names (`Handing`). Every parser lands in it, whatever the
reply had instead (`StructureHanded`, `AuthorHanded`, `SolveHanded`); for `author_content` that is because the
registry refuses what does not fit (`invalid_output`).

`ReadBack` joins the two halves. What was just read is `ReadDocx` of the file (`ReadIs`), and the file is
`Render` of arguments that fit. The blocks of one section, placed one by one after any sections, add exactly
this section (`RunOfSection`), whatever was there before, so by induction on the sections the body read is
the sections given (`PlacedIsGiven`). As no table stands under an earlier heading, the file has at most one,
that of the last section (`OnlyTheLast`), and the reader gives it back to that section; its cells are those
of `Grid`, which are the ones given if the rows are even (`EvenIsKept`). The conditions that texts are bare
and each section has a heading are used in the first of these steps, the one on tables in the second:
without them the induction fails, as does the property.

### What is only model-checked

* All liveness properties: `RunEnds`, `NoOrphanDialog`, `ComposerReturns`, `QuitInTimeCloses`, the first
  half of `DueIsRun`, `StopEndsLoop`, `LockIsPassedOn`. TLAPS has no ENABLED and no fairness here.
* That a violated property is violated: the runs of the second table are counterexamples, not theorems.

No module has a RECURSIVE operator: what `Permissions` and `Schedules` compute is there as least elements and
sets, what `Documents` computes as functions and schemas of a fixed depth, and the lemmas about it
(`WeeklyOccurrence`, `DueOccurrence`, `PickedInOrder`, `PlacedIsGiven`) are proved for every input.

## 5. What is left out

Formatting, wording, logging, progress labels and the tray. The content of plans, prompts, files and tool
results, beyond what the code branches on. Locks inside SQLite, except in `Storage`: elsewhere a statement
is atomic, and a busy database is one of the failures of `Raise`. Two daemons at once (docs/SCHEDULER.md
expects one process to tick). `list_runs()`, whose summaries carry no messages. `vision/ocr`, which no tool
calls; references to sources and notes in replies; the layout of PDF pages and slides; sandbox path
arithmetic, which is the predicate `Inside`; key names and what the commands of a device print. In the
ledger: budgets, queries, keyword rules, the creation of recurring expenses and month lengths.

Components that are not modelled at all, each with its reason in `PROJECT.json`: sessions, tasks, the event
bus, the LLM providers' network clients, the desktop's start-up, singleton and hotkey, configuration and
logging, the command line's printing, and the parsing, analytics and export of the finance package.

## 6. Plan

In this order, each with its own type invariant, properties, mutants and, where it says so, proofs.

1. `Bindings`: references and templates as pure operators, checked against a reference definition of
   what a resolved argument is; `resolve()` never leaves a reference in place (used by `TypeOK`).
2. `Singleton` and `Settings`: two desktop starts racing for the socket, and the settings and start-up
   files replaced while another process reads them.
3. `Budgets`: money rounding, month-end recurrence and budget periods as pure operators.

Every safety property that a passing run checks is proved; the proofs to come are those of these modules.
