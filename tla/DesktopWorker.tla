---------------------------- MODULE DesktopWorker ----------------------------
(***************************************************************************)
(* The desktop application's threads: the Tk thread (interfaces/desktop/     *)
(* app.py), the single worker thread that owns every task (worker.py), the   *)
(* DesktopGate by which a task asks for approval across them, and the voice  *)
(* thread. They share two queues, two threading.Events, the worker's busy    *)
(* flag and the ApprovalRequest objects.                                     *)
(*                                                                         *)
(* A task's AgentLoop.run() is reduced to what crosses the threads: it may   *)
(* ask for approval, it may notice the cancel event, and it ends. AgentLoop  *)
(* models the run itself. Progress, tray and "show" events only change       *)
(* labels and are left out.                                                 *)
(***************************************************************************)
EXTENDS Integers, Sequences

CONSTANTS
    MaxTasks,       \* bound: tasks the user submits
    MaxAsks,        \* bound: approval requests of all tasks together
    MaxVoice,       \* bound: voice recordings
    MayFailToStart  \* bootstrap() may raise

ASSUME DesktopAssumption ==
    /\ MaxTasks \in Nat /\ MaxAsks \in Nat /\ MaxVoice \in Nat
    /\ MayFailToStart \in BOOLEAN

Task == 1..MaxTasks

Request == 1..MaxAsks

Event == [kind : {"ready", "approval", "approval_resolved", "outcome", "idle", "startup_error",
                  "transcript", "stopped"},
          id : 0..MaxAsks]

VARIABLES
    wpc,        \* where the worker thread is
    current,    \* the task it executes
    commands,   \* _commands: tasks and Close
    events,     \* events, towards the Tk thread
    ready, busy, stop, cancel,  \* ready, _busy, _stop, _cancel
    asked,      \* ApprovalRequests made so far
    answered,   \* requests whose answered event is set
    allowed,    \* requests whose allowed flag is True
    window,     \* "open" or "destroyed"
    uiBusy, recording, closing, \* busy, recording, closing
    cancelBtn,  \* the Cancel button is enabled
    dialog,     \* the request of the open approval dialog, or NoDialog
    voiced,     \* recordings started
    submitted,  \* history: tasks submitted
    accepted,   \* history: tasks for which cancel() returned True
    noticed,   \* history: tasks that noticed the cancel event
    ended,      \* history: tasks whose run is over
    granted,    \* history: requests the gate let pass
    givenUp     \* history: requests the gate answered itself

worker  == <<wpc, current, ready>>
flags   == <<busy, stop, cancel>>
gate    == <<asked, answered, allowed>>
ui      == <<window, uiBusy, recording, closing, cancelBtn, dialog, voiced>>
history == <<submitted, accepted, noticed, ended, granted, givenUp>>
vars    == <<worker, commands, events, flags, gate, ui, history>>

Close == 0
NoDialog == 0

Ev(kind) == [kind |-> kind, id |-> 0]

Put(event) == events' = Append(events, event)

Init ==
    /\ wpc = "starting" /\ current = 0 /\ commands = <<>> /\ events = <<>>
    /\ ready = FALSE /\ busy = FALSE /\ stop = FALSE /\ cancel = FALSE
    /\ asked = 0 /\ answered = {} /\ allowed = {}
    /\ window = "open" /\ uiBusy = FALSE /\ recording = FALSE /\ closing = FALSE
    /\ cancelBtn = FALSE /\ dialog = NoDialog /\ voiced = 0
    /\ submitted = 0 /\ accepted = {} /\ noticed = {} /\ ended = {}
    /\ granted = {} /\ givenUp = {}

-----------------------------------------------------------------------------
(* The worker thread: _run(). *)

\* The factory and the session succeeded.
StartUp ==
    /\ wpc = "starting"
    /\ ready' = TRUE /\ wpc' = "announce"
    /\ UNCHANGED <<current, commands, events, flags, gate, ui, history>>

StartUpFails ==
    /\ wpc = "starting" /\ MayFailToStart
    /\ Put(Ev("startup_error")) /\ wpc' = "cleanup"
    /\ UNCHANGED <<current, commands, ready, flags, gate, ui, history>>

Announce ==
    /\ wpc = "announce"
    /\ Put(Ev("ready")) /\ wpc' = "loop"
    /\ UNCHANGED <<current, commands, ready, flags, gate, ui, history>>

\* Fault: close() leaves no poison pill in the queue.
GetWithoutClose ==
    /\ wpc = "get" /\ commands # <<>> /\ Head(commands) # Close
    /\ commands' = Tail(commands)
    /\ wpc' = "clear" /\ current' = Head(commands)
    /\ UNCHANGED <<events, ready, flags, gate, ui, history>>

\* while not self._stop.is_set()
LoopHead ==
    /\ wpc = "loop"
    /\ wpc' = IF stop THEN "cleanup" ELSE "get"
    /\ UNCHANGED <<current, commands, events, ready, flags, gate, ui, history>>

\* _commands.get(); a task fetched after stop was set is dropped.
Get ==
    /\ wpc = "get" /\ commands # <<>>
    /\ commands' = Tail(commands)
    /\ IF Head(commands) = Close \/ stop
       THEN wpc' = "cleanup" /\ UNCHANGED current
       ELSE wpc' = "clear" /\ current' = Head(commands)
    /\ UNCHANGED <<events, ready, flags, gate, ui, history>>

\* Fault: the cancel event is left as it is.
ClearNothing ==
    /\ wpc = "clear"
    /\ wpc' = "run"
    /\ UNCHANGED <<current, commands, events, ready, flags, gate, ui, history>>

\* _cancel.clear(), so that an earlier task's cancellation is not this one's.
ClearCancel ==
    /\ wpc = "clear"
    /\ cancel' = FALSE /\ wpc' = "run"
    /\ UNCHANGED <<current, commands, events, ready, busy, stop, gate, ui, history>>

\* DesktopGate.approve(): a new request, shown to the user.
Ask ==
    /\ wpc = "run" /\ asked < MaxAsks
    /\ asked' = asked + 1 /\ wpc' = "wait"
    /\ Put([kind |-> "approval", id |-> asked'])
    /\ UNCHANGED <<current, commands, ready, flags, answered, allowed, ui, history>>

GateAnswered ==
    /\ wpc = "wait" /\ asked \in answered
    /\ wpc' = "verdict"
    /\ UNCHANGED <<current, commands, events, ready, flags, gate, ui, history>>

\* Fault: the UI is not told.
GateGivesUpSilently ==
    /\ wpc = "wait" /\ asked \notin answered /\ (stop \/ cancel)
    /\ answered' = answered \cup {asked} /\ allowed' = allowed \ {asked}
    /\ givenUp' = givenUp \cup {asked} /\ wpc' = "verdict"
    /\ UNCHANGED <<current, commands, events, ready, flags, asked, ui, submitted, accepted,
                   noticed, ended, granted>>

\* The 0.1 s wait timed out on a closing application or a cancelled task:
\* respond(False), and the UI is told to close the dialog.
GateGivesUp ==
    /\ wpc = "wait" /\ asked \notin answered /\ (stop \/ cancel)
    /\ answered' = answered \cup {asked} /\ allowed' = allowed \ {asked}
    /\ givenUp' = givenUp \cup {asked} /\ wpc' = "verdict"
    /\ Put([kind |-> "approval_resolved", id |-> asked])
    /\ UNCHANGED <<current, commands, ready, flags, asked, ui, submitted, accepted,
                   noticed, ended, granted>>

\* Fault: the gate returns the answer as it stands.
GateReturnsUnchecked ==
    /\ wpc = "verdict"
    /\ IF asked \in allowed
       THEN wpc' = "run" /\ granted' = granted \cup {asked}
       ELSE wpc' = "denied" /\ UNCHANGED granted
    /\ UNCHANGED <<current, commands, events, ready, flags, gate, ui, submitted, accepted,
                   noticed, ended, givenUp>>

\* The answer counts only if nothing was stopped or cancelled meanwhile. A
\* denial is terminal for the run (AgentLoop's Terminal).
GateReturns ==
    /\ wpc = "verdict"
    /\ IF asked \in allowed /\ ~stop /\ ~cancel
       THEN wpc' = "run" /\ granted' = granted \cup {asked}
       ELSE wpc' = "denied" /\ UNCHANGED granted
    /\ UNCHANGED <<current, commands, events, ready, flags, gate, ui, submitted, accepted,
                   noticed, ended, givenUp>>

\* run() returns or raises; the "result" or "error" event is put. A run that
\* completes its plan does not look at the cancel event any more.
RunEnds ==
    /\ \/ wpc \in {"run", "denied"} /\ cancel /\ noticed' = noticed \cup {current}
       \/ (wpc = "run" \/ (wpc = "denied" /\ ~cancel)) /\ UNCHANGED noticed
    /\ Put(Ev("outcome"))
    /\ ended' = ended \cup {current} /\ wpc' = "free"
    /\ UNCHANGED <<current, commands, ready, flags, gate, ui, submitted, accepted,
                   granted, givenUp>>

\* finally: _busy = False under the lock, then the "idle" event.
Free ==
    /\ wpc = "free"
    /\ busy' = FALSE /\ wpc' = "idle"
    /\ UNCHANGED <<current, commands, events, ready, stop, cancel, gate, ui, history>>

\* Fault: the UI is not told that the task is over.
IdleUntold ==
    /\ wpc = "idle"
    /\ wpc' = "loop"
    /\ UNCHANGED <<current, commands, events, ready, flags, gate, ui, history>>

Idle ==
    /\ wpc = "idle"
    /\ Put(Ev("idle")) /\ wpc' = "loop"
    /\ UNCHANGED <<current, commands, ready, flags, gate, ui, history>>

\* finally: ready = False, the session is ended, the resources are closed.
CleanUp ==
    /\ wpc = "cleanup"
    /\ ready' = FALSE /\ wpc' = "farewell"
    /\ UNCHANGED <<current, commands, events, flags, gate, ui, history>>

Farewell ==
    /\ wpc = "farewell"
    /\ Put(Ev("stopped")) /\ wpc' = "exiting"
    /\ UNCHANGED <<current, commands, ready, flags, gate, ui, history>>

\* The thread is alive until the interpreter has left _run().
ThreadEnds ==
    /\ wpc = "exiting"
    /\ wpc' = "dead"
    /\ UNCHANGED <<current, commands, events, ready, flags, gate, ui, history>>

Worker ==
    \/ StartUp \/ StartUpFails \/ Announce \/ LoopHead \/ Get \/ ClearCancel
    \/ Ask \/ GateAnswered \/ GateGivesUp \/ GateReturns \/ RunEnds
    \/ Free \/ Idle \/ CleanUp \/ Farewell \/ ThreadEnds

-----------------------------------------------------------------------------
(* The Tk thread: the user's clicks, and the poll of the event queue. *)

\* _set_busy()
SetBusy(b) == uiBusy' = b /\ cancelBtn' = (b /\ ~closing)

\* _on_send() with a text that submit() accepts; Ctrl+Enter works before the
\* "ready" event has enabled the button.
Send ==
    /\ window = "open" /\ submitted < MaxTasks
    /\ ~uiBusy /\ ~recording /\ ~closing
    /\ ready /\ ~busy /\ ~stop
    /\ busy' = TRUE
    /\ submitted' = submitted + 1 /\ commands' = Append(commands, submitted')
    /\ SetBusy(TRUE)
    /\ UNCHANGED <<worker, events, stop, cancel, gate, window, recording, closing, dialog, voiced,
                   accepted, noticed, ended, granted, givenUp>>

\* DesktopWorker.cancel(), which does nothing unless a task is running.
WorkerCancel ==
    IF busy THEN cancel' = TRUE /\ accepted' = accepted \cup {submitted}
            ELSE UNCHANGED <<cancel, accepted>>

\* _on_cancel()
ClickCancel ==
    /\ window = "open" /\ cancelBtn
    /\ WorkerCancel
    /\ cancelBtn' = (IF busy THEN FALSE ELSE cancelBtn)
    /\ UNCHANGED <<worker, commands, events, busy, stop, gate, window, uiBusy, recording, closing,
                   dialog, voiced, submitted, noticed, ended, granted, givenUp>>

\* ApprovalRequest.respond()
Respond(id, value) ==
    /\ allowed' = IF value THEN allowed \cup {id} ELSE allowed \ {id}
    /\ answered' = answered \cup {id}

\* "Allow once", "Deny", Escape or closing the dialog.
Answer ==
    /\ window = "open" /\ dialog # NoDialog
    /\ \E value \in BOOLEAN : Respond(dialog, value)
    /\ dialog' = NoDialog
    /\ UNCHANGED <<worker, commands, events, flags, asked, window, uiBusy, recording, closing,
                   cancelBtn, voiced, history>>

\* The dialog's "Cancel task".
AnswerCancelTask ==
    /\ window = "open" /\ dialog # NoDialog
    /\ WorkerCancel
    /\ Respond(dialog, FALSE)
    /\ dialog' = NoDialog
    /\ UNCHANGED <<worker, commands, events, busy, stop, asked, window, uiBusy, recording, closing,
                   cancelBtn, voiced, submitted, noticed, ended, granted, givenUp>>

\* _voice()
StartVoice ==
    /\ window = "open" /\ voiced < MaxVoice
    /\ ~uiBusy /\ ~recording /\ ~closing
    /\ recording' = TRUE /\ voiced' = voiced + 1
    /\ SetBusy(TRUE)
    /\ UNCHANGED <<worker, commands, events, flags, gate, window, closing, dialog, history>>

\* The voice thread's "transcript" or "voice_error".
VoiceDone ==
    /\ recording /\ \A i \in DOMAIN events : events[i].kind # "transcript"
    /\ Put(Ev("transcript"))
    /\ UNCHANGED <<worker, commands, flags, gate, ui, history>>

\* _quit(), confirmed; the worker's close() inside.
Quit ==
    /\ window = "open" /\ ~closing
    /\ closing' = TRUE /\ uiBusy' = TRUE /\ cancelBtn' = FALSE
    /\ stop' = TRUE /\ commands' = Append(commands, Close)
    /\ window' = IF wpc = "dead" THEN "destroyed" ELSE "open"
    /\ UNCHANGED <<worker, events, busy, cancel, gate, recording, dialog, voiced, history>>

\* One turn of _poll()'s loop. Turns of one poll are not interleaved with
\* clicks in the code; letting them be adds behaviours and removes none.
Poll ==
    /\ window = "open" /\ events # <<>>
    /\ events' = Tail(events)
    /\ LET event == Head(events) IN
       \/ /\ event.kind \in {"ready", "idle"}
          /\ SetBusy(FALSE)
          /\ UNCHANGED <<gate, window, recording, dialog>>
       \/ /\ event.kind = "transcript"
          /\ recording' = FALSE /\ SetBusy(FALSE)
          /\ UNCHANGED <<gate, window, dialog>>
       \/ /\ event.kind = "approval" /\ closing
          /\ Respond(event.id, FALSE)
          /\ UNCHANGED <<asked, window, uiBusy, recording, cancelBtn, dialog>>
       \/ /\ event.kind = "approval" /\ ~closing
          /\ dialog' = event.id
          /\ UNCHANGED <<gate, window, uiBusy, recording, cancelBtn>>
       \/ /\ event.kind = "approval_resolved"
          /\ dialog' = IF dialog = event.id THEN NoDialog ELSE dialog
          /\ UNCHANGED <<gate, window, uiBusy, recording, cancelBtn>>
       \/ /\ event.kind = "stopped"
          /\ window' = IF closing THEN "destroyed" ELSE "open"
          /\ UNCHANGED <<gate, uiBusy, recording, cancelBtn, dialog>>
       \/ /\ event.kind \in {"outcome", "startup_error"}
          /\ UNCHANGED <<gate, window, uiBusy, recording, cancelBtn, dialog>>
    /\ UNCHANGED <<worker, commands, flags, closing, voiced, history>>

User == Send \/ ClickCancel \/ Answer \/ AnswerCancelTask \/ StartVoice \/ Quit

Next == Worker \/ Poll \/ VoiceDone \/ User

\* The threads are scheduled, tasks end and recordings last 4 seconds; the
\* user owes nothing, not even an answer to a dialog.
Spec == Init /\ [][Next]_vars /\ WF_vars(Worker) /\ WF_vars(Poll) /\ WF_vars(VoiceDone)

-----------------------------------------------------------------------------
(* Properties. *)

DesktopTypeOK ==
    /\ wpc \in {"starting", "announce", "loop", "get", "clear", "run", "wait", "verdict", "denied",
                "free", "idle", "cleanup", "farewell", "exiting", "dead"}
    /\ current \in Task \cup {0}
    /\ commands \in Seq(Task \cup {Close})
    /\ events \in Seq(Event)
    /\ {ready, busy, stop, cancel, uiBusy, recording, closing, cancelBtn} \subseteq BOOLEAN
    /\ asked \in 0..MaxAsks /\ answered \subseteq Request /\ allowed \subseteq answered
    /\ window \in {"open", "destroyed"}
    /\ dialog \in Request \cup {NoDialog}
    /\ voiced \in 0..MaxVoice
    /\ submitted \in 0..MaxTasks
    /\ accepted \cup noticed \cup ended \subseteq Task
    /\ granted \cup givenUp \subseteq Request

\* An approval clicked in a dialog that outlived its task's cancellation or the
\* application's shutdown is not honoured: a request the gate has denied by
\* itself is never granted.
NoGrantAfterGivingUp == granted \cap givenUp = {}

\* Cancelling one task never cancels another one: a run that stops because of
\* the event is one for which cancel() was called and returned True.
CancelsOnlyItsTask == noticed \subseteq accepted

\* A dialog whose request was answered elsewhere does not stay open.
NoOrphanDialog ==
    \A r \in Request : dialog = r /\ r \in answered ~> dialog # r

\* The composer comes back: whatever ends the task, its "idle" event enables
\* the window again, unless the user is closing it or a dialog is waiting.
ComposerReturns == uiBusy ~> (~uiBusy \/ closing \/ dialog # NoDialog)

\* Quit closes the window once the current workflow has returned, pending
\* approvals being denied, whatever the worker is doing: waiting for a command,
\* running a task or waiting for an answer. It needs the worker's "stopped" event
\* to be still before the window: after a failed start-up one polled before the
\* click is not put again, and a click before the thread is dead waits for ever.
StoppedIsAhead ==
    \/ wpc \notin {"exiting", "dead"}
    \/ \E i \in DOMAIN events : events[i].kind = "stopped"

QuitInTimeCloses == closing /\ StoppedIsAhead ~> window = "destroyed"

\* cancel(): "Request cancellation of the task currently running"; _on_cancel:
\* "cancellation is already requested" (and the button goes grey).
AcceptedCancelIsKept ==
    \A t \in accepted : t \notin ended => cancel
=============================================================================
