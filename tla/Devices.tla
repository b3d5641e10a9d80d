------------------------------- MODULE Devices -------------------------------
(***************************************************************************)
(* The tools that act on a screen: computer_* over X11 (FedoraAgent) or      *)
(* PowerShell (WindowsAgent), phone_* over adb (AdbPhoneAgent), browser_*    *)
(* over one Playwright page; and who calls them: a step of the agent loop,   *)
(* with its approval and its retries, or the command line.                   *)
(*                                                                         *)
(* A method of a backend is a script of external commands. Each command      *)
(* takes effect, is refused (a non-zero exit code, which the code looks at   *)
(* or not), or times out with or without its effect. All the while a person  *)
(* uses the same screen, phone and browser.                                  *)
(***************************************************************************)
EXTENDS Integers, Sequences, FiniteSets, SequencesExt

CONSTANTS
    Point,
    Window,         \* windows the application in question may open
    MaxCorrections, \* retries of one plan step
    Notches,        \* bound: notches of one scroll
    MaxSessions     \* bound: browsers launched

ASSUME DeviceAssumption ==
    /\ Point # {} /\ IsFiniteSet(Window)
    /\ MaxCorrections \in Nat /\ Notches \in Nat /\ MaxSessions \in Nat

VARIABLES
    machine,    \* "x11", "windows" or "bare": what get_computer_agent() detects
    attached,   \* phones adb lists as usable
    call,       \* who calls which method of which family, at which point
    pc,         \* "idle", "asking", "running", "judging"
    attempt,    \* invocations of this plan step so far
    todo,       \* the commands left of this invocation
    code,       \* its result: "ok" or the error code
    did,        \* effects of this invocation
    presses,    \* effects of this step that nothing can undo, over all attempts
    approved,   \* a person has approved this invocation
    pointer, pressedAt, disturbed,  \* the mouse, its last press, whether the person moved it
    windows, found, \* the open windows, those close_application() has found
    driver, chromium, page,     \* what _playwright and _browser stand for; "lost" once nothing does; _page
    session, lastSession, sessions  \* of the page, of the last success, launched so far

judged  == <<call, attempt, approved>>
effects == <<did, presses, pointer, pressedAt, windows, chromium, driver, page, session, sessions>>
world   == <<machine, attached>>
vars    == <<judged, effects, world, pc, todo, code, disturbed, found, lastSession>>

-----------------------------------------------------------------------------
(* What the tools offer: the methods of a family, each with its permission level. *)

Levels(low, review) == [m \in low \cup review |-> IF m \in low THEN "LOW" ELSE "REVIEW"]

ComputerTools == Levels(
    {"screenshot", "move_mouse", "scroll", "get_clipboard", "set_clipboard",
     "open_application", "inspect_screen"},
    {"click", "type_text", "key_press", "close_application"})

PhoneTools == Levels(
    {"screenshot", "scroll", "open_application", "inspect_screen"},
    {"click", "type_text", "key_press", "close_application"})

BrowserTools == Levels({"navigate", "get_text", "page_screenshot", "go_back"},
                       {"browser_click", "fill"})

Tools == [computer |-> ComputerTools, phone |-> PhoneTools, browser |-> BrowserTools]

\* `kanna computer ...` has no scroll.
CliMethods == DOMAIN ComputerTools \ {"scroll"}

\* Each tool turns CapabilityUnavailable or BrowserUnavailable into its family's code;
\* what else a browser action raises is "<action>_failed".
UnavailableCode ==
    [computer |-> "computer_control_unavailable", phone |-> "phone_control_unavailable",
     browser |-> "browser_unavailable"]

\* Fault: the loop takes a device that does not answer for something to try again.
TerminalForgetful(c) == c \in {"approval_denied"}

\* After which codes _run_step() does not try again.
Terminal(c) == c \in {"approval_denied"} \cup {UnavailableCode[f] : f \in DOMAIN UnavailableCode}

\* The points a caller can ask for: only a pointer method has one.
Targets(m) == IF m \in {"click", "move_mouse"} THEN Point ELSE {call.at}

-----------------------------------------------------------------------------
(* Scripts. A command's exit code may be checked, ignored, or the command may be *)
(* optional: then not even its timeout matters.                                  *)

Checked(effect)  == [does |-> effect, kind |-> "checked"]
Ignored(effect)  == [does |-> effect, kind |-> "ignored"]
Optional(effect) == [does |-> effect, kind |-> "optional"]

\* Fault: nobody looks whether windowclose has closed the window.
EndUnchecked(w)  == [does |-> "end", kind |-> "ignored", window |-> w]

End(w)           == [does |-> "end", kind |-> "checked", window |-> w]

Times(n, command) == [i \in 1..n |-> command]

\* Each method has a set of scripts, one for each kind of argument it branches on.
\* A scroll of FedoraAgent is one command per notch, none for no notch.
Fedora ==
    [screenshot |-> {<<Checked("look")>>}, get_clipboard |-> {<<Checked("look")>>},
     move_mouse |-> {<<Checked("move")>>}, click |-> {<<Checked("move"), Checked("press")>>},
     type_text |-> {<<Checked("type")>>}, key_press |-> {<<Checked("key")>>},
     scroll |-> {Times(n, Checked("wheel")) : n \in 0..Notches},
     set_clipboard |-> {<<Ignored("copy")>>}, open_application |-> {<<Checked("launch")>>},
     close_application |-> {<<Ignored("search")>>},
     inspect_screen |-> {<<Checked("look"), Ignored("look")>>}]

\* Every command is one script for PowerShell: all notches, or all processes, at once.
\* mouse_event() turns the wheel upwards for a positive amount, which is what a
\* positive dy becomes here.
Windows ==
    [screenshot |-> {<<Checked("look")>>}, inspect_screen |-> {<<Checked("look")>>},
     move_mouse |-> {<<Checked("move")>>}, click |-> {<<Checked("move"), Checked("press")>>},
     type_text |-> {<<Checked("type")>>}, key_press |-> {<<Checked("key")>>},
     scroll |-> {<<Checked("nothing")>>, <<Checked("wheel up")>>},
     get_clipboard |-> {<<Ignored("look")>>}, set_clipboard |-> {<<Checked("copy")>>},
     open_application |-> {<<Checked("launch")>>}, close_application |-> {<<Checked("stop all")>>}]

\* adb's exit code is looked at only where output is parsed. A name that looks like a
\* package needs no look-up; a scroll by nothing stops after the screen's size.
Phone ==
    [screenshot |-> {<<Checked("look")>>}, inspect_screen |-> {<<Checked("look"), Optional("look")>>},
     click |-> {<<Ignored("press")>>}, type_text |-> {<<Ignored("type")>>},
     key_press |-> {<<Ignored("key")>>},
     scroll |-> {<<Checked("look"), Optional("look")>>,
                 <<Checked("look"), Optional("look"), Ignored("wheel")>>},
     open_application |-> {<<Checked("launch")>>, <<Checked("look"), Checked("launch")>>},
     close_application |-> {<<Ignored("force stop")>>, <<Checked("look"), Ignored("force stop")>>}]

\* A method of the browser first makes sure of a page, then acts, then, except for the
\* two that only look, observes what has become of the page.
Launch == <<[does |-> "start", kind |-> "launch"], [does |-> "launch browser", kind |-> "launch"],
            [does |-> "new page", kind |-> "launch"]>>

\* Fault: a page whose browser has died is replaced by a new one.
EnsurePageAlive == IF page /\ chromium = "alive" THEN <<>> ELSE Launch

EnsurePage == IF page THEN <<>> ELSE Launch

Browser(m) ==
    {EnsurePage \o <<[does |-> m, kind |-> "act"]>> \o
        (IF m \in {"get_text", "page_screenshot"} THEN <<>> ELSE <<[does |-> "observe", kind |-> "observe"]>>)}

\* Backend and scripts of the method called, as get_computer_agent() chooses; NullComputerAgent
\* refuses everything.
Scripts(c) ==
    CASE c.family = "phone"   -> Phone[c.method]
      [] c.family = "browser" -> Browser(c.method)
      [] c.family = "computer" /\ machine = "x11"     -> Fedora[c.method]
      [] c.family = "computer" /\ machine = "windows" -> Windows[c.method]
      [] OTHER -> {<<[does |-> "nothing", kind |-> "never"]>>}

-----------------------------------------------------------------------------
(* What one command does to the world. *)

Irreversible == {"press", "type", "key", "stop all", "force stop", "browser_click", "fill"}

Effect(c) ==
    /\ did' = did \cup {c.does}
    /\ presses' = IF c.does \in Irreversible THEN presses + 1 ELSE presses
    /\ pointer' = IF c.does = "move" THEN call.at ELSE pointer
    /\ pressedAt' = IF c.does # "press" THEN pressedAt
                    ELSE IF call.family = "phone" THEN call.at ELSE pointer
    /\ windows' = CASE c.does = "end" -> windows \ {c.window}
                    [] c.does \in {"stop all", "force stop"} -> {}
                    [] OTHER -> windows
    /\ driver' = IF c.does = "start" THEN "running" ELSE driver
    /\ chromium' = IF c.does = "launch browser" THEN "alive" ELSE chromium
    /\ page' = (page \/ c.does = "new page")
    /\ sessions' = IF c.does = "new page" THEN sessions + 1 ELSE sessions
    /\ session' = IF c.does = "new page" THEN sessions + 1 ELSE session

NoEffect == UNCHANGED effects

\* What the command needs in order to work at all.
Works(c) ==
    /\ c.kind # "never"
    /\ call.family = "phone" => attached = 1  \* adb refuses to guess which of two is meant
    /\ c.does = "end" => c.window \in windows
    /\ c.does = "stop all" => windows # {}
    /\ c.does = "new page" => chromium = "alive" /\ sessions < MaxSessions
    /\ c.kind \in {"act", "observe"} => chromium = "alive"

Ends(result) ==
    /\ pc' = "judging" /\ code' = result /\ todo' = <<>>
    /\ lastSession' = IF result = "ok" /\ call.family = "browser" THEN session' ELSE lastSession
    /\ UNCHANGED <<judged, world, disturbed, found>>

Continues ==
    IF Len(todo) = 1 THEN Ends("ok")
    ELSE /\ todo' = Tail(todo)
         /\ UNCHANGED <<judged, world, pc, code, disturbed, found, lastSession>>

Command == pc = "running" /\ todo # <<>> /\ Head(todo).does # "search"

\* An empty script: a scroll by nothing.
NothingToDo ==
    /\ pc = "running" /\ todo = <<>>
    /\ NoEffect /\ Ends("ok")

Done ==
    /\ Command /\ Works(Head(todo))
    /\ Effect(Head(todo)) /\ Continues

\* A non-zero exit code, nothing done.
Refused ==
    /\ Command /\ Head(todo).kind \in {"checked", "ignored", "optional"}
    /\ NoEffect
    /\ IF Head(todo).kind = "checked" THEN Ends(UnavailableCode[call.family]) ELSE Continues

\* subprocess.TimeoutExpired, after the effect or before it.
TimedOut ==
    /\ Command /\ Head(todo).kind \in {"checked", "ignored", "optional"}
    /\ NoEffect \/ (Works(Head(todo)) /\ Effect(Head(todo)))
    /\ IF Head(todo).kind = "optional" THEN Continues ELSE Ends(UnavailableCode[call.family])

\* _require(), _require_powershell(), _require_adb(): nothing is run at all.
NotThere ==
    /\ Command
    /\ \/ Head(todo).kind = "never"
       \/ call.family = "computer" /\ Head(todo).kind # "never"
       \/ call.family = "phone" /\ attached = 0
    /\ NoEffect
    /\ IF Head(todo).kind = "optional" THEN Continues ELSE Ends(UnavailableCode[call.family])

\* `xdotool search`: an empty answer, for whatever reason, means no window.
Search ==
    /\ pc = "running" /\ todo # <<>> /\ Head(todo).does = "search"
    /\ NoEffect
    /\ \/ /\ windows # {}
          /\ todo' = SetToSeq({End(w) : w \in windows}) /\ found' = windows
          /\ UNCHANGED <<judged, world, pc, code, disturbed, lastSession>>
       \/ Ends(UnavailableCode.computer)

\* close(): what fails to end is lost, for the failure is swallowed and the reference dropped.
Discard ==
    /\ driver' \in IF driver = "none" THEN {"none"} ELSE {"none", "lost"}
    /\ chromium' \in IF chromium \in {"none", "dead"} THEN {"none"} ELSE {"none", "lost"}
    /\ page' = FALSE /\ session' = 0
    /\ UNCHANGED <<did, presses, pointer, pressedAt, windows, sessions>>

\* Fault: a launch that fails leaves behind what it had started.
LaunchFailsUncleaned ==
    /\ Command /\ Head(todo).kind = "launch"
    /\ NoEffect /\ Ends(UnavailableCode.browser)

\* playwright is missing, or anything in _ensure_page() raises: close() and "unavailable".
LaunchFails ==
    /\ Command /\ Head(todo).kind = "launch"
    /\ Discard /\ Ends(UnavailableCode.browser)

\* The action raises: BrowserActionFailed, perhaps after it was done. page.title() in
\* _observe() is outside its try: the registry reports an execution error.
ActionFails ==
    /\ Command /\ Head(todo).kind \in {"act", "observe"}
    /\ NoEffect \/ (Works(Head(todo)) /\ Effect(Head(todo)))
    /\ Ends(IF Head(todo).kind = "act" THEN "action_failed" ELSE "execution_error")

-----------------------------------------------------------------------------
(* The callers. *)

\* Invocation of the tool: input and script are fixed, the effects are counted from here.
Invokes ==
    /\ pc' = "running" /\ todo' \in Scripts(call')
    /\ code' = "none" /\ did' = {} /\ disturbed' = FALSE /\ found' = {}
    /\ UNCHANGED <<pointer, pressedAt, windows, chromium, driver, page, session, sessions, world, lastSession>>

\* The command line calls the backend itself.
CliCall(m, p) ==
    /\ pc = "idle"
    /\ m \in CliMethods
    /\ call' = [by |-> "cli", family |-> "computer", method |-> m, at |-> p]
    /\ attempt' = 1 /\ approved' = TRUE /\ presses' = 0
    /\ Invokes

\* A plan step: the registry asks the gate for a tool of level REVIEW.
LoopCall(f, m, p) ==
    /\ pc = "idle"
    /\ m \in DOMAIN Tools[f]
    /\ call' = [by |-> "loop", family |-> f, method |-> m, at |-> p]
    /\ attempt' = 1 /\ presses' = 0 /\ approved' = FALSE
    /\ IF Tools[f][m] = "LOW" THEN Invokes
       ELSE /\ pc' = "asking" /\ code' = "none" /\ did' = {} /\ todo' = <<>>
            /\ UNCHANGED <<pointer, pressedAt, windows, chromium, driver, page, session, sessions,
                           world, disturbed, found, lastSession>>

Approves ==
    /\ pc = "asking"
    /\ approved' = TRUE
    /\ UNCHANGED <<call, attempt, presses>> /\ Invokes

Denies ==
    /\ pc = "asking"
    /\ NoEffect /\ Ends("approval_denied")

\* _run_step() has the result. A revision may change the arguments, here the point.
Retry(p) ==
    /\ pc = "judging" /\ call.by = "loop"
    /\ code # "ok" /\ ~Terminal(code) /\ attempt <= MaxCorrections
    /\ attempt' = attempt + 1 /\ approved' = FALSE
    /\ call' = [call EXCEPT !.at = p]
    /\ UNCHANGED presses
    /\ IF Tools[call.family][call.method] = "LOW" THEN Invokes
       ELSE /\ pc' = "asking" /\ code' = "none" /\ did' = {} /\ todo' = <<>>
            /\ UNCHANGED <<pointer, pressedAt, windows, chromium, driver, page, session, sessions,
                           world, disturbed, found, lastSession>>

\* The step, or the command, is over: with its result, or cancelled before a retry.
StepEnds ==
    /\ pc = "judging" /\ pc' = "idle"
    /\ code' = "none" /\ did' = {} /\ presses' = 0 /\ found' = {} /\ disturbed' = FALSE
    /\ attempt' = 0 /\ approved' = FALSE
    /\ UNCHANGED <<call, pointer, pressedAt, windows, chromium, driver, page, session, sessions,
                   world, todo, lastSession>>

\* reset_browser_agent(), when the worker thread ends.
Reset ==
    /\ pc = "idle"
    /\ Discard /\ lastSession' = 0
    /\ UNCHANGED <<judged, world, pc, todo, code, disturbed, found>>

-----------------------------------------------------------------------------
(* Everybody else. *)

PersonMoves(p) ==
    /\ p # pointer
    /\ pointer' = p /\ disturbed' = TRUE
    /\ UNCHANGED <<judged, did, presses, pressedAt, windows, chromium, driver, page, session, sessions,
                   world, pc, todo, code, found, lastSession>>

PersonOpensOrCloses(w) ==
    /\ w \notin found \/ w \in windows     \* a window's id is not used again
    /\ windows' = IF w \in windows THEN windows \ {w} ELSE windows \cup {w}
    /\ UNCHANGED <<judged, did, presses, pointer, pressedAt, chromium, driver, page, session, sessions,
                   world, pc, todo, code, disturbed, found, lastSession>>

PersonPlugs ==
    /\ attached' \in 0..2 \ {attached}
    /\ UNCHANGED <<judged, effects, machine, pc, todo, code, disturbed, found, lastSession>>

BrowserDies ==
    /\ chromium = "alive" /\ chromium' = "dead"
    /\ UNCHANGED <<judged, did, presses, pointer, pressedAt, windows, driver, page, session, sessions,
                   world, pc, todo, code, disturbed, found, lastSession>>

Init ==
    /\ machine \in {"x11", "windows", "bare"} /\ attached \in 0..2
    /\ call = [by |-> "cli", family |-> "computer", method |-> "screenshot", at |-> CHOOSE p \in Point : TRUE]
    /\ pc = "idle" /\ attempt = 0 /\ todo = <<>> /\ code = "none" /\ did = {} /\ presses = 0
    /\ approved = FALSE /\ pointer \in Point /\ pressedAt = pointer /\ disturbed = FALSE
    /\ windows = {} /\ found = {}
    /\ driver = "none" /\ chromium = "none" /\ page = FALSE
    /\ session = 0 /\ lastSession = 0 /\ sessions = 0

Next ==
    \/ \E m \in CliMethods : \E p \in Targets(m) : CliCall(m, p)
    \/ \E f \in DOMAIN Tools : \E m \in DOMAIN Tools[f] : \E p \in Targets(m) : LoopCall(f, m, p)
    \/ Approves \/ Denies \/ NothingToDo \/ Done \/ Refused \/ TimedOut \/ NotThere
    \/ Search \/ LaunchFails \/ ActionFails
    \/ \E p \in Targets(call.method) : Retry(p)
    \/ StepEnds \/ Reset
    \/ \E p \in Point : PersonMoves(p)
    \/ \E w \in Window : PersonOpensOrCloses(w)
    \/ PersonPlugs \/ BrowserDies

Spec == Init /\ [][Next]_vars

-----------------------------------------------------------------------------
(* Properties. *)

DevicesTypeOK ==
    /\ pc \in {"idle", "asking", "running", "judging"} /\ attempt \in 0..(MaxCorrections + 1)
    /\ pointer \in Point /\ pressedAt \in Point /\ windows \subseteq Window /\ found \subseteq Window
    /\ page \in BOOLEAN /\ driver \in {"none", "running", "lost"}
    /\ chromium \in {"none", "alive", "dead", "lost"}
    /\ sessions \in 0..MaxSessions /\ session \in 0..sessions /\ lastSession \in 0..sessions
    /\ attached \in 0..2 /\ approved \in BOOLEAN

Succeeded == pc = "judging" /\ code = "ok"

\* What the description of a tool says it does, for the methods that do something but scroll: that
\* may be asked for no notch at all, and on Windows turns the wheel the other way.
Promised ==
    [move_mouse |-> {"move"}, click |-> {"press"}, type_text |-> {"type"}, key_press |-> {"key"},
     set_clipboard |-> {"copy"}, open_application |-> {"launch"},
     close_application |-> {"end", "stop all", "force stop"}]

\* Nobody looks at xclip's exit code (fedora.py:142): on X11 a text may not have been copied.
Owes(m) == m \in DOMAIN Promised /\ (machine = "x11" => m # "set_clipboard")

DoesWhatItSays == Owes(call.method) => Promised[call.method] \cap did # {}

\* When a method of the computer that moves, presses, types, launches or closes, or on Windows
\* copies, reports success, it has done so, although each command may fail (fedora.py, windows.py):
\* close_application() has closed every window it had found, and a click pressed at the point that
\* was asked for, unless the person moved the mouse between its two commands (fedora.py:102,
\* windows.py:99). Nothing is said of scroll, nor of set_clipboard on X11.
SuccessIsReal ==
    Succeeded /\ call.family = "computer" =>
        /\ DoesWhatItSays /\ found \cap windows = {}
        /\ call.method = "click" => pressedAt = call.at \/ disturbed

\* What cannot be undone is done once and asked for: a step never clicks, types or stops a program
\* twice on the computer or the phone, although a command that timed out may have worked and the
\* loop retries failed steps, and does so only in an invocation that a person has approved
\* (loop.py:153, the levels in tools.py and phone_tools.py).
ActsOnce ==
    /\ call.family # "browser" => presses <= 1
    /\ call.by = "loop" /\ did \cap (Irreversible \cup {"end"}) # {} => approved

\* Whenever no call is running, there is a driver or a browser process only where the next
\* call or close() can find it: a launch that fails half way calls close() for what it had started
\* (playwright_backend.py:78). Only what close() itself fails to end stays behind, lost (line 146).
NoStrayBrowser ==
    pc # "running" => (driver = "running" \/ chromium \in {"alive", "dead"} => page)

\* Until the session is reset every successful browser action is on the same page: what was
\* clicked is what was navigated to, although the browser may die and calls may fail in between
\* (tools/browser/__init__.py:3).
SameSession ==
    [][pc = "running" /\ pc' = "judging" /\ code' = "ok" /\ call.family = "browser"
        /\ lastSession # 0 => session = lastSession]_vars
=============================================================================
