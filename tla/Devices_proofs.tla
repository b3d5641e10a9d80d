---------------------------- MODULE Devices_proofs ----------------------------
(***************************************************************************)
(* Proofs about Devices, for any number of points, windows, retries, notches *)
(* and browser sessions.                                                    *)
(***************************************************************************)
EXTENDS Devices, FiniteSetTheorems, SequenceTheorems, TLAPS

IsCall(c) ==
    \E by \in {"cli", "loop"}, f \in DOMAIN Tools, p \in Point : \E m \in DOMAIN Tools[f] :
        c = [by |-> by, family |-> f, method |-> m, at |-> p]

\* Effects that need an approval.
Grave == Irreversible \cup {"end"}

-----------------------------------------------------------------------------
(* The tables. *)

LEMMA ToolTables ==
    /\ DOMAIN Tools = {"computer", "phone", "browser"}
    /\ Tools["computer"] = ComputerTools /\ Tools["phone"] = PhoneTools /\ Tools["browser"] = BrowserTools
BY DEF Tools

LEMMA ComputerLevels ==
    /\ DOMAIN ComputerTools =
        {"screenshot", "move_mouse", "scroll", "get_clipboard", "set_clipboard", "open_application",
         "inspect_screen", "click", "type_text", "key_press", "close_application"}
    /\ \A m \in DOMAIN ComputerTools :
        ComputerTools[m] = "LOW" <=> m \notin {"click", "type_text", "key_press", "close_application"}
BY DEF ComputerTools, Levels
LEMMA FedoraScripts ==
    /\ Fedora["screenshot"] = {<<Checked("look")>>}
    /\ Fedora["get_clipboard"] = {<<Checked("look")>>}
    /\ Fedora["move_mouse"] = {<<Checked("move")>>}
    /\ Fedora["click"] = {<<Checked("move"), Checked("press")>>}
    /\ Fedora["type_text"] = {<<Checked("type")>>}
    /\ Fedora["key_press"] = {<<Checked("key")>>}
    /\ Fedora["scroll"] = {Times(n, Checked("wheel")) : n \in 0..Notches}
    /\ Fedora["set_clipboard"] = {<<Ignored("copy")>>}
    /\ Fedora["open_application"] = {<<Checked("launch")>>}
    /\ Fedora["close_application"] = {<<Ignored("search")>>}
    /\ Fedora["inspect_screen"] = {<<Checked("look"), Ignored("look")>>}
BY DEF Fedora
LEMMA PhoneLevels ==
    /\ DOMAIN PhoneTools =
        {"screenshot", "scroll", "open_application", "inspect_screen",
         "click", "type_text", "key_press", "close_application"}
    /\ \A m \in DOMAIN PhoneTools :
        PhoneTools[m] = "LOW" <=> m \notin {"click", "type_text", "key_press", "close_application"}
BY DEF PhoneTools, Levels

LEMMA BrowserLevels ==
    /\ DOMAIN BrowserTools =
        {"navigate", "get_text", "page_screenshot", "go_back", "browser_click", "fill"}
    /\ \A m \in DOMAIN BrowserTools : BrowserTools[m] = "LOW" <=> m \notin {"browser_click", "fill"}
BY DEF BrowserTools, Levels

-----------------------------------------------------------------------------
(* The scripts: what the proofs use of the lists of commands. *)

\* Effects on the computer or the phone that are not about a window found.
Plain == {"look", "move", "press", "type", "key", "wheel", "copy", "launch", "nothing", "wheel up",
          "stop all", "force stop"}

Nothing == [does |-> "nothing", kind |-> "never"]

PlainCmd == {Checked(e) : e \in Plain} \cup {Ignored(e) : e \in Plain} \cup {Optional(e) : e \in Plain}
                \cup {Nothing}

Start == [does |-> "start", kind |-> "launch"]
LaunchBrowser == [does |-> "launch browser", kind |-> "launch"]
NewPage == [does |-> "new page", kind |-> "launch"]
Act(m) == [does |-> m, kind |-> "act"]
Observe == [does |-> "observe", kind |-> "observe"]

BrowserCmd == {Act(m) : m \in DOMAIN BrowserTools} \cup {Start, LaunchBrowser, NewPage, Observe}

Cmd == PlainCmd \cup BrowserCmd \cup {End(w) : w \in Window} \cup {Ignored("search")}

\* No two commands of a script are irreversible.
AtMostOnce(s) ==
    \A i, j \in DOMAIN s : s[i].does \in Irreversible /\ s[j].does \in Irreversible => i = j

Quiet(s) == \A i \in DOMAIN s : s[i].does \notin Grave \cup {"search"}

LEMMA ShortScripts ==
    ASSUME NEW S, NEW a \in S, NEW b \in S, NEW c \in S
    PROVE  /\ <<>> \in Seq(S) /\ DOMAIN <<>> = {}
           /\ <<a>> \in Seq(S) /\ DOMAIN <<a>> = {1} /\ <<a>>[1] = a
           /\ <<a, b>> \in Seq(S) /\ DOMAIN <<a, b>> = {1, 2} /\ <<a, b>>[1] = a /\ <<a, b>>[2] = b
           /\ <<a, b, c>> \in Seq(S) /\ DOMAIN <<a, b, c>> = {1, 2, 3}
           /\ <<a, b, c>>[1] = a /\ <<a, b, c>>[2] = b /\ <<a, b, c>>[3] = c
OBVIOUS

LEMMA Repeated ==
    ASSUME NEW S, NEW a \in S, NEW n \in Nat
    PROVE  /\ Times(n, a) \in Seq(S) /\ DOMAIN Times(n, a) = 1..n
           /\ \A i \in 1..n : Times(n, a)[i] = a
BY SeqDef DEF Times

LEMMA PlainCommand ==
    ASSUME NEW e \in Plain
    PROVE  /\ Checked(e) \in PlainCmd /\ Checked(e).does = e /\ Checked(e).kind = "checked"
           /\ Ignored(e) \in PlainCmd /\ Ignored(e).does = e /\ Ignored(e).kind = "ignored"
           /\ Optional(e) \in PlainCmd /\ Optional(e).does = e /\ Optional(e).kind = "optional"
BY DEF PlainCmd, Checked, Ignored, Optional

LEMMA PlainEffects ==
    {"look", "move", "press", "type", "key", "wheel", "launch", "force stop"} \subseteq Plain
BY DEF Plain

LEMMA Effects ==
    /\ Plain \cap {"search", "end", "start", "launch browser", "new page"} = {}
    /\ {"look", "move", "wheel", "copy", "launch", "nothing", "wheel up"} \cap Grave = {}
BY DEF Plain, Grave, Irreversible

LEMMA NothingFacts ==
    Nothing \in PlainCmd /\ Nothing.does = "nothing" /\ Nothing.kind = "never" /\ "nothing" \in Plain
<1>1. "nothing" \in Plain
  BY DEF Plain
<1>2. Nothing \in PlainCmd
  BY DEF PlainCmd
<1> QED
  BY <1>1, <1>2 DEF Nothing

LEMMA PlainFacts ==
    ASSUME NEW c \in PlainCmd
    PROVE  c.does \in Plain /\ c.kind \in {"checked", "ignored", "optional", "never"} /\ c \in Cmd
BY NothingFacts DEF PlainCmd, Checked, Ignored, Optional, Cmd

LEMMA EndFacts ==
    ASSUME NEW w \in Window
    PROVE  End(w).does = "end" /\ End(w).kind = "checked" /\ End(w).window = w /\ End(w) \in Cmd
BY DEF End, Cmd

LEMMA SearchFacts ==
    Ignored("search").does = "search" /\ Ignored("search").kind = "ignored" /\ Ignored("search") \in Cmd
BY DEF Ignored, Cmd

LEMMA OneCommand ==
    ASSUME NEW a \in PlainCmd
    PROVE  /\ <<a>> \in Seq(PlainCmd) /\ AtMostOnce(<<a>>)
           /\ a.does \notin Grave => Quiet(<<a>>)
<1>1. a.does # "search"
  BY PlainFacts, Effects
<1> QED
  BY <1>1, ShortScripts DEF AtMostOnce, Quiet

LEMMA TwoCommands ==
    ASSUME NEW a \in PlainCmd, NEW b \in PlainCmd, a.does \notin Grave
    PROVE  /\ <<a, b>> \in Seq(PlainCmd) /\ AtMostOnce(<<a, b>>)
           /\ b.does \notin Grave => Quiet(<<a, b>>)
<1>1. a.does # "search" /\ b.does # "search"
  BY PlainFacts, Effects
<1> QED
  BY <1>1, ShortScripts DEF AtMostOnce, Quiet, Grave

LEMMA ThreeCommands ==
    ASSUME NEW a \in PlainCmd, NEW b \in PlainCmd, NEW c \in PlainCmd,
           a.does \notin Grave, b.does \notin Grave
    PROVE  /\ <<a, b, c>> \in Seq(PlainCmd) /\ AtMostOnce(<<a, b, c>>)
           /\ c.does \notin Grave => Quiet(<<a, b, c>>)
<1>1. a.does # "search" /\ b.does # "search" /\ c.does # "search"
  BY PlainFacts, Effects
<1> QED
  BY <1>1, ShortScripts DEF AtMostOnce, Quiet, Grave

LEMMA ManyCommands ==
    ASSUME NEW a \in PlainCmd, NEW n \in Nat, a.does \notin Grave
    PROVE  /\ Times(n, a) \in Seq(PlainCmd) /\ AtMostOnce(Times(n, a)) /\ Quiet(Times(n, a))
<1>1. a.does # "search"
  BY PlainFacts, Effects
<1>2. Times(n, a) \in Seq(PlainCmd)
  BY Repeated
<1>3. \A i \in DOMAIN Times(n, a) : Times(n, a)[i] = a
  BY Repeated
<1>4. AtMostOnce(Times(n, a))
  BY <1>3 DEF AtMostOnce, Grave
<1>5. Quiet(Times(n, a))
  BY <1>1, <1>3 DEF Quiet
<1> QED
  BY <1>2, <1>4, <1>5

\* Unless it stops before it has begun, the script has a command that is looked at and
\* does what the method promises.
Promises(m, s) ==
    \E i \in DOMAIN s :
        s[i].kind = "never" \/ (s[i].kind = "checked" /\ s[i].does \in Promised[m])

\* What the proofs use of a script of the computer, for each method.
ComputerScript(m, s) ==
    /\ s \in Seq(PlainCmd) \/ (m = "close_application" /\ s = <<Ignored("search")>>)
    /\ AtMostOnce(s)
    /\ ComputerTools[m] = "LOW" => Quiet(s)
    /\ Owes(m) => s = <<Ignored("search")>> \/ Promises(m, s)
    /\ m = "click" => s = <<Checked("move"), Checked("press")>> \/ s = <<Nothing>>

LEMMA PromisedMethods ==
    /\ DOMAIN Promised = {"move_mouse", "click", "type_text", "key_press", "set_clipboard",
                          "open_application", "close_application"}
    /\ Promised["move_mouse"] = {"move"} /\ Promised["click"] = {"press"}
    /\ Promised["type_text"] = {"type"} /\ Promised["key_press"] = {"key"}
    /\ Promised["set_clipboard"] = {"copy"} /\ Promised["open_application"] = {"launch"}
    /\ Promised["close_application"] = {"end", "stop all", "force stop"}
    /\ \A m \in DOMAIN Promised : m # "set_clipboard" => Owes(m)
    /\ ~Owes("screenshot") /\ ~Owes("inspect_screen") /\ ~Owes("get_clipboard") /\ ~Owes("scroll")
    /\ \A m : Owes(m) => m \in {"move_mouse", "click", "type_text", "key_press", "set_clipboard",
                                 "open_application", "close_application"}
    /\ machine = "x11" => ~Owes("set_clipboard")
BY DEF Promised, Owes

\* A script of one command with a checked exit code, which is its method's purpose.
LEMMA PurposeOnly ==
    ASSUME NEW m, Owes(m) => m # "click", NEW e \in Plain,
           Owes(m) => e \in Promised[m],
           ComputerTools[m] = "LOW" => e \notin Grave
    PROVE  ComputerScript(m, <<Checked(e)>>)
<1>1. Checked(e) \in PlainCmd /\ Checked(e).does = e /\ Checked(e).kind = "checked"
  BY PlainCommand
<1>2. <<Checked(e)>> \in Seq(PlainCmd) /\ AtMostOnce(<<Checked(e)>>)
  BY <1>1, OneCommand
<1>3. ComputerTools[m] = "LOW" => Quiet(<<Checked(e)>>)
  BY <1>1, OneCommand
<1>4. ASSUME Owes(m) PROVE Promises(m, <<Checked(e)>>)
  BY <1>1, <1>4, ShortScripts DEF Promises
<1>5. m # "click"
  BY PromisedMethods
<1> QED
  BY <1>2, <1>3, <1>4, <1>5 DEF ComputerScript

LEMMA NoPurpose ==
    ASSUME NEW m, ~Owes(m), NEW s \in Seq(PlainCmd), AtMostOnce(s), Quiet(s)
    PROVE  ComputerScript(m, s)
BY PromisedMethods DEF ComputerScript

LEMMA ClickScript ==
    ComputerScript("click", <<Checked("move"), Checked("press")>>)
<1>1. /\ Checked("move") \in PlainCmd /\ Checked("move").does = "move"
      /\ Checked("press") \in PlainCmd /\ Checked("press").does = "press"
      /\ Checked("press").kind = "checked" /\ "move" \notin Grave
  BY PlainCommand, PlainEffects, Effects
<1>2. /\ <<Checked("move"), Checked("press")>> \in Seq(PlainCmd)
      /\ AtMostOnce(<<Checked("move"), Checked("press")>>)
  BY <1>1, TwoCommands
<1>3. Promises("click", <<Checked("move"), Checked("press")>>)
  <2> DEFINE s == <<Checked("move"), Checked("press")>>
  <2>1. 2 \in DOMAIN s /\ s[2] = Checked("press")
    OBVIOUS
  <2>2. s[2].kind = "checked" /\ s[2].does \in Promised["click"]
    BY <1>1, <2>1, PromisedMethods
  <2> QED
    BY <2>1, <2>2 DEF Promises
<1> QED
  BY <1>2, <1>3, ComputerLevels DEF ComputerScript

LEMMA FedoraSound ==
    ASSUME NEW m \in DOMAIN ComputerTools, NEW s \in Fedora[m], machine = "x11"
    PROVE  ComputerScript(m, s)
<1>1. CASE m \in {"screenshot", "get_clipboard"}
  <2>1. s = <<Checked("look")>>
    BY <1>1, FedoraScripts
  <2>2. ~Owes(m)
    BY <1>1, PromisedMethods
  <2> QED
    BY <2>1, <2>2, PurposeOnly, Effects DEF Plain
<1>2. CASE m = "set_clipboard"
  <2>1. s = <<Ignored("copy")>> /\ ~Owes(m)
    BY <1>2, FedoraScripts, PromisedMethods
  <2> QED
    BY <2>1, NoPurpose, PlainCommand, OneCommand, Effects DEF Plain
<1>3. CASE m = "inspect_screen"
  <2>1. s = <<Checked("look"), Ignored("look")>> /\ ~Owes(m)
    BY <1>3, FedoraScripts, PromisedMethods
  <2> QED
    BY <2>1, NoPurpose, PlainCommand, TwoCommands, Effects DEF Plain
<1>4. CASE m = "scroll"
  <2>1. PICK n \in 0..Notches : s = Times(n, Checked("wheel"))
    BY <1>4, FedoraScripts
  <2>2. n \in Nat
    BY DeviceAssumption DEF DeviceAssumption
  <2>3. ~Owes(m)
    BY <1>4, PromisedMethods
  <2> QED
    BY <2>1, <2>2, <2>3, NoPurpose, PlainCommand, ManyCommands, Effects DEF Plain
<1>5. CASE m = "move_mouse"
  <2>1. s = <<Checked("move")>>
    BY <1>5, FedoraScripts
  <2> QED
    BY <1>5, <2>1, PromisedMethods, PurposeOnly, Effects DEF Plain
<1>6. CASE m = "open_application"
  <2>1. s = <<Checked("launch")>>
    BY <1>6, FedoraScripts
  <2> QED
    BY <1>6, <2>1, PromisedMethods, PurposeOnly, Effects DEF Plain
<1>7. CASE m = "type_text"
  <2>1. s = <<Checked("type")>>
    BY <1>7, FedoraScripts
  <2> QED
    BY <1>7, <2>1, PromisedMethods, PurposeOnly, Effects, ComputerLevels DEF Plain
<1>8. CASE m = "key_press"
  <2>1. s = <<Checked("key")>>
    BY <1>8, FedoraScripts
  <2> QED
    BY <1>8, <2>1, PromisedMethods, PurposeOnly, Effects, ComputerLevels DEF Plain
<1>9. CASE m = "click"
  BY <1>9, FedoraScripts, ClickScript
<1>10. CASE m = "close_application"
  <2>1. s = <<Ignored("search")>>
    BY <1>10, FedoraScripts
  <2>2. AtMostOnce(s)
    BY <2>1, SearchFacts, ShortScripts DEF AtMostOnce
  <2> QED
    BY <1>10, <2>1, <2>2, ComputerLevels DEF ComputerScript
<1> QED
  BY <1>1, <1>2, <1>3, <1>4, <1>5, <1>6, <1>7, <1>8, <1>9, <1>10, ComputerLevels

LEMMA WindowsScripts ==
    /\ Windows["screenshot"] = {<<Checked("look")>>}
    /\ Windows["inspect_screen"] = {<<Checked("look")>>}
    /\ Windows["move_mouse"] = {<<Checked("move")>>}
    /\ Windows["click"] = {<<Checked("move"), Checked("press")>>}
    /\ Windows["type_text"] = {<<Checked("type")>>}
    /\ Windows["key_press"] = {<<Checked("key")>>}
    /\ Windows["scroll"] = {<<Checked("nothing")>>, <<Checked("wheel up")>>}
    /\ Windows["get_clipboard"] = {<<Ignored("look")>>}
    /\ Windows["set_clipboard"] = {<<Checked("copy")>>}
    /\ Windows["open_application"] = {<<Checked("launch")>>}
    /\ Windows["close_application"] = {<<Checked("stop all")>>}
BY DEF Windows

LEMMA WindowsSound ==
    ASSUME NEW m \in DOMAIN ComputerTools, NEW s \in Windows[m]
    PROVE  ComputerScript(m, s)
<1>1. CASE m \in {"screenshot", "inspect_screen"}
  <2>1. s = <<Checked("look")>>
    BY <1>1, WindowsScripts
  <2>2. ~Owes(m)
    BY <1>1, PromisedMethods
  <2> QED
    BY <2>1, <2>2, PurposeOnly, Effects DEF Plain
<1>2. CASE m = "set_clipboard"
  <2>1. s = <<Checked("copy")>>
    BY <1>2, WindowsScripts
  <2> QED
    BY <1>2, <2>1, PromisedMethods, PurposeOnly, Effects DEF Plain
<1>3. CASE m = "get_clipboard"
  <2>1. s = <<Ignored("look")>> /\ ~Owes(m)
    BY <1>3, WindowsScripts, PromisedMethods
  <2> QED
    BY <2>1, NoPurpose, PlainCommand, OneCommand, Effects DEF Plain
<1>4. CASE m = "scroll"
  <2>1. s = <<Checked("nothing")>> \/ s = <<Checked("wheel up")>>
    BY <1>4, WindowsScripts
  <2>2. ~Owes(m)
    BY <1>4, PromisedMethods
  <2>3. {"nothing", "wheel up"} \subseteq Plain \ Grave
    BY Effects DEF Plain
  <2> QED
    BY <2>1, <2>2, <2>3, PurposeOnly
<1>5. CASE m = "move_mouse"
  <2>1. s = <<Checked("move")>>
    BY <1>5, WindowsScripts
  <2> QED
    BY <1>5, <2>1, PromisedMethods, PurposeOnly, Effects DEF Plain
<1>6. CASE m = "open_application"
  <2>1. s = <<Checked("launch")>>
    BY <1>6, WindowsScripts
  <2> QED
    BY <1>6, <2>1, PromisedMethods, PurposeOnly, Effects DEF Plain
<1>7. CASE m = "type_text"
  <2>1. s = <<Checked("type")>>
    BY <1>7, WindowsScripts
  <2> QED
    BY <1>7, <2>1, PromisedMethods, PurposeOnly, ComputerLevels DEF Plain
<1>8. CASE m = "key_press"
  <2>1. s = <<Checked("key")>>
    BY <1>8, WindowsScripts
  <2> QED
    BY <1>8, <2>1, PromisedMethods, PurposeOnly, ComputerLevels DEF Plain
<1>9. CASE m = "click"
  BY <1>9, WindowsScripts, ClickScript
<1>10. CASE m = "close_application"
  <2>1. s = <<Checked("stop all")>>
    BY <1>10, WindowsScripts
  <2> QED
    BY <1>10, <2>1, PromisedMethods, PurposeOnly, ComputerLevels DEF Plain
<1> QED
  BY <1>1, <1>2, <1>3, <1>4, <1>5, <1>6, <1>7, <1>8, <1>9, <1>10, ComputerLevels

\* NullComputerAgent refuses everything.
LEMMA BareSound ==
    ASSUME NEW m
    PROVE  ComputerScript(m, <<Nothing>>)
<1>1. <<Nothing>> \in Seq(PlainCmd) /\ AtMostOnce(<<Nothing>>) /\ Quiet(<<Nothing>>)
  BY NothingFacts, OneCommand, Effects
<1>2. Promises(m, <<Nothing>>)
  BY NothingFacts DEF Promises
<1> QED
  BY <1>1, <1>2 DEF ComputerScript

LEMMA PhoneScripts ==
    /\ Phone["screenshot"] = {<<Checked("look")>>}
    /\ Phone["inspect_screen"] = {<<Checked("look"), Optional("look")>>}
    /\ Phone["click"] = {<<Ignored("press")>>}
    /\ Phone["type_text"] = {<<Ignored("type")>>}
    /\ Phone["key_press"] = {<<Ignored("key")>>}
    /\ Phone["scroll"] = {<<Checked("look"), Optional("look")>>,
                          <<Checked("look"), Optional("look"), Ignored("wheel")>>}
    /\ Phone["open_application"] = {<<Checked("launch")>>, <<Checked("look"), Checked("launch")>>}
    /\ Phone["close_application"] = {<<Ignored("force stop")>>,
                                     <<Checked("look"), Ignored("force stop")>>}
BY DEF Phone

\* What the proofs use of a script of the phone.
PhoneScript(m, s) ==
    /\ s \in Seq(PlainCmd) /\ AtMostOnce(s)
    /\ PhoneTools[m] = "LOW" => Quiet(s)

LEMMA PhoneSound ==
    ASSUME NEW m \in DOMAIN PhoneTools, NEW s \in Phone[m]
    PROVE  PhoneScript(m, s)
<1>1. CASE m \in {"screenshot", "inspect_screen", "scroll", "open_application"}
  <2>1. /\ Checked("look") \in PlainCmd /\ Checked("look").does = "look"
        /\ Optional("look") \in PlainCmd /\ Optional("look").does = "look"
        /\ Ignored("wheel") \in PlainCmd /\ Ignored("wheel").does = "wheel"
        /\ Checked("launch") \in PlainCmd /\ Checked("launch").does = "launch"
    BY PlainCommand, PlainEffects
  <2>2. {"look", "wheel", "launch"} \cap Grave = {}
    BY Effects
  <2>3. s \in {<<Checked("look")>>, <<Checked("launch")>>, <<Checked("look"), Optional("look")>>,
               <<Checked("look"), Checked("launch")>>,
               <<Checked("look"), Optional("look"), Ignored("wheel")>>}
    BY <1>1, PhoneScripts
  <2> QED
    BY <2>1, <2>2, <2>3, OneCommand, TwoCommands, ThreeCommands DEF PhoneScript
<1>2. CASE m \in {"click", "type_text", "key_press", "close_application"}
  <2>1. /\ Checked("look") \in PlainCmd /\ Checked("look").does = "look"
        /\ Ignored("press") \in PlainCmd /\ Ignored("type") \in PlainCmd
        /\ Ignored("key") \in PlainCmd /\ Ignored("force stop") \in PlainCmd
    BY PlainCommand, PlainEffects
  <2>2. "look" \notin Grave
    BY Effects
  <2>3. s \in {<<Ignored("press")>>, <<Ignored("type")>>, <<Ignored("key")>>, <<Ignored("force stop")>>,
               <<Checked("look"), Ignored("force stop")>>}
    BY <1>2, PhoneScripts
  <2>4. PhoneTools[m] # "LOW"
    BY <1>2, PhoneLevels
  <2> QED
    BY <2>1, <2>2, <2>3, <2>4, OneCommand, TwoCommands DEF PhoneScript
<1> QED
  BY <1>1, <1>2, PhoneLevels

-----------------------------------------------------------------------------
(* The browser's scripts. *)

\* With a page there is nothing to launch; without one, the script launches exactly once.
ActsOnly(s) == \A i \in DOMAIN s : s[i].kind # "launch"

LaunchesFirst(s) ==
    \E k \in DOMAIN s :
        \A i \in DOMAIN s :
            (s[i].does = "new page" <=> i = k) /\ (s[i].kind = "launch" <=> i <= k)

LEMMA BrowserFacts ==
    ASSUME NEW c \in BrowserCmd
    PROVE  /\ c.kind \in {"launch", "act", "observe"} /\ c.does # "search" /\ c.does # "end"
           /\ c.does \in {"start", "launch browser", "new page"} <=> c.kind = "launch"
<1>1. CASE c = Start
  BY <1>1 DEF Start
<1>2. CASE c = LaunchBrowser
  BY <1>2 DEF LaunchBrowser
<1>3. CASE c = NewPage
  BY <1>3 DEF NewPage
<1>4. CASE c = Observe
  BY <1>4 DEF Observe
<1>5. ASSUME NEW m \in DOMAIN BrowserTools, c = Act(m)
      PROVE  /\ c.kind \in {"launch", "act", "observe"} /\ c.does # "search" /\ c.does # "end"
             /\ c.does \in {"start", "launch browser", "new page"} <=> c.kind = "launch"
  BY <1>5, BrowserLevels DEF Act
<1> QED
  BY <1>1, <1>2, <1>3, <1>4, <1>5 DEF BrowserCmd

LEMMA BrowserScripts ==
    ASSUME NEW m \in DOMAIN BrowserTools, NEW s \in Browser(m)
    PROVE  /\ s \in Seq(BrowserCmd)
           /\ page => /\ Len(s) \in {1, 2} /\ s[1] = Act(m)
                      /\ Len(s) = 2 => s[2] = Observe
           /\ ~page => /\ Len(s) \in {4, 5}
                       /\ s[1] = Start /\ s[2] = LaunchBrowser /\ s[3] = NewPage /\ s[4] = Act(m)
                       /\ Len(s) = 5 => s[5] = Observe
<1> DEFINE before == EnsurePage
           upto   == before \o <<Act(m)>>
<1>1. PICK after \in {<<>>, <<Observe>>} : s = upto \o after
  BY DEF Browser, Act, Observe
<1>2. /\ Act(m) \in BrowserCmd /\ Start \in BrowserCmd /\ LaunchBrowser \in BrowserCmd
      /\ NewPage \in BrowserCmd /\ Observe \in BrowserCmd
  BY DEF BrowserCmd
<1>3. /\ <<Act(m)>> \in Seq(BrowserCmd) /\ Len(<<Act(m)>>) = 1 /\ <<Act(m)>>[1] = Act(m)
  BY <1>2
<1>6. after \in Seq(BrowserCmd) /\ (Len(after) = 0 \/ (Len(after) = 1 /\ after[1] = Observe))
  <2>1. CASE after = <<>>
    BY <2>1
  <2>2. CASE after = <<Observe>>
    BY <1>2, <2>2
  <2> QED
    BY <2>1, <2>2
<1>4. CASE page
  <2>1. before = <<>>
    BY <1>4 DEF EnsurePage
  <2>2. before \in Seq(BrowserCmd) /\ Len(before) = 0
    BY <2>1
  <2> HIDE DEF before
  <2>3. upto \in Seq(BrowserCmd) /\ Len(upto) = 1 /\ upto[1] = Act(m)
    BY <1>3, <2>2, ConcatProperties
  <2> HIDE DEF upto
  <2>4. s \in Seq(BrowserCmd) /\ Len(s) = 1 + Len(after) /\ s[1] = Act(m)
    BY <1>1, <1>6, <2>3, ConcatProperties
  <2>5. Len(s) = 2 => s[2] = Observe
    BY <1>1, <1>6, <2>3, <2>4, ConcatProperties
  <2>6. Len(s) = 1 \/ Len(s) = 2
    <3>1. CASE Len(after) = 0
      BY <2>4, <3>1
    <3>2. CASE Len(after) = 1
      BY <2>4, <3>2
    <3> QED
      BY <1>6, <3>1, <3>2
  <2> QED
    BY <1>4, <2>4, <2>5, <2>6
<1>5. CASE ~page
  <2>1. before = <<Start, LaunchBrowser, NewPage>>
    BY <1>5 DEF EnsurePage, Launch, Start, LaunchBrowser, NewPage
  <2>2. /\ before \in Seq(BrowserCmd) /\ Len(before) = 3
        /\ before[1] = Start /\ before[2] = LaunchBrowser /\ before[3] = NewPage
    BY <1>2, <2>1
  <2> HIDE DEF before
  <2>3. upto \in Seq(BrowserCmd) /\ Len(upto) = 4
    <3> DEFINE act == <<Act(m)>>
    <3>1. act \in Seq(BrowserCmd) /\ Len(act) = 1
      BY <1>3
    <3> HIDE DEF act
    <3>2. before \o act \in Seq(BrowserCmd) /\ Len(before \o act) = Len(before) + Len(act)
      BY <2>2, <3>1, ConcatProperties, Zenon
    <3>3. Len(before \o act) = 4
      BY <2>2, <3>1, <3>2
    <3> QED
      BY <3>2, <3>3, Zenon DEF act
  <2>4. upto[1] = Start /\ upto[2] = LaunchBrowser /\ upto[3] = NewPage /\ upto[4] = Act(m)
    BY <1>3, <2>2, <2>3, ConcatProperties
  <2> HIDE DEF upto
  <2>5. s \in Seq(BrowserCmd) /\ Len(s) = 4 + Len(after)
    <3>1. s \in Seq(BrowserCmd) /\ Len(s) = Len(upto) + Len(after)
      BY <1>1, <1>6, <2>3, ConcatProperties
    <3> QED
      BY <2>3, <3>1
  <2>6. s[1] = Start /\ s[2] = LaunchBrowser /\ s[3] = NewPage /\ s[4] = Act(m)
    BY <1>1, <1>6, <2>3, <2>4, <2>5, ConcatProperties
  <2>7. Len(s) = 5 => s[5] = Observe
    BY <1>1, <1>6, <2>3, <2>5, ConcatProperties
  <2>8. Len(s) = 4 \/ Len(s) = 5
    <3>1. CASE Len(after) = 0
      BY <2>5, <3>1
    <3>2. CASE Len(after) = 1
      BY <2>5, <3>2
    <3> QED
      BY <1>6, <3>1, <3>2
  <2> QED
    BY <1>5, <2>5, <2>6, <2>7, <2>8
<1> QED
  BY <1>4, <1>5

LEMMA BrowserSound ==
    ASSUME NEW m \in DOMAIN BrowserTools, NEW s \in Browser(m)
    PROVE  /\ s \in Seq(BrowserCmd) /\ s # <<>>
           /\ BrowserTools[m] = "LOW" => Quiet(s)
           /\ page => ActsOnly(s)
           /\ ~page => LaunchesFirst(s)
<1>1. /\ Act(m).does = m /\ Act(m).kind = "act"
      /\ Start.kind = "launch" /\ LaunchBrowser.kind = "launch" /\ NewPage.kind = "launch"
      /\ NewPage.does = "new page" /\ Observe.kind = "observe"
  BY DEF Act, Start, LaunchBrowser, NewPage, Observe
<1>2. /\ {Start.does, LaunchBrowser.does, NewPage.does, Observe.does} \cap (Grave \cup {"search"}) = {}
      /\ BrowserTools[m] = "LOW" => Act(m).does \notin Grave \cup {"search"}
  BY BrowserLevels DEF Act, Start, LaunchBrowser, NewPage, Observe, Grave, Irreversible
<1>6. /\ Start.does # "new page" /\ LaunchBrowser.does # "new page" /\ NewPage.does = "new page"
      /\ Act(m).does # "new page" /\ Observe.does # "new page"
  BY BrowserLevels DEF Act, Start, LaunchBrowser, NewPage, Observe
<1>3. s \in Seq(BrowserCmd) /\ DOMAIN s = 1..Len(s) /\ Len(s) \in Nat
  BY BrowserScripts
<1>4. CASE page
  <2>1. Len(s) \in {1, 2} /\ s[1] = Act(m) /\ (Len(s) = 2 => s[2] = Observe)
    BY <1>4, BrowserScripts
  <2>2. DOMAIN s \subseteq {1, 2} /\ s # <<>> /\ (2 \in DOMAIN s => s[2] = Observe)
    BY <1>3, <2>1
  <2>3. ActsOnly(s)
    BY <1>1, <2>1, <2>2 DEF ActsOnly
  <2>4. BrowserTools[m] = "LOW" => Quiet(s)
    BY <1>2, <2>1, <2>2 DEF Quiet
  <2> QED
    BY <1>3, <1>4, <2>2, <2>3, <2>4
<1>5. CASE ~page
  <2>1. /\ Len(s) \in {4, 5} /\ s[1] = Start /\ s[2] = LaunchBrowser /\ s[3] = NewPage /\ s[4] = Act(m)
        /\ Len(s) = 5 => s[5] = Observe
    BY <1>5, BrowserScripts
  <2>2. DOMAIN s \subseteq {1, 2, 3, 4, 5} /\ 3 \in DOMAIN s /\ s # <<>> /\ (5 \in DOMAIN s => s[5] = Observe)
    BY <1>3, <2>1
  <2>3. ASSUME NEW i \in DOMAIN s
        PROVE  (s[i].does = "new page" <=> i = 3) /\ (s[i].kind = "launch" <=> i <= 3)
    <3>1. CASE i \in {1, 2, 3}
      <4>1. s[i].kind = "launch"
        BY <1>1, <2>1, <3>1
      <4>2. i <= 3
        BY <3>1
      <4>3. s[i].does = "new page" <=> i = 3
        BY <1>6, <2>1, <3>1
      <4> QED
        BY <4>1, <4>2, <4>3
    <3>2. CASE i \in {4, 5}
      <4>1. s[i].kind # "launch"
        BY <1>1, <2>1, <2>2, <3>2
      <4>2. ~(i <= 3)
        BY <3>2
      <4>3. s[i].does # "new page" /\ i # 3
        BY <1>6, <2>1, <2>2, <3>2
      <4> QED
        BY <4>1, <4>2, <4>3
    <3> QED
      BY <2>2, <3>1, <3>2
  <2>4. LaunchesFirst(s)
    BY <1>1, <2>1, <2>2, <2>3 DEF LaunchesFirst
  <2>5. BrowserTools[m] = "LOW" => Quiet(s)
    BY <1>2, <2>1, <2>2 DEF Quiet
  <2> QED
    BY <1>3, <1>5, <2>2, <2>4, <2>5
<1> QED
  BY <1>4, <1>5

-----------------------------------------------------------------------------
(* The inductive invariant. *)

Typed == DevicesTypeOK /\ IsCall(call) /\ todo \in Seq(Cmd)

\* On the computer and the phone: at most one irreversible command is done or to come, and a
\* step that has failed is not tried again.
NoSecond ==
    call.family # "browser" =>
        /\ presses \in {0, 1}
        /\ pc = "asking" => presses = 0
        /\ pc = "running" =>
             /\ AtMostOnce(todo)
             /\ presses = 1 => \A i \in DOMAIN todo : todo[i].does \notin Irreversible
        /\ pc = "judging" => code = "ok" \/ Terminal(code)

\* Without an approval nothing grave has been done and nothing grave is to come.
AskedFirst ==
    call.by = "loop" /\ ~approved =>
        did \cap Grave = {} /\ (pc = "running" => Quiet(todo))

\* What the call that is running has left to do, and what it needs for it.
InHand ==
    pc = "running" =>
        IF call.family = "browser"
        THEN /\ todo \in Seq(BrowserCmd) /\ todo # <<>>
             /\ page => ActsOnly(todo)
             /\ ~page => LaunchesFirst(todo)
        ELSE \/ todo \in Seq(PlainCmd \cup {End(w) : w \in Window})
             \/ /\ todo = <<Ignored("search")>>
                /\ call.family = "computer" /\ call.method = "close_application"

NothingStray ==
    ~page /\ (pc # "running" \/ call.family # "browser") => driver # "running" /\ chromium \notin {"alive", "dead"}

OneSession == lastSession # 0 => page /\ session = lastSession

\* What a computer method has promised is done or still to come.
OnTheWay ==
    pc = "running" /\ call.family = "computer" =>
        /\ Owes(call.method) =>
             \/ Promised[call.method] \cap did # {}
             \/ todo = <<Ignored("search")>>
             \/ Promises(call.method, todo)
        /\ \A w \in found \cap windows : \E i \in DOMAIN todo : todo[i] = End(w)
        /\ call.method = "click" =>
             \/ disturbed
             \/ todo = <<Checked("move"), Checked("press")>> \/ todo = <<Nothing>>
             \/ todo = <<Checked("press")>> /\ pointer = call.at

DInv ==
    /\ Typed /\ NoSecond /\ AskedFirst /\ InHand /\ NothingStray /\ OneSession
    /\ OnTheWay /\ SuccessIsReal

LEMMA ScriptsSound ==
    ASSUME NEW c, IsCall(c), NEW s \in Scripts(c)
    PROVE  /\ s \in Seq(Cmd)
           /\ c.family = "computer" => ComputerScript(c.method, s)
           /\ c.family = "phone" => PhoneScript(c.method, s)
           /\ c.family = "browser" => /\ s \in Seq(BrowserCmd) /\ s # <<>>
                                      /\ BrowserTools[c.method] = "LOW" => Quiet(s)
                                      /\ page => ActsOnly(s)
                                      /\ ~page => LaunchesFirst(s)
<1>1. c.family \in {"computer", "phone", "browser"} /\ c.method \in DOMAIN Tools[c.family]
  BY ToolTables DEF IsCall
<1>2. CASE c.family = "computer"
  <2>1. c.method \in DOMAIN ComputerTools
    BY <1>1, <1>2, ToolTables
  <2>2. (s \in Fedora[c.method] /\ machine = "x11") \/ s \in Windows[c.method] \/ s = <<Nothing>>
    BY <1>2 DEF Scripts, Nothing
  <2>3. ComputerScript(c.method, s)
    BY <2>1, <2>2, FedoraSound, WindowsSound, BareSound
  <2>4. s \in Seq(PlainCmd) \/ s = <<Ignored("search")>>
    BY <2>3 DEF ComputerScript
  <2>5. s \in Seq(Cmd)
    <3>1. CASE s \in Seq(PlainCmd)
      BY <3>1, SeqMonotonic DEF Cmd
    <3>2. CASE s = <<Ignored("search")>>
      BY <3>2, SearchFacts
    <3> QED
      BY <2>4, <3>1, <3>2
  <2> QED
    BY <1>2, <2>3, <2>5
<1>3. CASE c.family = "phone"
  <2>1. c.method \in DOMAIN PhoneTools
    BY <1>1, <1>3, ToolTables
  <2>2. s \in Phone[c.method]
    BY <1>3 DEF Scripts
  <2>3. PhoneScript(c.method, s)
    BY <2>1, <2>2, PhoneSound
  <2>4. s \in Seq(PlainCmd)
    BY <2>3 DEF PhoneScript
  <2>5. s \in Seq(Cmd)
    BY <2>4, SeqMonotonic DEF Cmd
  <2> QED
    BY <1>3, <2>3, <2>5
<1>4. CASE c.family = "browser"
  <2>1. c.method \in DOMAIN BrowserTools
    BY <1>1, <1>4, ToolTables
  <2>2. s \in Browser(c.method)
    BY <1>4 DEF Scripts
  <2>3. s \in Seq(BrowserCmd)
    BY <2>1, <2>2, BrowserSound
  <2>4. s \in Seq(Cmd)
    BY <2>3, SeqMonotonic DEF Cmd
  <2> QED
    BY <1>4, <2>1, <2>2, <2>4, BrowserSound
<1> QED
  BY <1>1, <1>2, <1>3, <1>4

-----------------------------------------------------------------------------
(* What a step of the specification may be. *)

LowCall(c) == Tools[c.family][c.method] = "LOW"

Worked == Works(Head(todo)) /\ Effect(Head(todo))

Skipped == Head(todo).kind \in {"ignored", "optional"} /\ NoEffect

\* An invocation begins, or an approval is asked for.
Begins ==
    /\ pc \in {"idle", "asking", "judging"} /\ Invokes
    /\ IsCall(call') /\ attempt' \in 0..(MaxCorrections + 1) /\ approved' \in BOOLEAN
    /\ call'.by = "loop" /\ ~approved' => LowCall(call')
    /\ call'.family # "browser" => presses' = 0

Asks ==
    /\ pc \in {"idle", "judging"} /\ pc' = "asking" /\ did' = {} /\ todo' = <<>>
    /\ IsCall(call') /\ attempt' \in 0..(MaxCorrections + 1) /\ approved' \in BOOLEAN
    /\ call'.family # "browser" => presses' = 0
    /\ UNCHANGED <<pointer, pressedAt, windows, chromium, driver, page, session, sessions, world,
                   disturbed, found, lastSession>>

\* A command with others to follow, the last command, the command that fails the call.
GoesOn ==
    /\ Command /\ (Worked \/ Skipped)
    /\ Len(todo) # 1 /\ todo' = Tail(todo)
    /\ UNCHANGED <<judged, world, pc, code, disturbed, found, lastSession>>

Succeeds == Command /\ (Worked \/ Skipped) /\ Len(todo) = 1 /\ Ends("ok")

Fails ==
    /\ Command /\ (Worked \/ NoEffect) /\ Head(todo).kind # "launch"
    /\ \E r : Ends(r) /\ r # "ok" /\ (call.family # "browser" => Terminal(r))

PersonActs ==
    \/ \E p \in Point : PersonMoves(p)
    \/ \E w \in Window : PersonOpensOrCloses(w)
    \/ PersonPlugs \/ BrowserDies

LEMMA CallFacts ==
    ASSUME NEW c, IsCall(c)
    PROVE  /\ c.by \in {"cli", "loop"} /\ c.family \in {"computer", "phone", "browser"}
           /\ c.method \in DOMAIN Tools[c.family] /\ c.at \in Point
BY ToolTables DEF IsCall

LEMMA Unavailable ==
    ASSUME IsCall(call)
    PROVE  /\ UnavailableCode[call.family] # "ok" /\ Terminal(UnavailableCode[call.family])
           /\ Terminal(UnavailableCode.computer) /\ UnavailableCode.computer # "ok"
           /\ Terminal("approval_denied")
BY CallFacts DEF Terminal, UnavailableCode

LEMMA BeginsSteps ==
    ASSUME DInv,
           \/ \E m \in CliMethods : \E p \in Targets(m) : CliCall(m, p)
           \/ \E f \in DOMAIN Tools : \E m \in DOMAIN Tools[f] : \E p \in Targets(m) : LoopCall(f, m, p)
           \/ Approves
           \/ \E p \in Targets(call.method) : Retry(p)
    PROVE  Begins \/ Asks
<1>1. IsCall(call) /\ MaxCorrections \in Nat /\ attempt \in 0..(MaxCorrections + 1) /\ call.at \in Point
  BY CallFacts, DeviceAssumption DEF DInv, Typed, DevicesTypeOK, DeviceAssumption
<1>2. \A m : Targets(m) \subseteq Point
  BY <1>1 DEF Targets
<1>3. ASSUME NEW m \in CliMethods, NEW p \in Targets(m), CliCall(m, p) PROVE Begins
  <2>1. m \in DOMAIN Tools["computer"] /\ p \in Point
    BY <1>2, ToolTables DEF CliMethods
  <2>2. IsCall(call') /\ call'.by = "cli"
    BY <1>3, <2>1, ToolTables DEF CliCall, IsCall
  <2>3. attempt' \in 0..(MaxCorrections + 1)
    BY <1>1, <1>3 DEF CliCall
  <2> QED
    BY <1>3, <2>2, <2>3 DEF CliCall, Begins
<1>4. ASSUME NEW f \in DOMAIN Tools, NEW m \in DOMAIN Tools[f], NEW p \in Targets(m), LoopCall(f, m, p)
      PROVE  Begins \/ Asks
  <2>1. p \in Point
    BY <1>2
  <2>2. IsCall(call') /\ call'.family = f /\ call'.method = m
    BY <1>4, <2>1 DEF LoopCall, IsCall
  <2>3. attempt' \in 0..(MaxCorrections + 1)
    BY <1>1, <1>4 DEF LoopCall
  <2>4. CASE Tools[f][m] = "LOW"
    BY <1>4, <2>2, <2>3, <2>4 DEF LoopCall, Begins, LowCall
  <2>5. CASE Tools[f][m] # "LOW"
    BY <1>4, <2>2, <2>3, <2>5 DEF LoopCall, Asks
  <2> QED
    BY <2>4, <2>5
<1>5. CASE Approves
  <2>1. call' = call /\ attempt' = attempt /\ presses' = presses /\ pc = "asking" /\ approved' = TRUE /\ Invokes
    BY <1>5 DEF Approves
  <2>2. call.family # "browser" => presses = 0
    BY <2>1 DEF DInv, NoSecond
  <2> QED
    BY <1>1, <2>1, <2>2 DEF Begins
<1>6. ASSUME NEW p \in Targets(call.method), Retry(p) PROVE Begins \/ Asks
  <2>1. p \in Point
    BY <1>2
  <2>2. IsCall(call') /\ call'.family = call.family /\ call'.method = call.method
    BY <1>1, <1>6, <2>1 DEF Retry, IsCall
  <2>3. attempt' \in 0..(MaxCorrections + 1)
    BY <1>1, <1>6 DEF Retry
  <2>4. call.family = "browser"
    BY <1>6 DEF Retry, DInv, NoSecond
  <2>5. CASE LowCall(call)
    BY <1>6, <2>2, <2>3, <2>4, <2>5 DEF Retry, Begins, LowCall
  <2>6. CASE ~LowCall(call)
    BY <1>6, <2>2, <2>3, <2>4, <2>6 DEF Retry, Asks, LowCall
  <2> QED
    BY <2>5, <2>6
<1> QED
  BY <1>3, <1>4, <1>5, <1>6

LEMMA HeadAndTail ==
    ASSUME NEW S, NEW s \in Seq(S), s # <<>>
    PROVE  /\ Head(s) = s[1] /\ Head(s) \in S /\ 1 \in DOMAIN s /\ Tail(s) \in Seq(S)
           /\ \A i \in DOMAIN Tail(s) : i \in Nat \ {0} /\ i + 1 \in DOMAIN s /\ Tail(s)[i] = s[i + 1]
           /\ \A i \in DOMAIN s \ {1} : i - 1 \in DOMAIN Tail(s) /\ Tail(s)[i - 1] = s[i]
           /\ Len(s) = 1 => DOMAIN s = {1}
           /\ Len(s) # 1 => Tail(s) # <<>>
<1>1. /\ Head(s) \in S /\ Tail(s) \in Seq(S) /\ Len(Tail(s)) = Len(s) - 1
      /\ \A i \in 1..(Len(s) - 1) : Tail(s)[i] = s[i + 1]
  BY HeadTailProperties
<1>2. Head(s) = s[1]
  OBVIOUS
<1>3. Len(s) \in Nat \ {0} /\ DOMAIN s = 1..Len(s) /\ DOMAIN Tail(s) = 1..(Len(s) - 1)
  BY <1>1
<1>4. ASSUME Len(s) # 1 PROVE Tail(s) # <<>>
  <2>1. 1 \in DOMAIN Tail(s)
    BY <1>3, <1>4
  <2>2. DOMAIN <<>> = {}
    OBVIOUS
  <2> QED
    BY <2>1, <2>2
<1> QED
  BY <1>1, <1>2, <1>3, <1>4

LEMMA HeadCommand ==
    ASSUME DInv, Command
    PROVE  /\ todo # <<>> /\ todo \in Seq(Cmd) /\ pc = "running" /\ Head(todo) = todo[1]
           /\ call.family = "browser" => Head(todo) \in BrowserCmd
           /\ call.family # "browser" => /\ todo \in Seq(PlainCmd \cup {End(w) : w \in Window})
                                         /\ Head(todo) \in PlainCmd \cup {End(w) : w \in Window}
                                         /\ Head(todo).kind \in {"checked", "ignored", "optional", "never"}
<1>1. todo # <<>> /\ todo \in Seq(Cmd) /\ pc = "running" /\ Head(todo).does # "search"
  BY DEF Command, DInv, Typed
<1>2. Head(todo) = todo[1]
  BY <1>1, HeadAndTail
<1>3. CASE call.family = "browser"
  BY <1>1, <1>2, <1>3, HeadAndTail DEF DInv, InHand
<1>4. CASE call.family # "browser"
  <2>1. todo # <<Ignored("search")>>
    BY <1>1, <1>2, SearchFacts
  <2>2. todo \in Seq(PlainCmd \cup {End(w) : w \in Window})
    BY <1>1, <1>4, <2>1 DEF DInv, InHand
  <2>3. Head(todo) \in PlainCmd \cup {End(w) : w \in Window}
    BY <1>1, <2>2, HeadAndTail
  <2>4. Head(todo).kind \in {"checked", "ignored", "optional", "never"}
    BY <2>3, PlainFacts, EndFacts
  <2> QED
    BY <1>1, <1>2, <1>4, <2>2, <2>3, <2>4
<1> QED
  BY <1>3, <1>4

LEMMA CommandSteps ==
    ASSUME DInv, Done \/ Refused \/ TimedOut \/ NotThere \/ ActionFails
    PROVE  GoesOn \/ Succeeds \/ Fails
<1>1. Command /\ IsCall(call)
  BY DEF Done, Refused, TimedOut, NotThere, ActionFails, DInv, Typed
<1>2. ASSUME Worked \/ Skipped, Continues PROVE GoesOn \/ Succeeds
  BY <1>1, <1>2 DEF Continues, GoesOn, Succeeds
<1>3. ASSUME Worked \/ NoEffect, Ends(UnavailableCode[call.family]), Head(todo).kind # "launch" PROVE Fails
  BY <1>1, <1>3, Unavailable DEF Fails
<1>4. CASE Done
  BY <1>2, <1>4 DEF Done, Worked
<1>5. CASE Refused
  BY <1>2, <1>3, <1>5 DEF Refused, Skipped
<1>6. CASE TimedOut
  BY <1>2, <1>3, <1>6 DEF TimedOut, Worked, Skipped
<1>7. CASE NotThere
  <2>1. Head(todo).kind # "launch"
    BY <1>1, <1>7, HeadCommand DEF NotThere
  <2> QED
    BY <1>2, <1>3, <1>7, <2>1 DEF NotThere, Skipped
<1>8. CASE ActionFails
  <2>1. call.family = "browser"
    BY <1>1, <1>8, HeadCommand DEF ActionFails
  <2>2. Worked \/ NoEffect
    BY <1>8 DEF ActionFails, Worked
  <2>3. PICK r \in {"action_failed", "execution_error"} : Ends(r)
    BY <1>8 DEF ActionFails
  <2> QED
    BY <1>1, <1>8, <2>1, <2>2, <2>3 DEF ActionFails, Fails
<1> QED
  BY <1>4, <1>5, <1>6, <1>7, <1>8

LEMMA Steps ==
    ASSUME DInv, Next
    PROVE  \/ Begins \/ Asks \/ GoesOn \/ Succeeds \/ Fails \/ Denies \/ NothingToDo \/ Search
           \/ LaunchFails \/ StepEnds \/ Reset \/ PersonActs
BY BeginsSteps, CommandSteps DEF Next, PersonActs

LEMMA TailFacts ==
    ASSUME NEW S, NEW s \in Seq(S), s # <<>>
    PROVE  /\ AtMostOnce(s) => /\ AtMostOnce(Tail(s))
                               /\ Head(s).does \in Irreversible =>
                                    \A i \in DOMAIN Tail(s) : Tail(s)[i].does \notin Irreversible
           /\ Quiet(s) => Quiet(Tail(s)) /\ Head(s).does \notin Grave \cup {"search"}
           /\ ActsOnly(s) => ActsOnly(Tail(s)) /\ Head(s).kind # "launch"
           /\ LaunchesFirst(s) =>
                /\ Head(s).kind = "launch"
                /\ IF Head(s).does = "new page" THEN ActsOnly(Tail(s))
                   ELSE LaunchesFirst(Tail(s)) /\ Len(s) # 1
<1>1. /\ Head(s) = s[1] /\ 1 \in DOMAIN s
      /\ \A i \in DOMAIN Tail(s) : i \in Nat \ {0} /\ i + 1 \in DOMAIN s /\ Tail(s)[i] = s[i + 1]
      /\ \A i \in DOMAIN s \ {1} : i - 1 \in DOMAIN Tail(s) /\ Tail(s)[i - 1] = s[i]
      /\ Len(s) = 1 => DOMAIN s = {1}
  BY HeadAndTail
<1>2. DOMAIN s \subseteq Nat \ {0}
  OBVIOUS
<1>3. ASSUME AtMostOnce(s)
      PROVE  /\ AtMostOnce(Tail(s))
             /\ Head(s).does \in Irreversible =>
                  \A i \in DOMAIN Tail(s) : Tail(s)[i].does \notin Irreversible
  <2>1. ASSUME NEW i \in DOMAIN Tail(s), NEW j \in DOMAIN Tail(s), Tail(s)[i].does \in Irreversible,
               Tail(s)[j].does \in Irreversible
        PROVE  i = j
    <3>1. i + 1 = j + 1
      BY <1>1, <1>3, <2>1 DEF AtMostOnce
    <3> QED
      BY <1>1, <3>1
  <2>2. ASSUME Head(s).does \in Irreversible, NEW i \in DOMAIN Tail(s), Tail(s)[i].does \in Irreversible
        PROVE  FALSE
    <3>1. 1 = i + 1
      BY <1>1, <1>3, <2>2 DEF AtMostOnce
    <3> QED
      BY <1>1, <3>1
  <2> QED
    BY <2>1, <2>2 DEF AtMostOnce
<1>4. Quiet(s) => Quiet(Tail(s)) /\ Head(s).does \notin Grave \cup {"search"}
  BY <1>1 DEF Quiet
<1>5. ActsOnly(s) => ActsOnly(Tail(s)) /\ Head(s).kind # "launch"
  BY <1>1 DEF ActsOnly
<1>6. ASSUME LaunchesFirst(s)
      PROVE  /\ Head(s).kind = "launch"
             /\ IF Head(s).does = "new page" THEN ActsOnly(Tail(s))
                ELSE LaunchesFirst(Tail(s)) /\ Len(s) # 1
  <2>1. PICK k \in DOMAIN s : \A i \in DOMAIN s :
            (s[i].does = "new page" <=> i = k) /\ (s[i].kind = "launch" <=> i <= k)
    BY <1>6 DEF LaunchesFirst
  <2>2. 1 <= k
    BY <1>2
  <2>3. Head(s).kind = "launch"
    BY <1>1, <2>1, <2>2
  <2>4. CASE Head(s).does = "new page"
    <3>1. k = 1
      BY <1>1, <2>1, <2>4
    <3>2. ASSUME NEW i \in DOMAIN Tail(s) PROVE Tail(s)[i].kind # "launch"
      <4>1. ~(i + 1 <= k)
        BY <1>1, <3>1
      <4> QED
        BY <1>1, <2>1, <4>1
    <3> QED
      BY <2>3, <2>4, <3>2 DEF ActsOnly
  <2>5. CASE Head(s).does # "new page"
    <3>1. k # 1
      BY <1>1, <2>1, <2>5
    <3>2. k - 1 \in DOMAIN Tail(s)
      BY <1>1, <3>1
    <3>3. ASSUME NEW i \in DOMAIN Tail(s)
          PROVE  /\ Tail(s)[i].does = "new page" <=> i = k - 1
                 /\ Tail(s)[i].kind = "launch" <=> i <= k - 1
      <4>1. (i + 1 = k <=> i = k - 1) /\ (i + 1 <= k <=> i <= k - 1)
        BY <1>1, <1>2
      <4>2. i + 1 \in DOMAIN s /\ Tail(s)[i] = s[i + 1]
        BY <1>1
      <4>3. /\ s[i + 1].does = "new page" <=> i + 1 = k
            /\ s[i + 1].kind = "launch" <=> i + 1 <= k
        BY <2>1, <4>2
      <4>4. /\ s[i + 1].does = "new page" <=> i = k - 1
            /\ s[i + 1].kind = "launch" <=> i <= k - 1
        BY <4>1, <4>3
      <4> QED
        BY <4>2, <4>4
    <3>4. LaunchesFirst(Tail(s))
      BY <3>2, <3>3 DEF LaunchesFirst
    <3>5. Len(s) # 1
      BY <1>1, <3>1
    <3> QED
      BY <2>3, <2>5, <3>4, <3>5
  <2> QED
    BY <2>4, <2>5
<1> QED
  BY <1>3, <1>4, <1>5, <1>6

\* SetToSeq lists the elements of a finite set.
LEMMA Listed ==
    ASSUME NEW S, IsFiniteSet(S)
    PROVE  /\ SetToSeq(S) \in Seq(S)
           /\ \A x \in S : \E i \in DOMAIN SetToSeq(S) : SetToSeq(S)[i] = x
<1> DEFINE n == Cardinality(S)
           q == SetToSeq(S)
<1>1. n \in Nat /\ \E f : f \in Bijection(1..n, S)
  BY FS_CardinalityType DEF ExistsBijection
<1>2. \E f \in [1..n -> S] : IsInjective(f)
  BY <1>1 DEF Bijection, Injection, IsInjective
<1>3. q \in [1..n -> S] /\ IsInjective(q)
  BY <1>2 DEF SetToSeq
<1>4. q \in Injection(1..n, S)
  BY <1>3 DEF Injection, IsInjective
<1>5. q \in Seq(S)
  BY <1>1, <1>3, IsASeq
<1>6. IsFiniteSet(1..n) /\ Cardinality(1..n) = n
  BY <1>1, FS_Interval
<1>7. q \in Surjection(1..n, S)
  BY <1>4, <1>6, FS_Injection
<1>8. DOMAIN q = 1..n /\ \A x \in S : \E i \in 1..n : q[i] = x
  BY <1>3, <1>7 DEF Surjection
<1> QED
  BY <1>5, <1>8

-----------------------------------------------------------------------------
(* Every part of the invariant is kept by every step. *)

LEMMA SearchResult ==
    ASSUME DInv, Search
    PROVE  /\ call.family = "computer" /\ call.method = "close_application" /\ NoEffect
           /\ \/ Ends(UnavailableCode.computer)
              \/ /\ todo' \in Seq({End(w) : w \in windows}) /\ found' = windows
                 /\ windows # {} /\ \A w \in windows : \E i \in DOMAIN todo' : todo'[i] = End(w)
                 /\ UNCHANGED <<judged, world, pc, code, disturbed, lastSession>>
<1> DEFINE Ending == {End(w) : w \in windows}
<1>1. pc = "running" /\ todo # <<>> /\ Head(todo).does = "search" /\ todo \in Seq(Cmd)
  BY DEF Search, DInv, Typed
<1>2. Head(todo) = todo[1] /\ 1 \in DOMAIN todo
  BY <1>1, HeadAndTail
<1>3. call.family # "browser"
  BY <1>1, <1>2, BrowserFacts, HeadAndTail DEF DInv, InHand
<1>4. todo \notin Seq(PlainCmd \cup {End(w) : w \in Window})
  <2>1. SUFFICES ASSUME todo \in Seq(PlainCmd \cup {End(w) : w \in Window}) PROVE FALSE
    OBVIOUS
  <2>2. Head(todo) \in PlainCmd \cup {End(w) : w \in Window}
    BY <1>1, <2>1, HeadAndTail
  <2> QED
    BY <1>1, <2>2, PlainFacts, EndFacts, Effects
<1>5. call.family = "computer" /\ call.method = "close_application"
  BY <1>1, <1>3, <1>4 DEF DInv, InHand
<1>6. IsFiniteSet(Ending)
  <2> DEFINE f == [w \in windows |-> End(w)]
  <2>1. f \in Surjection(windows, Ending)
    BY DEF Surjection
  <2>2. IsFiniteSet(windows)
    BY FS_Subset, DeviceAssumption DEF DInv, Typed, DevicesTypeOK, DeviceAssumption
  <2> QED
    BY <2>1, <2>2, FS_Surjection
<1>7. /\ SetToSeq(Ending) \in Seq(Ending)
      /\ \A x \in Ending : \E i \in DOMAIN SetToSeq(Ending) : SetToSeq(Ending)[i] = x
  BY <1>6, Listed
<1> QED
  BY <1>5, <1>7 DEF Search

LEMMA TypedStep ==
    ASSUME DInv, [Next]_vars
    PROVE  Typed'
<1> USE DEF Typed, DevicesTypeOK
<1>1. Typed /\ MaxSessions \in Nat /\ MaxCorrections \in Nat
  BY DeviceAssumption DEF DInv, DeviceAssumption
<1> DEFINE Places == pointer \in Point /\ pressedAt \in Point
           Desk   == windows \subseteq Window
           Engine == /\ page \in BOOLEAN /\ driver \in {"none", "running", "lost"}
                     /\ chromium \in {"none", "alive", "dead", "lost"}
           Count  == sessions \in 0..MaxSessions /\ session \in 0..sessions
           More   == sessions' >= sessions
           Things == Places' /\ Desk' /\ Engine' /\ Count' /\ More
<1>2. ASSUME Worked PROVE Things
  <2>1. Places'
    BY <1>1, <1>2, CallFacts DEF Worked, Effect
  <2>2. Desk'
    BY <1>1, <1>2 DEF Worked, Effect
  <2>3. Engine'
    BY <1>1, <1>2 DEF Worked, Effect
  <2>4. Count' /\ More
    <3>1. CASE Head(todo).does = "new page"
      <4>1. sessions < MaxSessions /\ sessions' = sessions + 1 /\ session' = sessions + 1
        BY <1>2, <3>1 DEF Worked, Works, Effect
      <4> QED
        BY <1>1, <4>1
    <3>2. CASE Head(todo).does # "new page"
      <4>1. sessions' = sessions /\ session' = session
        BY <1>2, <3>2 DEF Worked, Effect
      <4> QED
        BY <1>1, <4>1
    <3> QED
      BY <3>1, <3>2
  <2> QED
    BY <2>1, <2>2, <2>3, <2>4
<1>3. ASSUME NoEffect PROVE Things
  BY <1>1, <1>3 DEF NoEffect, effects
<1>18. ASSUME Discard PROVE Things
  <2>1. sessions' = sessions /\ session' = 0
    BY <1>18 DEF Discard
  <2>2. Count' /\ More
    BY <1>1, <2>1
  <2> QED
    BY <1>1, <1>18, <2>2 DEF Discard
<1>4. ASSUME Things, NEW r, Ends(r) PROVE Typed'
  <2>1. lastSession' \in 0..sessions'
    BY <1>1, <1>4 DEF Ends
  <2>2. todo' \in Seq(Cmd) /\ pc' = "judging" /\ IsCall(call)'
    BY <1>1, <1>4 DEF Ends, judged, IsCall
  <2> QED
    BY <1>1, <1>4, <2>1, <2>2 DEF Ends, judged, world
<1>5. CASE Begins
  <2>1. todo' \in Seq(Cmd)
    BY <1>5, ScriptsSound DEF Begins, Invokes
  <2>2. IsCall(call)' /\ attempt' \in 0..(MaxCorrections + 1) /\ approved' \in BOOLEAN
    BY <1>5 DEF Begins, IsCall
  <2> QED
    BY <1>1, <1>5, <2>1, <2>2 DEF Begins, Invokes, world
<1>6. CASE Asks
  <2>1. IsCall(call)' /\ attempt' \in 0..(MaxCorrections + 1) /\ approved' \in BOOLEAN /\ todo' \in Seq(Cmd)
    BY <1>6 DEF Asks, IsCall
  <2> QED
    BY <1>1, <1>6, <2>1 DEF Asks, world
<1>7. CASE GoesOn
  <2>1. Things
    BY <1>2, <1>3, <1>7 DEF GoesOn, Skipped
  <2>2. todo' \in Seq(Cmd)
    BY <1>1, <1>7, HeadAndTail DEF GoesOn, Command
  <2>3. lastSession' \in 0..sessions' /\ IsCall(call)'
    BY <1>1, <1>7, <2>1 DEF GoesOn, judged, IsCall
  <2> QED
    BY <1>1, <1>7, <2>1, <2>2, <2>3 DEF GoesOn, judged, world
<1>8. CASE Succeeds
  <2>1. Things
    BY <1>2, <1>3, <1>8 DEF Succeeds, Skipped
  <2> QED
    BY <1>4, <1>8, <2>1 DEF Succeeds
<1>9. CASE Fails
  <2>1. Things
    BY <1>2, <1>3, <1>9 DEF Fails
  <2> QED
    BY <1>4, <1>9, <2>1 DEF Fails
<1>10. CASE Denies
  BY <1>3, <1>4, <1>10 DEF Denies
<1>11. CASE NothingToDo
  BY <1>3, <1>4, <1>11 DEF NothingToDo
<1>12. CASE Search
  <2>1. NoEffect
    BY <1>12 DEF Search
  <2>2. CASE Ends(UnavailableCode.computer)
    BY <1>3, <1>4, <2>1, <2>2
  <2>3. CASE ~Ends(UnavailableCode.computer)
    <3>1. /\ todo' \in Seq({End(w) : w \in windows}) /\ found' = windows
          /\ UNCHANGED <<judged, world, pc, code, disturbed, lastSession>>
      BY <1>12, <2>3, SearchResult
    <3>2. {End(w) : w \in windows} \subseteq Cmd
      BY <1>1, EndFacts
    <3>3. todo' \in Seq(Cmd)
      BY <3>1, <3>2, SeqMonotonic
    <3> QED
      BY <1>1, <2>1, <3>1, <3>3 DEF NoEffect, effects, judged, world, IsCall
  <2> QED
    BY <2>2, <2>3
<1>13. CASE LaunchFails
  BY <1>4, <1>13, <1>18 DEF LaunchFails
<1>14. CASE StepEnds
  <2>1. attempt' \in 0..(MaxCorrections + 1) /\ IsCall(call)'
    BY <1>1, <1>14 DEF StepEnds, IsCall
  <2> QED
    BY <1>1, <1>14, <2>1 DEF StepEnds, world
<1>15. CASE Reset
  <2>1. Things /\ lastSession' = 0
    BY <1>15, <1>18 DEF Reset
  <2>2. lastSession' \in 0..sessions' /\ IsCall(call)'
    BY <1>1, <1>15, <2>1 DEF Reset, judged, IsCall
  <2> QED
    BY <1>1, <1>15, <2>1, <2>2 DEF Reset, judged, world
<1>16. CASE PersonActs
  <2>1. IsCall(call)'
    BY <1>1, <1>16 DEF PersonActs, PersonMoves, PersonOpensOrCloses, PersonPlugs, BrowserDies, judged, IsCall
  <2>2. ASSUME NEW p \in Point, PersonMoves(p) PROVE Typed'
    BY <1>1, <2>1, <2>2 DEF PersonMoves, judged, world
  <2>3. ASSUME NEW w \in Window, PersonOpensOrCloses(w) PROVE Typed'
    BY <1>1, <2>1, <2>3 DEF PersonOpensOrCloses, judged, world
  <2>4. CASE PersonPlugs
    BY <1>1, <2>1, <2>4 DEF PersonPlugs, judged, effects
  <2>5. CASE BrowserDies
    BY <1>1, <2>1, <2>5 DEF BrowserDies, judged, world
  <2> QED
    BY <1>16, <2>2, <2>3, <2>4, <2>5 DEF PersonActs
<1>17. CASE UNCHANGED vars
  BY <1>1, <1>17 DEF vars, judged, effects, world, IsCall
<1> QED
  BY <1>5, <1>6, <1>7, <1>8, <1>9, <1>10, <1>11, <1>12, <1>13, <1>14, <1>15, <1>16, <1>17, Steps

LEMMA NoSecondStep ==
    ASSUME DInv, [Next]_vars
    PROVE  NoSecond'
<1> USE DEF NoSecond
<1>1. NoSecond /\ IsCall(call)
  BY DEF DInv, Typed
<1>2. CASE Begins
  <2>1. IsCall(call') /\ call'.family \in {"computer", "phone", "browser"}
    BY <1>2, CallFacts DEF Begins
  <2>2. todo' \in Scripts(call') /\ pc' = "running"
    BY <1>2 DEF Begins, Invokes
  <2>3. call'.family # "browser" => AtMostOnce(todo')
    BY <2>1, <2>2, ScriptsSound DEF ComputerScript, PhoneScript
  <2>4. call'.family # "browser" => presses' = 0
    BY <1>2 DEF Begins
  <2> QED
    BY <2>2, <2>3, <2>4
<1>3. CASE Asks
  BY <1>3 DEF Asks
<1>4. ASSUME Command, Worked \/ NoEffect, call.family # "browser"
      PROVE  /\ presses' \in {0, 1}
             /\ AtMostOnce(Tail(todo))
             /\ presses' = 1 => \A i \in DOMAIN Tail(todo) : Tail(todo)[i].does \notin Irreversible
  <2>1. /\ todo # <<>> /\ todo \in Seq(Cmd) /\ pc = "running" /\ Head(todo) = todo[1] /\ 1 \in DOMAIN todo
        /\ \A i \in DOMAIN Tail(todo) : i + 1 \in DOMAIN todo /\ Tail(todo)[i] = todo[i + 1]
    BY <1>4, HeadCommand, HeadAndTail
  <2>2. /\ AtMostOnce(Tail(todo))
        /\ Head(todo).does \in Irreversible =>
             \A i \in DOMAIN Tail(todo) : Tail(todo)[i].does \notin Irreversible
    BY <1>1, <1>4, <2>1, TailFacts
  <2>3. presses = 1 => /\ Head(todo).does \notin Irreversible
                      /\ \A i \in DOMAIN Tail(todo) : Tail(todo)[i].does \notin Irreversible
    BY <1>1, <1>4, <2>1
  <2>4. presses' = presses \/ (presses' = presses + 1 /\ Head(todo).does \in Irreversible)
    BY <1>4 DEF Worked, Effect, NoEffect, effects
  <2> QED
    BY <1>1, <1>4, <2>2, <2>3, <2>4
<1>5. ASSUME NEW r, Ends(r), r = "ok" \/ Terminal(r) \/ call.family = "browser",
             call.family # "browser" => presses' \in {0, 1}
      PROVE  NoSecond'
  BY <1>5 DEF Ends, judged, Terminal
<1>6. CASE GoesOn
  BY <1>4, <1>6 DEF GoesOn, Skipped, judged, Command
<1>7. CASE Succeeds
  BY <1>4, <1>5, <1>7 DEF Succeeds, Skipped
<1>8. CASE Fails
  BY <1>4, <1>5, <1>8 DEF Fails
<1>9. CASE Denies
  BY <1>1, <1>5, <1>9, Unavailable DEF Denies, NoEffect, effects
<1>10. CASE NothingToDo
  BY <1>1, <1>5, <1>10 DEF NothingToDo, NoEffect, effects
<1>11. CASE Search
  <2>1. NoEffect /\ pc = "running"
    BY <1>11 DEF Search
  <2>2. presses' = presses
    BY <2>1 DEF NoEffect, effects
  <2>3. CASE Ends(UnavailableCode.computer)
    BY <1>1, <1>5, <2>2, <2>3, Unavailable
  <2>4. CASE ~Ends(UnavailableCode.computer)
    <3>1. todo' \in Seq({End(w) : w \in windows}) /\ UNCHANGED <<judged, pc>>
      BY <1>11, <2>4, SearchResult
    <3>2. \A i \in DOMAIN todo' : todo'[i].does \notin Irreversible
      <4>1. ASSUME NEW i \in DOMAIN todo' PROVE \E w \in windows : todo'[i] = End(w)
        BY <3>1
      <4>2. \A w \in windows : End(w).does \notin Irreversible
        BY EndFacts DEF DInv, Typed, DevicesTypeOK, Irreversible
      <4> QED
        BY <4>1, <4>2
    <3> QED
      BY <1>1, <2>1, <2>2, <3>1, <3>2 DEF AtMostOnce, judged
  <2> QED
    BY <2>3, <2>4
<1>12. CASE LaunchFails
  BY <1>1, <1>5, <1>12, HeadCommand DEF LaunchFails
<1>13. CASE StepEnds
  BY <1>13 DEF StepEnds
<1>14. CASE Reset
  BY <1>1, <1>14 DEF Reset, Discard, judged
<1>15. CASE PersonActs
  BY <1>1, <1>15 DEF PersonActs, PersonMoves, PersonOpensOrCloses, PersonPlugs, BrowserDies, judged, effects
<1>16. CASE UNCHANGED vars
  BY <1>1, <1>16 DEF vars, judged, effects
<1> QED
  BY <1>2, <1>3, <1>6, <1>7, <1>8, <1>9, <1>10, <1>11, <1>12, <1>13, <1>14, <1>15, <1>16, Steps

LEMMA AskedFirstStep ==
    ASSUME DInv, [Next]_vars
    PROVE  AskedFirst'
<1> USE DEF AskedFirst
<1>1. AskedFirst /\ IsCall(call)
  BY DEF DInv, Typed
<1>2. CASE Begins
  <2>1. IsCall(call') /\ call'.family \in {"computer", "phone", "browser"}
    BY <1>2, CallFacts DEF Begins
  <2>2. todo' \in Scripts(call') /\ did' = {}
    BY <1>2 DEF Begins, Invokes
  <2>3. LowCall(call') => Quiet(todo')
    BY <2>1, <2>2, ScriptsSound, ToolTables DEF ComputerScript, PhoneScript, LowCall
  <2>4. call'.by = "loop" /\ ~approved' => LowCall(call')
    BY <1>2 DEF Begins
  <2> QED
    BY <2>2, <2>3, <2>4
<1>3. CASE Asks
  BY <1>3 DEF Asks
<1>4. ASSUME Command, Worked \/ NoEffect, call.by = "loop" /\ ~approved
      PROVE  did' \cap Grave = {} /\ Quiet(Tail(todo))
  <2>1. todo # <<>> /\ todo \in Seq(Cmd) /\ pc = "running"
    BY <1>4, HeadCommand
  <2>2. Quiet(Tail(todo)) /\ Head(todo).does \notin Grave /\ did \cap Grave = {}
    BY <1>1, <1>4, <2>1, TailFacts
  <2>3. did' \subseteq did \cup {Head(todo).does}
    BY <1>4 DEF Worked, Effect, NoEffect, effects
  <2> QED
    BY <2>2, <2>3
<1>5. ASSUME NEW r, Ends(r), call.by = "loop" /\ ~approved => did' \cap Grave = {}
      PROVE  AskedFirst'
  BY <1>5 DEF Ends, judged
<1>6. CASE GoesOn
  BY <1>4, <1>6 DEF GoesOn, Skipped, judged
<1>7. CASE Succeeds
  BY <1>4, <1>5, <1>7 DEF Succeeds, Skipped
<1>8. CASE Fails
  BY <1>4, <1>5, <1>8 DEF Fails
<1>9. CASE Denies
  BY <1>1, <1>5, <1>9 DEF Denies, NoEffect, effects
<1>10. CASE NothingToDo
  BY <1>1, <1>5, <1>10 DEF NothingToDo, NoEffect, effects
<1>11. CASE Search
  <2>1. ~(call.by = "loop" /\ ~approved)
    BY <1>1, <1>11, HeadAndTail DEF Search, Quiet, DInv, Typed
  <2>2. UNCHANGED judged
    BY <1>11 DEF Search, Ends
  <2> QED
    BY <2>1, <2>2 DEF judged
<1>12. CASE LaunchFails
  BY <1>1, <1>5, <1>12 DEF LaunchFails, Discard
<1>13. CASE StepEnds
  BY <1>13 DEF StepEnds
<1>14. CASE Reset
  BY <1>1, <1>14 DEF Reset, Discard, judged
<1>15. CASE PersonActs
  BY <1>1, <1>15 DEF PersonActs, PersonMoves, PersonOpensOrCloses, PersonPlugs, BrowserDies, judged, effects
<1>16. CASE UNCHANGED vars
  BY <1>1, <1>16 DEF vars, judged, effects
<1> QED
  BY <1>2, <1>3, <1>6, <1>7, <1>8, <1>9, <1>10, <1>11, <1>12, <1>13, <1>14, <1>15, <1>16, Steps

LEMMA InHandStep ==
    ASSUME DInv, [Next]_vars
    PROVE  InHand'
<1> USE DEF InHand
<1> DEFINE Simple == PlainCmd \cup {End(w) : w \in Window}
<1>1. InHand /\ IsCall(call) /\ page \in BOOLEAN
  BY DEF DInv, Typed, DevicesTypeOK
<1>2. CASE Begins
  <2>1. /\ IsCall(call') /\ call'.family \in {"computer", "phone", "browser"}
        /\ todo' \in Scripts(call') /\ page' = page
    BY <1>2, CallFacts DEF Begins, Invokes
  <2>2. CASE call'.family = "browser"
    BY <2>1, <2>2, ScriptsSound
  <2>3. CASE call'.family = "computer"
    <3>1. ComputerScript(call'.method, todo')
      BY <2>1, <2>3, ScriptsSound
    <3>2. CASE todo' \in Seq(PlainCmd)
      BY <2>3, <3>2, SeqMonotonic
    <3> QED
      BY <2>3, <3>1, <3>2 DEF ComputerScript
  <2>4. CASE call'.family = "phone"
    <3>1. todo' \in Seq(PlainCmd)
      BY <2>1, <2>4, ScriptsSound DEF PhoneScript
    <3> QED
      BY <2>4, <3>1, SeqMonotonic
  <2> QED
    BY <2>1, <2>2, <2>3, <2>4
<1>3. CASE Asks
  BY <1>3 DEF Asks
<1>4. CASE GoesOn
  <2>1. Command /\ todo' = Tail(todo) /\ call' = call /\ (Worked \/ NoEffect) /\ Len(todo) # 1
    BY <1>4 DEF GoesOn, Skipped, judged
  <2>2. pc = "running" /\ todo # <<>>
    BY <2>1, HeadCommand
  <2>3. CASE call.family # "browser"
    <3>1. todo' \in Seq(Simple)
      BY <2>1, <2>2, <2>3, HeadCommand, HeadAndTail
    <3> QED
      BY <2>1, <2>3, <3>1
  <2>4. CASE call.family = "browser"
    <3>1. todo \in Seq(BrowserCmd) /\ (page => ActsOnly(todo)) /\ (~page => LaunchesFirst(todo))
      BY <1>1, <2>2, <2>4
    <3>2. todo' \in Seq(BrowserCmd) /\ todo' # <<>>
      BY <2>1, <2>2, <3>1, HeadAndTail
    <3>3. Head(todo) \in BrowserCmd
      BY <2>2, <3>1, HeadAndTail
    <3>4. CASE page
      <4>1. ActsOnly(todo')
        BY <2>1, <2>2, <3>1, <3>4, TailFacts
      <4>2. page'
        BY <2>1, <3>4 DEF Worked, Effect, NoEffect, effects
      <4> QED
        BY <2>1, <2>4, <3>2, <4>1, <4>2
    <3>5. CASE ~page
      <4>1. /\ Head(todo).kind = "launch"
            /\ IF Head(todo).does = "new page" THEN ActsOnly(todo') ELSE LaunchesFirst(todo')
        BY <2>1, <2>2, <3>1, <3>5, TailFacts
      <4>2. Worked
        BY <1>4, <4>1 DEF GoesOn, Skipped
      <4>3. page' <=> Head(todo).does = "new page"
        BY <3>5, <4>2 DEF Worked, Effect
      <4> QED
        BY <2>1, <2>4, <3>2, <4>1, <4>3
    <3> QED
      BY <3>4, <3>5
  <2> QED
    BY <2>3, <2>4
<1>5. ASSUME NEW r, Ends(r) PROVE InHand'
  BY <1>5 DEF Ends
<1>6. CASE Succeeds \/ Fails \/ Denies \/ NothingToDo \/ LaunchFails
  BY <1>5, <1>6 DEF Succeeds, Fails, Denies, NothingToDo, LaunchFails
<1>7. CASE Search
  <2>1. CASE Ends(UnavailableCode.computer)
    BY <1>5, <2>1
  <2>2. CASE ~Ends(UnavailableCode.computer)
    <3>1. todo' \in Seq({End(w) : w \in windows}) /\ call' = call /\ call.family = "computer"
      BY <1>7, <2>2, SearchResult DEF judged
    <3>2. {End(w) : w \in windows} \subseteq Simple
      BY DEF DInv, Typed, DevicesTypeOK
    <3>3. todo' \in Seq(Simple)
      BY <3>1, <3>2, SeqMonotonic
    <3> QED
      BY <3>1, <3>3
  <2> QED
    BY <2>1, <2>2
<1>8. CASE StepEnds
  BY <1>8 DEF StepEnds
<1>9. CASE Reset
  BY <1>9 DEF Reset
<1>10. CASE PersonActs
  <2>1. UNCHANGED <<call, pc, todo, page>>
    BY <1>10 DEF PersonActs, PersonMoves, PersonOpensOrCloses, PersonPlugs, BrowserDies, judged, effects
  <2> QED
    BY <1>1, <2>1 DEF ActsOnly, LaunchesFirst
<1>11. CASE UNCHANGED vars
  BY <1>1, <1>11 DEF vars, judged, effects
<1> QED
  BY <1>2, <1>3, <1>4, <1>6, <1>7, <1>8, <1>9, <1>10, <1>11, Steps

LEMMA NothingStrayStep ==
    ASSUME DInv, [Next]_vars
    PROVE  NothingStray'
<1> USE DEF NothingStray
<1>1. NothingStray /\ page \in BOOLEAN
  BY DEF DInv, Typed, DevicesTypeOK
<1> DEFINE Clean == driver # "running" /\ chromium \notin {"alive", "dead"}
<1>2. CASE Begins
  <2>1. pc # "running" /\ UNCHANGED <<page, driver, chromium>>
    BY <1>2 DEF Begins, Invokes
  <2> QED
    BY <1>1, <2>1
<1>3. CASE Asks
  <2>1. pc # "running" /\ UNCHANGED <<page, driver, chromium>>
    BY <1>3 DEF Asks
  <2> QED
    BY <1>1, <2>1
<1>4. ASSUME Command, Worked \/ NoEffect, call.family # "browser"
      PROVE  UNCHANGED <<page, driver, chromium>>
  <2>1. Head(todo).does \notin {"start", "launch browser", "new page"}
    <3>1. Head(todo) \in PlainCmd \/ \E w \in Window : Head(todo) = End(w)
      BY <1>4, HeadCommand
    <3>2. Head(todo).does \in Plain \cup {"end"}
      BY <3>1, PlainFacts, EndFacts
    <3> QED
      BY <3>2, Effects
  <2> QED
    BY <1>1, <1>4, <2>1 DEF Worked, Effect, NoEffect, effects
<1>5. CASE GoesOn
  <2>1. call' = call /\ pc' = pc /\ pc = "running" /\ Command /\ (Worked \/ NoEffect)
    BY <1>5, HeadCommand DEF GoesOn, Skipped, judged
  <2>2. CASE call.family = "browser"
    BY <2>1, <2>2
  <2>3. CASE call.family # "browser"
    BY <1>1, <1>4, <2>1, <2>3
  <2> QED
    BY <2>2, <2>3
<1>6. CASE Succeeds
  <2>1. call' = call /\ pc = "running" /\ Command /\ (Worked \/ Skipped) /\ (Worked \/ NoEffect) /\ Len(todo) = 1
    BY <1>6, HeadCommand DEF Succeeds, Skipped, Ends, judged
  <2>2. CASE call.family # "browser"
    BY <1>1, <1>4, <2>1, <2>2
  <2>3. CASE call.family = "browser" /\ page
    BY <2>1, <2>3 DEF Worked, Effect, NoEffect, effects
  <2>4. CASE call.family = "browser" /\ ~page
    <3>1. LaunchesFirst(todo) /\ todo \in Seq(Cmd) /\ todo # <<>>
      BY <2>1, <2>4, HeadCommand DEF DInv, InHand
    <3>2. Head(todo).kind = "launch" /\ Head(todo).does = "new page"
      BY <2>1, <3>1, TailFacts
    <3> QED
      BY <2>1, <3>2 DEF Worked, Skipped, Effect
  <2> QED
    BY <2>2, <2>3, <2>4
<1>7. CASE Fails
  <2>1. call' = call /\ pc = "running" /\ Command /\ (Worked \/ NoEffect)
    BY <1>7, HeadCommand DEF Fails, Ends, judged
  <2>2. CASE call.family # "browser"
    BY <1>1, <1>4, <2>1, <2>2
  <2>3. CASE call.family = "browser" /\ page
    BY <2>1, <2>3 DEF Worked, Effect, NoEffect, effects
  <2>4. CASE call.family = "browser" /\ ~page
    <3>1. LaunchesFirst(todo) /\ todo \in Seq(Cmd) /\ todo # <<>>
      BY <2>1, <2>4, HeadCommand DEF DInv, InHand
    <3>2. Head(todo).kind = "launch"
      BY <2>1, <3>1, TailFacts
    <3> QED
      BY <1>7, <3>2 DEF Fails
  <2> QED
    BY <2>2, <2>3, <2>4
<1>8. CASE Denies
  <2>1. pc = "asking" /\ UNCHANGED <<page, driver, chromium>>
    BY <1>8 DEF Denies, NoEffect, effects
  <2> QED
    BY <1>1, <2>1
<1>9. CASE NothingToDo
  <2>1. call.family # "browser" /\ UNCHANGED <<page, driver, chromium>>
    BY <1>9 DEF NothingToDo, NoEffect, effects, DInv, InHand
  <2> QED
    BY <1>1, <2>1
<1>10. CASE Search
  <2>1. call.family = "computer" /\ call' = call /\ UNCHANGED <<page, driver, chromium>>
    BY <1>10, SearchResult DEF NoEffect, effects, Ends, judged
  <2> QED
    BY <1>1, <2>1
<1>11. CASE LaunchFails \/ Reset
  BY <1>11 DEF LaunchFails, Reset, Discard
<1>12. CASE StepEnds
  <2>1. pc # "running" /\ UNCHANGED <<page, driver, chromium>>
    BY <1>12 DEF StepEnds
  <2> QED
    BY <1>1, <2>1
<1>13. CASE PersonActs
  <2>1. UNCHANGED <<call, pc, page, driver>>
    BY <1>13 DEF PersonActs, PersonMoves, PersonOpensOrCloses, PersonPlugs, BrowserDies, judged, effects
  <2>2. chromium' = chromium \/ chromium = "alive"
    BY <1>13 DEF PersonActs, PersonMoves, PersonOpensOrCloses, PersonPlugs, BrowserDies, judged, effects
  <2> QED
    BY <1>1, <2>1, <2>2
<1>14. CASE UNCHANGED vars
  BY <1>1, <1>14 DEF vars, judged, effects
<1> QED
  BY <1>2, <1>3, <1>5, <1>6, <1>7, <1>8, <1>9, <1>10, <1>11, <1>12, <1>13, <1>14, Steps

LEMMA OneSessionStep ==
    ASSUME DInv, [Next]_vars
    PROVE  OneSession'
<1> USE DEF OneSession
<1>1. OneSession /\ page \in BOOLEAN
  BY DEF DInv, Typed, DevicesTypeOK
<1>2. ASSUME UNCHANGED <<lastSession, page, session>> PROVE OneSession'
  BY <1>1, <1>2
<1>3. CASE Begins \/ Asks \/ StepEnds
  BY <1>2, <1>3 DEF Begins, Invokes, Asks, StepEnds
<1>4. ASSUME Command, Worked \/ NoEffect, page PROVE page' /\ session' = session
  <2>1. Head(todo).does # "new page"
    <3>1. CASE call.family = "browser"
      <4>1. ActsOnly(todo) /\ todo \in Seq(Cmd) /\ todo # <<>> /\ Head(todo) \in BrowserCmd
        BY <1>4, <3>1, HeadCommand DEF DInv, InHand
      <4>2. Head(todo).kind # "launch"
        BY <4>1, TailFacts
      <4> QED
        BY <4>1, <4>2, BrowserFacts
    <3>2. CASE call.family # "browser"
      <4>1. Head(todo) \in PlainCmd \/ \E w \in Window : Head(todo) = End(w)
        BY <1>4, <3>2, HeadCommand
      <4>2. Head(todo).does \in Plain \cup {"end"}
        BY <4>1, PlainFacts, EndFacts
      <4> QED
        BY <4>2, Effects
    <3> QED
      BY <3>1, <3>2
  <2> QED
    BY <1>4, <2>1 DEF Worked, Effect, NoEffect, effects
<1>5. ASSUME Command, Worked \/ NoEffect, lastSession' = lastSession PROVE OneSession'
  BY <1>1, <1>4, <1>5
<1>6. CASE GoesOn
  BY <1>5, <1>6 DEF GoesOn, Skipped
<1>7. CASE Fails
  BY <1>5, <1>7 DEF Fails, Ends
<1>8. CASE Succeeds
  <2>1. Command /\ (Worked \/ Skipped) /\ (Worked \/ NoEffect) /\ Len(todo) = 1 /\ pc = "running"
    BY <1>8, HeadCommand DEF Succeeds, Skipped
  <2>2. CASE call.family # "browser"
    BY <1>5, <1>8, <2>1, <2>2 DEF Succeeds, Ends
  <2>3. CASE call.family = "browser"
    <3>1. lastSession' = session'
      BY <1>8, <2>3 DEF Succeeds, Ends
    <3>2. page'
      <4>1. CASE page
        BY <1>4, <2>1, <4>1
      <4>2. CASE ~page
        <5>1. LaunchesFirst(todo) /\ todo \in Seq(Cmd) /\ todo # <<>>
          BY <2>1, <2>3, <4>2, HeadCommand DEF DInv, InHand
        <5>2. Head(todo).kind = "launch" /\ Head(todo).does = "new page"
          BY <2>1, <5>1, TailFacts
        <5> QED
          BY <2>1, <5>2 DEF Worked, Skipped, Effect
      <4> QED
        BY <4>1, <4>2
    <3> QED
      BY <3>1, <3>2
  <2> QED
    BY <2>2, <2>3
<1>9. CASE Denies
  BY <1>2, <1>9 DEF Denies, Ends, NoEffect, effects
<1>10. CASE NothingToDo
  BY <1>2, <1>10 DEF NothingToDo, Ends, NoEffect, effects, DInv, InHand
<1>11. CASE Search
  BY <1>2, <1>11, SearchResult DEF Ends, NoEffect, effects
<1>12. CASE LaunchFails
  <2>1. Command /\ Head(todo).kind = "launch" /\ lastSession' = lastSession
    BY <1>12 DEF LaunchFails, Ends, UnavailableCode
  <2>2. call.family = "browser" /\ todo \in Seq(Cmd) /\ todo # <<>> /\ pc = "running"
    BY <2>1, HeadCommand
  <2>3. ~page
    BY <2>1, <2>2, TailFacts DEF DInv, InHand
  <2> QED
    BY <1>1, <2>1, <2>3
<1>13. CASE Reset
  BY <1>13 DEF Reset
<1>14. CASE PersonActs
  BY <1>2, <1>14 DEF PersonActs, PersonMoves, PersonOpensOrCloses, PersonPlugs, BrowserDies, effects
<1>15. CASE UNCHANGED vars
  BY <1>2, <1>15 DEF vars, effects
<1> QED
  BY <1>3, <1>6, <1>7, <1>8, <1>9, <1>10, <1>11, <1>12, <1>13, <1>14, <1>15, Steps

\* Nobody changes the machine.
LEMMA MachineStays ==
    ASSUME DInv, [Next]_vars
    PROVE  machine' = machine
<1>1. CASE Begins \/ Asks \/ GoesOn \/ Search \/ StepEnds
  BY <1>1 DEF Begins, Invokes, Asks, GoesOn, Search, Ends, StepEnds, world
<1>2. CASE Succeeds \/ Fails \/ Denies \/ NothingToDo \/ LaunchFails \/ Reset
  BY <1>2 DEF Succeeds, Fails, Denies, NothingToDo, LaunchFails, Reset, Ends, world
<1>3. CASE PersonActs \/ UNCHANGED vars
  BY <1>3 DEF PersonActs, PersonMoves, PersonOpensOrCloses, PersonPlugs, BrowserDies, world, vars
<1> QED
  BY <1>1, <1>2, <1>3, Steps

LEMMA OnTheWayStep ==
    ASSUME DInv, [Next]_vars
    PROVE  OnTheWay'
<1> USE MachineStays DEF OnTheWay, Owes
<1>1. OnTheWay /\ IsCall(call) /\ windows \subseteq Window
  BY DEF DInv, Typed, DevicesTypeOK
<1>2. CASE Begins
  <2>1. /\ IsCall(call') /\ todo' \in Scripts(call') /\ found' = {} /\ did' = {}
    BY <1>2 DEF Begins, Invokes
  <2>2. CASE call'.family = "computer"
    <3>1. ComputerScript(call'.method, todo')
      BY <2>1, <2>2, ScriptsSound
    <3> QED
      BY <2>1, <3>1 DEF ComputerScript, Promises
  <2> QED
    BY <2>2
<1>3. CASE Asks
  BY <1>3 DEF Asks
<1>4. CASE GoesOn
  <2>1. /\ Command /\ todo' = Tail(todo) /\ call' = call /\ found' = found /\ disturbed' = disturbed
        /\ (Worked \/ Skipped) /\ Len(todo) # 1
    BY <1>4 DEF GoesOn, judged
  <2>2. SUFFICES ASSUME call.family = "computer" PROVE OnTheWay'
    BY <2>1
  <2>3. /\ pc = "running" /\ todo # <<>> /\ todo \in Seq(Cmd) /\ Head(todo) = todo[1]
        /\ todo # <<Ignored("search")>>
    BY <2>1, <2>2, HeadCommand, SearchFacts DEF Command
  <2>4. \A i \in DOMAIN todo \ {1} : i - 1 \in DOMAIN todo' /\ todo'[i - 1] = todo[i]
    BY <2>1, <2>3, HeadAndTail
  <2>5. /\ Worked => did' = did \cup {Head(todo).does}
        /\ did \subseteq did'
        /\ ~Worked => Head(todo).kind \in {"ignored", "optional"}
        /\ Head(todo).kind # "never"
    BY <2>1 DEF Worked, Works, Effect, Skipped, NoEffect, effects
  <2>6. ASSUME Owes(call.method)
        PROVE  Promised[call.method] \cap did' # {} \/ Promises(call.method, todo')
    <3>1. CASE Promised[call.method] \cap did # {}
      BY <2>5, <3>1
    <3>2. CASE Promises(call.method, todo)
      <4>1. PICK i \in DOMAIN todo :
              todo[i].kind = "never" \/ (todo[i].kind = "checked" /\ todo[i].does \in Promised[call.method])
        BY <3>2 DEF Promises
      <4>2. CASE i = 1
        BY <2>3, <2>5, <4>1, <4>2
      <4>3. CASE i # 1
        BY <2>4, <4>1, <4>3 DEF Promises
      <4> QED
        BY <4>2, <4>3
    <3> QED
      BY <1>1, <2>2, <2>3, <2>6, <3>1, <3>2
  <2>7. ASSUME NEW w \in found \cap windows' PROVE \E i \in DOMAIN todo' : todo'[i] = End(w)
    <3>1. w \in windows
      BY <2>1, <2>7 DEF Worked, Effect, Skipped, NoEffect, effects
    <3>2. PICK i \in DOMAIN todo : todo[i] = End(w)
      BY <1>1, <2>2, <2>3, <2>7, <3>1
    <3>3. CASE i # 1
      BY <2>4, <3>2, <3>3
    <3>4. CASE i = 1
      <4>1. Head(todo).does = "end" /\ Head(todo).window = w /\ Head(todo).kind = "checked"
        BY <1>1, <2>3, <3>1, <3>2, <3>4, EndFacts
      <4>2. Worked
        BY <2>5, <4>1
      <4>3. windows' = windows \ {w}
        BY <4>1, <4>2 DEF Worked, Effect
      <4> QED
        BY <2>7, <4>3
    <3> QED
      BY <3>3, <3>4
  <2>8. ASSUME call.method = "click", ~disturbed
        PROVE  todo' = <<Checked("press")>> /\ pointer' = call.at
    <3>1. todo # <<Nothing>> /\ todo # <<Checked("press")>>
      BY <2>1
    <3>2. todo = <<Checked("move"), Checked("press")>>
      BY <1>1, <2>2, <2>3, <2>8, <3>1
    <3>3. todo' = <<Checked("press")>>
      BY <2>1, <3>2
    <3>4. Head(todo).does = "move" /\ Head(todo).kind = "checked"
      <4>1. Head(todo) = Checked("move")
        BY <3>2
      <4> QED
        BY <4>1 DEF Checked
    <3>5. pointer' = call.at
      BY <2>5, <3>4 DEF Worked, Effect
    <3> QED
      BY <3>3, <3>5
  <2> QED
    BY <2>1, <2>2, <2>3, <2>6, <2>7, <2>8
<1>5. ASSUME NEW r, Ends(r) PROVE OnTheWay'
  BY <1>5 DEF Ends
<1>6. CASE Succeeds \/ Fails \/ Denies \/ NothingToDo \/ LaunchFails
  BY <1>5, <1>6 DEF Succeeds, Fails, Denies, NothingToDo, LaunchFails
<1>7. CASE Search
  <2>1. CASE Ends(UnavailableCode.computer)
    BY <1>5, <2>1
  <2>2. CASE ~Ends(UnavailableCode.computer)
    <3>1. /\ todo' \in Seq({End(w) : w \in windows}) /\ call' = call /\ found' = windows /\ windows' = windows
          /\ windows # {} /\ \A w \in windows : \E i \in DOMAIN todo' : todo'[i] = End(w)
          /\ call.method = "close_application"
      BY <1>7, <2>2, SearchResult DEF judged, NoEffect, effects
    <3>2. Promises("close_application", todo')
      <4>1. PICK w \in windows, i \in DOMAIN todo' : todo'[i] = End(w)
        BY <3>1
      <4>2. todo'[i].kind = "checked" /\ todo'[i].does = "end"
        BY <1>1, <4>1, EndFacts
      <4>3. "end" \in Promised["close_application"]
        BY PromisedMethods
      <4> QED
        BY <4>2, <4>3 DEF Promises
    <3> QED
      BY <3>1, <3>2
  <2> QED
    BY <2>1, <2>2
<1>8. CASE StepEnds \/ Reset
  BY <1>8 DEF StepEnds, Reset
<1>9. CASE PersonActs
  <2>1. UNCHANGED <<call, pc, todo, did, found>>
    BY <1>9 DEF PersonActs, PersonMoves, PersonOpensOrCloses, PersonPlugs, BrowserDies, judged, effects
  <2>2. found \cap windows' \subseteq found \cap windows
    BY <1>9 DEF PersonActs, PersonMoves, PersonOpensOrCloses, PersonPlugs, BrowserDies, judged, effects
  <2>3. disturbed' = TRUE \/ (disturbed' = disturbed /\ pointer' = pointer)
    BY <1>9 DEF PersonActs, PersonMoves, PersonOpensOrCloses, PersonPlugs, BrowserDies, judged, effects
  <2> QED
    BY <1>1, <2>1, <2>2, <2>3 DEF Promises
<1>10. CASE UNCHANGED vars
  <2>1. UNCHANGED <<call, pc, todo, did, found, windows, disturbed, pointer>>
    BY <1>10 DEF vars, judged, effects
  <2> QED
    BY <1>1, <2>1 DEF Promises
<1> QED
  BY <1>2, <1>3, <1>4, <1>6, <1>7, <1>8, <1>9, <1>10, Steps

LEMMA SuccessStep ==
    ASSUME DInv, [Next]_vars
    PROVE  SuccessIsReal'
<1> USE MachineStays DEF SuccessIsReal, Succeeded, DoesWhatItSays, Owes
<1>1. SuccessIsReal /\ OnTheWay /\ windows \subseteq Window
  BY DEF DInv, Typed, DevicesTypeOK
<1>2. CASE Succeeds
  <2>1. Command /\ (Worked \/ Skipped) /\ Len(todo) = 1 /\ call' = call /\ found' = found /\ disturbed' = disturbed
    BY <1>2 DEF Succeeds, Ends, judged
  <2>2. SUFFICES ASSUME call.family = "computer" PROVE SuccessIsReal'
    BY <2>1
  <2>3. /\ pc = "running" /\ todo # <<>> /\ todo \in Seq(Cmd) /\ Head(todo) = todo[1] /\ DOMAIN todo = {1}
        /\ todo # <<Ignored("search")>>
    BY <2>1, <2>2, HeadCommand, HeadAndTail, SearchFacts DEF Command
  <2>5. /\ Worked => did' = did \cup {Head(todo).does}
        /\ did \subseteq did'
        /\ ~Worked => Head(todo).kind \in {"ignored", "optional"}
        /\ Head(todo).kind # "never"
    BY <2>1 DEF Worked, Works, Effect, Skipped, NoEffect, effects
  <2>6. Owes(call.method) => Promised[call.method] \cap did' # {}
    BY <1>1, <2>2, <2>3, <2>5 DEF OnTheWay, Promises
  <2>7. ASSUME NEW w \in found \cap windows' PROVE FALSE
    <3>1. w \in windows
      BY <2>1, <2>7 DEF Worked, Effect, Skipped, NoEffect, effects
    <3>2. Head(todo) = End(w)
      BY <1>1, <2>2, <2>3, <2>7, <3>1 DEF OnTheWay
    <3>3. Head(todo).does = "end" /\ Head(todo).window = w /\ Head(todo).kind = "checked"
      BY <1>1, <3>1, <3>2, EndFacts
    <3>4. windows' = windows \ {w}
      BY <2>5, <3>3 DEF Worked, Effect
    <3> QED
      BY <2>7, <3>4
  <2>8. ASSUME call.method = "click", ~disturbed PROVE pressedAt' = call.at
    <3>1. todo # <<Checked("move"), Checked("press")>>
      BY <2>1
    <3>2. todo # <<Nothing>>
      BY <2>3, <2>5, NothingFacts
    <3>3. todo = <<Checked("press")>> /\ pointer = call.at
      BY <1>1, <2>2, <2>3, <2>8, <3>1, <3>2 DEF OnTheWay
    <3>4. Head(todo).does = "press" /\ Head(todo).kind = "checked"
      <4>1. Head(todo) = Checked("press")
        BY <3>3
      <4> QED
        BY <4>1 DEF Checked
    <3> QED
      BY <2>2, <2>5, <3>3, <3>4 DEF Worked, Effect
  <2> QED
    BY <2>1, <2>6, <2>7, <2>8
<1>3. CASE Begins \/ Asks \/ GoesOn \/ StepEnds \/ Reset
  BY <1>3 DEF Begins, Invokes, Asks, GoesOn, Command, StepEnds, Reset
<1>4. ASSUME NEW r, Ends(r), r # "ok" PROVE SuccessIsReal'
  BY <1>4 DEF Ends
<1>5. CASE Fails \/ Denies \/ LaunchFails
  BY <1>4, <1>5 DEF Fails, Denies, LaunchFails, UnavailableCode
<1>6. CASE NothingToDo
  <2>1. todo = <<>> /\ pc = "running" /\ UNCHANGED <<call, did, windows, found, pressedAt, disturbed>>
    BY <1>6 DEF NothingToDo, Ends, NoEffect, effects, judged
  <2>2. todo # <<Ignored("search")>> /\ DOMAIN todo = {}
    BY <2>1
  <2>3. /\ todo # <<Checked("move"), Checked("press")>> /\ todo # <<Nothing>>
        /\ todo # <<Checked("press")>>
    BY <2>1
  <2> QED
    BY <1>1, <2>1, <2>2, <2>3 DEF OnTheWay, Promises
<1>7. CASE Search
  <2>1. CASE Ends(UnavailableCode.computer)
    BY <1>4, <2>1 DEF UnavailableCode
  <2>2. CASE ~Ends(UnavailableCode.computer)
    BY <1>7, <2>2, SearchResult DEF Search
  <2> QED
    BY <2>1, <2>2
<1>8. CASE PersonActs
  <2>1. UNCHANGED <<call, pc, code, did, found, pressedAt>>
    BY <1>8 DEF PersonActs, PersonMoves, PersonOpensOrCloses, PersonPlugs, BrowserDies, judged, effects
  <2>2. found \cap windows' \subseteq found \cap windows
    BY <1>8 DEF PersonActs, PersonMoves, PersonOpensOrCloses, PersonPlugs, BrowserDies, judged, effects
  <2>3. disturbed' = TRUE \/ disturbed' = disturbed
    BY <1>8 DEF PersonActs, PersonMoves, PersonOpensOrCloses, PersonPlugs, BrowserDies, judged, effects
  <2> QED
    BY <1>1, <2>1, <2>2, <2>3
<1>9. CASE UNCHANGED vars
  BY <1>1, <1>9 DEF vars, judged, effects
<1> QED
  BY <1>2, <1>3, <1>5, <1>6, <1>7, <1>8, <1>9, Steps

-----------------------------------------------------------------------------
(* The theorems. *)

LEMMA InitDInv ==
    Init => DInv
<1> SUFFICES ASSUME Init PROVE DInv
  OBVIOUS
<1>1. /\ pc = "idle" /\ todo = <<>> /\ did = {} /\ presses = 0 /\ code = "none" /\ lastSession = 0
      /\ driver = "none" /\ chromium = "none"
  BY DEF Init
<1>2. IsCall(call)
  <2>1. \E p \in Point : TRUE
    BY DeviceAssumption DEF DeviceAssumption
  <2>2. (CHOOSE p \in Point : TRUE) \in Point
    BY <2>1
  <2>3. "screenshot" \in DOMAIN Tools["computer"] /\ "computer" \in DOMAIN Tools
    BY ToolTables, ComputerLevels
  <2> QED
    BY <2>2, <2>3 DEF Init, IsCall
<1>3. Typed
  <2>1. todo \in Seq(Cmd)
    BY <1>1
  <2>2. attempt = 0 /\ sessions = 0 /\ session = 0 /\ MaxCorrections \in Nat /\ MaxSessions \in Nat
    BY DeviceAssumption DEF Init, DeviceAssumption
  <2>3. attempt \in 0..(MaxCorrections + 1) /\ sessions \in 0..MaxSessions /\ session \in 0..sessions
        /\ lastSession \in 0..sessions
    BY <1>1, <2>2
  <2> QED
    BY <1>2, <2>1, <2>3 DEF Init, Typed, DevicesTypeOK
<1> QED
  BY <1>1, <1>3 DEF DInv, NoSecond, AskedFirst, InHand, NothingStray, OneSession, OnTheWay, SuccessIsReal,
                    Succeeded

LEMMA DInvStep ==
    DInv /\ [Next]_vars => DInv'
BY TypedStep, NoSecondStep, AskedFirstStep, InHandStep, NothingStrayStep, OneSessionStep, OnTheWayStep,
   SuccessStep DEF DInv

\* The inductive invariant: what a call has left to do accounts for what it will report.
THEOREM DevicesInvariant ==
    Spec => []DInv
<1>1. Init => DInv
  BY InitDInv
<1>2. DInv /\ [Next]_vars => DInv'
  BY DInvStep
<1> QED
  BY <1>1, <1>2, PTL DEF Spec

\* Every variable keeps to its type (Devices!DevicesTypeOK).
THEOREM DevicesTypes ==
    Spec => []DevicesTypeOK
<1>1. DInv => DevicesTypeOK
  BY DEF DInv, Typed
<1> QED
  BY <1>1, DevicesInvariant, PTL

\* A computer method that moves, presses, types, launches or closes, or on Windows copies, has done
\* so when it reports success (fedora.py, windows.py), for any number of windows, and wherever
\* commands fail or the person interferes.
THEOREM SuccessIsAlwaysReal ==
    Spec => []SuccessIsReal
<1>1. DInv => SuccessIsReal
  BY DEF DInv
<1> QED
  BY <1>1, DevicesInvariant, PTL

\* A step does what cannot be undone at most once, and only when a person has approved it
\* (loop.py:153), whatever the number of corrections allowed.
THEOREM OnceAndAsked ==
    Spec => []ActsOnce
<1>1. DInv => ActsOnce
  BY DEF DInv, NoSecond, AskedFirst, Grave, ActsOnce, Typed, DevicesTypeOK
<1> QED
  BY <1>1, DevicesInvariant, PTL

\* Between two calls there is a driver or a browser process only where close() can find it, except
\* what an earlier close() failed to end (playwright_backend.py:78, 146).
THEOREM NeverStray ==
    Spec => []NoStrayBrowser
<1>1. DInv => NoStrayBrowser
  BY DEF DInv, NothingStray, NoStrayBrowser, Typed, DevicesTypeOK
<1> QED
  BY <1>1, DevicesInvariant, PTL

\* Every successful browser action between two resets is on the same page
\* (tools/browser/__init__.py:3), for any number of launches.
THEOREM OneSessionAtATime ==
    Spec => SameSession
<1>1. DInv => (lastSession # 0 => session = lastSession)
  BY DEF DInv, OneSession
<1>2. DInv /\ [Next]_vars =>
        [pc = "running" /\ pc' = "judging" /\ code' = "ok" /\ call.family = "browser"
         /\ lastSession # 0 => session = lastSession]_vars
  BY <1>1
<1> QED
  BY <1>2, DevicesInvariant, PTL DEF Spec, SameSession
=============================================================================
