------------------------- MODULE DesktopWorker_proofs -------------------------
(***************************************************************************)
(* Proofs about DesktopWorker, for any number of tasks, approval requests    *)
(* and recordings, and whether or not the worker starts.                    *)
(***************************************************************************)
EXTENDS DesktopWorker, SequenceTheorems, TLAPS

\* The worker owns a task, and still owes the session its outcome.
Working == {"clear", "run", "wait", "verdict", "denied", "free"}

\* An event about a request names one.
NamesRequest == \A i \in DOMAIN events : events[i].kind = "approval" => events[i].id \in Request

\* busy stands for exactly one task, the last submitted: queued or being executed.
OneTask ==
    /\ busy => submitted \in Task
    /\ wpc \in Working => busy /\ current = submitted
    /\ \A i \in DOMAIN commands :
         commands[i] # Close => commands[i] = submitted /\ busy /\ wpc \notin Working
    /\ \A i, j \in DOMAIN commands : commands[i] # Close /\ commands[j] # Close => i = j

\* Once a task has started, the cancel event is only set for this task.
CancelIsMine == cancel /\ wpc \in Working \ {"clear"} => current \in accepted

\* The request being decided is the last; if the gate gave it up, the reason still holds.
LastRequest ==
    /\ granted \cup givenUp \subseteq 1..asked
    /\ wpc \in {"wait", "verdict"} => asked \in Request
    /\ wpc = "wait" => asked \notin granted \cup givenUp
    /\ wpc = "verdict" => asked \notin granted /\ (asked \in givenUp => stop \/ cancel)
    /\ granted \cap givenUp = {}

WInv ==
    /\ DesktopTypeOK /\ NamesRequest /\ OneTask /\ CancelIsMine /\ LastRequest
    /\ CancelsOnlyItsTask

-----------------------------------------------------------------------------
(* The two queues. *)

LEMMA AppendFacts ==
    ASSUME NEW S, NEW s \in Seq(S), NEW x \in S
    PROVE  /\ Append(s, x) \in Seq(S)
           /\ \A i \in DOMAIN Append(s, x) :
                \/ i \in DOMAIN s /\ Append(s, x)[i] = s[i]
                \/ i = Len(s) + 1 /\ i \notin DOMAIN s /\ Append(s, x)[i] = x
BY AppendProperties

LEMMA TailFacts ==
    ASSUME NEW S, NEW s \in Seq(S), s # <<>>
    PROVE  /\ Tail(s) \in Seq(S) /\ Head(s) \in S /\ 1 \in DOMAIN s /\ Head(s) = s[1]
           /\ \A i \in DOMAIN Tail(s) : i \in Nat \ {0} /\ i + 1 \in DOMAIN s /\ Tail(s)[i] = s[i + 1]
<1>1. /\ Head(s) \in S /\ Tail(s) \in Seq(S) /\ Len(Tail(s)) = Len(s) - 1
      /\ \A i \in 1..(Len(s) - 1) : Tail(s)[i] = s[i + 1]
  BY HeadTailProperties
<1>2. Head(s) = s[1] /\ Len(s) \in Nat \ {0} /\ DOMAIN s = 1..Len(s) /\ DOMAIN Tail(s) = 1..(Len(s) - 1)
  BY <1>1
<1> QED
  BY <1>1, <1>2

LEMMA PutFacts ==
    ASSUME DesktopTypeOK, NamesRequest, NEW e \in Event, e.kind = "approval" => e.id \in Request, Put(e)
    PROVE  events' \in Seq(Event) /\ NamesRequest'
BY AppendFacts DEF DesktopTypeOK, NamesRequest, Put, Request

LEMMA EventFacts ==
    /\ \A kind \in {"ready", "outcome", "idle", "startup_error", "transcript", "stopped"} :
          Ev(kind) \in Event /\ Ev(kind).kind # "approval"
    /\ \A id \in 0..MaxAsks :
          /\ [kind |-> "approval", id |-> id] \in Event
          /\ [kind |-> "approval_resolved", id |-> id] \in Event
BY DesktopAssumption DEF Ev, Event, DesktopAssumption

-----------------------------------------------------------------------------
(* The events name what they are about, and every variable keeps its type. *)

LEMMA EventsStep ==
    ASSUME DesktopTypeOK, NamesRequest, [Next]_vars
    PROVE  events' \in Seq(Event) /\ NamesRequest'
<1> USE DEF ui, gate, flags, worker, history
<1>1. events \in Seq(Event) /\ asked \in 0..MaxAsks /\ MaxAsks \in Nat
  BY DesktopAssumption DEF DesktopTypeOK, DesktopAssumption
<1>2. ASSUME UNCHANGED events PROVE events' \in Seq(Event) /\ NamesRequest'
  BY <1>1, <1>2 DEF NamesRequest
<1>3. ASSUME NEW kind \in {"ready", "outcome", "idle", "startup_error", "transcript", "stopped"}, Put(Ev(kind))
      PROVE  events' \in Seq(Event) /\ NamesRequest'
  BY <1>3, PutFacts, EventFacts
<1>4. CASE StartUp \/ LoopHead \/ Get \/ ClearCancel \/ GateAnswered \/ GateReturns \/ Free \/ CleanUp \/ ThreadEnds
  BY <1>2, <1>4 DEF StartUp, LoopHead, Get, ClearCancel, GateAnswered, GateReturns, Free, CleanUp, ThreadEnds
<1>5. CASE StartUpFails \/ Announce \/ RunEnds \/ Idle \/ Farewell \/ VoiceDone
  BY <1>3, <1>5 DEF StartUpFails, Announce, RunEnds, Idle, Farewell, VoiceDone
<1>6. CASE Ask
  <2>1. asked' \in 0..MaxAsks /\ asked' \in Request
    BY <1>1, <1>6 DEF Ask, Request
  <2> DEFINE e == [kind |-> "approval", id |-> asked']
  <2>2. e \in Event /\ e.id \in Request /\ Put(e)
    BY <1>6, <2>1, EventFacts DEF Ask
  <2> QED
    BY <2>2, PutFacts
<1>7. CASE GateGivesUp
  <2> DEFINE e == [kind |-> "approval_resolved", id |-> asked]
  <2>1. e \in Event /\ e.kind # "approval" /\ Put(e)
    BY <1>1, <1>7, EventFacts DEF GateGivesUp
  <2> QED
    BY <2>1, PutFacts
<1>8. CASE Poll
  <2>1. events # <<>> /\ events' = Tail(events)
    BY <1>8 DEF Poll
  <2> QED
    BY <1>1, <2>1, TailFacts DEF NamesRequest
<1>9. CASE User
  BY <1>2, <1>9 DEF User, Send, ClickCancel, Answer, AnswerCancelTask, StartVoice, Quit
<1>10. CASE UNCHANGED vars
  BY <1>2, <1>10 DEF vars
<1> QED
  BY <1>4, <1>5, <1>6, <1>7, <1>8, <1>9, <1>10 DEF Next, Worker

LEMMA TypeStep ==
    ASSUME WInv, [Next]_vars
    PROVE  DesktopTypeOK'
<1> USE DEF DesktopTypeOK, worker, flags, gate, ui, history
<1>1. events' \in Seq(Event)
  BY EventsStep DEF WInv
<1>2. /\ MaxTasks \in Nat /\ MaxAsks \in Nat /\ MaxVoice \in Nat
      /\ DesktopTypeOK /\ NamesRequest /\ OneTask /\ LastRequest
  BY DesktopAssumption DEF DesktopAssumption, WInv
<1>3. CASE StartUp \/ StartUpFails \/ Announce \/ LoopHead \/ ClearCancel \/ GateAnswered
  BY <1>1, <1>2, <1>3 DEF StartUp, StartUpFails, Announce, LoopHead, ClearCancel, GateAnswered
<1>4. CASE Get
  <2>1. Tail(commands) \in Seq(Task \cup {Close}) /\ Head(commands) \in Task \cup {Close}
    BY <1>2, <1>4, TailFacts DEF Get
  <2> QED
    BY <1>1, <1>2, <1>4, <2>1 DEF Get, Close
<1>5. CASE Ask
  <2>1. asked' \in 0..MaxAsks
    BY <1>2, <1>5 DEF Ask
  <2> QED
    BY <1>1, <1>2, <1>5, <2>1 DEF Ask
<1>6. CASE GateGivesUp
  <2>1. asked \in Request
    BY <1>2, <1>6 DEF GateGivesUp, LastRequest
  <2> QED
    BY <1>1, <1>2, <1>6, <2>1 DEF GateGivesUp
<1>7. CASE GateReturns
  <2>1. asked \in Request
    BY <1>2, <1>7 DEF GateReturns, LastRequest
  <2> QED
    BY <1>1, <1>2, <1>7, <2>1 DEF GateReturns
<1>8. CASE RunEnds
  <2>1. current \in Task
    BY <1>2, <1>8 DEF RunEnds, OneTask, Working
  <2>2. noticed' \subseteq Task /\ ended' \subseteq Task
    BY <1>2, <1>8, <2>1 DEF RunEnds
  <2> QED
    BY <1>1, <1>2, <1>8, <2>2 DEF RunEnds
<1>9. CASE Free \/ Idle \/ CleanUp \/ Farewell \/ ThreadEnds \/ VoiceDone
  BY <1>1, <1>2, <1>9 DEF Free, Idle, CleanUp, Farewell, ThreadEnds, VoiceDone
<1>10. CASE Send
  <2>1. submitted' \in 0..MaxTasks /\ submitted' \in Task
    BY <1>2, <1>10 DEF Send, Task
  <2>2. commands' \in Seq(Task \cup {Close})
    BY <1>2, <1>10, <2>1, AppendFacts DEF Send
  <2> QED
    BY <1>1, <1>2, <1>10, <2>1, <2>2 DEF Send, SetBusy
<1>11. ASSUME WorkerCancel PROVE cancel' \in BOOLEAN /\ accepted' \subseteq Task
  BY <1>2, <1>11 DEF WorkerCancel, OneTask
<1>12. ASSUME NEW id \in Request, NEW value \in BOOLEAN, Respond(id, value)
       PROVE  answered' \subseteq Request /\ allowed' \subseteq answered'
  BY <1>2, <1>12 DEF Respond
<1>13. CASE ClickCancel
  BY <1>1, <1>2, <1>11, <1>13 DEF ClickCancel
<1>14. CASE Answer
  <2>1. dialog \in Request
    BY <1>2, <1>14 DEF Answer
  <2>2. answered' \subseteq Request /\ allowed' \subseteq answered'
    BY <1>12, <1>14, <2>1 DEF Answer
  <2> QED
    BY <1>1, <1>2, <1>14, <2>2 DEF Answer
<1>15. CASE AnswerCancelTask
  <2>1. dialog \in Request
    BY <1>2, <1>15 DEF AnswerCancelTask
  <2>2. answered' \subseteq Request /\ allowed' \subseteq answered'
    BY <1>12, <1>15, <2>1 DEF AnswerCancelTask
  <2> QED
    BY <1>1, <1>2, <1>11, <1>15, <2>2 DEF AnswerCancelTask
<1>16. CASE StartVoice
  BY <1>1, <1>2, <1>16 DEF StartVoice, SetBusy
<1>17. CASE Quit
  <2>1. commands' \in Seq(Task \cup {Close})
    BY <1>2, <1>17, AppendFacts DEF Quit
  <2> QED
    BY <1>1, <1>2, <1>17, <2>1 DEF Quit
<1>18. CASE Poll
  <2> DEFINE e == Head(events)
  <2>1. e \in Event /\ (e.kind = "approval" => e.id \in Request)
    BY <1>2, <1>18, TailFacts DEF Poll, NamesRequest
  <2>2. answered' \subseteq Request /\ allowed' \subseteq answered'
    BY <1>2, <1>12, <1>18, <2>1 DEF Poll
  <2>3. dialog' \in Request \cup {NoDialog} /\ window' \in {"open", "destroyed"}
    BY <1>2, <1>18, <2>1 DEF Poll
  <2>4. {uiBusy', recording', cancelBtn'} \subseteq BOOLEAN
    BY <1>2, <1>18 DEF Poll, SetBusy
  <2>5. asked' = asked
    BY <1>18 DEF Poll, Respond
  <2> QED
    BY <1>1, <1>2, <1>18, <2>2, <2>3, <2>4, <2>5 DEF Poll
<1>19. CASE UNCHANGED vars
  BY <1>2, <1>19 DEF vars
<1> QED
  BY <1>3, <1>4, <1>5, <1>6, <1>7, <1>8, <1>9, <1>10, <1>13, <1>14, <1>15, <1>16, <1>17, <1>18, <1>19
  DEF Next, Worker, User

-----------------------------------------------------------------------------
(* The worker, the queue and the busy flag agree on whose task it is. *)

LEMMA OneTaskStep ==
    ASSUME WInv, [Next]_vars
    PROVE  OneTask'
<1> USE DEF OneTask, worker, flags, gate, ui, history
<1>1. OneTask /\ commands \in Seq(Task \cup {Close}) /\ busy \in BOOLEAN /\ submitted \in 0..MaxTasks
  BY DEF WInv, DesktopTypeOK
<1>2. ASSUME UNCHANGED <<commands, busy, submitted, current>>, wpc' \in Working <=> wpc \in Working PROVE OneTask'
  BY <1>1, <1>2
<1>3. CASE StartUp \/ StartUpFails \/ Announce \/ LoopHead \/ ClearCancel \/ Ask \/ GateAnswered \/ GateGivesUp
           \/ GateReturns \/ RunEnds \/ Idle \/ CleanUp \/ Farewell \/ ThreadEnds
  <2>1. UNCHANGED <<commands, busy, submitted, current>>
    BY <1>3 DEF StartUp, StartUpFails, Announce, LoopHead, ClearCancel, Ask, GateAnswered, GateGivesUp,
                GateReturns, RunEnds, Idle, CleanUp, Farewell, ThreadEnds
  <2>2. wpc' \in Working <=> wpc \in Working
    BY <1>3 DEF StartUp, StartUpFails, Announce, LoopHead, ClearCancel, Ask, GateAnswered, GateGivesUp,
                GateReturns, RunEnds, Idle, CleanUp, Farewell, ThreadEnds, Working
  <2> QED
    BY <1>2, <2>1, <2>2
<1>4. CASE Get
  <2>1. /\ commands # <<>> /\ commands' = Tail(commands) /\ wpc = "get" /\ UNCHANGED <<busy, submitted>>
        /\ \/ wpc' = "cleanup" /\ current' = current
           \/ wpc' = "clear" /\ current' = Head(commands) /\ Head(commands) # Close
    BY <1>4 DEF Get
  <2>2. /\ 1 \in DOMAIN commands /\ Head(commands) = commands[1]
        /\ \A i \in DOMAIN commands' : i \in Nat \ {0} /\ i + 1 \in DOMAIN commands /\ commands'[i] = commands[i + 1]
    BY <1>1, <2>1, TailFacts
  <2>3. ASSUME NEW i \in DOMAIN commands', NEW j \in DOMAIN commands', commands'[i] # Close, commands'[j] # Close
        PROVE  i = j
    <3>1. i + 1 = j + 1
      BY <1>1, <2>2, <2>3
    <3> QED
      BY <2>2, <3>1
  <2>4. \A i \in DOMAIN commands' : commands'[i] # Close => commands'[i] = submitted /\ busy
    BY <1>1, <2>2
  <2>5. CASE wpc' = "cleanup"
    BY <1>1, <2>1, <2>3, <2>4, <2>5 DEF Working
  <2>6. CASE wpc' = "clear" /\ current' = Head(commands) /\ Head(commands) # Close
    <3>1. busy /\ current' = submitted
      BY <1>1, <2>2, <2>6
    <3>2. ASSUME NEW i \in DOMAIN commands' PROVE commands'[i] = Close
      <4>1. i + 1 # 1
        BY <2>2
      <4> QED
        BY <1>1, <2>2, <2>6, <4>1
    <3> QED
      BY <1>1, <2>1, <2>3, <3>1, <3>2
  <2> QED
    BY <2>1, <2>5, <2>6
<1>5. CASE Free
  <2>1. wpc = "free" /\ wpc' = "idle" /\ busy' = FALSE /\ UNCHANGED <<commands, submitted>>
    BY <1>5 DEF Free
  <2>2. \A i \in DOMAIN commands : commands[i] = Close
    BY <1>1, <2>1 DEF Working
  <2> QED
    BY <2>1, <2>2 DEF Working
<1>6. CASE Send
  <2>1. /\ ~busy /\ busy' = TRUE /\ submitted < MaxTasks /\ submitted' = submitted + 1
        /\ commands' = Append(commands, submitted') /\ wpc' = wpc
    BY <1>6 DEF Send
  <2>2. wpc \notin Working /\ \A i \in DOMAIN commands : commands[i] = Close
    BY <1>1, <2>1
  <2>3. submitted' \in Task
    BY <1>1, <2>1, DesktopAssumption DEF Task, DesktopAssumption
  <2>4. \A i \in DOMAIN commands' :
          \/ i \in DOMAIN commands /\ commands'[i] = commands[i]
          \/ i = Len(commands) + 1 /\ i \notin DOMAIN commands /\ commands'[i] = submitted'
    BY <1>1, <2>1, <2>3, AppendFacts
  <2> QED
    BY <2>1, <2>2, <2>3, <2>4
<1>7. CASE Quit
  <2>1. commands' = Append(commands, Close) /\ UNCHANGED <<wpc, busy, submitted, current>>
    BY <1>7 DEF Quit
  <2>2. \A i \in DOMAIN commands' :
          \/ i \in DOMAIN commands /\ commands'[i] = commands[i]
          \/ commands'[i] = Close
    BY <1>1, <2>1, AppendFacts
  <2> QED
    BY <1>1, <2>1, <2>2
<1>8. CASE ClickCancel \/ Answer \/ AnswerCancelTask \/ StartVoice \/ Poll \/ VoiceDone
  BY <1>2, <1>8 DEF ClickCancel, Answer, AnswerCancelTask, StartVoice, Poll, VoiceDone
<1>9. CASE UNCHANGED vars
  BY <1>2, <1>9 DEF vars
<1> QED
  BY <1>3, <1>4, <1>5, <1>6, <1>7, <1>8, <1>9 DEF Next, Worker, User

LEMMA CancelStep ==
    ASSUME WInv, [Next]_vars
    PROVE  CancelIsMine' /\ CancelsOnlyItsTask'
<1> USE DEF CancelIsMine, CancelsOnlyItsTask, worker, flags, gate, ui, history
<1>1. CancelIsMine /\ CancelsOnlyItsTask /\ OneTask /\ cancel \in BOOLEAN
  BY DEF WInv, DesktopTypeOK
<1>2. ASSUME UNCHANGED <<cancel, accepted, noticed, current>>,
             wpc' \in Working \ {"clear"} => wpc \in Working \ {"clear"}
      PROVE  CancelIsMine' /\ CancelsOnlyItsTask'
  BY <1>1, <1>2
<1>3. CASE StartUp \/ StartUpFails \/ Announce \/ LoopHead \/ Ask \/ GateAnswered \/ GateGivesUp
           \/ GateReturns \/ Free \/ Idle \/ CleanUp \/ Farewell \/ ThreadEnds
  <2>1. UNCHANGED <<cancel, accepted, noticed, current>>
    BY <1>3 DEF StartUp, StartUpFails, Announce, LoopHead, Ask, GateAnswered, GateGivesUp,
                GateReturns, Free, Idle, CleanUp, Farewell, ThreadEnds
  <2>2. wpc' \in Working \ {"clear"} => wpc \in Working \ {"clear"}
    BY <1>3 DEF StartUp, StartUpFails, Announce, LoopHead, Ask, GateAnswered, GateGivesUp,
                GateReturns, Free, Idle, CleanUp, Farewell, ThreadEnds, Working
  <2> QED
    BY <1>2, <2>1, <2>2
<1>4. CASE Get
  BY <1>1, <1>4 DEF Get, Working
<1>5. CASE ClearCancel
  BY <1>1, <1>5 DEF ClearCancel
<1>6. CASE RunEnds
  <2>1. cancel => current \in accepted
    BY <1>1, <1>6 DEF RunEnds, Working
  <2> QED
    BY <1>1, <1>6, <2>1 DEF RunEnds
<1>7. CASE ClickCancel \/ AnswerCancelTask
  <2>1. WorkerCancel /\ UNCHANGED <<wpc, current, noticed>>
    BY <1>7 DEF ClickCancel, AnswerCancelTask
  <2> QED
    BY <1>1, <2>1 DEF WorkerCancel, OneTask
<1>8. CASE Send \/ Answer \/ StartVoice \/ Quit \/ Poll \/ VoiceDone
  BY <1>2, <1>8 DEF Send, Answer, StartVoice, Quit, Poll, VoiceDone
<1>9. CASE UNCHANGED vars
  BY <1>2, <1>9 DEF vars
<1> QED
  BY <1>3, <1>4, <1>5, <1>6, <1>7, <1>8, <1>9 DEF Next, Worker, User

LEMMA LastRequestStep ==
    ASSUME WInv, [Next]_vars
    PROVE  LastRequest'
<1> USE DEF LastRequest, worker, flags, gate, ui, history
<1>1. LastRequest /\ asked \in 0..MaxAsks /\ MaxAsks \in Nat
  BY DesktopAssumption DEF WInv, DesktopTypeOK, DesktopAssumption
<1>2. ASSUME UNCHANGED <<asked, granted, givenUp, stop, cancel>>, wpc' \in {"wait", "verdict"} => wpc' = wpc
      PROVE  LastRequest'
  BY <1>1, <1>2
<1>3. CASE StartUp \/ StartUpFails \/ Announce \/ LoopHead \/ Get \/ RunEnds \/ Free \/ Idle \/ CleanUp
           \/ Farewell \/ ThreadEnds
  BY <1>2, <1>3 DEF StartUp, StartUpFails, Announce, LoopHead, Get, RunEnds, Free, Idle, CleanUp, Farewell, ThreadEnds
<1>4. CASE ClearCancel
  BY <1>1, <1>4 DEF ClearCancel
<1>5. CASE Ask
  <2>1. asked' = asked + 1 /\ wpc' = "wait" /\ asked' \in Request /\ UNCHANGED <<granted, givenUp>>
    BY <1>1, <1>5 DEF Ask, Request
  <2>2. 1..asked \subseteq 1..asked' /\ asked' \notin 1..asked
    BY <1>1, <2>1
  <2> QED
    BY <1>1, <2>1, <2>2
<1>6. CASE GateAnswered
  BY <1>1, <1>6 DEF GateAnswered
<1>7. CASE GateGivesUp
  <2>1. asked \in Request /\ asked \in 1..asked
    BY <1>1, <1>7 DEF GateGivesUp, Request
  <2> QED
    BY <1>1, <1>7, <2>1 DEF GateGivesUp
<1>8. CASE GateReturns
  <2>1. asked \in Request /\ asked \in 1..asked /\ asked \notin granted /\ (asked \in givenUp => stop \/ cancel)
    BY <1>1, <1>8 DEF GateReturns, Request
  <2>2. granted' = granted \/ (granted' = granted \cup {asked} /\ asked \notin givenUp)
    BY <1>8, <2>1 DEF GateReturns
  <2> QED
    BY <1>1, <1>8, <2>1, <2>2 DEF GateReturns
<1>9. CASE ClickCancel \/ AnswerCancelTask
  <2>1. WorkerCancel /\ UNCHANGED <<wpc, asked, granted, givenUp, stop>>
    BY <1>9 DEF ClickCancel, AnswerCancelTask
  <2>2. cancel => cancel'
    BY <2>1 DEF WorkerCancel
  <2> QED
    BY <1>1, <2>1, <2>2
<1>10. CASE Quit
  BY <1>1, <1>10 DEF Quit
<1>11. CASE Poll
  <2>1. UNCHANGED <<asked, granted, givenUp, stop, cancel, wpc>>
    BY <1>11 DEF Poll, Respond
  <2> QED
    BY <1>2, <2>1
<1>12. CASE Send \/ Answer \/ StartVoice \/ VoiceDone
  BY <1>2, <1>12 DEF Send, Answer, StartVoice, VoiceDone
<1>13. CASE UNCHANGED vars
  BY <1>2, <1>13 DEF vars
<1> QED
  BY <1>3, <1>4, <1>5, <1>6, <1>7, <1>8, <1>9, <1>10, <1>11, <1>12, <1>13 DEF Next, Worker, User

-----------------------------------------------------------------------------
(* The theorems. *)

\* The inductive invariant: the queue, the worker and the two flags agree on whose task and
\* whose request is at stake.
THEOREM WorkerInvariant ==
    Spec => []WInv
<1>1. Init => WInv
  <2> SUFFICES ASSUME Init PROVE WInv
    OBVIOUS
  <2>1. DesktopTypeOK
    <3>1. commands \in Seq(Task \cup {Close}) /\ events \in Seq(Event)
      BY DEF Init
    <3>2. asked \in 0..MaxAsks /\ submitted \in 0..MaxTasks /\ voiced \in 0..MaxVoice
      BY DesktopAssumption DEF Init, DesktopAssumption
    <3> QED
      BY <3>1, <3>2 DEF Init, DesktopTypeOK, NoDialog
  <2> QED
    BY <2>1 DEF Init, WInv, NamesRequest, OneTask, Working, CancelIsMine, LastRequest, CancelsOnlyItsTask
<1>2. WInv /\ [Next]_vars => WInv'
  BY TypeStep, EventsStep, OneTaskStep, CancelStep, LastRequestStep DEF WInv
<1> QED
  BY <1>1, <1>2, PTL DEF Spec

\* Every variable keeps to its type (DesktopWorker!DesktopTypeOK).
THEOREM DesktopTypes ==
    Spec => []DesktopTypeOK
<1>1. WInv => DesktopTypeOK
  BY DEF WInv
<1> QED
  BY <1>1, WorkerInvariant, PTL

\* A request that the gate has denied by itself, because its task was cancelled or the
\* application is closing, is never granted, whatever the user clicks (gate.py).
THEOREM GivenUpIsDenied ==
    Spec => []NoGrantAfterGivingUp
<1>1. WInv => NoGrantAfterGivingUp
  BY DEF WInv, LastRequest, NoGrantAfterGivingUp
<1> QED
  BY <1>1, WorkerInvariant, PTL

\* A run that stops because of the cancel event is one for which cancel() returned True
\* (worker.py), for any number of tasks.
THEOREM CancelIsForItsTask ==
    Spec => []CancelsOnlyItsTask
<1>1. WInv => CancelsOnlyItsTask
  BY DEF WInv
<1> QED
  BY <1>1, WorkerInvariant, PTL
=============================================================================
