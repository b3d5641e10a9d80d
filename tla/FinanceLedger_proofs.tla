------------------------ MODULE FinanceLedger_proofs ------------------------
(***************************************************************************)
(* Proofs about FinanceLedger, for any number of processes, files, recurring *)
(* expenses and operations.                                                 *)
(***************************************************************************)
EXTENDS FinanceLedger, FiniteSetTheorems, TLAPS

Label == Over \cup {"service", "seed", "list", "unreadable", "category", "create_category",
                    "lookup", "insert", "advance"}

Outcome == {"created", "skipped", "error"}

Entry == [rec : Recurring, content : Content]

\* d is an occurrence of r.
Beat(r, d) ==
    /\ d >= First[r]
    /\ Period[r] = 0 => d = First[r]
    /\ Period[r] > 0 => (d - First[r]) % Period[r] = 0

Typed ==
    /\ booked \in [Content -> {0, 1}]
    /\ nextOcc \in [Recurring -> Nat]
    /\ pc \in [Proc -> Label]
    /\ kind \in [Proc -> {"none", "csv", "scan", "add", "apply"}]
    /\ work = [p \in Proc |-> work[p]]
    /\ report \in [Proc -> Seq(Outcome)]

\* Where an operation of each kind can be.
Places ==
    \A p \in Proc :
        /\ kind[p] = "apply" => pc[p] \notin {"unreadable", "category", "create_category", "lookup"}
        /\ kind[p] # "apply" => pc[p] \notin {"advance", "list"}

\* An operation that has not got its rows yet has reported nothing.
Fresh == \A p \in Proc : pc[p] \in {"service", "seed", "list"} => report[p] = <<>>

\* What p once read as due is an occurrence that has not been passed by less
\* than what it was then.
Known(p) ==
    /\ work[p] \in Seq(Entry) /\ Len(report[p]) < Len(work[p])
    /\ \A i \in 1..Len(work[p]) :
          LET r == work[p][i].rec
              d == work[p][i].content[2]
          IN  work[p][i].content = <<ItemOf[r], d>> /\ Beat(r, d) /\ d <= nextOcc[r]

Listed ==
    \A p \in Proc : kind[p] = "apply" /\ pc[p] \in {"insert", "advance"} => Known(p)

OnBeat == \A r \in Recurring : Beat(r, nextOcc[r])

\* A process between its insert and its update is alone there with its
\* transaction, and nobody has moved the expense since.
Mine ==
    \A p \in Proc : pc[p] = "advance" =>
        /\ row(p).content[2] = nextOcc[row(p).rec]
        /\ booked[row(p).content] = 1

Alone ==
    \A p, q \in Proc :
        pc[p] = "advance" /\ pc[q] = "advance" /\ row(p).content = row(q).content => p = q

LInv == Typed /\ Places /\ Fresh /\ Listed /\ OnBeat /\ Mine /\ Alone /\ OccurrencesBooked

-----------------------------------------------------------------------------
(* Arithmetic. *)

LEMMA Division ==
    ASSUME NEW x \in Nat, NEW p \in Nat, p > 0
    PROVE  x = p * (x \div p) + (x % p) /\ x \div p \in Int /\ x % p \in 0..(p - 1)
  OBVIOUS

LEMMA SameMultiple ==
    ASSUME NEW a \in Int, NEW b \in Int, NEW p \in Nat, p > 0,
           p * a <= p * b, p * b < p * a + p
    PROVE  a = b
<1>1. CASE b > a
  <2>1. b >= a + 1
    BY <1>1
  <2>2. p * b >= p * (a + 1)
    BY <2>1
  <2> QED
    BY <2>2
<1>2. CASE b < a
  <2>1. a >= b + 1
    BY <1>2
  <2>2. p * a >= p * (b + 1)
    BY <2>1
  <2> QED
    BY <2>2
<1> QED
  BY <1>1, <1>2

LEMMA NextMultiple ==
    ASSUME NEW x \in Nat, NEW p \in Nat, p > 0, x % p = 0
    PROVE  (x + p) % p = 0
<1> DEFINE k == x \div p
           q == (x + p) \div p
           r == (x + p) % p
<1>1. x = p * k /\ k \in Int
  BY Division
<1>2. x + p = p * q + r /\ q \in Int /\ r \in 0..(p - 1)
  <2>1. x + p \in Nat
    OBVIOUS
  <2> HIDE DEF q, r
  <2> QED
    BY <2>1, Division DEF q, r
<1> HIDE DEF k, q, r
<1>3. p * (k + 1) = p * q + r
  BY <1>1, <1>2
<1>4. q = k + 1
  BY <1>1, <1>2, <1>3, SameMultiple
<1>5. r = 0
  BY <1>1, <1>2, <1>3, <1>4
<1> QED
  BY <1>5 DEF r

LEMMA BeatGoesOn ==
    ASSUME NEW r \in Recurring, NEW d \in Nat, Beat(r, d), Period[r] > 0
    PROVE  Beat(r, d + Period[r])
<1> DEFINE f == First[r]
           n == Period[r]
<1>1. First[r] \in Nat /\ Period[r] \in Nat
  BY LedgerAssumption DEF LedgerAssumption, Day
<1>2. d >= f /\ (d - f) % n = 0
  BY DEF Beat
<1>3. f \in Nat /\ n \in Nat /\ n > 0
  BY <1>1
<1> HIDE DEF f, n
<1>4. d - f \in Nat
  BY <1>2, <1>3
<1>5. ((d - f) + n) % n = 0
  BY <1>2, <1>3, <1>4, NextMultiple
<1>6. d + n - f = (d - f) + n /\ d + n >= f
  BY <1>2, <1>3
<1>7. (d + n - f) % n = 0
  BY <1>5, <1>6
<1> QED
  BY <1>3, <1>6, <1>7 DEF Beat, f, n

\* There is no occurrence between one and the next.
LEMMA BeatSkipsNothing ==
    ASSUME NEW r \in Recurring, NEW d \in Nat, NEW e \in Nat, Beat(r, d), Beat(r, e),
           d <= e, e < d + Period[r]
    PROVE  e = d
<1> DEFINE f == First[r]
           n == Period[r]
<1>1. f \in Nat /\ n \in Nat /\ n > 0
  BY LedgerAssumption DEF LedgerAssumption, Day
<1>2. d - f \in Nat /\ e - f \in Nat /\ (d - f) % n = 0 /\ (e - f) % n = 0
  BY <1>1 DEF Beat
<1> HIDE DEF f, n
<1>3. d - f = n * ((d - f) \div n) /\ e - f = n * ((e - f) \div n)
  BY <1>1, <1>2, Division
<1>4. (d - f) \div n \in Int /\ (e - f) \div n \in Int
  BY <1>1, <1>2, Division
<1>5. d - f <= e - f /\ e - f < (d - f) + n
  BY <1>1 DEF n
<1>6. (d - f) \div n = (e - f) \div n
  BY <1>1, <1>3, <1>4, <1>5, SameMultiple
<1>7. d - f = e - f
  BY <1>3, <1>6
<1> QED
  BY <1>1, <1>7

-----------------------------------------------------------------------------
(* The invariant. *)

LEMMA InitLInv == Init => LInv
<1> SUFFICES ASSUME Init PROVE LInv
  OBVIOUS
<1>1. Typed /\ Places /\ Fresh
  BY LedgerAssumption DEF Init, Typed, Places, Fresh, Label, Over, LedgerAssumption, Day
<1>2. Listed /\ Mine /\ Alone
  BY DEF Init, Listed, Mine, Alone
<1>3. OnBeat
  <2> SUFFICES ASSUME NEW r \in Recurring PROVE Beat(r, First[r])
    BY DEF Init, OnBeat
  <2>1. First[r] \in Nat /\ Period[r] \in Nat
    BY LedgerAssumption DEF LedgerAssumption, Day
  <2> QED
    BY <2>1 DEF Beat
<1>4. OccurrencesBooked
  <2>1. \A r \in Recurring : First[r] \in Nat
    BY LedgerAssumption DEF LedgerAssumption, Day
  <2> QED
    BY <2>1, LedgerAssumption DEF Init, OccurrencesBooked, Day, LedgerAssumption
<1> QED
  BY <1>1, <1>2, <1>3, <1>4 DEF LInv

\* What due() returns is known to be due.
LEMMA DueIsKnown ==
    ASSUME LInv, NEW asOf \in Day, NEW w \in DueLists(asOf)
    PROVE  /\ w \in Seq(Entry)
           /\ \A i \in 1..Len(w) :
                 /\ w[i].content = <<ItemOf[w[i].rec], w[i].content[2]>>
                 /\ Beat(w[i].rec, w[i].content[2])
                 /\ w[i].content[2] <= nextOcc[w[i].rec]
<1> DEFINE D == {s \in Recurring : nextOcc[s] <= asOf}
           S == {DueEntry(r) : r \in D}
<1>1. IsFiniteSet(S)
  <2>1. IsFiniteSet(D)
    BY LedgerAssumption, FS_Subset DEF LedgerAssumption
  <2> DEFINE f == [s \in D |-> DueEntry(s)]
  <2>2. f \in Surjection(D, S)
    BY DEF Surjection
  <2> QED
    BY <2>1, <2>2, FS_Surjection
<1>2. w \in [1..Cardinality(S) -> S] /\ Cardinality(S) \in Nat
  BY <1>1, FS_CardinalityType DEF DueLists, SetToSeqs
<1>3. \A e \in S : e \in Entry /\ e.content = <<ItemOf[e.rec], e.content[2]>>
                   /\ Beat(e.rec, e.content[2]) /\ e.content[2] <= nextOcc[e.rec]
  <2> SUFFICES ASSUME NEW r \in D PROVE
          LET e == DueEntry(r) IN
          /\ e \in Entry /\ e.content = <<ItemOf[e.rec], e.content[2]>>
          /\ Beat(e.rec, e.content[2]) /\ e.content[2] <= nextOcc[e.rec]
    OBVIOUS
  <2>1. nextOcc[r] \in Day /\ Beat(r, nextOcc[r]) /\ ItemOf[r] \in Item
    BY LedgerAssumption DEF LInv, Typed, OnBeat, Day, LedgerAssumption
  <2> QED
    BY <2>1 DEF DueEntry, Entry, Content, Day
<1> HIDE DEF S
<1>4. w \in Seq(S) /\ Len(w) = Cardinality(S)
  BY <1>2
<1>5. w \in Seq(Entry)
  BY <1>2, <1>3
<1> QED
  BY <1>2, <1>3, <1>4, <1>5

Stages == {"done", "insert", "unreadable", "category", "lookup"}

LEMMA StageIsOne ==
    ASSUME NEW k, NEW w, NEW n
    PROVE  /\ Stage(k, w, n) \in Stages
           /\ k = "apply" => Stage(k, w, n) = IF n > Len(w) THEN "done" ELSE "insert"
  BY DEF Stage, Stages

\* Bookings are only added.
Grows == booked' \in [Content -> {0, 1}] /\ \A c \in Content : booked[c] = 1 => booked'[c] = 1

\* A process that is about to insert or update is at a row it has read as due.
LEMMA RowIsEntry ==
    ASSUME NEW p \in Proc, Typed, Known(p)
    PROVE  LET r == row(p).rec
               d == row(p).content[2]
           IN  /\ r \in Recurring /\ d \in Day /\ row(p).content \in Content
               /\ row(p).content = <<ItemOf[r], d>> /\ Beat(r, d) /\ d <= nextOcc[r]
<1>1. Len(report[p]) + 1 \in 1..Len(work[p])
  BY DEF Known, Typed
<1>2. row(p) \in Entry
  BY <1>1 DEF row, Known
<1> QED
  BY <1>1, <1>2 DEF row, Known, Entry, Content

\* What has been booked stays booked while no expense moves.
LEMMA StillBooked ==
    ASSUME Typed, OccurrencesBooked, Grows, UNCHANGED nextOcc
    PROVE  OccurrencesBooked'
<1>1. \A c \in Content : booked[c] > 0 => booked'[c] > 0
  <2>1. \A c \in Content : booked[c] \in {0, 1}
    BY DEF Typed
  <2> QED
    BY <2>1 DEF Grows
<1>2. \A r \in Recurring, d \in Day : <<ItemOf[r], d>> \in Content
  BY LedgerAssumption DEF LedgerAssumption, Content
<1> QED
  BY <1>1, <1>2 DEF OccurrencesBooked

\* A step of p that moves no expense, and after which p is nowhere that is
\* claimed for it alone.
LEMMA QuietStep ==
    ASSUME LInv, NEW p \in Proc, Typed', Grows, UNCHANGED nextOcc,
           \A q \in Proc \ {p} : /\ pc'[q] = pc[q] /\ kind'[q] = kind[q]
                                 /\ work'[q] = work[q] /\ report'[q] = report[q],
           pc'[p] # "advance",
           kind'[p] = "apply" => pc'[p] \notin {"unreadable", "category", "create_category", "lookup"},
           kind'[p] # "apply" => pc'[p] # "list",
           kind'[p] = "apply" /\ pc'[p] = "insert" => Known(p)',
           pc'[p] \in {"service", "seed", "list"} => report'[p] = <<>>
    PROVE  LInv'
<1>1. Places' /\ Fresh'
  BY DEF LInv, Places, Fresh
<1>2. Listed'
  <2> SUFFICES ASSUME NEW q \in Proc, kind'[q] = "apply", pc'[q] \in {"insert", "advance"}
               PROVE  Known(q)'
    BY DEF Listed
  <2>1. CASE q = p
    BY <2>1
  <2>2. CASE q # p
    <3>1. Known(q)
      BY <2>2 DEF LInv, Listed
    <3> QED
      BY <2>2, <3>1 DEF Known, Beat
  <2> QED
    BY <2>1, <2>2
<1>3. OnBeat'
  BY DEF LInv, OnBeat, Beat
<1>4. OccurrencesBooked'
  BY StillBooked DEF LInv
<1>5. \A q \in Proc : pc'[q] = "advance" =>
          pc[q] = "advance" /\ row(q)' = row(q) /\ row(q).content \in Content
  <2> SUFFICES ASSUME NEW q \in Proc, pc'[q] = "advance"
               PROVE  pc[q] = "advance" /\ row(q)' = row(q) /\ row(q).content \in Content
    OBVIOUS
  <2>1. q # p /\ pc[q] = "advance" /\ row(q)' = row(q)
    BY DEF row
  <2>2. Known(q)
    BY <2>1 DEF LInv, Places, Listed
  <2> QED
    BY <2>1, <2>2, RowIsEntry DEF LInv
<1>6. Mine' /\ Alone'
  BY <1>5 DEF LInv, Mine, Alone, Grows
<1> QED
  BY <1>1, <1>2, <1>3, <1>4, <1>6 DEF LInv

\* p goes somewhere else with the same rows.
LEMMA QuietMove ==
    ASSUME LInv, NEW p \in Proc, NEW label \in Label, label # "advance", Goto(p, label),
           Grows, UNCHANGED <<nextOcc, kind, work, report>>,
           kind[p] = "apply" => label \notin {"unreadable", "category", "create_category", "lookup"},
           kind[p] # "apply" => label # "list",
           kind[p] = "apply" /\ label = "insert" => Known(p),
           label \in {"service", "seed", "list"} => report[p] = <<>>
    PROVE  LInv'
<1>1. Typed'
  BY DEF LInv, Typed, Goto, Grows
<1>2. pc'[p] = label /\ \A q \in Proc \ {p} : pc'[q] = pc[q]
  BY DEF LInv, Typed, Goto
<1>3. Known(p) => Known(p)'
  BY DEF Known, Beat
<1> QED
  BY <1>1, <1>2, <1>3, QuietStep

\* p is done with a row.
LEMMA QuietRow ==
    ASSUME LInv, NEW p \in Proc, NEW what \in Outcome, RowDone(p, what),
           Grows, UNCHANGED <<nextOcc, kind, work>>,
           kind[p] = "apply" => Known(p)
    PROVE  LInv'
<1> DEFINE stage == Stage(kind[p], work[p], Len(report'[p]) + 1)
<1>1. report' \in [Proc -> Seq(Outcome)] /\ report'[p] = Append(report[p], what)
      /\ \A q \in Proc \ {p} : report'[q] = report[q]
  BY DEF LInv, Typed, RowDone
<1>2. stage \in Stages
  BY StageIsOne
<1>3. pc' \in [Proc -> Label] /\ pc'[p] = stage /\ \A q \in Proc \ {p} : pc'[q] = pc[q]
  BY <1>2 DEF LInv, Typed, RowDone, Goto, Stages, Label, Over
<1>4. Typed'
  BY <1>1, <1>3 DEF LInv, Typed, Grows
<1>5. kind[p] = "apply" => stage \in {"done", "insert"}
  BY StageIsOne
<1>6. kind[p] = "apply" /\ stage = "insert" => Known(p)'
  <2> SUFFICES ASSUME kind[p] = "apply", stage = "insert"
               PROVE  Known(p)'
    OBVIOUS
  <2>1. ~(Len(report'[p]) + 1 > Len(work[p]))
    BY StageIsOne
  <2>2. Len(report'[p]) < Len(work[p])
    BY <1>1, <2>1 DEF Known
  <2> QED
    BY <2>2 DEF Known, Beat
<1> HIDE DEF stage
<1> QED
  BY <1>1, <1>2, <1>3, <1>4, <1>5, <1>6, QuietStep DEF Stages

LEMMA NothingBooked == ASSUME LInv, UNCHANGED booked PROVE Grows
  BY DEF LInv, Typed, Grows

\* An exception in the middle of a row.
LEMMA FailStep ==
    ASSUME LInv, NEW p \in Proc, Fails(p), UNCHANGED <<booked, nextOcc, kind, work>>
    PROVE  LInv'
<1>1. CASE kind[p] = "csv" /\ RowDone(p, "error")
  BY <1>1, NothingBooked, QuietRow DEF Outcome
<1>2. CASE kind[p] # "csv" /\ Goto(p, "raised") /\ UNCHANGED report
  BY <1>2, NothingBooked, QuietMove DEF Label, Over
<1> QED
  BY <1>1, <1>2 DEF Fails

-----------------------------------------------------------------------------
(* The actions. *)

LEMMA BeginStep ==
    ASSUME LInv, NEW p \in Proc, NEW w, Begin(p, "csv", w) \/ Begin(p, "scan", w)
                                        \/ Begin(p, "add", w) \/ Begin(p, "apply", w)
    PROVE  LInv'
<1>1. PICK k \in {"csv", "scan", "add", "apply"} : Begin(p, k, w)
  OBVIOUS
<1>2. /\ pc' = [pc EXCEPT ![p] = "service"] /\ kind' = [kind EXCEPT ![p] = k]
      /\ work' = [work EXCEPT ![p] = w] /\ report' = [report EXCEPT ![p] = <<>>]
      /\ UNCHANGED <<booked, nextOcc>>
  BY <1>1 DEF Begin, Goto, tables
<1>3. Typed' /\ Grows
  <2>1. pc' \in [Proc -> Label] /\ kind' \in [Proc -> {"none", "csv", "scan", "add", "apply"}]
    BY <1>2 DEF LInv, Typed, Label
  <2>2. report' \in [Proc -> Seq(Outcome)]
    BY <1>2 DEF LInv, Typed
  <2>3. work' = [q \in Proc |-> work'[q]]
    BY <1>2 DEF LInv, Typed
  <2> QED
    BY <1>2, <2>1, <2>2, <2>3, NothingBooked DEF LInv, Typed
<1>4. /\ pc'[p] = "service" /\ report'[p] = <<>>
      /\ \A q \in Proc \ {p} : /\ pc'[q] = pc[q] /\ kind'[q] = kind[q]
                               /\ work'[q] = work[q] /\ report'[q] = report[q]
  BY <1>2 DEF LInv, Typed
<1> QED
  BY <1>2, <1>3, <1>4, QuietStep

LEMMA ReadyIsQuiet ==
    ASSUME NEW p \in Proc
    PROVE  /\ Ready(p) \in Label /\ Ready(p) # "advance"
           /\ kind[p] = "apply" => Ready(p) = "list"
           /\ kind[p] # "apply" => Ready(p) # "list"
  BY StageIsOne DEF Ready, Stages, Label, Over

LEMMA ServiceStep ==
    ASSUME LInv, NEW p \in Proc, LookAtCategories(p) \/ Seed(p)
    PROVE  LInv'
<1>0. report[p] = <<>>
  BY DEF LInv, Fresh, LookAtCategories, Seed
<1>1. UNCHANGED <<booked, nextOcc, kind, work, report>>
  BY DEF LookAtCategories, Seed, tables
<1>2. Goto(p, Ready(p)) \/ Goto(p, "seed") \/ Goto(p, "raised")
  BY DEF LookAtCategories, Seed
<1>3. CASE Goto(p, Ready(p))
  <2>1. Ready(p) \notin {"unreadable", "category", "create_category", "lookup"}
        \/ kind[p] # "apply"
    BY ReadyIsQuiet
  <2> QED
    BY <1>0, <1>1, <1>3, <2>1, NothingBooked, ReadyIsQuiet, QuietMove
<1>4. CASE Goto(p, "seed")
  BY <1>0, <1>1, <1>4, NothingBooked, QuietMove DEF Label
<1>5. CASE Goto(p, "raised")
  BY <1>1, <1>5, NothingBooked, QuietMove DEF Label, Over
<1> QED
  BY <1>2, <1>3, <1>4, <1>5

LEMMA CrashStep == ASSUME LInv, NEW p \in Proc, Crash(p) PROVE LInv'
<1>1. Goto(p, "crashed") /\ UNCHANGED <<booked, nextOcc, kind, work, report>>
  BY DEF Crash, tables
<1> QED
  BY <1>1, NothingBooked, QuietMove DEF Label, Over

LEMMA RowStep ==
    ASSUME LInv, NEW p \in Proc,
           SkipUnreadable(p) \/ ReadCategory(p) \/ CreateCategory(p) \/ LookUp(p)
    PROVE  LInv'
<1>1. kind[p] # "apply"
  BY DEF LInv, Places, SkipUnreadable, ReadCategory, CreateCategory, LookUp
<1>2. UNCHANGED <<booked, nextOcc, kind, work>> /\ Grows
  BY NothingBooked DEF SkipUnreadable, ReadCategory, CreateCategory, LookUp, tables
<1>3. CASE RowDone(p, "error") \/ RowDone(p, "skipped")
  BY <1>1, <1>2, <1>3, QuietRow DEF Outcome
<1>4. CASE UNCHANGED report /\ \E label \in {"lookup", "insert", "create_category"} : Goto(p, label)
  BY <1>1, <1>2, <1>4, QuietMove DEF Label
<1>5. CASE Fails(p)
  BY <1>2, <1>5, FailStep
<1> QED
  BY <1>3, <1>4, <1>5 DEF SkipUnreadable, ReadCategory, CreateCategory, LookUp, AfterCategory

LEMMA ListStep == ASSUME LInv, NEW p \in Proc, ListDue(p) PROVE LInv'
<1>1. kind[p] = "apply" /\ report[p] = <<>>
  BY DEF LInv, Places, Fresh, ListDue
<1>2. PICK asOf \in Day : \E w \in DueLists(asOf) :
          work' = [work EXCEPT ![p] = w] /\ Goto(p, Stage("apply", w, 1))
  BY DEF ListDue
<1>3. PICK w \in DueLists(asOf) :
          work' = [work EXCEPT ![p] = w] /\ Goto(p, Stage("apply", w, 1))
  BY <1>2
<1>4. UNCHANGED <<booked, nextOcc, kind, report>>
  BY DEF ListDue, tables
<1>5. /\ Stage("apply", w, 1) = IF 1 > Len(w) THEN "done" ELSE "insert"
      /\ Stage("apply", w, 1) \in Label
  BY StageIsOne DEF Stages, Label, Over
<1>6. Typed' /\ Grows
  <2>1. pc' \in [Proc -> Label]
    BY <1>3, <1>5 DEF LInv, Typed, Goto
  <2>2. work' = [q \in Proc |-> work'[q]]
    BY <1>3 DEF LInv, Typed
  <2> QED
    BY <1>4, <2>1, <2>2, NothingBooked DEF LInv, Typed
<1>7. /\ pc'[p] = Stage("apply", w, 1) /\ work'[p] = w
      /\ \A q \in Proc \ {p} : pc'[q] = pc[q] /\ work'[q] = work[q]
  BY <1>3 DEF LInv, Typed, Goto
<1>8. pc'[p] = "insert" => Known(p)'
  <2>1. w \in Seq(Entry)
    BY DueIsKnown
  <2>2. pc'[p] = "insert" => Len(report'[p]) < Len(w)
    BY <1>1, <1>4, <1>5, <1>7, <2>1
  <2> QED
    BY <1>4, <1>7, <2>1, <2>2, DueIsKnown DEF Known, Beat
<1> QED
  BY <1>1, <1>4, <1>5, <1>6, <1>7, <1>8, QuietStep

\* Nobody has moved an expense that still has no transaction for d.
LEMMA NotPassed ==
    ASSUME LInv, NEW p \in Proc, Known(p), booked[row(p).content] = 0
    PROVE  row(p).content[2] = nextOcc[row(p).rec]
<1> DEFINE r == row(p).rec
           d == row(p).content[2]
<1>1. /\ r \in Recurring /\ d \in Day /\ row(p).content = <<ItemOf[r], d>>
      /\ Beat(r, d) /\ d <= nextOcc[r] /\ Beat(r, nextOcc[r]) /\ nextOcc[r] \in Nat
  BY RowIsEntry DEF LInv, Typed, OnBeat
<1> HIDE DEF r, d
<1>2. First[r] \in Nat /\ Period[r] \in Nat /\ d \in Nat
  BY <1>1, LedgerAssumption DEF LedgerAssumption, Day
<1>3. CASE Period[r] = 0
  BY <1>1, <1>2, <1>3 DEF Beat, r, d
<1>4. CASE Period[r] > 0
  <2>1. SUFFICES ASSUME d < nextOcc[r] PROVE FALSE
    BY <1>1, <1>2 DEF r, d
  <2>2. First[r] <= d /\ (d - First[r]) % Period[r] = 0
    BY <1>1, <1>2, <1>4 DEF Beat
  <2>3. booked[<<ItemOf[r], d>>] > 0
    BY <1>1, <1>4, <2>1, <2>2 DEF LInv, OccurrencesBooked
  <2> QED
    BY <1>1, <2>3
<1> QED
  BY <1>2, <1>3, <1>4

LEMMA InsertStep == ASSUME LInv, NEW p \in Proc, Insert(p) PROVE LInv'
<1> DEFINE c == row(p).content
<1>1. UNCHANGED <<nextOcc, kind, work>> /\ pc[p] = "insert"
  BY DEF Insert
<1>2. kind[p] = "apply" => Known(p)
  BY <1>1 DEF LInv, Listed
<1>3. CASE booked[c] > 0 /\ Fails(p) /\ UNCHANGED booked
  BY <1>1, <1>3, FailStep
<1>4. CASE booked[c] = 0 /\ booked' = [booked EXCEPT ![c] = 1] /\ Inserted(p)
  <2>1. Grows
    BY <1>4 DEF LInv, Typed, Grows
  <2>2. CASE kind[p] # "apply"
    BY <1>1, <1>4, <2>1, <2>2, QuietRow DEF Inserted, Outcome
  <2>3. CASE kind[p] = "apply"
    <3>1. pc' = [pc EXCEPT ![p] = "advance"] /\ UNCHANGED report
      BY <1>4, <2>3 DEF Inserted, Goto
    <3>2. pc'[p] = "advance" /\ \A q \in Proc \ {p} : pc'[q] = pc[q]
      BY <3>1 DEF LInv, Typed
    <3>3. Typed' /\ Places' /\ Fresh'
      BY <1>1, <2>1, <2>3, <3>1, <3>2 DEF LInv, Typed, Places, Fresh, Grows, Label
    <3>4. \A q \in Proc : row(q)' = row(q) /\ (Known(q) => Known(q)')
      BY <1>1, <3>1 DEF row, Known, Beat
    <3>5. Listed'
      BY <1>1, <1>2, <3>2, <3>4 DEF LInv, Listed
    <3>6. OnBeat' /\ OccurrencesBooked'
      BY <1>1, <2>1, StillBooked DEF LInv, OnBeat, Beat
    <3>7. c = <<ItemOf[row(p).rec], nextOcc[row(p).rec]>> /\ c \in Content
          /\ c[2] = nextOcc[row(p).rec]
      BY <1>2, <1>4, <2>3, NotPassed, RowIsEntry DEF LInv
    <3>8. booked'[c] = 1
      BY <1>4, <3>7 DEF LInv, Typed
    <3>9. \A q \in Proc \ {p} : pc'[q] = "advance" =>
              booked[row(q).content] = 1 /\ row(q).content \in Content
      <4> SUFFICES ASSUME NEW q \in Proc \ {p}, pc'[q] = "advance"
                   PROVE  booked[row(q).content] = 1 /\ row(q).content \in Content
        OBVIOUS
      <4>1. pc[q] = "advance"
        BY <3>2
      <4>2. Known(q) /\ booked[row(q).content] = 1
        BY <4>1 DEF LInv, Places, Listed, Mine
      <4> QED
        BY <4>2, RowIsEntry DEF LInv
    <3>10. Mine'
      BY <1>1, <2>1, <3>2, <3>4, <3>7, <3>8, <3>9 DEF LInv, Mine, Grows
    <3>11. Alone'
      BY <1>4, <3>2, <3>4, <3>9 DEF LInv, Alone
    <3> QED
      BY <3>3, <3>5, <3>6, <3>10, <3>11 DEF LInv
  <2> QED
    BY <2>2, <2>3
<1> QED
  BY <1>3, <1>4 DEF Insert

LEMMA AdvanceStep ==
    ASSUME LInv, NEW p \in Proc, Advance(p)
    PROVE  LInv' /\ \A r \in Recurring : nextOcc'[r] >= nextOcc[r]
<1> DEFINE r == row(p).rec
           d == row(p).content[2]
<1>1. UNCHANGED <<booked, kind, work>> /\ pc[p] = "advance" /\ kind[p] = "apply" /\ Known(p)
  BY DEF Advance, LInv, Places, Listed
<1>2. /\ r \in Recurring /\ d \in Nat /\ row(p).content = <<ItemOf[r], d>>
      /\ Beat(r, d) /\ d = nextOcc[r] /\ booked[<<ItemOf[r], d>>] = 1 /\ Period[r] \in Nat
  <2>1. Period \in [Recurring -> Nat] /\ \A x \in Day : x \in Nat
    BY LedgerAssumption DEF LedgerAssumption, Day
  <2> QED
    BY <1>1, <2>1, RowIsEntry DEF LInv, Mine
<1>3. CASE Period[r] = 0 /\ Goto(p, "raised") /\ UNCHANGED <<nextOcc, report>>
  <2>1. LInv'
    BY <1>1, <1>3, NothingBooked, QuietMove DEF Label, Over
  <2> QED
    BY <1>3, <2>1 DEF LInv, Typed
<1>4. CASE Period[r] > 0 /\ nextOcc' = [nextOcc EXCEPT ![r] = d + Period[r]] /\ RowDone(p, "created")
  <2> DEFINE stage == Stage(kind[p], work[p], Len(report'[p]) + 1)
  <2>1. /\ nextOcc' \in [Recurring -> Nat] /\ nextOcc'[r] = d + Period[r]
        /\ \A s \in Recurring \ {r} : nextOcc'[s] = nextOcc[s]
        /\ \A s \in Recurring : nextOcc'[s] >= nextOcc[s]
    BY <1>2, <1>4 DEF LInv, Typed
  <2>2. report' \in [Proc -> Seq(Outcome)] /\ report'[p] = Append(report[p], "created")
        /\ \A q \in Proc \ {p} : report'[q] = report[q]
    BY <1>4 DEF LInv, Typed, RowDone, Outcome
  <2>3. stage = IF Len(report'[p]) + 1 > Len(work[p]) THEN "done" ELSE "insert"
    BY <1>1, StageIsOne
  <2>4. pc' = [pc EXCEPT ![p] = stage]
    BY <1>4 DEF RowDone, Goto
  <2> HIDE DEF stage
  <2>5. pc' \in [Proc -> Label] /\ pc'[p] = stage /\ \A q \in Proc \ {p} : pc'[q] = pc[q]
    BY <2>3, <2>4 DEF LInv, Typed, Label, Over
  <2>6. Typed' /\ Places' /\ Fresh'
    BY <1>1, <2>1, <2>2, <2>3, <2>5 DEF LInv, Typed, Places, Fresh
  <2>7. Listed'
    <3> SUFFICES ASSUME NEW q \in Proc, kind[q] = "apply", pc'[q] \in {"insert", "advance"}
                 PROVE  Known(q)'
      BY <1>1 DEF Listed
    <3>1. Known(q)
      BY <1>1, <2>5 DEF LInv, Listed
    <3>2. Len(report'[q]) < Len(work[q])
      <4>1. CASE q = p
        BY <2>2, <2>3, <2>5, <3>1, <4>1 DEF Known
      <4>2. CASE q # p
        BY <2>2, <3>1, <4>2 DEF Known
      <4> QED
        BY <4>1, <4>2
    <3>3. \A i \in 1..Len(work[q]) : work[q][i] \in Entry
      BY <3>1 DEF Known
    <3>4. \A i \in 1..Len(work[q]) :
              work[q][i].rec \in Recurring /\ work[q][i].content[2] \in Nat
      BY <3>3 DEF Entry, Content, Day
    <3>5. \A i \in 1..Len(work[q]) : work[q][i].content[2] <= nextOcc'[work[q][i].rec]
      <4> SUFFICES ASSUME NEW i \in 1..Len(work[q])
                   PROVE  work[q][i].content[2] <= nextOcc'[work[q][i].rec]
        OBVIOUS
      <4>1. work[q][i].content[2] <= nextOcc[work[q][i].rec]
        BY <3>1 DEF Known
      <4> QED
        BY <2>1, <3>4, <4>1 DEF LInv, Typed
    <3> QED
      BY <1>1, <3>1, <3>2, <3>5 DEF Known, Beat
  <2>8. OnBeat'
    <3>1. Beat(r, d + Period[r])
      BY <1>2, <1>4, BeatGoesOn
    <3>2. \A s \in Recurring : Beat(s, nextOcc'[s])
      BY <2>1, <3>1 DEF LInv, OnBeat
    <3> QED
      BY <3>2 DEF OnBeat, Beat
  <2>9. OccurrencesBooked'
    <3> SUFFICES ASSUME NEW s \in Recurring, NEW e \in Day, First[s] <= e, e < nextOcc'[s],
                        Period[s] > 0, (e - First[s]) % Period[s] = 0
                 PROVE  booked[<<ItemOf[s], e>>] > 0
      BY <1>1 DEF OccurrencesBooked
    <3>1. CASE e < nextOcc[s]
      BY <3>1 DEF LInv, OccurrencesBooked
    <3>2. CASE ~(e < nextOcc[s])
      <4>1. e \in Nat /\ nextOcc[s] \in Nat /\ First[s] \in Nat
        BY LedgerAssumption DEF LInv, Typed, Day, LedgerAssumption
      <4>2. s = r /\ d <= e /\ e < d + Period[r]
        BY <1>2, <2>1, <3>2, <4>1
      <4>3. Beat(s, e)
        BY <4>1 DEF Beat
      <4>4. e = d
        BY <1>2, <4>1, <4>2, <4>3, BeatSkipsNothing
      <4> QED
        BY <1>2, <4>2, <4>4
    <3> QED
      BY <3>1, <3>2
  <2>10. \A q \in Proc : pc'[q] = "advance" =>
             /\ q # p /\ pc[q] = "advance" /\ row(q)' = row(q)
             /\ nextOcc'[row(q).rec] = nextOcc[row(q).rec]
    <3> SUFFICES ASSUME NEW q \in Proc, pc'[q] = "advance"
                 PROVE  /\ q # p /\ pc[q] = "advance" /\ row(q)' = row(q)
                        /\ nextOcc'[row(q).rec] = nextOcc[row(q).rec]
      OBVIOUS
    <3>1. q # p /\ pc[q] = "advance" /\ row(q)' = row(q)
      BY <1>1, <2>2, <2>3, <2>5 DEF row
    <3>2. row(q).rec \in Recurring /\ row(q).content = <<ItemOf[row(q).rec], nextOcc[row(q).rec]>>
      <4>1. Known(q) /\ row(q).content[2] = nextOcc[row(q).rec]
        BY <3>1 DEF LInv, Places, Listed, Mine
      <4> QED
        BY <4>1, RowIsEntry DEF LInv
    <3>3. row(q).rec # r
      BY <1>1, <1>2, <3>1, <3>2 DEF LInv, Alone
    <3> QED
      BY <2>1, <3>1, <3>2, <3>3
  <2>11. Mine' /\ Alone'
    BY <1>1, <2>10 DEF LInv, Mine, Alone
  <2> QED
    BY <2>1, <2>6, <2>7, <2>8, <2>9, <2>11 DEF LInv
<1> QED
  BY <1>2, <1>3, <1>4 DEF Advance

LEMMA NextKeepsLInv == LInv /\ [Next]_vars => LInv'
<1> SUFFICES ASSUME LInv, [Next]_vars PROVE LInv'
  OBVIOUS
<1>1. CASE UNCHANGED vars
  BY <1>1 DEF vars, LInv, Typed, Places, Fresh, Listed, Known, OnBeat, Beat, Mine, Alone, row,
              OccurrencesBooked
<1>2. CASE Next
  <2>1. PICK p \in Proc :
            \/ Start(p) \/ LookAtCategories(p) \/ Seed(p)
            \/ SkipUnreadable(p) \/ ReadCategory(p) \/ CreateCategory(p) \/ LookUp(p) \/ Insert(p)
            \/ ListDue(p) \/ Advance(p) \/ Crash(p)
    BY <1>2 DEF Next
  <2>2. CASE Start(p)
    <3>1. PICK w : \/ Begin(p, "csv", w) \/ Begin(p, "scan", w)
                   \/ Begin(p, "add", w) \/ Begin(p, "apply", w)
      BY <2>2 DEF Start
    <3> QED
      BY <3>1, BeginStep
  <2>3. CASE LookAtCategories(p) \/ Seed(p)
    BY <2>3, ServiceStep
  <2>4. CASE SkipUnreadable(p) \/ ReadCategory(p) \/ CreateCategory(p) \/ LookUp(p)
    BY <2>4, RowStep
  <2>5. CASE Insert(p)
    BY <2>5, InsertStep
  <2>6. CASE ListDue(p)
    BY <2>6, ListStep
  <2>7. CASE Advance(p)
    BY <2>7, AdvanceStep
  <2>8. CASE Crash(p)
    BY <2>8, CrashStep
  <2> QED
    BY <2>1, <2>2, <2>3, <2>4, <2>5, <2>6, <2>7, <2>8
<1> QED
  BY <1>1, <1>2

\* The invariant holds in every reachable state of any number of processes.
THEOREM LedgerInvariant == Spec => []LInv
  BY InitLInv, NextKeepsLInv, PTL DEF Spec

-----------------------------------------------------------------------------
(* What follows for users. *)

\* A recurring expense only moves past an occurrence that is in the table, even
\* when processes that apply it overtake each other or die.
THEOREM NoOccurrenceLost == Spec => []OccurrencesBooked
<1>1. LInv => OccurrencesBooked
  BY DEF LInv
<1> QED
  BY <1>1, LedgerInvariant, PTL

\* No process ever sets next_occurrence back, however late it writes.
THEOREM OccurrencesOnlyAdvance == Spec => NeverTakenBack
<1>1. LInv /\ [Next]_vars => [\A r \in Recurring : nextOcc'[r] >= nextOcc[r]]_nextOcc
  <2> SUFFICES ASSUME LInv, Next, nextOcc' # nextOcc
               PROVE  \A r \in Recurring : nextOcc'[r] >= nextOcc[r]
    BY DEF vars
  <2>1. PICK p \in Proc : Advance(p)
    BY DEF Next, Start, Begin, LookAtCategories, Seed, SkipUnreadable, ReadCategory,
           CreateCategory, LookUp, Insert, ListDue, Crash, tables
  <2> QED
    BY <2>1, AdvanceStep
<1> QED
  BY <1>1, LedgerInvariant, PTL DEF Spec, NeverTakenBack

-----------------------------------------------------------------------------
(* What the reports say. An import claims a transaction only when its insert  *)
(* was accepted, and from then on the index refuses everybody else.         *)

Importers == {"csv", "scan", "add"}

\* The rows of an import, and where it is among them.
AtRow(p) ==
    /\ Len(work[p]) \in Nat /\ DOMAIN work[p] = 1..Len(work[p])
    /\ \A i \in 1..Len(work[p]) : IsRow(work[p][i])
    /\ Len(report[p]) <= Len(work[p])
    /\ pc[p] \in {"unreadable", "category", "create_category", "lookup", "insert"} =>
          Len(report[p]) < Len(work[p]) /\ (pc[p] = "unreadable" <=> row(p) = Unreadable)
    /\ pc[p] \in {"category", "create_category"} => row(p).category # NoCategory
    /\ pc[p] = "done" => Len(report[p]) = Len(work[p])

AtRows == \A p \in Proc : kind[p] \in Importers => AtRow(p)

\* What is claimed is booked, ...
Claims ==
    \A p \in Proc : \A i \in DOMAIN report[p] :
        report[p][i] = "created" => work[p][i].content \in Content /\ booked[work[p][i].content] = 1

\* ... a transaction that is about to be claimed has no claim yet, ...
Unclaimed ==
    \A p, q \in Proc : pc[p] = "advance" =>
        \A j \in DOMAIN report[q] :
            report[q][j] = "created" => work[q][j].content # row(p).content

\* ... and none has two.
OneClaim ==
    \A p, q \in Proc : \A i \in DOMAIN report[p], j \in DOMAIN report[q] :
        /\ report[p][i] = "created" /\ report[q][j] = "created"
        /\ work[p][i].content = work[q][j].content
        => p = q /\ i = j

\* Behind a row of a CSV file that needed no category there is a transaction.
CsvBooked ==
    \A p \in Proc : kind[p] = "csv" =>
        \A i \in DOMAIN report[p] :
            work[p][i] # Unreadable /\ work[p][i].category = NoCategory =>
                booked[work[p][i].content] = 1

Begun == \A p \in Proc : kind[p] = "none" => pc[p] = "idle"

RInv == LInv /\ Begun /\ AtRows /\ Claims /\ Unclaimed /\ OneClaim /\ CsvBooked

LEMMA InitRInv == Init => RInv
<1> SUFFICES ASSUME Init PROVE RInv
  OBVIOUS
<1>1. LInv
  BY InitLInv
<1>2. AtRows /\ Begun
  BY DEF Init, AtRows, Importers, Begun
<1>3. \A p \in Proc : report[p] = <<>> /\ pc[p] = "idle"
  BY DEF Init
<1>4. Claims /\ Unclaimed /\ OneClaim /\ CsvBooked
  BY <1>3 DEF Claims, Unclaimed, OneClaim, CsvBooked
<1> QED
  BY <1>1, <1>2, <1>4 DEF RInv

\* Where Stage() leads.
LEMMA StageFits ==
    ASSUME NEW k \in Importers, NEW w, NEW n \in Nat, Len(w) \in Nat
    PROVE  LET s == Stage(k, w, n) IN
           /\ s = "done" <=> n > Len(w)
           /\ n <= Len(w) => (s = "unreadable" <=> w[n] = Unreadable)
           /\ s = "category" => w[n].category # NoCategory
  BY DEF Stage, Importers

\* A step of p that adds nothing to a report: it goes on, starts again, or dies.
LEMMA NoClaim ==
    ASSUME RInv, NEW p \in Proc, Grows,
           \A q \in Proc : report'[q] = report[q] \/ (q = p /\ report'[q] = <<>>),
           \A q \in Proc : (work'[q] = work[q] /\ kind'[q] = kind[q]) \/ (q = p /\ report'[q] = <<>>)
    PROVE  Claims' /\ OneClaim' /\ CsvBooked'
<1>1. \A q \in Proc : \A i \in DOMAIN report'[q] :
          /\ i \in DOMAIN report[q] /\ report'[q][i] = report[q][i]
          /\ work'[q] = work[q] /\ kind'[q] = kind[q]
  OBVIOUS
<1>2. Claims'
  BY <1>1 DEF RInv, Claims, Grows
<1>3. OneClaim'
  BY <1>1 DEF RInv, OneClaim
<1>4. CsvBooked'
  <2> SUFFICES ASSUME NEW q \in Proc, kind'[q] = "csv", NEW i \in DOMAIN report'[q],
                      work'[q][i] # Unreadable, work'[q][i].category = NoCategory
               PROVE  booked'[work'[q][i].content] = 1
    BY DEF CsvBooked
  <2>1. work'[q] = work[q] /\ i \in DOMAIN report[q] /\ kind[q] = "csv"
    BY <1>1
  <2>2. booked[work[q][i].content] = 1
    BY <2>1 DEF RInv, CsvBooked
  <2>3. work[q][i].content \in Content
    <3>1. AtRow(q) /\ report[q] \in Seq(Outcome)
      BY <2>1 DEF RInv, AtRows, Importers, LInv, Typed
    <3>2. i \in 1..Len(work[q])
      BY <2>1, <3>1 DEF AtRow
    <3> QED
      BY <2>1, <3>1, <3>2 DEF AtRow, IsRow
  <2> QED
    BY <2>1, <2>2, <2>3 DEF Grows
<1> QED
  BY <1>2, <1>3, <1>4

\* p is through with a row, which has a transaction if p says so, and if it is a CSV row that
\* needed no category.
LEMMA RowReported ==
    ASSUME RInv, NEW p \in Proc, NEW what \in Outcome, RowDone(p, what), Grows, UNCHANGED <<kind, work>>,
           what = "created" =>
               /\ row(p).content \in Content /\ booked'[row(p).content] = 1
               /\ \A q \in Proc : \A j \in DOMAIN report[q] :
                     report[q][j] = "created" => work[q][j].content # row(p).content,
           kind[p] = "csv" /\ row(p) # Unreadable /\ row(p).category = NoCategory =>
               booked'[row(p).content] = 1
    PROVE  Claims' /\ OneClaim' /\ CsvBooked'
<1> DEFINE n == Len(report[p]) + 1
<1>1. report[p] \in Seq(Outcome) /\ row(p) = work[p][n]
      /\ report'[p] = Append(report[p], what) /\ \A q \in Proc \ {p} : report'[q] = report[q]
  BY DEF RInv, LInv, Typed, RowDone, row
<1>2. DOMAIN report'[p] = DOMAIN report[p] \cup {n} /\ n \notin DOMAIN report[p] /\ report'[p][n] = what
      /\ \A i \in DOMAIN report[p] : report'[p][i] = report[p][i]
  BY <1>1
<1> HIDE DEF n
<1>3. \A q \in Proc : \A i \in DOMAIN report'[q] :
          \/ i \in DOMAIN report[q] /\ report'[q][i] = report[q][i]
          \/ q = p /\ i = n /\ report'[q][i] = what
  BY <1>1, <1>2
<1>4. Claims'
  BY <1>1, <1>3 DEF RInv, Claims, Grows
<1>5. OneClaim'
  <2> SUFFICES ASSUME NEW q \in Proc, NEW r \in Proc, NEW i \in DOMAIN report'[q], NEW j \in DOMAIN report'[r],
                      report'[q][i] = "created", report'[r][j] = "created",
                      work[q][i].content = work[r][j].content
               PROVE  q = r /\ i = j
    BY DEF OneClaim
  <2>1. CASE i \in DOMAIN report[q] /\ report'[q][i] = report[q][i]
             /\ j \in DOMAIN report[r] /\ report'[r][j] = report[r][j]
    BY <2>1 DEF RInv, OneClaim
  <2>2. CASE q = p /\ i = n /\ report'[q][i] = what /\ j \in DOMAIN report[r] /\ report'[r][j] = report[r][j]
    BY <1>1, <2>2
  <2>3. CASE r = p /\ j = n /\ report'[r][j] = what /\ i \in DOMAIN report[q] /\ report'[q][i] = report[q][i]
    BY <1>1, <2>3
  <2>4. CASE q = p /\ i = n /\ r = p /\ j = n
    BY <2>4
  <2> QED
    BY <1>3, <2>1, <2>2, <2>3, <2>4
<1>6. CsvBooked'
  <2> SUFFICES ASSUME NEW q \in Proc, kind[q] = "csv", NEW i \in DOMAIN report'[q],
                      work[q][i] # Unreadable, work[q][i].category = NoCategory
               PROVE  booked'[work[q][i].content] = 1
    BY DEF CsvBooked
  <2>1. CASE i \in DOMAIN report[q]
    <3>1. booked[work[q][i].content] = 1
      BY <2>1 DEF RInv, CsvBooked
    <3>2. AtRow(q) /\ report[q] \in Seq(Outcome)
      BY DEF RInv, AtRows, Importers, LInv, Typed
    <3>3. i \in 1..Len(work[q])
      BY <2>1, <3>2 DEF AtRow
    <3>4. work[q][i].content \in Content
      BY <3>2, <3>3 DEF AtRow, IsRow
    <3> QED
      BY <3>1, <3>4 DEF Grows
  <2>2. CASE q = p /\ i = n
    BY <1>1, <2>2
  <2> QED
    BY <1>3, <2>1, <2>2
<1> QED
  BY <1>4, <1>5, <1>6

\* The row an import is at, where it is one that can be booked.
LEMMA RowIsReadable ==
    ASSUME RInv, NEW p \in Proc, kind[p] \in Importers,
           pc[p] \in {"category", "create_category", "lookup", "insert"}
    PROVE  row(p) # Unreadable /\ row(p).content \in Content
<1>1. AtRow(p) /\ report[p] \in Seq(Outcome)
  BY DEF RInv, AtRows, LInv, Typed
<1>2. Len(report[p]) + 1 \in 1..Len(work[p])
  BY <1>1 DEF AtRow
<1> QED
  BY <1>1, <1>2 DEF AtRow, IsRow, row

\* Nobody has claimed what is not booked.
LEMMA NotBookedNotClaimed ==
    ASSUME RInv, NEW c, booked[c] = 0
    PROVE  \A q \in Proc : \A j \in DOMAIN report[q] :
               report[q][j] = "created" => work[q][j].content # c
  BY DEF RInv, Claims

Reports == AtRows /\ Claims /\ Unclaimed /\ OneClaim /\ CsvBooked

LEMMA OthersAtRows ==
    ASSUME RInv, NEW p \in Proc,
           \A q \in Proc \ {p} : /\ pc'[q] = pc[q] /\ kind'[q] = kind[q]
                                 /\ work'[q] = work[q] /\ report'[q] = report[q],
           kind'[p] \in Importers => AtRow(p)'
    PROVE  AtRows'
<1> SUFFICES ASSUME NEW q \in Proc, kind'[q] \in Importers, q # p PROVE AtRow(q)'
  BY DEF AtRows
<1>1. AtRow(q)
  BY DEF RInv, AtRows
<1>2. row(q)' = row(q)
  BY DEF row
<1> QED
  BY <1>1, <1>2 DEF AtRow, IsRow

\* p begins, lists, looks, seeds, is refused or dies.
LEMMA QuietReports ==
    ASSUME RInv, NEW p \in Proc, Grows,
           \A q \in Proc \ {p} : /\ pc'[q] = pc[q] /\ kind'[q] = kind[q]
                                 /\ work'[q] = work[q] /\ report'[q] = report[q],
           \/ report'[p] = report[p] /\ work'[p] = work[p] /\ kind'[p] = kind[p]
           \/ report'[p] = <<>>,
           pc'[p] # "advance",
           kind'[p] \in Importers => AtRow(p)'
    PROVE  Reports'
<1>1. AtRows'
  BY OthersAtRows
<1>2. Claims' /\ OneClaim' /\ CsvBooked'
  BY NoClaim
<1>3. Unclaimed'
  <2> SUFFICES ASSUME NEW q \in Proc, NEW r \in Proc, pc'[q] = "advance",
                      NEW j \in DOMAIN report'[r], report'[r][j] = "created"
               PROVE  work'[r][j].content # row(q)'.content
    BY DEF Unclaimed
  <2>1. q # p /\ pc[q] = "advance" /\ row(q)' = row(q)
    BY DEF row
  <2>2. report'[r] = report[r] /\ work'[r] = work[r]
    OBVIOUS
  <2> QED
    BY <2>1, <2>2 DEF RInv, Unclaimed
<1> QED
  BY <1>1, <1>2, <1>3 DEF Reports

\* p goes somewhere with the same rows.
LEMMA MoveReports ==
    ASSUME RInv, NEW p \in Proc, NEW label, label # "advance", Goto(p, label), Grows,
           UNCHANGED <<kind, work, report>>,
           kind[p] \in Importers =>
                  \/ label \in {"raised", "crashed", "seed"}
                  \/ (label = "create_category" /\ pc[p] = "category")
                  \/ (label = "lookup" /\ pc[p] \in {"category", "create_category"})
                  \/ (label = "insert" /\ pc[p] \in {"category", "create_category", "lookup"})
                  \/ (label = Ready(p) /\ report[p] = <<>>)
    PROVE  Reports'
<1>1. pc'[p] = label /\ \A q \in Proc \ {p} : pc'[q] = pc[q]
  BY DEF RInv, LInv, Typed, Goto
<1>2. ASSUME kind[p] \in Importers PROVE AtRow(p)'
  <2>1. AtRow(p) /\ row(p)' = row(p)
    BY <1>2 DEF RInv, AtRows, row
  <2>2. CASE label # Ready(p) \/ report[p] # <<>>
    BY <1>1, <1>2, <2>1, <2>2 DEF AtRow, IsRow
  <2>3. CASE label = Ready(p) /\ report[p] = <<>>
    <3>1. label = Stage(kind[p], work[p], 1) /\ Len(report[p]) = 0
      BY <1>2, <2>3 DEF Ready, Importers
    <3>2. row(p) = work[p][1] /\ Len(work[p]) \in Nat
      BY <2>1, <3>1 DEF row, AtRow
    <3>3. label \in Stages
      BY <3>1, StageIsOne
    <3>4. /\ label = "done" <=> 1 > Len(work[p])
          /\ 1 <= Len(work[p]) => (label = "unreadable" <=> work[p][1] = Unreadable)
          /\ label = "category" => work[p][1].category # NoCategory
      BY <1>2, <3>1, <3>2, StageFits
    <3> QED
      BY <1>1, <2>1, <3>1, <3>2, <3>3, <3>4 DEF AtRow, IsRow, Stages
  <2> QED
    BY <2>2, <2>3
<1> QED
  BY <1>1, <1>2, QuietReports

\* p is through with a row.
LEMMA RowReports ==
    ASSUME RInv, NEW p \in Proc, NEW what \in Outcome, RowDone(p, what), Grows, UNCHANGED <<kind, work>>,
           kind[p] \in Importers => Len(report[p]) < Len(work[p]),
           what = "created" =>
               /\ row(p).content \in Content /\ booked'[row(p).content] = 1
               /\ \A q \in Proc : \A j \in DOMAIN report[q] :
                     report[q][j] = "created" => work[q][j].content # row(p).content
               /\ \A q \in Proc \ {p} : pc[q] = "advance" => row(q).content # row(p).content,
           kind[p] = "csv" /\ row(p) # Unreadable /\ row(p).category = NoCategory =>
               booked'[row(p).content] = 1
    PROVE  Reports'
<1> DEFINE n == Len(report[p]) + 1
           stage == Stage(kind[p], work[p], Len(report'[p]) + 1)
<1>1. report[p] \in Seq(Outcome) /\ row(p) = work[p][n]
      /\ report'[p] = Append(report[p], what) /\ \A q \in Proc \ {p} : report'[q] = report[q]
  BY DEF RInv, LInv, Typed, RowDone, row
<1>2. pc'[p] = stage /\ \A q \in Proc \ {p} : pc'[q] = pc[q]
  BY DEF RInv, LInv, Typed, RowDone, Goto
<1>3. Len(report'[p]) = n /\ n \in Nat /\ row(p)' = work[p][n + 1]
  BY <1>1 DEF row
<1>4. stage \in Stages
  BY StageIsOne
<1>5. Claims' /\ OneClaim' /\ CsvBooked'
  BY RowReported
<1>6. AtRows'
  <2>1. ASSUME kind[p] \in Importers PROVE AtRow(p)'
    <3>1. AtRow(p) /\ Len(work[p]) \in Nat /\ n <= Len(work[p])
      BY <1>1, <2>1 DEF RInv, AtRows, AtRow
    <3>2. /\ stage = "done" <=> n + 1 > Len(work[p])
          /\ n + 1 <= Len(work[p]) => (stage = "unreadable" <=> work[p][n + 1] = Unreadable)
          /\ stage = "category" => work[p][n + 1].category # NoCategory
      BY <1>3, <2>1, <3>1, StageFits
    <3> HIDE DEF n, stage
    <3> QED
      BY <1>2, <1>3, <1>4, <3>1, <3>2 DEF AtRow, IsRow, Stages
  <2> QED
    BY <1>1, <1>2, <2>1, OthersAtRows
<1>7. Unclaimed'
  <2> SUFFICES ASSUME NEW q \in Proc, NEW r \in Proc, pc'[q] = "advance",
                      NEW j \in DOMAIN report'[r], report'[r][j] = "created"
               PROVE  work[r][j].content # row(q)'.content
    BY DEF Unclaimed
  <2>1. q # p /\ pc[q] = "advance" /\ row(q)' = row(q)
    BY <1>1, <1>2, <1>4 DEF row, Stages
  <2>2. CASE j \in DOMAIN report[r] /\ report'[r][j] = report[r][j]
    BY <2>1, <2>2 DEF RInv, Unclaimed
  <2>3. CASE r = p /\ j = n /\ what = "created"
    BY <1>1, <2>1, <2>3
  <2>4. \/ j \in DOMAIN report[r] /\ report'[r][j] = report[r][j]
        \/ r = p /\ j = n /\ what = "created"
    BY <1>1
  <2> QED
    BY <2>2, <2>3, <2>4
<1> QED
  BY <1>5, <1>6, <1>7 DEF Reports

LEMMA BeginReports ==
    ASSUME RInv, NEW p \in Proc, Start(p)
    PROVE  Reports'
<1> DEFINE FromFile(w) ==
              w \in Files \/ \E f \in Files : \E i \in DOMAIN f : f[i] # Unreadable /\ w = <<f[i]>>
<1>0. PICK k \in {"csv", "scan", "add", "apply"} :
          \E w : Begin(p, k, w) /\ (k # "apply" => FromFile(w))
  BY DEF Start
<1>1. PICK w : Begin(p, k, w) /\ (k # "apply" => FromFile(w))
  BY <1>0
<1>2. /\ pc' = [pc EXCEPT ![p] = "service"] /\ kind' = [kind EXCEPT ![p] = k]
      /\ work' = [work EXCEPT ![p] = w] /\ report' = [report EXCEPT ![p] = <<>>]
      /\ UNCHANGED booked
  BY <1>1 DEF Begin, Goto, tables
<1>3. /\ pc'[p] = "service" /\ kind'[p] = k /\ work'[p] = w /\ report'[p] = <<>>
      /\ \A q \in Proc \ {p} : /\ pc'[q] = pc[q] /\ kind'[q] = kind[q]
                               /\ work'[q] = work[q] /\ report'[q] = report[q]
  BY <1>2 DEF RInv, LInv, Typed
<1>4. ASSUME k # "apply"
      PROVE  Len(w) \in Nat /\ DOMAIN w = 1..Len(w) /\ \A i \in 1..Len(w) : IsRow(w[i])
  <2>1. \A f \in Files : f \in Seq(Range(f)) /\ \A i \in DOMAIN f : IsRow(f[i])
    BY LedgerAssumption DEF LedgerAssumption
  <2>2. CASE w \in Files
    BY <2>1, <2>2
  <2>3. CASE \E f \in Files : \E i \in DOMAIN f : w = <<f[i]>>
    BY <2>1, <2>3
  <2> QED
    BY <1>1, <1>4, <2>2, <2>3
<1>5. k # "apply" => AtRow(p)'
  BY <1>3, <1>4 DEF AtRow, IsRow
<1>6. Grows
  BY <1>2, NothingBooked DEF RInv
<1> QED
  BY <1>3, <1>5, <1>6, QuietReports DEF Importers

LEMMA ServiceReports ==
    ASSUME RInv, NEW p \in Proc, LookAtCategories(p) \/ Seed(p) \/ Crash(p)
    PROVE  Reports'
<1>1. UNCHANGED <<booked, kind, work, report>> /\ Grows
  BY NothingBooked DEF RInv, LookAtCategories, Seed, Crash, tables
<1>2. CASE Goto(p, Ready(p)) /\ pc[p] \in {"service", "seed"}
  <2>1. report[p] = <<>>
    BY <1>2 DEF RInv, LInv, Fresh
  <2> QED
    BY <1>1, <1>2, <2>1, ReadyIsQuiet, MoveReports
<1>3. CASE \E label \in {"seed", "raised", "crashed"} : Goto(p, label)
  BY <1>1, <1>3, MoveReports
<1> QED
  BY <1>2, <1>3 DEF LookAtCategories, Seed, Crash

\* Whatever has a row is an import or apply_due_recurring().
LEMMA KindAtRow ==
    ASSUME RInv, NEW p \in Proc, pc[p] # "idle"
    PROVE  kind[p] \in Importers \/ kind[p] = "apply"
  BY DEF RInv, LInv, Typed, Begun, Importers

\* An exception: a CSV row is reported as an error, unless it needed no category and is there.
LEMMA FailReports ==
    ASSUME RInv, NEW p \in Proc, Fails(p), UNCHANGED <<booked, kind, work>>,
           pc[p] \in {"create_category", "insert"},
           kind[p] = "csv" /\ row(p) # Unreadable /\ row(p).category = NoCategory =>
               booked[row(p).content] = 1
    PROVE  Reports'
<1>1. Grows
  BY NothingBooked DEF RInv
<1>2. CASE kind[p] = "csv" /\ RowDone(p, "error")
  <2>1. Len(report[p]) < Len(work[p])
    BY <1>2 DEF RInv, AtRows, AtRow, Importers
  <2> QED
    BY <1>1, <1>2, <2>1, RowReports DEF Outcome
<1>3. CASE kind[p] # "csv" /\ Goto(p, "raised") /\ UNCHANGED report
  BY <1>1, <1>3, MoveReports
<1> QED
  BY <1>2, <1>3 DEF Fails

LEMMA CategoryReports ==
    ASSUME RInv, NEW p \in Proc,
           SkipUnreadable(p) \/ ReadCategory(p) \/ CreateCategory(p) \/ LookUp(p)
    PROVE  Reports'
<1>1. pc[p] \in {"unreadable", "category", "create_category", "lookup"}
      /\ UNCHANGED <<booked, kind, work>> /\ Grows
  BY NothingBooked DEF RInv, SkipUnreadable, ReadCategory, CreateCategory, LookUp, tables
<1>2. kind[p] \in Importers
  BY <1>1, KindAtRow DEF RInv, LInv, Places
<1>3. AtRow(p) /\ Len(report[p]) < Len(work[p])
  BY <1>1, <1>2 DEF RInv, AtRows, AtRow
<1>4. CASE SkipUnreadable(p)
  <2>1. RowDone(p, "error") /\ row(p) = Unreadable
    BY <1>3, <1>4 DEF SkipUnreadable, AtRow
  <2> QED
    BY <1>1, <1>3, <2>1, RowReports DEF Outcome
<1>5. CASE ReadCategory(p)
  <2>1. pc[p] = "category" /\ UNCHANGED report
        /\ \E label \in {"lookup", "insert", "create_category"} : Goto(p, label)
    BY <1>5 DEF ReadCategory, AfterCategory
  <2> QED
    BY <1>1, <2>1, MoveReports
<1>6. CASE CreateCategory(p)
  <2>1. pc[p] = "create_category" /\ row(p).category # NoCategory
    BY <1>3, <1>6 DEF CreateCategory, AtRow
  <2>2. CASE Fails(p)
    BY <1>1, <2>1, <2>2, FailReports
  <2>3. CASE AfterCategory(p) /\ UNCHANGED report
    <3>1. \E label \in {"lookup", "insert"} : Goto(p, label)
      BY <2>3 DEF AfterCategory
    <3> QED
      BY <1>1, <2>1, <2>3, <3>1, MoveReports
  <2> QED
    BY <1>6, <2>2, <2>3 DEF CreateCategory
<1>7. CASE LookUp(p)
  <2>1. pc[p] = "lookup" /\ row(p).content \in Content
    BY <1>2, <1>7, RowIsReadable DEF LookUp
  <2>2. CASE booked[row(p).content] > 0 /\ RowDone(p, "skipped")
    <3>1. booked'[row(p).content] = 1
      BY <1>1, <2>1, <2>2 DEF RInv, LInv, Typed
    <3> QED
      BY <1>1, <1>3, <2>2, <3>1, RowReports DEF Outcome
  <2>3. CASE Goto(p, "insert") /\ UNCHANGED report
    BY <1>1, <2>1, <2>3, MoveReports
  <2> QED
    BY <1>7, <2>2, <2>3 DEF LookUp
<1> QED
  BY <1>4, <1>5, <1>6, <1>7

LEMMA InsertReports == ASSUME RInv, NEW p \in Proc, Insert(p) PROVE Reports'
<1> DEFINE c == row(p).content
<1>1. UNCHANGED <<kind, work>> /\ pc[p] = "insert"
  BY DEF Insert
<1>2. c \in Content
  <2>1. CASE kind[p] \in Importers
    BY <1>1, <2>1, RowIsReadable
  <2>2. CASE kind[p] = "apply"
    BY <1>1, <2>2, RowIsEntry DEF RInv, LInv, Listed
  <2> QED
    BY <1>1, <2>1, <2>2, KindAtRow
<1>3. booked[c] \in {0, 1}
  BY <1>2 DEF RInv, LInv, Typed
<1>4. CASE booked[c] > 0 /\ Fails(p) /\ UNCHANGED booked
  BY <1>1, <1>3, <1>4, FailReports
<1>5. CASE booked[c] = 0 /\ booked' = [booked EXCEPT ![c] = 1] /\ Inserted(p)
  <2>1. Grows /\ booked'[c] = 1
    BY <1>2, <1>5 DEF RInv, LInv, Typed, Grows
  <2>2. \A q \in Proc : \A j \in DOMAIN report[q] :
            report[q][j] = "created" => work[q][j].content # c
    BY <1>5, NotBookedNotClaimed
  <2>3. \A q \in Proc : pc[q] = "advance" => row(q).content # c
    BY <1>5 DEF RInv, LInv, Mine
  <2>4. CASE kind[p] # "apply"
    <3>1. kind[p] \in Importers
      BY <1>1, <2>4, KindAtRow
    <3>2. Len(report[p]) < Len(work[p])
      BY <1>1, <3>1 DEF RInv, AtRows, AtRow
    <3>3. RowDone(p, "created")
      BY <1>5, <2>4 DEF Inserted
    <3> QED
      BY <1>1, <1>2, <2>1, <2>2, <2>3, <3>2, <3>3, RowReports DEF Outcome
  <2>5. CASE kind[p] = "apply"
    <3>1. pc' = [pc EXCEPT ![p] = "advance"] /\ UNCHANGED report
      BY <1>5, <2>5 DEF Inserted, Goto
    <3>2. \A q \in Proc \ {p} : pc'[q] = pc[q]
      BY <3>1 DEF RInv, LInv, Typed
    <3>3. AtRows'
      BY <1>1, <2>5, <3>1, <3>2, OthersAtRows DEF Importers
    <3>4. Claims' /\ OneClaim' /\ CsvBooked'
      BY <1>1, <2>1, <3>1, NoClaim
    <3>5. Unclaimed'
      <4> SUFFICES ASSUME NEW q \in Proc, NEW r \in Proc, pc'[q] = "advance",
                          NEW j \in DOMAIN report[r], report[r][j] = "created"
                   PROVE  work[r][j].content # row(q)'.content
        BY <1>1, <3>1 DEF Unclaimed
      <4>1. row(q)' = row(q)
        BY <1>1, <3>1 DEF row
      <4>2. CASE q = p
        BY <2>2, <4>1, <4>2
      <4>3. CASE q # p
        BY <3>2, <4>1, <4>3 DEF RInv, Unclaimed
      <4> QED
        BY <4>2, <4>3
    <3> QED
      BY <3>3, <3>4, <3>5 DEF Reports
  <2> QED
    BY <2>4, <2>5
<1> QED
  BY <1>4, <1>5 DEF Insert

LEMMA ApplyReports == ASSUME RInv, NEW p \in Proc, ListDue(p) \/ Advance(p) PROVE Reports'
<1>1. UNCHANGED <<booked, kind>> /\ Grows /\ pc[p] \in {"list", "advance"} /\ kind[p] = "apply"
  BY NothingBooked DEF RInv, LInv, Places, ListDue, Advance, tables
<1>2. CASE ListDue(p)
  <2>1. report[p] = <<>> /\ UNCHANGED report
    BY <1>2 DEF RInv, LInv, Fresh, ListDue
  <2>2. PICK w : work' = [work EXCEPT ![p] = w] /\ Goto(p, Stage("apply", w, 1))
    BY <1>2 DEF ListDue
  <2>3. \A q \in Proc \ {p} : pc'[q] = pc[q] /\ work'[q] = work[q]
    BY <2>2 DEF RInv, LInv, Typed, Goto
  <2>4. pc'[p] = Stage("apply", w, 1) /\ Stage("apply", w, 1) \in Stages
    BY <2>2, StageIsOne DEF RInv, LInv, Typed, Goto
  <2> QED
    BY <1>1, <2>1, <2>3, <2>4, QuietReports DEF Importers, Stages
<1>3. CASE Advance(p)
  <2>1. pc[p] = "advance" /\ UNCHANGED work
    BY <1>3 DEF Advance
  <2>2. CASE Goto(p, "raised") /\ UNCHANGED report
    BY <1>1, <2>1, <2>2, MoveReports
  <2>3. CASE RowDone(p, "created")
    <3>1. row(p).content \in Content /\ booked'[row(p).content] = 1
      <4>1. Known(p) /\ booked[row(p).content] = 1
        BY <1>1, <2>1 DEF RInv, LInv, Listed, Mine
      <4> QED
        BY <1>1, <4>1, RowIsEntry DEF RInv, LInv
    <3>2. \A q \in Proc : \A j \in DOMAIN report[q] :
              report[q][j] = "created" => work[q][j].content # row(p).content
      BY <2>1 DEF RInv, Unclaimed
    <3>3. \A q \in Proc \ {p} : pc[q] = "advance" => row(q).content # row(p).content
      BY <2>1 DEF RInv, LInv, Alone
    <3> QED
      BY <1>1, <2>1, <2>3, <3>1, <3>2, <3>3, RowReports DEF Outcome, Importers
  <2> QED
    BY <1>3, <2>2, <2>3 DEF Advance
<1> QED
  BY <1>2, <1>3

LEMMA RInvStep == ASSUME RInv, [Next]_vars PROVE RInv'
<1>1. LInv'
  BY NextKeepsLInv DEF RInv
<1>2. CASE UNCHANGED vars
  BY <1>1, <1>2 DEF vars, RInv, Begun, AtRows, AtRow, IsRow, row, Claims, Unclaimed, OneClaim, CsvBooked
<1>3. CASE Next
  <2>1. PICK p \in Proc :
            \/ Start(p) \/ LookAtCategories(p) \/ Seed(p)
            \/ SkipUnreadable(p) \/ ReadCategory(p) \/ CreateCategory(p) \/ LookUp(p) \/ Insert(p)
            \/ ListDue(p) \/ Advance(p) \/ Crash(p)
    BY <1>3 DEF Next
  <2>2. Reports'
    BY <2>1, BeginReports, ServiceReports, CategoryReports, InsertReports, ApplyReports
  <2>3. Begun'
    <3>1. CASE Start(p)
      <4>1. PICK k \in {"csv", "scan", "add", "apply"} : kind' = [kind EXCEPT ![p] = k]
            /\ pc' = [pc EXCEPT ![p] = "service"]
        BY <3>1 DEF Start, Begin, Goto
      <4> QED
        BY <4>1 DEF RInv, LInv, Typed, Begun
    <3>2. CASE ~Start(p)
      <4>1. kind' = kind /\ pc[p] # "idle"
        BY <2>1, <3>2 DEF LookAtCategories, Seed, SkipUnreadable, ReadCategory, CreateCategory, LookUp, Insert,
                          ListDue, Advance, Crash, Over
      <4>2. \E label : Goto(p, label)
        BY <2>1, <3>2 DEF LookAtCategories, Seed, SkipUnreadable, ReadCategory, CreateCategory, LookUp, Insert,
                          ListDue, Advance, Crash, AfterCategory, Fails, RowDone, Inserted
      <4>3. \A q \in Proc \ {p} : pc'[q] = pc[q]
        BY <4>2 DEF RInv, LInv, Typed, Goto
      <4> QED
        BY <4>1, <4>3 DEF RInv, Begun
    <3> QED
      BY <3>1, <3>2
  <2> QED
    BY <1>1, <2>2, <2>3 DEF RInv, Reports
<1> QED
  BY <1>2, <1>3

\* The strengthening of what the reports say is inductive.
THEOREM ReportInvariant == Spec => []RInv
  BY InitRInv, RInvStep, PTL DEF Spec

\* However many processes import at once, no two of them claim one transaction, and behind every
\* readable row of a CSV import that has returned there is one (csv_import.py:77-91).
THEOREM ReportsAlwaysAddUp == Spec => []ReportsAddUp
<1>1. RInv => ReportsAddUp
  <2> SUFFICES ASSUME RInv PROVE ReportsAddUp
    OBVIOUS
  <2>1. ASSUME NEW p \in Proc, pc[p] = "done", kind[p] = "csv", NEW i \in DOMAIN work[p],
               work[p][i] # Unreadable, work[p][i].category = NoCategory
        PROVE  booked[work[p][i].content] = 1
    <3>1. AtRow(p) /\ report[p] \in Seq(Outcome)
      BY <2>1 DEF RInv, AtRows, Importers, LInv, Typed
    <3>2. i \in DOMAIN report[p]
      BY <2>1, <3>1 DEF AtRow
    <3> QED
      BY <2>1, <3>2 DEF RInv, CsvBooked
  <2> QED
    BY <2>1 DEF RInv, OneClaim, ReportsAddUp
<1> QED
  BY <1>1, ReportInvariant, PTL

-----------------------------------------------------------------------------
(* The types of the rest: the seeding, and the number of operations. *)

Seeding ==
    /\ ops \in 0..MaxOps
    /\ seeded \in [Proc -> 0..Len(Defaults)]
    /\ \A p \in Proc : pc[p] = "service" => seeded[p] = 0
    /\ \A p \in Proc : pc[p] = "seed" => seeded[p] < Len(Defaults)

\* Only Seed() goes on seeding, and only LookAtCategories() begins to.
LEMMA ElsewhereNoSeeding ==
    ASSUME NEW p \in Proc, NEW l, pc \in [Proc -> Label], Goto(p, l), l \notin {"service", "seed"}
    PROVE  pc'[p] \notin {"service", "seed"} /\ \A q \in Proc \ {p} : pc'[q] = pc[q]
  BY DEF Goto

LEMMA StageNeverSeeds == \A k, w, n : Stage(k, w, n) \notin {"service", "seed"}
  BY DEF Stage

LEMMA SeedingStep == ASSUME RInv, Seeding, [Next]_vars PROVE Seeding'
<1>1. Len(Defaults) \in Nat /\ MaxOps \in Nat /\ (Defaults # <<>> => Len(Defaults) > 0)
  <2>1. Defaults \in Seq(Range(Defaults)) /\ MaxOps \in Nat
    BY LedgerAssumption DEF LedgerAssumption
  <2> HIDE LedgerAssumption
  <2> QED
    BY <2>1
<1>2. pc \in [Proc -> Label]
  BY DEF RInv, LInv, Typed
<1>3. CASE UNCHANGED vars
  BY <1>3 DEF vars, Seeding
<1>4. ASSUME NEW p \in Proc, Start(p)
      PROVE  Seeding'
  <2>1. PICK k, w : Begin(p, k, w)
    BY <1>4 DEF Start
  <2> QED
    BY <1>1, <1>2, <2>1 DEF Begin, Goto, Seeding
<1>5. ASSUME NEW p \in Proc, LookAtCategories(p)
      PROVE  Seeding'
  <2>1. seeded[p] = 0 /\ Ready(p) \notin {"service", "seed"}
    BY <1>5, StageNeverSeeds DEF LookAtCategories, Seeding, Ready
  <2> QED
    BY <1>1, <1>2, <1>5, <2>1 DEF LookAtCategories, Goto, Seeding
<1>6. ASSUME NEW p \in Proc, Seed(p)
      PROVE  Seeding'
  <2>1. Ready(p) \notin {"service", "seed"}
    BY StageNeverSeeds DEF Ready
  <2> QED
    BY <1>1, <1>2, <1>6, <2>1 DEF Seed, Goto, Seeding
<1>7. ASSUME NEW p \in Proc,
             \/ SkipUnreadable(p) \/ ReadCategory(p) \/ CreateCategory(p) \/ LookUp(p) \/ Insert(p)
             \/ ListDue(p) \/ Advance(p) \/ Crash(p)
      PROVE  Seeding'
  <2>1. UNCHANGED <<seeded, ops>>
    BY <1>7 DEF SkipUnreadable, ReadCategory, CreateCategory, LookUp, Insert, ListDue, Advance, Crash
  <2>2. PICK l : Goto(p, l) /\ l \notin {"service", "seed"}
    BY <1>7, StageNeverSeeds DEF SkipUnreadable, ReadCategory, CreateCategory, LookUp, Insert, ListDue,
       Advance, Crash, RowDone, Fails, Inserted, AfterCategory
  <2> QED
    BY <1>2, <2>1, <2>2, ElsewhereNoSeeding DEF Seeding
<1> QED
  BY <1>3, <1>4, <1>5, <1>6, <1>7 DEF Next

\* An operation is never past its rows, or past its default categories (service.py, csv_import.py).
THEOREM LedgerTypes == Spec => []LedgerTypeOK
<1>1. Init => Seeding
  BY LedgerAssumption DEF LedgerAssumption, Init, Seeding
<1>2. RInv /\ Seeding => LedgerTypeOK
  <2> SUFFICES ASSUME RInv, Seeding PROVE LedgerTypeOK
    OBVIOUS
  <2>1. ASSUME NEW p \in Proc, pc[p] \notin Over \cup {"service", "seed", "list"}
        PROVE  Len(report[p]) < Len(work[p])
    BY <2>1 DEF RInv, LInv, Typed, Label, Places, Listed, Known, Begun, AtRows, AtRow, Importers, Over
  <2> QED
    BY <2>1 DEF RInv, LInv, Typed, Label, Seeding, LedgerTypeOK
<1> QED
  BY <1>1, <1>2, SeedingStep, ReportInvariant, PTL DEF Spec

=============================================================================
