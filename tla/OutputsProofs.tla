---------------------------- MODULE OutputsProofs ----------------------------
(***************************************************************************)
(* The safety properties of the outputs of the system.  Documents: for any *)
(* sources, pages, overlapping requests and number of faults.  Printing:   *)
(* for any printers, any finite set of dialogs, and any number of requests *)
(* and lost answers.                                                       *)
(***************************************************************************)
EXTENDS Documents, Printing, SumTheorems

-----------------------------------------------------------------------------
(* Documents: the inductive invariant *)

\* What the requests in progress know: the row they work on exists, one request at a time
\* generates a document, it has stored what it will announce, and until then there is
\* nothing to give out.
Work(r) ==
  /\ pc[r] \in {"created"} \cup InGeneration => document[job[r].source] # Null
  /\ pc[r] = "stored" => file[job[r].source] # "absent"
  /\ pc[r] \in InGeneration \ {"stored"} => ~Available(job[r].source)
  /\ pc[r] \in InGeneration =>
       \A q \in Requests :
         pc[q] \in InGeneration /\ job[q].source = job[r].source => q = r

WorkHolds == \A r \in Requests : Work(r)

Unborn == \A s \in Sources : document[s] = Null => attempts[s] = <<>>

IInv == TypeOK /\ WorkHolds /\ ReadyWasStored /\ Unborn /\ AttemptsTellState

-----------------------------------------------------------------------------
(* Types *)

\* A page opens with nothing asked for and nothing shown.
LEMMA NewPageType == NewPage \in PageRecord
  BY DEF NewPage, PageRecord

\* A request that is not idle has a job.
LEMMA JobType ==
  ASSUME TypeOK, NEW r \in Requests, pc[r] # "idle"
  PROVE  job[r] \in Jobs /\ job[r].source \in Sources /\ job[r].page \in Pages \cup {Null}
  BY DEF TypeOK, Jobs

\* A page that goes away leaves its requests their sources.
LEMMA AbandonedJobs ==
  ASSUME TypeOK, NEW p \in Pages
  PROVE  /\ Abandoned(p) \in [Requests -> Jobs \cup {Null}]
         /\ \A r \in Requests : Abandoned(p)[r] = Null <=> job[r] = Null
         /\ \A r \in Requests : job[r] # Null => Abandoned(p)[r].source = job[r].source
<1> SUFFICES ASSUME NEW r \in Requests
             PROVE  /\ Abandoned(p)[r] \in Jobs \cup {Null}
                    /\ Abandoned(p)[r] = Null <=> job[r] = Null
                    /\ job[r] # Null => Abandoned(p)[r].source = job[r].source
  BY DEF Abandoned
<1>1. job[r] \in Jobs \cup {Null} /\ Null \notin Jobs
  BY DocumentsAssumption DEF TypeOK
<1>2. CASE job[r] # Null /\ job[r].page = p
  <2>1. Abandoned(p)[r] = [job[r] EXCEPT !.page = Null]
    BY <1>2 DEF Abandoned
  <2>2. [job[r] EXCEPT !.page = Null] \in Jobs /\ [job[r] EXCEPT !.page = Null].source = job[r].source
    BY <1>1, <1>2 DEF Jobs
  <2> QED
    BY <2>1, <2>2, <1>1, <1>2
<1>3. CASE ~(job[r] # Null /\ job[r].page = p)
  BY <1>1, <1>3 DEF Abandoned
<1> QED
  BY <1>2, <1>3

\* Pages that change by one of their buttons, queries or answers.
LEMMA AnsweredType ==
  ASSUME TypeOK, NEW r \in Requests, pc[r] # "idle", NEW asked \in {"idle", "failed"},
         NEW shown \in DocumentState, Answered(r, asked, shown)
  PROVE  page' \in [Pages -> PageRecord]
<1>1. CASE Listening(r)
  <2>1. job[r].page \in Pages
    BY <1>1, JobType DEF Listening
  <2>2. [page[job[r].page] EXCEPT !.asked = asked, !.shown = shown, !.refused = FALSE] \in PageRecord
    BY <2>1 DEF TypeOK, PageRecord
  <2> QED
    BY <1>1, <2>1, <2>2 DEF Answered, TypeOK
<1>2. CASE ~Listening(r)
  BY <1>2 DEF Answered, TypeOK
<1> QED
  BY <1>1, <1>2

\* A counted fault stays within its bound.
LEMMA FaultType ==
  ASSUME TypeOK, Fault
  PROVE  faults' \in 0..MaxFaults
  BY DocumentsAssumption DEF TypeOK, Fault

\* Every step keeps the types.
LEMMA TypeStep ==
  ASSUME TypeOK, WorkHolds, [Next]_vars
  PROVE  TypeOK'
<1> USE DocumentsAssumption
<1>1. ASSUME NEW p \in Pages, Ask(p) PROVE TypeOK'
  <2>1. PICK r \in Requests :
          /\ pc[r] = "idle"
          /\ pc' = [pc EXCEPT ![r] = "received"]
          /\ job' = [job EXCEPT ![r] = [source |-> SourceOf[p], page |-> p]]
    BY <1>1 DEF Ask
  <2>2. [source |-> SourceOf[p], page |-> p] \in Jobs
    BY DEF Jobs
  <2>3. /\ pc' \in [Requests -> Steps] /\ job' \in [Requests -> Jobs \cup {Null}]
        /\ \A q \in Requests : (job'[q] = Null) <=> (pc'[q] = "idle")
    BY <2>1, <2>2 DEF TypeOK, Steps
  <2>4. page' \in [Pages -> PageRecord]
    BY <1>1 DEF Ask, TypeOK, PageRecord
  <2> QED
    BY <1>1, <2>3, <2>4 DEF Ask, TypeOK
<1>2. ASSUME NEW p \in Pages, GiveUp(p) PROVE TypeOK'
  <2>1. page' \in [Pages -> PageRecord]
    BY <1>2 DEF GiveUp, TypeOK, PageRecord
  <2> QED
    BY <1>2, <2>1, AbandonedJobs, FaultType DEF GiveUp, TypeOK
<1>3. ASSUME NEW p \in Pages, Poll(p) \/ Refresh(p) PROVE TypeOK'
  <2>1. document[SourceOf[p]].state \in DocumentState
    BY <1>3 DEF Poll, Refresh, TypeOK, DocumentRow
  <2>2. page[p] \in PageRecord
    BY DEF TypeOK
  <2>3. /\ [page[p] EXCEPT !.shown = document[SourceOf[p]].state] \in PageRecord
        /\ [page[p] EXCEPT !.shown = document[SourceOf[p]].state, !.asked = "idle"] \in PageRecord
    BY <2>1, <2>2 DEF PageRecord
  <2>4. page' \in [Pages -> PageRecord]
    BY <1>3, <2>3 DEF Poll, Refresh, TypeOK
  <2> QED
    BY <1>3, <2>4 DEF Poll, Refresh, TypeOK, server
<1>4. ASSUME NEW p \in Pages, Download(p) PROVE TypeOK'
  <2>1. Available(SourceOf[p]) \in BOOLEAN
    BY DEF Available, Readable
  <2>2. page[p] \in PageRecord
    BY DEF TypeOK
  <2>3. [page[p] EXCEPT !.refused = ~Available(SourceOf[p]), !.got = @ \/ Available(SourceOf[p])]
          \in PageRecord
    BY <2>1, <2>2 DEF PageRecord
  <2>4. page' \in [Pages -> PageRecord]
    BY <1>4, <2>3 DEF Download, TypeOK
  <2> QED
    BY <1>4, <2>4 DEF Download, TypeOK, server
<1>5. ASSUME NEW p \in Pages, OpenAgain(p) \/ Leave(p) PROVE TypeOK'
  <2>1. Reopened(p) /\ faults' \in 0..MaxFaults
    BY <1>5, FaultType DEF OpenAgain, Leave, TypeOK
  <2>2. [NewPage EXCEPT !.got = page[p].got] \in PageRecord
    BY DEF NewPage, TypeOK, PageRecord
  <2>3. page' \in [Pages -> PageRecord]
    BY <2>1, <2>2 DEF Reopened, TypeOK
  <2> QED
    BY <2>1, <2>3, AbandonedJobs DEF Reopened, TypeOK
<1>6. ASSUME NEW r \in Requests, Admit(r) \/ Lock(r) PROVE TypeOK'
  BY <1>6 DEF Admit, Lock, Goto, TypeOK, Steps
<1>7. ASSUME NEW r \in Requests, CreateOrReuse(r) PROVE TypeOK'
  <2>1. job[r].source \in Sources
    BY <1>7, JobType DEF CreateOrReuse
  <2>2. [state |-> "PENDING", hashed |-> FALSE, stored |-> FALSE] \in DocumentRow
    BY DEF DocumentRow, DocumentState
  <2>3. document' \in [Sources -> DocumentRow \cup {Null}]
    BY <1>7, <2>1, <2>2 DEF CreateOrReuse, TypeOK
  <2> QED
    BY <1>7, <2>3 DEF CreateOrReuse, Goto, TypeOK, Steps
<1>8. ASSUME NEW r \in Requests, Reuse(r) PROVE TypeOK'
  <2>1. page' \in [Pages -> PageRecord]
    BY <1>8, AnsweredType DEF Reuse, DocumentState
  <2> QED
    BY <1>8, <2>1 DEF Reuse, End, TypeOK, Steps
<1>9. ASSUME NEW r \in Requests, Render(r) PROVE TypeOK'
  BY <1>9, FaultType DEF Render, Goto, TypeOK, Steps
<1>10. ASSUME NEW r \in Requests, Store(r) PROVE TypeOK'
  <2>1. job[r].source \in Sources
    BY <1>10, JobType DEF Store
  <2> QED
    BY <1>10, <2>1, FaultType DEF Store, Goto, TypeOK, Steps, FileState
<1>11. ASSUME NEW r \in Requests, Commit(r) PROVE TypeOK'
  <2> DEFINE s == job[r].source
             ok == pc[r] = "stored"
             row == [ state |-> IF ok THEN "READY" ELSE "FAILED",
                      hashed |-> document[s].hashed \/ pc[r] # "generation failed",
                      stored |-> ok ]
  <2>1. s \in Sources /\ document[s] \in DocumentRow
    BY <1>11, JobType DEF Commit, TypeOK, WorkHolds, Work, InGeneration
  <2>2. row \in DocumentRow
    BY <2>1 DEF DocumentRow, DocumentState
  <2>3. document' = [document EXCEPT ![s] = row]
    BY <1>11 DEF Commit
  <2>4. document' \in [Sources -> DocumentRow \cup {Null}] /\ document'[s].state \in DocumentState
    BY <2>1, <2>2, <2>3 DEF TypeOK, DocumentRow
  <2>5. attempts' \in [Sources -> Seq(Result)]
    <3>1. attempts[s] \in Seq(Result)
      BY <2>1 DEF TypeOK
    <3>2. Append(attempts[s], IF ok THEN "SUCCEEDED" ELSE "FAILED") \in Seq(Result)
      BY <3>1 DEF Result
    <3> QED
      BY <1>11, <3>2 DEF Commit, TypeOK
  <2>6. page' \in [Pages -> PageRecord]
    BY <1>11, <2>4, AnsweredType DEF Commit
  <2> QED
    BY <1>11, <2>4, <2>5, <2>6 DEF Commit, End, TypeOK, Steps
<1>12. ASSUME NEW r \in Requests, Crash(r) PROVE TypeOK'
  <2>1. Listening(r) => job[r].page \in Pages
    BY <1>12, JobType DEF Crash, Listening
  <2>2. page' \in [Pages -> PageRecord]
    BY <1>12, <2>1 DEF Crash, TypeOK, PageRecord
  <2> QED
    BY <1>12, <2>2, FaultType DEF Crash, End, TypeOK, Steps
<1>13. ASSUME NEW s \in Sources, Lose(s) PROVE TypeOK'
  BY <1>13, FaultType DEF Lose, TypeOK, FileState
<1>14. CASE UNCHANGED vars
  BY <1>14 DEF vars, TypeOK
<1> QED
  BY <1>1, <1>2, <1>3, <1>4, <1>5, <1>6, <1>7, <1>8, <1>9, <1>10, <1>11, <1>12, <1>13, <1>14
  DEF Next, Serve

-----------------------------------------------------------------------------
(* What the requests know *)

\* The others go on with what they had.
OthersStay(r) ==
  \A q \in Requests \ {r} :
    pc'[q] = pc[q] /\ (pc[q] # "idle" => job'[q].source = job[q].source)

\* Requests keep their sources when pages come and go.
LEMMA QuietWork ==
  ASSUME TypeOK, WorkHolds, UNCHANGED <<document, file, pc>>,
         \A r \in Requests : job[r] # Null => job'[r].source = job[r].source
  PROVE  WorkHolds'
<1>1. \A r \in Requests : pc[r] # "idle" => job'[r].source = job[r].source
  BY DEF TypeOK
<1>2. \A s \in Sources : Available(s)' = Available(s)
  BY DEF Available, Readable
<1>3. \A r \in Requests : pc[r] # "idle" => job[r].source \in Sources
  BY JobType
<1> QED
  BY <1>1, <1>2, <1>3 DEF WorkHolds, Work, InGeneration

\* A request outside of generation takes a step that changes no document.
LEMMA OutsideWork ==
  ASSUME TypeOK, WorkHolds, UNCHANGED <<document, file>>, NEW r \in Requests, OthersStay(r),
         pc'[r] \in {"idle", "received", "requested"}
  PROVE  WorkHolds'
<1>1. \A s \in Sources : Available(s)' = Available(s)
  BY DEF Available, Readable
<1>2. \A q \in Requests : pc[q] # "idle" => job[q].source \in Sources
  BY JobType
<1>3. Work(r)'
  BY DEF Work, InGeneration
<1>4. ASSUME NEW q \in Requests \ {r}
      PROVE  Work(q)'
  BY <1>1, <1>2 DEF WorkHolds, Work, InGeneration, OthersStay
<1> QED
  BY <1>3, <1>4 DEF WorkHolds

\* What the end of a generation writes: READY with its file, or FAILED.
LEMMA CommittedRow ==
  ASSUME TypeOK, WorkHolds, NEW r \in Requests, Commit(r)
  PROVE  /\ job[r].source \in Sources
         /\ \E row \in DocumentRow :
              /\ document' = [document EXCEPT ![job[r].source] = row]
              /\ IF pc[r] = "stored" THEN row.state = "READY" /\ row.stored /\ row.hashed
                                     ELSE row.state = "FAILED"
<1> DEFINE s == job[r].source
           ok == pc[r] = "stored"
           row == [ state |-> IF ok THEN "READY" ELSE "FAILED",
                    hashed |-> document[s].hashed \/ pc[r] # "generation failed",
                    stored |-> ok ]
<1>1. s \in Sources /\ document[s] \in DocumentRow
  BY JobType DEF Commit, TypeOK, WorkHolds, Work, InGeneration
<1>2. row \in DocumentRow
  BY <1>1 DEF DocumentRow, DocumentState
<1>3. document' = [document EXCEPT ![s] = row]
  BY DEF Commit
<1>4. IF pc[r] = "stored" THEN row.state = "READY" /\ row.stored /\ row.hashed
                          ELSE row.state = "FAILED"
  OBVIOUS
<1> QED
  BY <1>1, <1>2, <1>3, <1>4

\* A request that serves its document touches no other one, and a row stays in the table.
LEMMA OnlyItsSource ==
  ASSUME TypeOK, WorkHolds, NEW r \in Requests,
         CreateOrReuse(r) \/ Lock(r) \/ Render(r) \/ Store(r) \/ Commit(r)
  PROVE  /\ \A x \in Sources \ {job[r].source} :
              document'[x] = document[x] /\ file'[x] = file[x] /\ Available(x)' = Available(x)
         /\ document[job[r].source] # Null => document'[job[r].source] # Null
         /\ pc'[r] # "idle" => job'[r] = job[r]
<1> USE DocumentsAssumption
<1> DEFINE s == job[r].source
<1>0. s \in Sources
  BY JobType DEF CreateOrReuse, Lock, Render, Store, Commit
<1>1. CASE CreateOrReuse(r)
  <2>1. PICK row \in DocumentRow : document' = [document EXCEPT ![s] = IF @ = Null THEN row ELSE @]
    BY <1>1 DEF CreateOrReuse, DocumentRow, DocumentState
  <2>2. document'[s] # Null
    BY <1>0, <2>1 DEF TypeOK
  <2>3. file' = file /\ job' = job
    BY <1>1 DEF CreateOrReuse
  <2> HIDE DEF s
  <2>4. \A x \in Sources \ {s} : document'[x] = document[x] /\ file'[x] = file[x]
    BY <2>1, <2>3 DEF TypeOK
  <2>5. \A x \in Sources \ {s} : Available(x)' = Available(x)
    BY <2>4 DEF Available, Readable
  <2> QED
    BY <2>2, <2>3, <2>4, <2>5 DEF s
<1>2. CASE Lock(r) \/ Render(r)
  <2>1. document' = document /\ file' = file /\ job' = job
    BY <1>2 DEF Lock, Render
  <2> QED
    BY <2>1 DEF Available, Readable
<1>3. CASE Store(r)
  <2>1. document' = document /\ job' = job
    BY <1>3 DEF Store
  <2>2. \A x \in Sources \ {s} : file'[x] = file[x]
    BY <1>3 DEF Store, TypeOK
  <2> QED
    BY <2>1, <2>2 DEF Available, Readable
<1>4. CASE Commit(r)
  <2>1. PICK row \in DocumentRow : document' = [document EXCEPT ![s] = row]
    BY <1>4, <1>0, CommittedRow
  <2>2. file' = file /\ pc'[r] = "idle"
    BY <1>4 DEF Commit, End, TypeOK
  <2>3. document'[s] # Null
    BY <1>0, <2>1 DEF TypeOK
  <2> HIDE DEF s
  <2>4. \A x \in Sources \ {s} : document'[x] = document[x] /\ file'[x] = file[x]
    BY <2>1, <2>2 DEF TypeOK
  <2>5. \A x \in Sources \ {s} : Available(x)' = Available(x)
    BY <2>4 DEF Available, Readable
  <2> QED
    BY <2>2, <2>3, <2>4, <2>5 DEF s
<1> QED
  BY <1>1, <1>2, <1>3, <1>4

\* Every step keeps what the requests know while they run.
LEMMA WorkStep ==
  ASSUME TypeOK, WorkHolds, [Next]_vars
  PROVE  WorkHolds'
<1> USE DocumentsAssumption
<1>1. ASSUME NEW p \in Pages, Ask(p) PROVE WorkHolds'
  <2>1. PICK r \in Requests :
          /\ pc[r] = "idle"
          /\ pc' = [pc EXCEPT ![r] = "received"]
          /\ job' = [job EXCEPT ![r] = [source |-> SourceOf[p], page |-> p]]
    BY <1>1 DEF Ask
  <2>2. OthersStay(r) /\ pc'[r] = "received"
    BY <2>1 DEF OthersStay, TypeOK
  <2> QED
    BY <1>1, <2>2, OutsideWork DEF Ask
<1>2. ASSUME NEW p \in Pages, GiveUp(p) \/ OpenAgain(p) \/ Leave(p) PROVE WorkHolds'
  BY <1>2, AbandonedJobs, QuietWork DEF GiveUp, OpenAgain, Leave, Reopened
<1>3. ASSUME NEW p \in Pages, Poll(p) \/ Refresh(p) \/ Download(p) PROVE WorkHolds'
  BY <1>3, QuietWork DEF Poll, Refresh, Download, server
<1>4. ASSUME NEW r \in Requests, Admit(r) \/ Reuse(r) \/ Crash(r) PROVE WorkHolds'
  <2>1. OthersStay(r) /\ pc'[r] \in {"idle", "requested"} /\ UNCHANGED <<document, file>>
    BY <1>4 DEF Admit, Reuse, Crash, Goto, End, OthersStay, TypeOK
  <2> QED
    BY <2>1, OutsideWork
<1>5. ASSUME NEW r \in Requests,
             CreateOrReuse(r) \/ Lock(r) \/ Render(r) \/ Store(r) \/ Commit(r)
      PROVE  WorkHolds'
  <2> DEFINE s == job[r].source
  <2>1. s \in Sources /\ pc[r] # "idle"
    BY <1>5, JobType DEF CreateOrReuse, Lock, Render, Store, Commit
  <2>2. \A q \in Requests : pc[q] # "idle" => job[q].source \in Sources
    BY JobType
  <2>3. OthersStay(r)
    BY <1>5 DEF CreateOrReuse, Lock, Render, Store, Commit, Goto, End, OthersStay, TypeOK
  <2>4. /\ \A x \in Sources \ {s} :
              document'[x] = document[x] /\ file'[x] = file[x] /\ Available(x)' = Available(x)
        /\ document[s] # Null => document'[s] # Null
        /\ pc'[r] # "idle" => job'[r].source = s
    BY <1>5, OnlyItsSource
  <2>5. ASSUME NEW q \in Requests \ {r}, pc[q] # "idle", job[q].source # s
        PROVE  Work(q)'
    <3>1. pc'[q] = pc[q] /\ job'[q].source = job[q].source
      BY <2>3, <2>5 DEF OthersStay
    <3>2. pc'[r] \in InGeneration => job'[r].source # job[q].source
      BY <2>4, <2>5 DEF InGeneration
    <3>3. job[q].source \in Sources \ {s} /\ Work(q)
      BY <2>2, <2>5 DEF WorkHolds
    <3>4. \A p \in Requests :
            pc'[q] \in InGeneration /\ pc'[p] \in InGeneration
              /\ job'[p].source = job'[q].source => p = q
      <4> SUFFICES ASSUME NEW p \in Requests, pc'[q] \in InGeneration, pc'[p] \in InGeneration,
                          job'[p].source = job'[q].source
                   PROVE  p = q
        OBVIOUS
      <4>1. p # r
        BY <3>1, <3>2
      <4>2. pc[p] \in InGeneration /\ job[p].source = job[q].source /\ pc[q] \in InGeneration
        BY <4>1, <3>1, <2>3 DEF OthersStay, InGeneration
      <4> QED
        BY <4>2, <3>3 DEF Work
    <3> QED
      BY <2>4, <2>5, <3>1, <3>3, <3>4 DEF Work, InGeneration
  <2>6. ASSUME NEW q \in Requests \ {r}, pc[q] # "idle", job[q].source = s
        PROVE  Work(q)'
    <3>1. pc'[q] = pc[q] /\ job'[q].source = s
      BY <2>3, <2>6 DEF OthersStay
    <3>2. document[s] # Null => document'[s] # Null
      BY <2>4
    <3>3. CASE CreateOrReuse(r)
      <4>1. document[s] # Null => document'[s] = document[s] /\ Available(s)' = Available(s)
        BY <3>3, <2>1 DEF CreateOrReuse, TypeOK, Available, Readable
      <4> QED
        BY <2>3, <2>6, <3>1, <3>2, <3>3, <4>1
        DEF CreateOrReuse, Goto, WorkHolds, Work, OthersStay, InGeneration, TypeOK
    <3>4. CASE ~CreateOrReuse(r)
      <4>1. pc[q] \notin InGeneration
        BY <1>5, <3>4, <2>6, <2>1
        DEF Lock, Render, Store, Commit, Holds, InGeneration, WorkHolds, Work
      <4> QED
        BY <2>6, <3>1, <3>2, <4>1 DEF WorkHolds, Work, InGeneration
    <3> QED
      BY <3>3, <3>4
  <2>7. \A q \in Requests \ {r} : pc[q] = "idle" => Work(q)'
    BY <2>3 DEF OthersStay, Work, InGeneration
  <2>8. Work(r)'
    <3>1. CASE CreateOrReuse(r)
      <4>1. PICK row \in DocumentRow :
              document' = [document EXCEPT ![s] = IF @ = Null THEN row ELSE @]
        BY <3>1 DEF CreateOrReuse, DocumentRow, DocumentState
      <4>2. document'[s] # Null
        BY <4>1, <2>1 DEF TypeOK
      <4>3. pc'[r] = "created" /\ job' = job
        BY <3>1 DEF CreateOrReuse, Goto, TypeOK
      <4> QED
        BY <4>2, <4>3 DEF Work, InGeneration
    <3>2. CASE Lock(r)
      <4>1. \A q \in Requests : q # r => ~(pc[q] \in InGeneration /\ job[q].source = s)
        BY <3>2 DEF Lock, Holds
      <4>2. pc'[r] = "locked" /\ UNCHANGED <<document, file, job>>
        BY <3>2 DEF Lock, Goto, TypeOK
      <4>3. document[s] # Null /\ ~Available(s)
        BY <3>2 DEF Lock, NeedsWork, WorkHolds, Work
      <4> QED
        BY <4>1, <4>2, <4>3, <2>3, <2>1
        DEF Work, OthersStay, Available, Readable, InGeneration
    <3>3. CASE Render(r) \/ Store(r)
      <4>1. pc'[r] \in InGeneration /\ pc[r] \in {"locked", "rendered"} /\ UNCHANGED <<document, job>>
        BY <3>3 DEF Render, Store, Goto, TypeOK, InGeneration
      <4>2. pc'[r] = "stored" => file'[s] = "whole"
        BY <3>3, <2>1 DEF Render, Store, Goto, TypeOK
      <4>3. pc'[r] # "stored" => file' = file
        BY <3>3 DEF Render, Store, Goto, TypeOK
      <4>4. /\ document[s] # Null /\ ~Available(s)
            /\ \A q \in Requests : pc[q] \in InGeneration /\ job[q].source = s => q = r
        BY <4>1 DEF WorkHolds, Work, InGeneration
      <4>5. \A q \in Requests : pc'[q] \in InGeneration /\ job'[q].source = s => q = r
        BY <4>4, <4>1, <2>3 DEF OthersStay
      <4>6. pc'[r] # "stored" => ~Available(s)'
        BY <4>1, <4>3, <4>4 DEF Available, Readable
      <4> QED
        BY <4>1, <4>2, <4>4, <4>5, <4>6 DEF Work
    <3>4. CASE Commit(r)
      BY <3>4 DEF Commit, End, TypeOK, Work, InGeneration
    <3> QED
      BY <1>5, <3>1, <3>2, <3>3, <3>4
  <2> QED
    BY <2>5, <2>6, <2>7, <2>8 DEF WorkHolds
<1>6. ASSUME NEW s \in Sources, Lose(s) PROVE WorkHolds'
  <2>1. \A q \in Requests : pc[q] # "idle" => job[q].source \in Sources
    BY JobType
  <2>2. document' = document /\ pc' = pc /\ job' = job
    BY <1>6 DEF Lose
  <2>3. ASSUME NEW q \in Requests PROVE Work(q)'
    <3>1. Work(q) /\ (pc[q] # "idle" => job[q].source \in Sources)
      BY <2>1 DEF WorkHolds
    <3>2. pc[q] # "idle" => /\ file[job[q].source] # "absent" => file'[job[q].source] # "absent"
                            /\ Available(job[q].source)' => Available(job[q].source)
      BY <1>6, <2>2, <3>1 DEF Lose, TypeOK, Available, Readable
    <3> QED
      BY <2>2, <3>1, <3>2 DEF Work, InGeneration
  <2> QED
    BY <2>3 DEF WorkHolds
<1>7. CASE UNCHANGED vars
  BY <1>7, QuietWork DEF vars
<1> QED
  BY <1>1, <1>2, <1>3, <1>4, <1>5, <1>6, <1>7 DEF Next, Serve

-----------------------------------------------------------------------------
(* What the tables say *)

\* Only the creation of a row and the end of a generation write the tables, and no step
\* takes a file back to where it was never written.
LEMMA TableWriters ==
  ASSUME TypeOK, [Next]_vars
  PROVE  /\ \A s \in Sources : file[s] # "absent" => file'[s] # "absent"
         /\ \/ UNCHANGED <<document, attempts>>
            \/ \E r \in Requests : CreateOrReuse(r) \/ Commit(r)
<1>1. CASE \E p \in Pages : Ask(p) \/ GiveUp(p) \/ Poll(p) \/ Refresh(p) \/ Download(p)
                              \/ OpenAgain(p) \/ Leave(p)
  BY <1>1 DEF Ask, GiveUp, Poll, Refresh, Download, OpenAgain, Leave, Reopened, server
<1>2. ASSUME NEW r \in Requests, Serve(r) \/ Crash(r)
      PROVE  /\ \A s \in Sources : file[s] # "absent" => file'[s] # "absent"
             /\ \/ UNCHANGED <<document, attempts>>
                \/ CreateOrReuse(r) \/ Commit(r)
  <2>1. CASE Store(r)
    BY <2>1 DEF Store, TypeOK
  <2>2. CASE CreateOrReuse(r) \/ Commit(r)
    BY <2>2 DEF CreateOrReuse, Commit
  <2>3. CASE Admit(r) \/ Reuse(r) \/ Lock(r) \/ Render(r) \/ Crash(r)
    BY <2>3 DEF Admit, Reuse, Lock, Render, Crash
  <2> QED
    BY <1>2, <2>1, <2>2, <2>3 DEF Serve
<1>3. ASSUME NEW x \in Sources, Lose(x)
      PROVE  /\ \A s \in Sources : file[s] # "absent" => file'[s] # "absent"
             /\ UNCHANGED <<document, attempts>>
  BY <1>3 DEF Lose, TypeOK
<1>4. CASE UNCHANGED vars
  BY <1>4 DEF vars
<1> QED
  BY <1>1, <1>2, <1>3, <1>4 DEF Next

\* The creation of a row: the others stay, a new one is PENDING.
LEMMA CreatedRow ==
  ASSUME TypeOK, NEW r \in Requests, CreateOrReuse(r)
  PROVE  /\ attempts' = attempts
         /\ \A x \in Sources :
              \/ document'[x] = document[x]
              \/ document[x] = Null /\ document'[x] # Null /\ document'[x].state = "PENDING"
<1> DEFINE row == [state |-> "PENDING", hashed |-> FALSE, stored |-> FALSE]
<1>1. row # Null /\ row.state = "PENDING"
  <2>1. row \in DocumentRow
    BY DEF DocumentRow, DocumentState
  <2> QED
    BY <2>1, DocumentsAssumption
<1>2. document' = [document EXCEPT ![job[r].source] = IF @ = Null THEN row ELSE @]
  BY DEF CreateOrReuse
<1>3. attempts' = attempts
  BY DEF CreateOrReuse
<1> HIDE DEF row
<1> QED
  BY <1>1, <1>2, <1>3 DEF TypeOK

\* The last of the attempts is the one appended last.
LEMMA LastOfAppend ==
  ASSUME NEW results \in Seq(Result), NEW result \in Result
  PROVE  Append(results, result) # <<>> /\ Last(Append(results, result)) = result
  BY DEF Last

\* Every step keeps rows, files and attempts in agreement.
LEMMA TablesStep ==
  ASSUME IInv, [Next]_vars
  PROVE  (ReadyWasStored /\ Unborn /\ AttemptsTellState)'
<1>1. TypeOK /\ WorkHolds /\ ReadyWasStored /\ Unborn /\ AttemptsTellState
  BY DEF IInv
<1>2. \A s \in Sources : file[s] # "absent" => file'[s] # "absent"
  BY <1>1, TableWriters
<1>3. CASE UNCHANGED <<document, attempts>>
  BY <1>1, <1>2, <1>3 DEF ReadyWasStored, Unborn, AttemptsTellState
<1>4. ASSUME NEW r \in Requests, CreateOrReuse(r)
      PROVE  (ReadyWasStored /\ Unborn /\ AttemptsTellState)'
  <2>1. /\ attempts' = attempts
        /\ \A x \in Sources :
             \/ document'[x] = document[x]
             \/ document[x] = Null /\ document'[x] # Null /\ document'[x].state = "PENDING"
    BY <1>1, <1>4, CreatedRow
  <2>2. ReadyWasStored'
    BY <1>1, <1>2, <2>1 DEF ReadyWasStored
  <2>3. Unborn' /\ AttemptsTellState'
    BY <1>1, <2>1 DEF Unborn, AttemptsTellState
  <2> QED
    BY <2>2, <2>3
<1>5. ASSUME NEW r \in Requests, Commit(r)
      PROVE  (ReadyWasStored /\ Unborn /\ AttemptsTellState)'
  <2> DEFINE s == job[r].source
             result == IF pc[r] = "stored" THEN "SUCCEEDED" ELSE "FAILED"
  <2>1. s \in Sources
    BY <1>1, <1>5, CommittedRow
  <2>2. PICK row \in DocumentRow :
          /\ document' = [document EXCEPT ![s] = row]
          /\ IF pc[r] = "stored" THEN row.state = "READY" /\ row.stored /\ row.hashed
                                 ELSE row.state = "FAILED"
    BY <1>1, <1>5, CommittedRow
  <2>3. attempts' = [attempts EXCEPT ![s] = Append(@, result)] /\ file' = file
    BY <1>5 DEF Commit
  <2>4. attempts[s] \in Seq(Result) /\ result \in Result
    BY <1>1, <2>1 DEF TypeOK, Result
  <2>5. Append(attempts[s], result) # <<>> /\ Last(Append(attempts[s], result)) = result
    BY <2>4, LastOfAppend
  <2>6. pc[r] = "stored" => file[s] # "absent"
    BY <1>1 DEF WorkHolds, Work
  <2>7. /\ document'[s] = row /\ row # Null
        /\ attempts'[s] = Append(attempts[s], result)
    BY <1>1, <2>1, <2>2, <2>3, DocumentsAssumption DEF TypeOK
  <2>8. \A x \in Sources \ {s} : document'[x] = document[x] /\ attempts'[x] = attempts[x]
    BY <1>1, <2>2, <2>3 DEF TypeOK
  <2>9. result = "SUCCEEDED" <=> pc[r] = "stored"
    OBVIOUS
  <2> HIDE DEF s, result
  <2>10. ReadyWasStored'
    BY <1>1, <2>2, <2>3, <2>6, <2>7, <2>8 DEF ReadyWasStored
  <2>11. Unborn'
    BY <1>1, <2>7, <2>8 DEF Unborn
  <2>12. AttemptsTellState'
    <3> SUFFICES ASSUME NEW x \in Sources, document'[x] # Null
                 PROVE  document'[x].state =
                          IF attempts'[x] = <<>> THEN "PENDING"
                          ELSE IF Last(attempts'[x]) = "SUCCEEDED" THEN "READY" ELSE "FAILED"
      BY DEF AttemptsTellState
    <3>1. CASE x = s
      BY <3>1, <2>2, <2>5, <2>7, <2>9
    <3>2. CASE x # s
      BY <3>2, <1>1, <2>8 DEF AttemptsTellState
    <3> QED
      BY <3>1, <3>2
  <2> QED
    BY <2>10, <2>11, <2>12
<1> QED
  BY <1>1, <1>3, <1>4, <1>5, TableWriters

\* The row of a document that can be read is written by no step, but with what it says.
LEMMA AvailableStep ==
  ASSUME TypeOK, WorkHolds, [Next]_vars, NEW x \in Sources, Available(x)
  PROVE  document'[x] = document[x]
<1>1. document[x] \in DocumentRow /\ document[x] # Null
  BY DEF TypeOK, Available
<1>2. ASSUME NEW r \in Requests, Commit(r)
      PROVE  document'[x] = document[x]
  <2>1. PICK row \in DocumentRow :
          /\ document' = [document EXCEPT ![job[r].source] = row]
          /\ IF pc[r] = "stored" THEN row.state = "READY" /\ row.stored /\ row.hashed
                                 ELSE row.state = "FAILED"
    BY <1>2, CommittedRow
  <2>2. CASE job[r].source = x
    <3>1. pc[r] = "stored"
      BY <1>2, <2>2 DEF Commit, WorkHolds, Work, InGeneration
    <3>2. document[x].state = "READY" /\ document[x].stored /\ document[x].hashed
      BY DEF Available, Readable
    <3>3. row = document[x]
      BY <1>1, <2>1, <3>1, <3>2 DEF DocumentRow
    <3> QED
      BY <2>1, <2>2, <3>3 DEF TypeOK
  <2>3. CASE job[r].source # x
    BY <2>1, <2>3 DEF TypeOK
  <2> QED
    BY <2>2, <2>3
<1>3. ASSUME NEW r \in Requests, CreateOrReuse(r)
      PROVE  document'[x] = document[x]
  BY <1>1, <1>3, CreatedRow
<1> QED
  BY <1>2, <1>3, TableWriters

-----------------------------------------------------------------------------
(* Theorems *)

\* The inductive invariant holds at the start.
LEMMA InitHolds ==
  ASSUME Init
  PROVE  IInv
<1>1. TypeOK
  BY NewPageType, DocumentsAssumption DEF Init, TypeOK, FileState, Steps
<1>2. WorkHolds
  BY DEF Init, WorkHolds, Work, InGeneration
<1>3. ReadyWasStored /\ Unborn /\ AttemptsTellState
  BY DEF Init, ReadyWasStored, Unborn, AttemptsTellState
<1> QED
  BY <1>1, <1>2, <1>3 DEF IInv

\* Every step keeps the inductive invariant.
LEMMA InductiveStep ==
  ASSUME IInv, [Next]_vars
  PROVE  IInv'
  BY TypeStep, WorkStep, TablesStep DEF IInv

\* The inductive invariant always holds.
LEMMA Inductive == Spec => []IInv
  BY InitHolds, InductiveStep, PTL DEF Spec

\* The tables, requests and pages keep their types for any number of them.
THEOREM TypeCorrect == Spec => []TypeOK
<1>1. IInv => TypeOK
  BY DEF IInv
<1> QED
  BY <1>1, Inductive, PTL

\* A READY row names a file that was written whole before it, however many requests
\* overlap in createOrReuse and generate and whenever their processes stop.
THEOREM ReadyWasStoredTheorem == Spec => []ReadyWasStored
<1>1. IInv => ReadyWasStored
  BY DEF IInv
<1> QED
  BY <1>1, Inductive, PTL

\* The state of a row is the one its last generation attempt tells: a generation that was
\* undone with its transaction left neither.
THEOREM AttemptsTellStateTheorem == Spec => []AttemptsTellState
<1>1. IInv => AttemptsTellState
  BY DEF IInv
<1> QED
  BY <1>1, Inductive, PTL

\* No request changes the row of a document that can be read, for each decides under the
\* row lock whether there is something to generate.
THEOREM AvailableStaysTheorem == Spec => AvailableStays
<1>1. ASSUME IInv, [Next]_vars
      PROVE  [\A s \in Sources : Available(s) => document'[s] = document[s]]_vars
  BY <1>1, AvailableStep DEF IInv
<1> QED
  BY <1>1, Inductive, PTL DEF Spec, AvailableStays

-----------------------------------------------------------------------------
(* Printing: the inductive invariant *)

\* The values a dialog can have, with what it knows of its last job.
DialogRecord ==
  [ step: DialogSteps, printer: Printers \cup {None}, reprint: BOOLEAN, first: BOOLEAN,
    confirm: BOOLEAN, error: BOOLEAN, recorded: BOOLEAN, job: PrintJobs \cup {None},
    outcome: Outcomes \cup {None} ]

\* The parts of a dialog and of its connection, with its adapter a, agree.
DialogFits(r, a) ==
  /\ r.job # None <=> r.step \in {"starting", "writing", "printing", "saving"}
                        \/ r.outcome # None
  /\ r.step # "closed" => r.printer \in Printers
  /\ r.outcome # None => r.step \in {"open", "saving"}
  /\ r.step = "saving" => r.outcome # None
  /\ r.recorded => r.outcome # None
  /\ a # None => r.step # "closed" /\ a.device = r.printer
  /\ a # None /\ r.step \in {"starting", "writing", "printing"} => a.device = r.job.printer
  /\ r.step # "closed" /\ ~r.reprint => r.first
  /\ r.step \in {"starting", "writing", "printing"} => r.first \/ r.job.mode = "REPRINT"

\* A bag of finitely many different elements, whose copies can be counted.
FiniteBag(b) == IsABag(b) /\ IsFiniteSet(DOMAIN b)

\* Every table holds values of its kind, and every dialog fits its connection.
TablesFit ==
  /\ dialog \in [Dialogs -> DialogRecord]
  /\ link \in [Dialogs -> {None} \cup [device: Printers, up: BOOLEAN]]
  /\ FiniteBag(late) /\ DOMAIN late \subseteq PrintJobs
  /\ FiniteBag(ledger) /\ DOMAIN ledger \subseteq Rows
  /\ FiniteBag(paper) /\ DOMAIN paper \subseteq Sheets
  /\ active \subseteq Printers /\ sent \in 0..MaxPrints
  /\ \A d \in Dialogs : DialogFits(dialog[d], link[d])

\* The attempts of job j in a ledger, and its sheets among some paper.
RowsIn(rows, j, states) == Count(rows, [mode: {j.mode}, printer: {j.printer}, state: states])
SheetsIn(sheets, j, whole) ==
  Count(sheets, [mode: {j.mode}, device: {j.printer}, first: BOOLEAN, whole: whole])
SheetFor(j, first, whole) ==
  [mode |-> j.mode, device |-> j.printer, first |-> first, whole |-> whole]
HalfSheets(sheets, j, first) == Count(sheets, {SheetFor(j, first, FALSE)})

\* A dialog r has announced j and printed nothing: yet, or never.
Unprinted(r, j) == r.job = j /\ (r.step = "writing" \/ (r.outcome = "FAILED" /\ ~r.recorded))
\* It has begun a sheet of j.
Begun(r, j, first) == r.job = j /\ r.step = "printing" /\ r.first = first
\* It has printed j, and the server does not know.
Untold(r, j) == r.job = j /\ r.outcome = "SUCCEEDED" /\ ~r.recorded
\* It has announced j, and recorded no result.
Owing(r, j) ==
  r.job = j /\ (r.step \in {"writing", "printing"} \/ (r.outcome # None /\ ~r.recorded))

\* How many dialogs of a table are so.
NumberUnprinted(table, j) == Cardinality({d \in Dialogs : Unprinted(table[d], j)})
NumberBegun(table, j, first) == Cardinality({d \in Dialogs : Begun(table[d], j, first)})
NumberUntold(table, j) == Cardinality({d \in Dialogs : Untold(table[d], j)})
NumberOwing(table, j) == Cardinality({d \in Dialogs : Owing(table[d], j)})

\* Each dialog at work accounts for a STARTED attempt of its own that has no result, and as
\* long as it has printed nothing, no sheet; one that is printing for a sheet that is not
\* whole; one that has printed for a whole sheet that is not recorded.
Balanced(rows, sheets, table, j) ==
  /\ RowsIn(rows, j, {"FAILED"}) + SheetsIn(sheets, j, BOOLEAN) + NumberUnprinted(table, j)
       <= RowsIn(rows, j, {"STARTED"})
  /\ RowsIn(rows, j, {"SUCCEEDED"}) + NumberUntold(table, j) <= SheetsIn(sheets, j, {TRUE})
  /\ RowsIn(rows, j, Outcomes) + NumberOwing(table, j) <= RowsIn(rows, j, {"STARTED"})
  /\ \A first \in BOOLEAN : NumberBegun(table, j, first) <= HalfSheets(sheets, j, first)

\* The inductive invariant: the counts balance for each job.
PrintIInv ==
  /\ TablesFit
  /\ \A j \in PrintJobs : Balanced(ledger, paper, dialog, j)
  /\ LaterSheetsAreMarked

-----------------------------------------------------------------------------
(* Printing: counting rows and sheets *)

\* A count is a natural number.
LEMMA CountsAreNatural ==
  ASSUME NEW b, FiniteBag(b), NEW S
  PROVE  Count(b, S) \in Nat
<1>1. IsFiniteSet(DOMAIN b \cap S)
  BY FS_Subset DEF FiniteBag
<1>2. \A x \in DOMAIN b \cap S : b[x] \in Nat
  BY DEF FiniteBag, IsABag
<1> QED BY <1>1, <1>2, SumNat DEF Count

\* A count is not zero exactly when an element of the set is in the bag.
LEMMA CountOfPresent ==
  ASSUME NEW b, FiniteBag(b), NEW S
  PROVE  Count(b, S) >= 1 <=> DOMAIN b \cap S # {}
<1>1. IsFiniteSet(DOMAIN b \cap S)
  BY FS_Subset DEF FiniteBag
<1>2. \A x \in DOMAIN b \cap S : b[x] \in Nat /\ b[x] >= 1
  BY DEF FiniteBag, IsABag
<1>3. CASE DOMAIN b \cap S = {}
  BY <1>3, SumEmpty DEF Count
<1>4. ASSUME NEW x \in DOMAIN b \cap S PROVE Count(b, S) >= 1
  <2> DEFINE T == DOMAIN b \cap S
  <2>1. SumFunctionOnSet(b, T) = b[x] + SumFunctionOnSet(b, T \ {x})
    BY <1>1, <1>2, SumRemove
  <2>2. IsFiniteSet(T \ {x})
    BY <1>1, FS_RemoveElement
  <2>3. SumFunctionOnSet(b, T \ {x}) \in Nat
    BY <1>2, <2>2, SumNat
  <2> QED BY <1>2, <2>1, <2>3 DEF Count
<1> QED BY <1>3, <1>4

\* One more element in a bag.
LEMMA CountAdded ==
  ASSUME NEW b, FiniteBag(b), NEW x, NEW S
  PROVE  /\ FiniteBag((b (+) One(x))) /\ DOMAIN (b (+) One(x)) = DOMAIN b \cup {x}
         /\ Count((b (+) One(x)), S) = Count(b, S) + (IF x \in S THEN 1 ELSE 0)
<1> DEFINE c == (b (+) One(x))
           T == DOMAIN b \cap S
<1>1. DOMAIN c = DOMAIN b \cup {x}
  BY DEF (+), One, SetToBag
<1>2. \A y \in DOMAIN b : b[y] \in Nat /\ b[y] > 0
  BY DEF FiniteBag, IsABag
<1>3. /\ \A y \in DOMAIN b \ {x} : c[y] = b[y]
      /\ c[x] = IF x \in DOMAIN b THEN b[x] + 1 ELSE 1
  <2> DEFINE o == One(x)
  <2>1. DOMAIN o = {x} /\ o[x] = 1
    BY DEF One, SetToBag
  <2> HIDE DEF o
  <2>2. \A y \in DOMAIN b \cup {x} :
          (b (+) o)[y] = (IF y \in DOMAIN b THEN b[y] ELSE 0) + (IF y \in DOMAIN o THEN o[y] ELSE 0)
    BY <2>1 DEF (+)
  <2> QED BY <1>2, <2>1, <2>2 DEF o
<1>4. \A y \in DOMAIN c : c[y] \in Nat /\ c[y] > 0
  BY <1>1, <1>2, <1>3
<1>5. IsABag(c)
  <2>1. c = [y \in DOMAIN c |-> c[y]]
    BY DEF (+), One, SetToBag
  <2> HIDE DEF c
  <2> QED BY <1>4, <2>1 DEF IsABag
<1>6. IsFiniteSet(DOMAIN c)
  BY <1>1, FS_AddElement DEF FiniteBag
<1>7. IsFiniteSet(T)
  BY FS_Subset DEF FiniteBag
<1> HIDE DEF c
<1>8. CASE x \notin S
  <2>1. DOMAIN c \cap S = T
    BY <1>1, <1>8
  <2>2. \A y \in T : b[y] = c[y] /\ b[y] \in Int
    BY <1>2, <1>3, <1>8
  <2>3. SumFunctionOnSet(b, T) = SumFunctionOnSet(c, T)
    BY <1>7, <2>2, SumCongruent
  <2>4. Count(c, S) = Count(b, S)
    BY <2>1, <2>3 DEF Count
  <2>5. Count(b, S) \in Nat
    BY CountsAreNatural
  <2> QED BY <1>1, <1>5, <1>6, <1>8, <2>4, <2>5 DEF c, FiniteBag
<1>9. CASE x \in S /\ x \in DOMAIN b
  <2>1. DOMAIN c \cap S = T /\ x \in T
    BY <1>1, <1>9
  <2>2. \A y \in T : b[y] \in Int /\ c[y] \in Int
    BY <1>1, <1>2, <1>4
  <2>3. \A y \in T \ {x} : b[y] = c[y]
    BY <1>3
  <2>4. SumFunctionOnSet(c, T) = SumFunctionOnSet(b, T) + (c[x] - b[x])
    BY <1>7, <2>1, <2>2, <2>3, SumChange
  <2>5. c[x] - b[x] = 1
    BY <1>2, <1>3, <1>9
  <2>6. Count(c, S) = Count(b, S) + 1
    BY <2>1, <2>4, <2>5 DEF Count
  <2> QED BY <1>1, <1>5, <1>6, <1>9, <2>6 DEF c, FiniteBag
<1>10. CASE x \in S /\ x \notin DOMAIN b
  <2>1. DOMAIN c \cap S = T \cup {x} /\ x \notin T
    BY <1>1, <1>10
  <2>2. \A y \in T \cup {x} : c[y] \in Int
    BY <1>1, <1>4
  <2>3. SumFunctionOnSet(c, T \cup {x}) = c[x] + SumFunctionOnSet(c, T)
    BY <1>7, <2>1, <2>2, SumInsert
  <2>4. \A y \in T : b[y] = c[y] /\ b[y] \in Int
    BY <1>2, <1>3, <2>1
  <2>5. SumFunctionOnSet(b, T) = SumFunctionOnSet(c, T)
    BY <1>7, <2>4, SumCongruent
  <2>6. c[x] = 1
    BY <1>3, <1>10
  <2>7. Count(c, S) = 1 + Count(b, S)
    BY <2>1, <2>3, <2>5, <2>6 DEF Count
  <2>8. Count(b, S) \in Nat
    BY CountsAreNatural
  <2> QED BY <1>1, <1>5, <1>6, <1>10, <2>7, <2>8 DEF c, FiniteBag
<1> QED BY <1>8, <1>9, <1>10

\* One element less: the bag is one to which that element was added.
LEMMA CountRemoved ==
  ASSUME NEW b, FiniteBag(b), NEW x \in DOMAIN b, NEW S
  PROVE  /\ FiniteBag((b (-) One(x))) /\ DOMAIN (b (-) One(x)) \subseteq DOMAIN b
         /\ Count((b (-) One(x)), S) = Count(b, S) - (IF x \in S THEN 1 ELSE 0)
<1> DEFINE c == (b (-) One(x))
<1>1. \A y \in DOMAIN b : b[y] \in Nat /\ b[y] > 0
  BY DEF FiniteBag, IsABag
<1> DEFINE rest == [y \in DOMAIN b |-> IF y = x THEN b[y] - 1 ELSE b[y]]
<1>2. c = [y \in {z \in DOMAIN b : rest[z] > 0} |-> rest[y]]
  <2> DEFINE o == One(x)
  <2>1. DOMAIN o = {x} /\ o[x] = 1
    BY DEF One, SetToBag
  <2> HIDE DEF o
  <2>2. [y \in DOMAIN b |-> IF y \in DOMAIN o THEN b[y] - o[y] ELSE b[y]] = rest
    BY <2>1
  <2> HIDE DEF rest
  <2>3. b (-) o = [y \in {z \in DOMAIN rest : rest[z] > 0} |-> rest[y]]
    BY <2>2 DEF (-)
  <2> QED BY <2>3 DEF o, rest
<1> HIDE DEF c
<1>3. /\ DOMAIN c \subseteq DOMAIN b /\ (x \in DOMAIN c <=> b[x] # 1)
      /\ DOMAIN c \cup {x} = DOMAIN b
  <2>1. \A z \in DOMAIN b : rest[z] > 0 <=> (z = x => b[x] # 1)
    BY <1>1
  <2>2. DOMAIN c = {z \in DOMAIN b : rest[z] > 0}
    BY <1>2
  <2> HIDE DEF rest
  <2> QED BY <2>1, <2>2
<1>4. \A y \in DOMAIN c : c[y] = IF y = x THEN b[y] - 1 ELSE b[y]
  BY <1>2
<1>5. FiniteBag(c)
  <2>1. c = [y \in DOMAIN c |-> c[y]]
    BY <1>2
  <2>2. \A y \in DOMAIN c : c[y] \in Nat /\ c[y] > 0
    BY <1>1, <1>3, <1>4
  <2>3. IsFiniteSet(DOMAIN c)
    BY <1>3, FS_Subset DEF FiniteBag
  <2> QED BY <2>1, <2>2, <2>3 DEF FiniteBag, IsABag
<1>6. c (+) One(x) = b
  <2> DEFINE o == One(x)
             a == c (+) o
  <2>1. DOMAIN o = {x} /\ o[x] = 1
    BY DEF One, SetToBag
  <2> HIDE DEF o
  <2>2. /\ a = [y \in DOMAIN a |-> a[y]] /\ DOMAIN a = DOMAIN c \cup {x}
        /\ \A y \in DOMAIN c \cup {x} :
             a[y] = (IF y \in DOMAIN c THEN c[y] ELSE 0) + (IF y \in DOMAIN o THEN o[y] ELSE 0)
    BY <2>1 DEF (+)
  <2> HIDE DEF a
  <2>3. ASSUME NEW y \in DOMAIN b PROVE a[y] = b[y]
    <3>1. CASE y = x
      BY <1>1, <1>3, <1>4, <2>1, <2>2, <3>1
    <3>2. CASE y # x
      BY <1>1, <1>3, <1>4, <2>1, <2>2, <3>2
    <3> QED BY <3>1, <3>2
  <2>4. b = [y \in DOMAIN b |-> b[y]]
    BY DEF FiniteBag, IsABag
  <2>5. a = b
    BY <1>3, <2>2, <2>3, <2>4
  <2> QED BY <2>5 DEF a, o
<1>7. Count(b, S) = Count(c, S) + (IF x \in S THEN 1 ELSE 0)
  BY <1>5, <1>6, CountAdded
<1>8. Count(c, S) \in Nat
  BY <1>5, CountsAreNatural
<1> QED BY <1>3, <1>5, <1>7, <1>8 DEF c

-----------------------------------------------------------------------------
(* Printing: the numbers of a job *)

\* A row counts for its own job and state.
LEMMA RowAdded ==
  ASSUME NEW rows, FiniteBag(rows), NEW k \in PrintJobs, NEW j \in PrintJobs,
         NEW state, NEW states
  PROVE  RowsIn(rows (+) One(Row(k, state)), j, states)
           = RowsIn(rows, j, states) + (IF k = j /\ state \in states THEN 1 ELSE 0)
<1> DEFINE S == [mode: {j.mode}, printer: {j.printer}, state: states]
           x == Row(k, state)
<1>1. x \in S <=> k.mode = j.mode /\ k.printer = j.printer /\ state \in states
  BY DEF Row
<1>2. k = j <=> k.mode = j.mode /\ k.printer = j.printer
  BY DEF PrintJobs
<1> HIDE DEF S, x
<1>3. Count(rows (+) One(x), S) = Count(rows, S) + (IF x \in S THEN 1 ELSE 0)
  BY CountAdded
<1> QED BY <1>1, <1>2, <1>3 DEF RowsIn, S, x

\* Which sheets of a job are whole.
LEMMA SheetOfJob ==
  ASSUME NEW k \in PrintJobs, NEW j \in PrintJobs, NEW f, f \in BOOLEAN, NEW first \in BOOLEAN
  PROVE  LET All == [mode: {j.mode}, device: {j.printer}, first: BOOLEAN, whole: BOOLEAN]
             Whole == [mode: {j.mode}, device: {j.printer}, first: BOOLEAN, whole: {TRUE}]
         IN  /\ SheetFor(k, f, FALSE) \in All <=> k = j
             /\ SheetFor(k, f, TRUE) \in All <=> k = j
             /\ SheetFor(k, f, FALSE) \notin Whole
             /\ SheetFor(k, f, TRUE) \in Whole <=> k = j
             /\ SheetFor(k, f, FALSE) \in {SheetFor(j, first, FALSE)} <=> k = j /\ f = first
             /\ SheetFor(k, f, TRUE) \notin {SheetFor(j, first, FALSE)}
<1> DEFINE All == [mode: {j.mode}, device: {j.printer}, first: BOOLEAN, whole: BOOLEAN]
           Whole == [mode: {j.mode}, device: {j.printer}, first: BOOLEAN, whole: {TRUE}]
<1>1. k = j <=> k.mode = j.mode /\ k.printer = j.printer
  BY DEF PrintJobs
<1>2. /\ SheetFor(k, f, FALSE) \in All <=> k = j
      /\ SheetFor(k, f, TRUE) \in All <=> k = j
  BY <1>1 DEF SheetFor
<1>3. /\ SheetFor(k, f, FALSE) \notin Whole
      /\ SheetFor(k, f, TRUE) \in Whole <=> k = j
  BY <1>1 DEF SheetFor
<1>4. /\ SheetFor(k, f, FALSE) \in {SheetFor(j, first, FALSE)} <=> k = j /\ f = first
      /\ SheetFor(k, f, TRUE) \notin {SheetFor(j, first, FALSE)}
  BY <1>1 DEF SheetFor
<1> QED BY <1>2, <1>3, <1>4

\* Some paper with one sheet of k more, which is not whole; and with one that became whole.
OneBegun(sheets, after, k, f, j) ==
  /\ SheetsIn(after, j, BOOLEAN) = SheetsIn(sheets, j, BOOLEAN) + (IF k = j THEN 1 ELSE 0)
  /\ SheetsIn(after, j, {TRUE}) = SheetsIn(sheets, j, {TRUE})
  /\ \A first \in BOOLEAN :
       HalfSheets(after, j, first)
         = HalfSheets(sheets, j, first) + (IF k = j /\ f = first THEN 1 ELSE 0)
OneCompleted(sheets, after, k, f, j) ==
  /\ SheetsIn(after, j, BOOLEAN) = SheetsIn(sheets, j, BOOLEAN)
  /\ SheetsIn(after, j, {TRUE}) = SheetsIn(sheets, j, {TRUE}) + (IF k = j THEN 1 ELSE 0)
  /\ \A first \in BOOLEAN :
       HalfSheets(after, j, first)
         = HalfSheets(sheets, j, first) - (IF k = j /\ f = first THEN 1 ELSE 0)

\* A sheet that is begun counts for its own job, and not as whole.
LEMMA SheetBegun ==
  ASSUME NEW sheets, FiniteBag(sheets), NEW k \in PrintJobs, NEW j \in PrintJobs, NEW f, f \in BOOLEAN
  PROVE  OneBegun(sheets, sheets (+) One(SheetFor(k, f, FALSE)), k, f, j)
<1> DEFINE All == [mode: {j.mode}, device: {j.printer}, first: BOOLEAN, whole: BOOLEAN]
           Whole == [mode: {j.mode}, device: {j.printer}, first: BOOLEAN, whole: {TRUE}]
           x == SheetFor(k, f, FALSE)
           after == sheets (+) One(x)
<1>1. (x \in All <=> k = j) /\ x \notin Whole
  BY SheetOfJob
<1>2. ASSUME NEW first \in BOOLEAN
      PROVE  HalfSheets(after, j, first)
               = HalfSheets(sheets, j, first) + (IF k = j /\ f = first THEN 1 ELSE 0)
  <2> DEFINE T == {SheetFor(j, first, FALSE)}
  <2>1. x \in T <=> k = j /\ f = first
    BY SheetOfJob
  <2> HIDE DEF x, T
  <2>2. Count(after, T) = Count(sheets, T) + (IF x \in T THEN 1 ELSE 0)
    BY CountAdded
  <2> QED BY <2>1, <2>2 DEF HalfSheets, T
<1>3. \A b : SheetsIn(b, j, BOOLEAN) = Count(b, All) /\ SheetsIn(b, j, {TRUE}) = Count(b, Whole)
  BY DEF SheetsIn
<1> HIDE DEF x, All, Whole
<1>4. Count(after, All) = Count(sheets, All) + (IF x \in All THEN 1 ELSE 0)
  BY CountAdded
<1>5. Count(after, Whole) = Count(sheets, Whole) + (IF x \in Whole THEN 1 ELSE 0)
  BY CountAdded
<1>6. Count(sheets, All) \in Nat /\ Count(sheets, Whole) \in Nat
  BY CountsAreNatural
<1> HIDE DEF after
<1>7. /\ SheetsIn(after, j, BOOLEAN) = SheetsIn(sheets, j, BOOLEAN) + (IF k = j THEN 1 ELSE 0)
      /\ SheetsIn(after, j, {TRUE}) = SheetsIn(sheets, j, {TRUE})
  BY <1>1, <1>3, <1>4, <1>5, <1>6
<1>8. OneBegun(sheets, after, k, f, j)
  BY <1>2, <1>7 DEF OneBegun
<1> QED BY <1>8 DEF after, x

\* A sheet that is completed is whole, and no half sheet any more.
LEMMA SheetCompleted ==
  ASSUME NEW sheets, FiniteBag(sheets), NEW k \in PrintJobs, NEW j \in PrintJobs, NEW f, f \in BOOLEAN,
         SheetFor(k, f, FALSE) \in DOMAIN sheets
  PROVE  OneCompleted(sheets, (sheets (-) One(SheetFor(k, f, FALSE))) (+) One(SheetFor(k, f, TRUE)),
                      k, f, j)
<1> DEFINE All == [mode: {j.mode}, device: {j.printer}, first: BOOLEAN, whole: BOOLEAN]
           Whole == [mode: {j.mode}, device: {j.printer}, first: BOOLEAN, whole: {TRUE}]
           x == SheetFor(k, f, FALSE)
           y == SheetFor(k, f, TRUE)
           rest == sheets (-) One(x)
           after == rest (+) One(y)
<1>1. /\ (x \in All <=> k = j) /\ x \notin Whole
      /\ (y \in All <=> k = j) /\ (y \in Whole <=> k = j)
  BY SheetOfJob
<1>2. x \in DOMAIN sheets
  OBVIOUS
<1>3. ASSUME NEW S
      PROVE  /\ Count(sheets, S) \in Nat
             /\ Count(after, S)
                  = Count(sheets, S) - (IF x \in S THEN 1 ELSE 0) + (IF y \in S THEN 1 ELSE 0)
  <2> HIDE DEF x, y
  <2>1. FiniteBag(rest)
    BY <1>2, CountRemoved
  <2>2. Count(rest, S) = Count(sheets, S) - (IF x \in S THEN 1 ELSE 0)
    BY <1>2, CountRemoved
  <2> HIDE DEF rest
  <2>3. Count(rest (+) One(y), S) = Count(rest, S) + (IF y \in S THEN 1 ELSE 0)
    BY <2>1, CountAdded
  <2>4. Count(sheets, S) \in Nat
    BY CountsAreNatural
  <2> QED BY <2>2, <2>3, <2>4
<1>4. ASSUME NEW first \in BOOLEAN
      PROVE  HalfSheets(after, j, first)
               = HalfSheets(sheets, j, first) - (IF k = j /\ f = first THEN 1 ELSE 0)
  <2> DEFINE T == {SheetFor(j, first, FALSE)}
  <2>1. (x \in T <=> k = j /\ f = first) /\ y \notin T
    BY SheetOfJob
  <2>2. HalfSheets(after, j, first) = Count(after, T) /\ HalfSheets(sheets, j, first) = Count(sheets, T)
    BY DEF HalfSheets
  <2> HIDE DEF x, y, T, rest, after
  <2>3. /\ Count(sheets, T) \in Nat
        /\ Count(after, T)
             = Count(sheets, T) - (IF x \in T THEN 1 ELSE 0) + (IF y \in T THEN 1 ELSE 0)
    BY <1>3
  <2> QED BY <2>1, <2>2, <2>3
<1>5. \A b : SheetsIn(b, j, BOOLEAN) = Count(b, All) /\ SheetsIn(b, j, {TRUE}) = Count(b, Whole)
  BY DEF SheetsIn
<1> HIDE DEF x, y, All, Whole, rest, after
<1>6. /\ Count(sheets, All) \in Nat
      /\ Count(after, All)
           = Count(sheets, All) - (IF x \in All THEN 1 ELSE 0) + (IF y \in All THEN 1 ELSE 0)
  BY <1>3
<1>7. /\ Count(sheets, Whole) \in Nat
      /\ Count(after, Whole)
           = Count(sheets, Whole) - (IF x \in Whole THEN 1 ELSE 0) + (IF y \in Whole THEN 1 ELSE 0)
  BY <1>3
<1>8. /\ SheetsIn(after, j, BOOLEAN) = SheetsIn(sheets, j, BOOLEAN)
      /\ SheetsIn(after, j, {TRUE}) = SheetsIn(sheets, j, {TRUE}) + (IF k = j THEN 1 ELSE 0)
  BY <1>1, <1>5, <1>6, <1>7
<1>9. OneCompleted(sheets, after, k, f, j)
  BY <1>4, <1>8 DEF OneCompleted
<1> QED BY <1>9 DEF after, rest, x, y

\* The numbers of a job in a ledger and among some paper are natural.
LEMMA NumbersOfBags ==
  ASSUME NEW rows, FiniteBag(rows), NEW sheets, FiniteBag(sheets), NEW j
  PROVE  /\ \A states : RowsIn(rows, j, states) \in Nat
         /\ \A whole : SheetsIn(sheets, j, whole) \in Nat
         /\ \A first : HalfSheets(sheets, j, first) \in Nat
  BY CountsAreNatural DEF RowsIn, SheetsIn, HalfSheets

\* When two sets of dialogs agree but for d, so do their cardinalities.
LEMMA OneDialogMoves ==
  ASSUME NEW A \in SUBSET Dialogs, NEW B \in SUBSET Dialogs, NEW d \in Dialogs,
         A \ {d} = B \ {d}
  PROVE  /\ Cardinality(A) \in Nat /\ Cardinality(B) \in Nat
         /\ Cardinality(B) + (IF d \in A THEN 1 ELSE 0) = Cardinality(A) + (IF d \in B THEN 1 ELSE 0)
<1>1. IsFiniteSet(A) /\ IsFiniteSet(B) /\ IsFiniteSet(A \ {d})
  BY PrintingAssumption, FS_Subset
<1>2. Cardinality(A) \in Nat /\ Cardinality(B) \in Nat /\ Cardinality(A \ {d}) \in Nat
  BY <1>1, FS_CardinalityType
<1>3. Cardinality(A) = Cardinality(A \ {d}) + (IF d \in A THEN 1 ELSE 0)
  <2>1. CASE d \in A
    <3>1. Cardinality((A \ {d}) \cup {d}) = Cardinality(A \ {d}) + 1
      BY <1>1, FS_AddElement
    <3>2. (A \ {d}) \cup {d} = A
      BY <2>1
    <3> QED BY <2>1, <3>1, <3>2
  <2>2. CASE d \notin A
    <3>1. A \ {d} = A
      BY <2>2
    <3> QED BY <1>2, <2>2, <3>1
  <2> QED BY <2>1, <2>2
<1>4. Cardinality(B) = Cardinality(A \ {d}) + (IF d \in B THEN 1 ELSE 0)
  <2>1. CASE d \in B
    <3>1. Cardinality((A \ {d}) \cup {d}) = Cardinality(A \ {d}) + 1
      BY <1>1, FS_AddElement
    <3>2. (A \ {d}) \cup {d} = B
      BY <2>1
    <3> QED BY <2>1, <3>1, <3>2
  <2>2. CASE d \notin B
    <3>1. A \ {d} = B
      BY <2>2
    <3> QED BY <1>2, <2>2, <3>1
  <2> QED BY <2>1, <2>2
<1> QED BY <1>2, <1>3, <1>4

\* Only dialog d of a table changes: then so many of a kind are after.
Moves(before, after, was, is) ==
  /\ before \in Nat /\ after \in Nat
  /\ was /\ is => after = before
  /\ was /\ ~is => after = before - 1
  /\ ~was /\ is => after = before + 1
  /\ ~was /\ ~is => after = before

\* When only dialog d of a table changes, each number changes by what d was and is.
LEMMA NumbersChange ==
  ASSUME NEW table, NEW new, NEW d \in Dialogs, NEW j,
         \A e \in Dialogs \ {d} : new[e] = table[e]
  PROVE  /\ Moves(NumberUnprinted(table, j), NumberUnprinted(new, j),
                  Unprinted(table[d], j), Unprinted(new[d], j))
         /\ Moves(NumberUntold(table, j), NumberUntold(new, j),
                  Untold(table[d], j), Untold(new[d], j))
         /\ Moves(NumberOwing(table, j), NumberOwing(new, j),
                  Owing(table[d], j), Owing(new[d], j))
         /\ \A first \in BOOLEAN :
              Moves(NumberBegun(table, j, first), NumberBegun(new, j, first),
                    Begun(table[d], j, first), Begun(new[d], j, first))
<1>1. Moves(NumberUnprinted(table, j), NumberUnprinted(new, j),
            Unprinted(table[d], j), Unprinted(new[d], j))
  <2> DEFINE A == {e \in Dialogs : Unprinted(table[e], j)}
             B == {e \in Dialogs : Unprinted(new[e], j)}
  <2>1. /\ A \in SUBSET Dialogs /\ B \in SUBSET Dialogs /\ A \ {d} = B \ {d}
        /\ (d \in A <=> Unprinted(table[d], j)) /\ (d \in B <=> Unprinted(new[d], j))
    OBVIOUS
  <2> HIDE DEF A, B
  <2>2. /\ Cardinality(A) \in Nat /\ Cardinality(B) \in Nat
        /\ Cardinality(B) + (IF d \in A THEN 1 ELSE 0) = Cardinality(A) + (IF d \in B THEN 1 ELSE 0)
    BY <2>1, OneDialogMoves
  <2> QED BY <2>1, <2>2 DEF NumberUnprinted, A, B, Moves
<1>2. Moves(NumberUntold(table, j), NumberUntold(new, j), Untold(table[d], j), Untold(new[d], j))
  <2> DEFINE A == {e \in Dialogs : Untold(table[e], j)}
             B == {e \in Dialogs : Untold(new[e], j)}
  <2>1. /\ A \in SUBSET Dialogs /\ B \in SUBSET Dialogs /\ A \ {d} = B \ {d}
        /\ (d \in A <=> Untold(table[d], j)) /\ (d \in B <=> Untold(new[d], j))
    OBVIOUS
  <2> HIDE DEF A, B
  <2>2. /\ Cardinality(A) \in Nat /\ Cardinality(B) \in Nat
        /\ Cardinality(B) + (IF d \in A THEN 1 ELSE 0) = Cardinality(A) + (IF d \in B THEN 1 ELSE 0)
    BY <2>1, OneDialogMoves
  <2> QED BY <2>1, <2>2 DEF NumberUntold, A, B, Moves
<1>3. Moves(NumberOwing(table, j), NumberOwing(new, j), Owing(table[d], j), Owing(new[d], j))
  <2> DEFINE A == {e \in Dialogs : Owing(table[e], j)}
             B == {e \in Dialogs : Owing(new[e], j)}
  <2>1. /\ A \in SUBSET Dialogs /\ B \in SUBSET Dialogs /\ A \ {d} = B \ {d}
        /\ (d \in A <=> Owing(table[d], j)) /\ (d \in B <=> Owing(new[d], j))
    OBVIOUS
  <2> HIDE DEF A, B
  <2>2. /\ Cardinality(A) \in Nat /\ Cardinality(B) \in Nat
        /\ Cardinality(B) + (IF d \in A THEN 1 ELSE 0) = Cardinality(A) + (IF d \in B THEN 1 ELSE 0)
    BY <2>1, OneDialogMoves
  <2> QED BY <2>1, <2>2 DEF NumberOwing, A, B, Moves
<1>4. ASSUME NEW first \in BOOLEAN
      PROVE  Moves(NumberBegun(table, j, first), NumberBegun(new, j, first),
                   Begun(table[d], j, first), Begun(new[d], j, first))
  <2> DEFINE A == {e \in Dialogs : Begun(table[e], j, first)}
             B == {e \in Dialogs : Begun(new[e], j, first)}
  <2>1. /\ A \in SUBSET Dialogs /\ B \in SUBSET Dialogs /\ A \ {d} = B \ {d}
        /\ (d \in A <=> Begun(table[d], j, first)) /\ (d \in B <=> Begun(new[d], j, first))
    OBVIOUS
  <2> HIDE DEF A, B
  <2>2. /\ Cardinality(A) \in Nat /\ Cardinality(B) \in Nat
        /\ Cardinality(B) + (IF d \in A THEN 1 ELSE 0) = Cardinality(A) + (IF d \in B THEN 1 ELSE 0)
    BY <2>1, OneDialogMoves
  <2> QED BY <2>1, <2>2 DEF NumberBegun, A, B, Moves
<1> QED BY <1>1, <1>2, <1>3, <1>4

\* They are natural numbers.
LEMMA NumbersOfTable ==
  ASSUME NEW table, NEW j
  PROVE  /\ NumberUnprinted(table, j) \in Nat /\ NumberUntold(table, j) \in Nat
         /\ NumberOwing(table, j) \in Nat
         /\ \A first \in BOOLEAN : NumberBegun(table, j, first) \in Nat
<1>1. \A A \in SUBSET Dialogs : Cardinality(A) \in Nat
  BY PrintingAssumption, FS_Subset, FS_CardinalityType
<1> QED BY <1>1 DEF NumberUnprinted, NumberUntold, NumberOwing, NumberBegun

-----------------------------------------------------------------------------
(* Printing: what keeps the balance *)

\* Dialog d takes on no more than it had.
Quiet(old, new) ==
  \A j \in PrintJobs :
    /\ Unprinted(new, j) => Unprinted(old, j)
    /\ Untold(new, j) => Untold(old, j)
    /\ Owing(new, j) => Owing(old, j)
    /\ \A first \in BOOLEAN : Begun(new, j, first) => Begun(old, j, first)

\* Then the books and the paper still balance.
LEMMA QuietKeepsBalance ==
  ASSUME NEW rows, FiniteBag(rows), NEW sheets, FiniteBag(sheets), NEW table, NEW new,
         NEW d \in Dialogs, NEW j \in PrintJobs, Balanced(rows, sheets, table, j),
         \A e \in Dialogs \ {d} : new[e] = table[e], Quiet(table[d], new[d])
  PROVE  Balanced(rows, sheets, new, j)
<1>1. /\ Moves(NumberUnprinted(table, j), NumberUnprinted(new, j),
               Unprinted(table[d], j), Unprinted(new[d], j))
      /\ Moves(NumberUntold(table, j), NumberUntold(new, j), Untold(table[d], j), Untold(new[d], j))
      /\ Moves(NumberOwing(table, j), NumberOwing(new, j), Owing(table[d], j), Owing(new[d], j))
      /\ \A first \in BOOLEAN :
           Moves(NumberBegun(table, j, first), NumberBegun(new, j, first),
                 Begun(table[d], j, first), Begun(new[d], j, first))
  BY NumbersChange
<1>2. /\ Unprinted(new[d], j) => Unprinted(table[d], j)
      /\ Untold(new[d], j) => Untold(table[d], j)
      /\ Owing(new[d], j) => Owing(table[d], j)
      /\ \A first \in BOOLEAN : Begun(new[d], j, first) => Begun(table[d], j, first)
  BY DEF Quiet
<1>3. /\ NumberUnprinted(new, j) <= NumberUnprinted(table, j)
      /\ NumberUntold(new, j) <= NumberUntold(table, j)
      /\ NumberOwing(new, j) <= NumberOwing(table, j)
  BY <1>1, <1>2 DEF Moves
<1>4. \A first \in BOOLEAN : NumberBegun(new, j, first) <= NumberBegun(table, j, first)
  BY <1>1, <1>2 DEF Moves
<1>5. /\ \A states : RowsIn(rows, j, states) \in Nat
      /\ \A whole : SheetsIn(sheets, j, whole) \in Nat
      /\ \A first : HalfSheets(sheets, j, first) \in Nat
  BY NumbersOfBags
<1>6. /\ RowsIn(rows, j, {"FAILED"}) + SheetsIn(sheets, j, BOOLEAN) + NumberUnprinted(new, j)
           <= RowsIn(rows, j, {"STARTED"})
      /\ RowsIn(rows, j, {"SUCCEEDED"}) + NumberUntold(new, j) <= SheetsIn(sheets, j, {TRUE})
      /\ RowsIn(rows, j, Outcomes) + NumberOwing(new, j) <= RowsIn(rows, j, {"STARTED"})
  BY <1>3, <1>5, NumbersOfTable DEF Balanced
<1>7. ASSUME NEW first \in BOOLEAN
      PROVE  NumberBegun(new, j, first) <= HalfSheets(sheets, j, first)
  <2>1. NumberBegun(new, j, first) \in Nat /\ NumberBegun(table, j, first) \in Nat
    BY NumbersOfTable
  <2>2. NumberBegun(table, j, first) <= HalfSheets(sheets, j, first)
    BY DEF Balanced
  <2> QED BY <1>4, <1>5, <2>1, <2>2
<1> QED BY <1>6, <1>7 DEF Balanced

\* A STARTED row is one more of its job, and no result.
LEMMA StartedRow ==
  ASSUME NEW rows, FiniteBag(rows), NEW k \in PrintJobs, NEW j \in PrintJobs
  PROVE  LET after == rows (+) One(Row(k, "STARTED"))
         IN  /\ RowsIn(after, j, {"STARTED"}) = RowsIn(rows, j, {"STARTED"}) + (IF k = j THEN 1 ELSE 0)
             /\ RowsIn(after, j, {"FAILED"}) = RowsIn(rows, j, {"FAILED"})
             /\ RowsIn(after, j, {"SUCCEEDED"}) = RowsIn(rows, j, {"SUCCEEDED"})
             /\ RowsIn(after, j, Outcomes) = RowsIn(rows, j, Outcomes)
<1> DEFINE after == rows (+) One(Row(k, "STARTED"))
<1>1. \A states : RowsIn(rows, j, states) \in Nat
  BY CountsAreNatural DEF RowsIn
<1>2. \A states :
        RowsIn(after, j, states)
          = RowsIn(rows, j, states) + (IF k = j /\ "STARTED" \in states THEN 1 ELSE 0)
  BY RowAdded
<1> HIDE DEF after
<1>3. "STARTED" \notin Outcomes
  BY DEF Outcomes
<1>4. /\ RowsIn(after, j, {"STARTED"}) = RowsIn(rows, j, {"STARTED"}) + (IF k = j THEN 1 ELSE 0)
      /\ RowsIn(after, j, {"FAILED"}) = RowsIn(rows, j, {"FAILED"})
      /\ RowsIn(after, j, {"SUCCEEDED"}) = RowsIn(rows, j, {"SUCCEEDED"})
      /\ RowsIn(after, j, Outcomes) = RowsIn(rows, j, Outcomes)
  BY <1>1, <1>2, <1>3
<1> QED BY <1>4 DEF after

\* A STARTED attempt that nobody waits for weighs on the safe side.
LEMMA StartedKeepsBalance ==
  ASSUME NEW rows, FiniteBag(rows), NEW sheets, FiniteBag(sheets), NEW table, NEW k \in PrintJobs,
         NEW j \in PrintJobs, Balanced(rows, sheets, table, j)
  PROVE  Balanced(rows (+) One(Row(k, "STARTED")), sheets, table, j)
<1> DEFINE after == rows (+) One(Row(k, "STARTED"))
<1>1. /\ RowsIn(after, j, {"STARTED"}) = RowsIn(rows, j, {"STARTED"}) + (IF k = j THEN 1 ELSE 0)
      /\ RowsIn(after, j, {"FAILED"}) = RowsIn(rows, j, {"FAILED"})
      /\ RowsIn(after, j, {"SUCCEEDED"}) = RowsIn(rows, j, {"SUCCEEDED"})
      /\ RowsIn(after, j, Outcomes) = RowsIn(rows, j, Outcomes)
  BY StartedRow
<1> HIDE DEF after
<1>2. /\ \A states : RowsIn(rows, j, states) \in Nat
      /\ \A whole : SheetsIn(sheets, j, whole) \in Nat
  BY NumbersOfBags
<1>3. NumberUnprinted(table, j) \in Nat /\ NumberOwing(table, j) \in Nat
  BY NumbersOfTable
<1>4. Balanced(after, sheets, table, j)
  BY <1>1, <1>2, <1>3 DEF Balanced
<1> QED BY <1>4 DEF after

-----------------------------------------------------------------------------
(* Printing: one dialog moves *)

\* A dialog's connection, or none.
Adapters == {None} \cup [device: Printers, up: BOOLEAN]

\* Dialog d becomes r, and its adapter a.
Turn(d, r, a) ==
  /\ r \in DialogRecord /\ a \in Adapters /\ DialogFits(r, a)
  /\ dialog' = [dialog EXCEPT ![d] = r]
  /\ link' = [link EXCEPT ![d] = a]

\* The tables fit after it when the bags do.
LEMMA TurnFits ==
  ASSUME TablesFit, NEW d \in Dialogs, NEW r, NEW a, Turn(d, r, a),
         FiniteBag(late'), DOMAIN late' \subseteq PrintJobs,
         FiniteBag(ledger'), DOMAIN ledger' \subseteq Rows,
         FiniteBag(paper'), DOMAIN paper' \subseteq Sheets,
         active' \subseteq Printers, sent' \in 0..MaxPrints
  PROVE  /\ TablesFit'
         /\ dialog'[d] = r /\ \A e \in Dialogs \ {d} : dialog'[e] = dialog[e]
<1>1. dialog' \in [Dialogs -> DialogRecord] /\ link' \in [Dialogs -> Adapters]
  BY DEF TablesFit, Turn, Adapters
<1>2. /\ dialog'[d] = r /\ link'[d] = a
      /\ \A e \in Dialogs \ {d} : dialog'[e] = dialog[e] /\ link'[e] = link[e]
  BY DEF TablesFit, Turn
<1>3. ASSUME NEW e \in Dialogs PROVE DialogFits(dialog'[e], link'[e])
  <2>1. CASE e = d
    BY <1>2, <2>1 DEF Turn
  <2>2. CASE e # d
    <3>1. dialog'[e] = dialog[e] /\ link'[e] = link[e]
      BY <1>2, <2>2
    <3>2. DialogFits(dialog[e], link[e])
      BY DEF TablesFit
    <3> QED BY <3>1, <3>2
  <2> QED BY <2>1, <2>2
<1>4. TablesFit'
  BY <1>1, <1>3 DEF TablesFit, Adapters
<1> QED BY <1>2, <1>4

\* A move that takes on nothing, and tells the server nothing.
LEMMA QuietTurn ==
  ASSUME PrintIInv, NEW d \in Dialogs, NEW r, NEW a, Turn(d, r, a), Quiet(dialog[d], r),
         FiniteBag(late'), DOMAIN late' \subseteq PrintJobs,
         UNCHANGED <<ledger, paper>>, active' \subseteq Printers, sent' \in 0..MaxPrints
  PROVE  PrintIInv'
<1>1. TablesFit /\ LaterSheetsAreMarked
  BY DEF PrintIInv
<1>2. /\ TablesFit'
      /\ dialog'[d] = r /\ \A e \in Dialogs \ {d} : dialog'[e] = dialog[e]
  <2>1. /\ FiniteBag(ledger') /\ DOMAIN ledger' \subseteq Rows
        /\ FiniteBag(paper') /\ DOMAIN paper' \subseteq Sheets
    BY <1>1 DEF TablesFit
  <2> QED BY <1>1, <2>1, TurnFits
<1>3. ASSUME NEW j \in PrintJobs PROVE Balanced(ledger', paper', dialog', j)
  <2>1. PICK new : new = dialog'
    OBVIOUS
  <2>2. /\ FiniteBag(ledger) /\ FiniteBag(paper) /\ Balanced(ledger, paper, dialog, j)
    BY <1>1 DEF PrintIInv, TablesFit
  <2>3. (\A e \in Dialogs \ {d} : new[e] = dialog[e]) /\ Quiet(dialog[d], new[d])
    BY <1>2, <2>1
  <2>4. Balanced(ledger, paper, new, j)
    BY <2>2, <2>3, QuietKeepsBalance
  <2> QED BY <2>1, <2>4
<1>4. LaterSheetsAreMarked'
  BY <1>1 DEF LaterSheetsAreMarked
<1> QED BY <1>2, <1>3, <1>4 DEF PrintIInv

-----------------------------------------------------------------------------
(* Printing: the steps that announce, print and record nothing *)

\* What the invariant says of dialog d.
LEMMA DialogKnown ==
  ASSUME PrintIInv, NEW d \in Dialogs
  PROVE  /\ dialog[d] \in DialogRecord /\ link[d] \in Adapters
         /\ DialogFits(dialog[d], link[d])
         /\ FiniteBag(late) /\ DOMAIN late \subseteq PrintJobs
         /\ active \subseteq Printers /\ sent \in 0..MaxPrints
  BY DEF PrintIInv, TablesFit, Adapters

\* A sheet implies an attempt.
LEMMA PaperHasHistory ==
  ASSUME PrintIInv, DOMAIN ledger = {}
  PROVE  DOMAIN paper = {}
<1>1. FiniteBag(ledger) /\ FiniteBag(paper) /\ DOMAIN paper \subseteq Sheets
  BY DEF PrintIInv, TablesFit
<1>2. SUFFICES ASSUME NEW x \in DOMAIN paper PROVE FALSE
  OBVIOUS
<1> DEFINE j == [mode |-> x.mode, printer |-> x.device]
<1>3. x \in Sheets /\ j \in PrintJobs /\ j.mode = x.mode /\ j.printer = x.device
  BY <1>1 DEF Sheets, PrintJobs
<1> HIDE DEF j
<1>4. SheetsIn(paper, j, BOOLEAN) >= 1
  <2> DEFINE S == [mode: {j.mode}, device: {j.printer}, first: BOOLEAN, whole: BOOLEAN]
  <2>1. x \in S
    BY <1>3 DEF Sheets
  <2> HIDE DEF S
  <2>2. DOMAIN paper \cap S # {}
    BY <2>1
  <2>3. Count(paper, S) >= 1
    BY <1>1, <2>2, CountOfPresent
  <2> QED BY <2>3 DEF SheetsIn, S
<1>5. \A states : RowsIn(ledger, j, states) \in Nat /\ ~(RowsIn(ledger, j, states) >= 1)
  <2> SUFFICES ASSUME NEW states
               PROVE  RowsIn(ledger, j, states) \in Nat /\ ~(RowsIn(ledger, j, states) >= 1)
    OBVIOUS
  <2> DEFINE S == [mode: {j.mode}, printer: {j.printer}, state: states]
  <2>1. DOMAIN ledger \cap S = {}
    OBVIOUS
  <2> HIDE DEF S
  <2>2. Count(ledger, S) \in Nat /\ ~(Count(ledger, S) >= 1)
    BY <1>1, <2>1, CountOfPresent, CountsAreNatural
  <2> QED BY <2>2 DEF RowsIn, S
<1>6. Balanced(ledger, paper, dialog, j)
  BY <1>3 DEF PrintIInv
<1>7. SheetsIn(paper, j, BOOLEAN) \in Nat /\ NumberUnprinted(dialog, j) \in Nat
  BY <1>1, NumbersOfBags, NumbersOfTable
<1>8. RowsIn(ledger, j, {"FAILED"}) + SheetsIn(paper, j, BOOLEAN) + NumberUnprinted(dialog, j)
        <= RowsIn(ledger, j, {"STARTED"})
  BY <1>6 DEF Balanced
<1>9. /\ RowsIn(ledger, j, {"FAILED"}) \in Nat
      /\ RowsIn(ledger, j, {"STARTED"}) \in Nat /\ ~(RowsIn(ledger, j, {"STARTED"}) >= 1)
  BY <1>5
<1> QED BY <1>4, <1>7, <1>8, <1>9

\* What a dialog loads fits, as a dialog without history has seen no paper.
LEMMA LoadedHolds ==
  ASSUME PrintIInv, NEW d \in Dialogs, NEW q \in Printers, Loaded(d, q),
         dialog[d].step = "closed" \/ (dialog[d].step = "open" /\ q = dialog[d].printer),
         ~Pending(d), UNCHANGED <<link, world>>
  PROVE  PrintIInv'
<1> DEFINE o == dialog[d]
           r == [o EXCEPT !.step = "open", !.printer = q, !.error = FALSE,
                          !.reprint = Reprint(d) \/ History,
                          !.first = ~Reprint(d) /\ ~History /\ DOMAIN paper = {}]
<1>1. /\ o \in DialogRecord /\ link[d] \in Adapters /\ DialogFits(o, link[d])
      /\ FiniteBag(late) /\ DOMAIN late \subseteq PrintJobs
      /\ active \subseteq Printers /\ sent \in 0..MaxPrints
  BY DialogKnown
<1>2. ~History => DOMAIN paper = {}
  BY PaperHasHistory DEF History
<1>3. r \in DialogRecord
  BY <1>1 DEF DialogRecord, DialogSteps, History, Reprint
<1>4. DialogFits(r, link[d])
  BY <1>1, <1>2 DEF DialogFits, DialogRecord, Pending, Reprint
<1>5. Quiet(o, r)
  BY <1>1 DEF Quiet, Unprinted, Untold, Owing, Begun, DialogRecord, DialogFits
<1>6. Turn(d, r, link[d])
  <2>1. dialog' = [dialog EXCEPT ![d] = r]
    BY DEF Loaded
  <2>2. link' = [link EXCEPT ![d] = link[d]]
    BY DEF PrintIInv, TablesFit
  <2> QED BY <1>1, <1>3, <1>4, <2>1, <2>2 DEF Turn
<1> HIDE DEF r
<1> QED BY <1>1, <1>5, <1>6, QuietTurn DEF world

\* The dialog opens, and reads again.
LEMMA OpenHolds ==
  ASSUME PrintIInv, NEW d \in Dialogs, Open(d) \/ ReadAgain(d)
  PROVE  PrintIInv'
<1>1. dialog[d] \in DialogRecord /\ DialogFits(dialog[d], link[d])
  BY DialogKnown
<1>2. CASE Open(d)
  <2>1. PICK q \in Printers : Loaded(d, q)
    BY <1>2 DEF Open
  <2>2. dialog[d].step = "closed" /\ ~Pending(d) /\ UNCHANGED <<link, world>>
    BY <1>1, <1>2 DEF Open, Pending, DialogFits
  <2> QED BY <2>1, <2>2, LoadedHolds
<1>3. CASE ReadAgain(d)
  <2>1. /\ dialog[d].step = "open" /\ ~Pending(d) /\ dialog[d].printer \in Printers
        /\ Loaded(d, dialog[d].printer) /\ UNCHANGED <<link, world>>
    BY <1>1, <1>3 DEF ReadAgain, Idle, DialogFits
  <2> QED BY <2>1, LoadedHolds
<1> QED BY <1>2, <1>3

\* Selecting another printer ends the connection.
LEMMA SelectHolds ==
  ASSUME PrintIInv, NEW d \in Dialogs, NEW q \in Printers, Select(d, q)
  PROVE  PrintIInv'
<1> DEFINE r == [dialog[d] EXCEPT !.printer = q]
           a == None
<1>1. /\ dialog[d] \in DialogRecord /\ link[d] \in Adapters /\ DialogFits(dialog[d], link[d])
      /\ FiniteBag(late) /\ DOMAIN late \subseteq PrintJobs
      /\ active \subseteq Printers /\ sent \in 0..MaxPrints
  BY DialogKnown
<1>2. r \in DialogRecord /\ a \in Adapters
  BY <1>1 DEF DialogRecord, Adapters
<1>3. DialogFits(r, a)
  BY <1>1 DEF DialogFits, DialogRecord
<1>4. Quiet(dialog[d], r)
  BY <1>1 DEF Quiet, Unprinted, Untold, Owing, Begun, DialogRecord
<1>5. Turn(d, r, a)
  <2>1. dialog' = [dialog EXCEPT ![d] = r] /\ link' = [link EXCEPT ![d] = a]
    BY DEF Select, PrintIInv, TablesFit
  <2> QED BY <1>2, <1>3, <2>1 DEF Turn
<1>6. UNCHANGED <<late, ledger, paper>> /\ active' \subseteq Printers /\ sent' \in 0..MaxPrints
  BY <1>1 DEF Select, world
<1> HIDE DEF r, a
<1> QED BY <1>1, <1>4, <1>5, <1>6, QuietTurn

\* A connection to the selected printer.
LEMMA ConnectHolds ==
  ASSUME PrintIInv, NEW d \in Dialogs, Connect(d)
  PROVE  PrintIInv'
<1> DEFINE r == [dialog[d] EXCEPT !.step = "connecting", !.error = FALSE]
           a == [device |-> dialog[d].printer, up |-> FALSE]
<1>1. /\ dialog[d] \in DialogRecord /\ link[d] \in Adapters /\ DialogFits(dialog[d], link[d])
      /\ FiniteBag(late) /\ DOMAIN late \subseteq PrintJobs
      /\ active \subseteq Printers /\ sent \in 0..MaxPrints
  BY DialogKnown
<1>2. r \in DialogRecord /\ a \in Adapters
  BY <1>1 DEF DialogRecord, DialogSteps, Adapters, DialogFits, Connect, Idle
<1>3. DialogFits(r, a)
  BY <1>1 DEF DialogFits, DialogRecord, Connect, Idle, Pending
<1>4. Quiet(dialog[d], r)
  BY <1>1 DEF Quiet, Unprinted, Untold, Owing, Begun, DialogRecord
<1>5. Turn(d, r, a)
  <2>1. dialog' = [dialog EXCEPT ![d] = r] /\ link' = [link EXCEPT ![d] = a]
    BY DEF Connect, PrintIInv, TablesFit
  <2> QED BY <1>2, <1>3, <2>1 DEF Turn
<1>6. UNCHANGED <<late, ledger, paper>> /\ active' \subseteq Printers /\ sent' \in 0..MaxPrints
  BY <1>1 DEF Connect, world
<1> HIDE DEF r, a
<1> QED BY <1>1, <1>4, <1>5, <1>6, QuietTurn

\* The link drops.
LEMMA DisconnectHolds ==
  ASSUME PrintIInv, NEW d \in Dialogs, Disconnect(d)
  PROVE  PrintIInv'
<1> DEFINE r == dialog[d]
           a == None
<1>1. /\ dialog[d] \in DialogRecord /\ link[d] \in Adapters /\ DialogFits(dialog[d], link[d])
      /\ FiniteBag(late) /\ DOMAIN late \subseteq PrintJobs
      /\ active \subseteq Printers /\ sent \in 0..MaxPrints
  BY DialogKnown
<1>2. r \in DialogRecord /\ a \in Adapters
  BY <1>1 DEF Adapters
<1>3. DialogFits(r, a)
  BY <1>1 DEF DialogFits
<1>4. Quiet(dialog[d], r)
  BY DEF Quiet
<1>5. Turn(d, r, a)
  <2>1. dialog' = [dialog EXCEPT ![d] = r] /\ link' = [link EXCEPT ![d] = a]
    BY DEF Disconnect, PrintIInv, TablesFit
  <2> QED BY <1>2, <1>3, <2>1 DEF Turn
<1>6. UNCHANGED <<late, ledger, paper>> /\ active' \subseteq Printers /\ sent' \in 0..MaxPrints
  BY <1>1 DEF Disconnect, world
<1> HIDE DEF r, a
<1> QED BY <1>1, <1>4, <1>5, <1>6, QuietTurn

\* The warning is read.
LEMMA ConfirmHolds ==
  ASSUME PrintIInv, NEW d \in Dialogs, Confirm(d)
  PROVE  PrintIInv'
<1> DEFINE r == [dialog[d] EXCEPT !.confirm = TRUE]
           a == link[d]
<1>1. /\ dialog[d] \in DialogRecord /\ link[d] \in Adapters /\ DialogFits(dialog[d], link[d])
      /\ FiniteBag(late) /\ DOMAIN late \subseteq PrintJobs
      /\ active \subseteq Printers /\ sent \in 0..MaxPrints
  BY DialogKnown
<1>2. r \in DialogRecord /\ a \in Adapters
  BY <1>1 DEF DialogRecord
<1>3. DialogFits(r, a)
  BY <1>1 DEF DialogFits, DialogRecord
<1>4. Quiet(dialog[d], r)
  BY <1>1 DEF Quiet, Unprinted, Untold, Owing, Begun, DialogRecord
<1>5. Turn(d, r, a)
  <2>1. dialog' = [dialog EXCEPT ![d] = r] /\ link' = [link EXCEPT ![d] = a]
    BY DEF Confirm, PrintIInv, TablesFit
  <2> QED BY <1>2, <1>3, <2>1 DEF Turn
<1>6. UNCHANGED <<late, ledger, paper>> /\ active' \subseteq Printers /\ sent' \in 0..MaxPrints
  BY <1>1 DEF Confirm, world
<1> HIDE DEF r, a
<1> QED BY <1>1, <1>4, <1>5, <1>6, QuietTurn

\* The request leaves: a dialog that warned nobody has seen no paper.
LEMMA SendHolds ==
  ASSUME PrintIInv, NEW d \in Dialogs, Send(d)
  PROVE  PrintIInv'
<1> DEFINE r == [dialog[d] EXCEPT
                   !.step = "starting", !.reprint = TRUE,
                   !.job = [ mode |-> IF Reprint(d) THEN "REPRINT" ELSE "PRINT",
                             printer |-> dialog[d].printer ]]
           a == link[d]
<1>1. /\ dialog[d] \in DialogRecord /\ link[d] \in Adapters /\ DialogFits(dialog[d], link[d])
      /\ FiniteBag(late) /\ DOMAIN late \subseteq PrintJobs
      /\ active \subseteq Printers /\ sent \in 0..MaxPrints
  BY DialogKnown
<1>2. r \in DialogRecord /\ a \in Adapters
  BY <1>1 DEF DialogRecord, DialogSteps, PrintJobs, Modes, DialogFits, Send, CanSend, Idle
<1>3. DialogFits(r, a)
  BY <1>1, PrintingAssumption
     DEF DialogFits, DialogRecord, PrintJobs, Modes, Send, CanSend, Idle, Pending, Reprint
<1>4. Quiet(dialog[d], r)
  BY <1>1, PrintingAssumption
     DEF Quiet, Unprinted, Untold, Owing, Begun, DialogRecord, Outcomes, Send, CanSend, Pending
<1>5. Turn(d, r, a)
  <2>1. dialog' = [dialog EXCEPT ![d] = r] /\ link' = [link EXCEPT ![d] = a]
    BY DEF Send, PrintIInv, TablesFit
  <2> QED BY <1>2, <1>3, <2>1 DEF Turn
<1>6. UNCHANGED <<late, ledger, paper>> /\ active' \subseteq Printers /\ sent' \in 0..MaxPrints
  BY <1>1, PrintingAssumption DEF Send
<1> HIDE DEF r, a
<1> QED BY <1>1, <1>4, <1>5, <1>6, QuietTurn

\* The result is sent again.
LEMMA SaveAgainHolds ==
  ASSUME PrintIInv, NEW d \in Dialogs, SaveAgain(d)
  PROVE  PrintIInv'
<1> DEFINE r == [dialog[d] EXCEPT !.step = "saving", !.error = FALSE]
           a == link[d]
<1>1. /\ dialog[d] \in DialogRecord /\ link[d] \in Adapters /\ DialogFits(dialog[d], link[d])
      /\ FiniteBag(late) /\ DOMAIN late \subseteq PrintJobs
      /\ active \subseteq Printers /\ sent \in 0..MaxPrints
  BY DialogKnown
<1>2. r \in DialogRecord /\ a \in Adapters
  BY <1>1 DEF DialogRecord, DialogSteps
<1>3. DialogFits(r, a)
  BY <1>1 DEF DialogFits, DialogRecord, SaveAgain, Idle, Pending
<1>4. Quiet(dialog[d], r)
  BY <1>1 DEF Quiet, Unprinted, Untold, Owing, Begun, DialogRecord
<1>5. Turn(d, r, a)
  <2>1. dialog' = [dialog EXCEPT ![d] = r] /\ link' = [link EXCEPT ![d] = a]
    BY DEF SaveAgain, PrintIInv, TablesFit
  <2> QED BY <1>2, <1>3, <2>1 DEF Turn
<1>6. UNCHANGED <<late, ledger, paper>> /\ active' \subseteq Printers /\ sent' \in 0..MaxPrints
  BY <1>1 DEF SaveAgain, world
<1> HIDE DEF r, a
<1> QED BY <1>1, <1>4, <1>5, <1>6, QuietTurn

\* Nothing is printed, and nothing was.
LEMMA NotConnectedHolds ==
  ASSUME PrintIInv, NEW d \in Dialogs, NotConnected(d)
  PROVE  PrintIInv'
<1> DEFINE r == [dialog[d] EXCEPT !.step = "saving", !.outcome = "FAILED", !.confirm = FALSE]
           a == link[d]
<1>1. /\ dialog[d] \in DialogRecord /\ link[d] \in Adapters /\ DialogFits(dialog[d], link[d])
      /\ FiniteBag(late) /\ DOMAIN late \subseteq PrintJobs
      /\ active \subseteq Printers /\ sent \in 0..MaxPrints
  BY DialogKnown
<1>2. r \in DialogRecord /\ a \in Adapters
  BY <1>1 DEF DialogRecord, DialogSteps, Outcomes
<1>3. DialogFits(r, a)
  BY <1>1, PrintingAssumption DEF DialogFits, DialogRecord, Outcomes, NotConnected
<1>4. Quiet(dialog[d], r)
  BY <1>1, PrintingAssumption DEF Quiet, Unprinted, Untold, Owing, Begun, DialogRecord, NotConnected
<1>5. Turn(d, r, a)
  <2>1. dialog' = [dialog EXCEPT ![d] = r] /\ link' = [link EXCEPT ![d] = a]
    BY DEF NotConnected, Settled, PrintIInv, TablesFit
  <2> QED BY <1>2, <1>3, <2>1 DEF Turn
<1>6. UNCHANGED <<late, ledger, paper>> /\ active' \subseteq Printers /\ sent' \in 0..MaxPrints
  BY <1>1 DEF NotConnected, world
<1> HIDE DEF r, a
<1> QED BY <1>1, <1>4, <1>5, <1>6, QuietTurn

\* The outcome is not known.
LEMMA WriteFailsHolds ==
  ASSUME PrintIInv, NEW d \in Dialogs, WriteFails(d)
  PROVE  PrintIInv'
<1> DEFINE r == [dialog[d] EXCEPT !.step = "saving", !.outcome = "UNKNOWN", !.confirm = FALSE]
           a == None
<1>1. /\ dialog[d] \in DialogRecord /\ link[d] \in Adapters /\ DialogFits(dialog[d], link[d])
      /\ FiniteBag(late) /\ DOMAIN late \subseteq PrintJobs
      /\ active \subseteq Printers /\ sent \in 0..MaxPrints
  BY DialogKnown
<1>2. r \in DialogRecord /\ a \in Adapters
  BY <1>1 DEF DialogRecord, DialogSteps, Outcomes, Adapters
<1>3. DialogFits(r, a)
  BY <1>1, PrintingAssumption DEF DialogFits, DialogRecord, Outcomes, WriteFails
<1>4. Quiet(dialog[d], r)
  BY <1>1, PrintingAssumption DEF Quiet, Unprinted, Untold, Owing, Begun, DialogRecord, WriteFails
<1>5. Turn(d, r, a)
  <2>1. dialog' = [dialog EXCEPT ![d] = r] /\ link' = [link EXCEPT ![d] = a]
    BY DEF WriteFails, Settled, PrintIInv, TablesFit
  <2> QED BY <1>2, <1>3, <2>1 DEF Turn
<1>6. UNCHANGED <<late, ledger, paper>> /\ active' \subseteq Printers /\ sent' \in 0..MaxPrints
  BY <1>1 DEF WriteFails, world
<1> HIDE DEF r, a
<1> QED BY <1>1, <1>4, <1>5, <1>6, QuietTurn

\* A bag that grows, or shrinks, by one element stays a finite bag.
LEMMA BagGrows ==
  ASSUME NEW b, FiniteBag(b), NEW x
  PROVE  FiniteBag(b (+) One(x)) /\ DOMAIN (b (+) One(x)) = DOMAIN b \cup {x}
<1>1. /\ FiniteBag(b (+) One(x)) /\ DOMAIN (b (+) One(x)) = DOMAIN b \cup {x}
      /\ Count(b (+) One(x), {}) = Count(b, {}) + (IF x \in {} THEN 1 ELSE 0)
  BY CountAdded
<1> QED BY <1>1

\* The same of a bag that loses one.
LEMMA BagShrinks ==
  ASSUME NEW b, FiniteBag(b), NEW x \in DOMAIN b
  PROVE  FiniteBag(b (-) One(x)) /\ DOMAIN (b (-) One(x)) \subseteq DOMAIN b
<1>1. /\ FiniteBag(b (-) One(x)) /\ DOMAIN (b (-) One(x)) \subseteq DOMAIN b
      /\ Count(b (-) One(x), {}) = Count(b, {}) - (IF x \in {} THEN 1 ELSE 0)
  BY CountRemoved
<1> QED BY <1>1

\* The connection is made, or not.
LEMMA ConnectedHolds ==
  ASSUME PrintIInv, NEW d \in Dialogs, Connected(d)
  PROVE  PrintIInv'
<1> DEFINE r == [dialog[d] EXCEPT !.step = "open"]
<1>1. /\ dialog[d] \in DialogRecord /\ link[d] \in Adapters /\ DialogFits(dialog[d], link[d])
      /\ FiniteBag(late) /\ DOMAIN late \subseteq PrintJobs
      /\ active \subseteq Printers /\ sent \in 0..MaxPrints
  BY DialogKnown
<1>2. PICK a : /\ a \in Adapters /\ link' = [link EXCEPT ![d] = a]
               /\ a = None \/ (link[d] # None /\ a.device = link[d].device)
  <2>1. CASE link[d] # None /\ link' = [link EXCEPT ![d].up = TRUE]
    <3> DEFINE a == [link[d] EXCEPT !.up = TRUE]
    <3>1. a \in Adapters /\ link' = [link EXCEPT ![d] = a] /\ a.device = link[d].device
      BY <1>1, <2>1 DEF Adapters, PrintIInv, TablesFit
    <3> HIDE DEF a
    <3> QED BY <2>1, <3>1
  <2>2. CASE link' = [link EXCEPT ![d] = None]
    BY <2>2 DEF Adapters
  <2> QED BY <2>1, <2>2 DEF Connected
<1>3. r \in DialogRecord /\ DialogFits(r, a)
  BY <1>1, <1>2 DEF Connected, DialogFits, DialogRecord, DialogSteps
<1>4. Quiet(dialog[d], r)
  BY <1>1 DEF Quiet, Unprinted, Untold, Owing, Begun, DialogRecord, DialogFits
<1>5. Turn(d, r, a)
  BY <1>2, <1>3 DEF Turn, Connected
<1>6. UNCHANGED <<late, ledger, paper>> /\ active' \subseteq Printers /\ sent' \in 0..MaxPrints
  BY <1>1 DEF Connected, world
<1> HIDE DEF r
<1> QED BY <1>1, <1>4, <1>5, <1>6, QuietTurn

\* A press that ends in an error: the request may still be served.
LEMMA FailedHolds ==
  ASSUME PrintIInv, NEW d \in Dialogs, dialog[d].step = "starting", Failed(d),
         late' \in {late, late (+) One(dialog[d].job)}, UNCHANGED <<link, ledger, paper, active, sent>>
  PROVE  PrintIInv'
<1> DEFINE r == [dialog[d] EXCEPT !.step = "open", !.job = None, !.error = TRUE]
<1>1. /\ dialog[d] \in DialogRecord /\ link[d] \in Adapters /\ DialogFits(dialog[d], link[d])
      /\ FiniteBag(late) /\ DOMAIN late \subseteq PrintJobs
      /\ active \subseteq Printers /\ sent \in 0..MaxPrints
  BY DialogKnown
<1>2. r \in DialogRecord
  BY <1>1 DEF DialogRecord, DialogSteps
<1>3. DialogFits(r, link[d]) /\ dialog[d].job \in PrintJobs
  BY <1>1 DEF DialogFits, DialogRecord
<1>4. Quiet(dialog[d], r)
  BY <1>1, PrintingAssumption DEF Quiet, Unprinted, Untold, Owing, Begun, DialogRecord, DialogFits
<1>5. Turn(d, r, link[d])
  <2>1. dialog' = [dialog EXCEPT ![d] = r] /\ link' = [link EXCEPT ![d] = link[d]]
    BY DEF Failed, PrintIInv, TablesFit
  <2> QED BY <1>1, <1>2, <1>3, <2>1 DEF Turn
<1>6. FiniteBag(late') /\ DOMAIN late' \subseteq PrintJobs
  <2>1. CASE late' = late
    BY <1>1, <2>1
  <2>2. CASE late' = late (+) One(dialog[d].job)
    <3>1. FiniteBag(late (+) One(dialog[d].job))
      BY <1>1, BagGrows
    <3>2. DOMAIN (late (+) One(dialog[d].job)) = DOMAIN late \cup {dialog[d].job}
      BY <1>1, BagGrows
    <3> QED BY <1>1, <1>3, <2>2, <3>1, <3>2
  <2> QED BY <2>1, <2>2
<1>7. active' \subseteq Printers /\ sent' \in 0..MaxPrints
  BY <1>1
<1> HIDE DEF r
<1> QED BY <1>4, <1>5, <1>6, <1>7, QuietTurn

\* A printer is archived.
LEMMA ArchiveHolds ==
  ASSUME PrintIInv, NEW q \in Printers, Archive(q)
  PROVE  PrintIInv'
<1>1. TablesFit'
  BY DEF PrintIInv, TablesFit, Archive
<1> QED BY <1>1 DEF PrintIInv, Archive, Balanced, LaterSheetsAreMarked, RowsIn, SheetsIn, HalfSheets,
               NumberUnprinted, NumberBegun, NumberUntold, NumberOwing

-----------------------------------------------------------------------------
(* Printing: what an announcement, a sheet and a result do to the balance *)

\* The numbers after dialog d moves.
Numbers(table, new, d, j) ==
  /\ Moves(NumberUnprinted(table, j), NumberUnprinted(new, j),
           Unprinted(table[d], j), Unprinted(new[d], j))
  /\ Moves(NumberUntold(table, j), NumberUntold(new, j), Untold(table[d], j), Untold(new[d], j))
  /\ Moves(NumberOwing(table, j), NumberOwing(new, j), Owing(table[d], j), Owing(new[d], j))
  /\ \A first \in BOOLEAN :
       Moves(NumberBegun(table, j, first), NumberBegun(new, j, first),
             Begun(table[d], j, first), Begun(new[d], j, first))

\* An announced attempt is covered by its row.
LEMMA AnnouncedKeepsBalance ==
  ASSUME NEW rows, FiniteBag(rows), NEW sheets, FiniteBag(sheets), NEW table, NEW new,
         NEW d \in Dialogs, NEW j \in PrintJobs, Balanced(rows, sheets, table, j),
         \A e \in Dialogs \ {d} : new[e] = table[e],
         NEW k \in PrintJobs, table[d].job = k, new[d].job = k, table[d].outcome = None,
         new[d].outcome = None, table[d].step = "starting", new[d].step = "writing"
  PROVE  Balanced(rows (+) One(Row(k, "STARTED")), sheets, new, j)
<1> DEFINE after == rows (+) One(Row(k, "STARTED"))
<1>1. /\ RowsIn(after, j, {"STARTED"}) = RowsIn(rows, j, {"STARTED"}) + (IF k = j THEN 1 ELSE 0)
      /\ RowsIn(after, j, {"FAILED"}) = RowsIn(rows, j, {"FAILED"})
      /\ RowsIn(after, j, {"SUCCEEDED"}) = RowsIn(rows, j, {"SUCCEEDED"})
      /\ RowsIn(after, j, Outcomes) = RowsIn(rows, j, Outcomes)
  BY StartedRow
<1> HIDE DEF after
<1>2. Numbers(table, new, d, j)
  BY NumbersChange DEF Numbers
<1>3. /\ \A states : RowsIn(rows, j, states) \in Nat
      /\ \A whole : SheetsIn(sheets, j, whole) \in Nat
      /\ \A first : HalfSheets(sheets, j, first) \in Nat
  BY NumbersOfBags
<1>4. /\ ~Unprinted(table[d], j) /\ (Unprinted(new[d], j) <=> k = j)
      /\ ~Owing(table[d], j) /\ (Owing(new[d], j) <=> k = j)
      /\ ~Untold(table[d], j) /\ ~Untold(new[d], j)
      /\ \A first : ~Begun(table[d], j, first) /\ ~Begun(new[d], j, first)
  BY PrintingAssumption DEF Unprinted, Owing, Untold, Begun, Outcomes
<1>5. /\ NumberUnprinted(new, j) = NumberUnprinted(table, j) + (IF k = j THEN 1 ELSE 0)
      /\ NumberOwing(new, j) = NumberOwing(table, j) + (IF k = j THEN 1 ELSE 0)
      /\ NumberUntold(new, j) = NumberUntold(table, j)
      /\ NumberUnprinted(table, j) \in Nat /\ NumberOwing(table, j) \in Nat
      /\ NumberUntold(table, j) \in Nat
  BY <1>2, <1>4 DEF Numbers, Moves
<1>6. \A first \in BOOLEAN : NumberBegun(new, j, first) = NumberBegun(table, j, first)
  BY <1>2, <1>4 DEF Numbers, Moves
<1>7. /\ RowsIn(after, j, {"FAILED"}) + SheetsIn(sheets, j, BOOLEAN) + NumberUnprinted(new, j)
           <= RowsIn(after, j, {"STARTED"})
      /\ RowsIn(after, j, {"SUCCEEDED"}) + NumberUntold(new, j) <= SheetsIn(sheets, j, {TRUE})
      /\ RowsIn(after, j, Outcomes) + NumberOwing(new, j) <= RowsIn(after, j, {"STARTED"})
  BY <1>1, <1>3, <1>5 DEF Balanced
<1>8. \A first \in BOOLEAN : NumberBegun(new, j, first) <= HalfSheets(sheets, j, first)
  BY <1>6 DEF Balanced
<1>9. Balanced(after, sheets, new, j)
  BY <1>7, <1>8 DEF Balanced
<1> QED BY <1>9 DEF after

\* A sheet that is begun takes the place of an attempt without one.
LEMMA BegunKeepsBalance ==
  ASSUME NEW rows, FiniteBag(rows), NEW sheets, FiniteBag(sheets), NEW table, NEW new,
         NEW d \in Dialogs, NEW j \in PrintJobs, Balanced(rows, sheets, table, j),
         \A e \in Dialogs \ {d} : new[e] = table[e],
         NEW k \in PrintJobs, table[d].job = k, new[d].job = k, table[d].outcome = None,
         new[d].outcome = None, table[d].step = "writing", new[d].step = "printing",
         NEW f, f \in BOOLEAN, new[d].first = f
  PROVE  Balanced(rows, sheets (+) One(SheetFor(k, f, FALSE)), new, j)
<1> DEFINE after == sheets (+) One(SheetFor(k, f, FALSE))
<1>1. OneBegun(sheets, after, k, f, j)
  BY SheetBegun
<1> HIDE DEF after
<1>2. Numbers(table, new, d, j)
  BY NumbersChange DEF Numbers
<1>3. /\ \A states : RowsIn(rows, j, states) \in Nat
      /\ \A whole : SheetsIn(sheets, j, whole) \in Nat
      /\ \A first : HalfSheets(sheets, j, first) \in Nat
  BY NumbersOfBags
<1>4. /\ (Unprinted(table[d], j) <=> k = j) /\ ~Unprinted(new[d], j)
      /\ (Owing(table[d], j) <=> Owing(new[d], j))
      /\ ~Untold(table[d], j) /\ ~Untold(new[d], j)
      /\ \A first : ~Begun(table[d], j, first) /\ (Begun(new[d], j, first) <=> k = j /\ f = first)
  BY PrintingAssumption DEF Unprinted, Owing, Untold, Begun, Outcomes
<1>5. /\ NumberUnprinted(new, j) = NumberUnprinted(table, j) - (IF k = j THEN 1 ELSE 0)
      /\ NumberOwing(new, j) = NumberOwing(table, j)
      /\ NumberUntold(new, j) = NumberUntold(table, j)
      /\ NumberUnprinted(table, j) \in Nat /\ NumberOwing(table, j) \in Nat
      /\ NumberUntold(table, j) \in Nat
  BY <1>2, <1>4 DEF Numbers, Moves
<1>6. /\ RowsIn(rows, j, {"FAILED"}) + SheetsIn(after, j, BOOLEAN) + NumberUnprinted(new, j)
           <= RowsIn(rows, j, {"STARTED"})
      /\ RowsIn(rows, j, {"SUCCEEDED"}) + NumberUntold(new, j) <= SheetsIn(after, j, {TRUE})
      /\ RowsIn(rows, j, Outcomes) + NumberOwing(new, j) <= RowsIn(rows, j, {"STARTED"})
  BY <1>1, <1>3, <1>5 DEF Balanced, OneBegun
<1>7. ASSUME NEW first \in BOOLEAN
      PROVE  NumberBegun(new, j, first) <= HalfSheets(after, j, first)
  <2>1. /\ NumberBegun(table, j, first) \in Nat
        /\ k = j /\ f = first => NumberBegun(new, j, first) = NumberBegun(table, j, first) + 1
        /\ ~(k = j /\ f = first) => NumberBegun(new, j, first) = NumberBegun(table, j, first)
    BY <1>2, <1>4 DEF Numbers, Moves
  <2>2. NumberBegun(table, j, first) <= HalfSheets(sheets, j, first)
    BY DEF Balanced
  <2>3. HalfSheets(sheets, j, first) \in Nat
    BY <1>3
  <2>4. HalfSheets(after, j, first)
          = HalfSheets(sheets, j, first) + (IF k = j /\ f = first THEN 1 ELSE 0)
    BY <1>1 DEF OneBegun
  <2> QED BY <2>1, <2>2, <2>3, <2>4
<1>8. Balanced(rows, after, new, j)
  BY <1>6, <1>7 DEF Balanced
<1> QED BY <1>8 DEF after

\* A sheet that is being printed is there.
LEMMA HalfSheetIsThere ==
  ASSUME NEW rows, NEW sheets, FiniteBag(sheets), NEW table,
         NEW d \in Dialogs, NEW k \in PrintJobs, Balanced(rows, sheets, table, k),
         table[d].job = k, table[d].step = "printing",
         NEW f, f \in BOOLEAN, table[d].first = f
  PROVE  SheetFor(k, f, FALSE) \in DOMAIN sheets
<1> DEFINE A == {e \in Dialogs : Begun(table[e], k, f)}
           x == SheetFor(k, f, FALSE)
<1>1. d \in A /\ A \in SUBSET Dialogs
  BY DEF Begun
<1>2. NumberBegun(table, k, f) = Cardinality(A) /\ HalfSheets(sheets, k, f) = Count(sheets, {x})
  BY DEF NumberBegun, HalfSheets
<1>3. NumberBegun(table, k, f) <= HalfSheets(sheets, k, f)
  BY DEF Balanced
<1> HIDE DEF A, x
<1>4. Cardinality(A) \in Nat /\ Cardinality(A) # 0
  BY <1>1, PrintingAssumption, FS_Subset, FS_CardinalityType, FS_EmptySet
<1>5. Count(sheets, {x}) \in Nat
  BY CountsAreNatural
<1>6. Count(sheets, {x}) >= 1
  BY <1>2, <1>3, <1>4, <1>5
<1>7. DOMAIN sheets \cap {x} # {}
  BY <1>6, CountOfPresent
<1> QED BY <1>7 DEF x

\* A sheet that becomes whole is one that the server may be told of.
LEMMA CompletedKeepsBalance ==
  ASSUME NEW rows, FiniteBag(rows), NEW sheets, FiniteBag(sheets), NEW table, NEW new,
         NEW d \in Dialogs, NEW j \in PrintJobs, Balanced(rows, sheets, table, j),
         \A e \in Dialogs \ {d} : new[e] = table[e],
         NEW k \in PrintJobs, table[d].job = k, new[d].job = k, table[d].outcome = None,
         new[d].outcome = "SUCCEEDED", table[d].step = "printing", new[d].step = "saving",
         ~new[d].recorded, NEW f, f \in BOOLEAN, table[d].first = f,
         SheetFor(k, f, FALSE) \in DOMAIN sheets
  PROVE  Balanced(rows, (sheets (-) One(SheetFor(k, f, FALSE))) (+) One(SheetFor(k, f, TRUE)),
                  new, j)
<1> DEFINE after == (sheets (-) One(SheetFor(k, f, FALSE))) (+) One(SheetFor(k, f, TRUE))
<1>1. OneCompleted(sheets, after, k, f, j)
  BY SheetCompleted
<1> HIDE DEF after
<1>2. Numbers(table, new, d, j)
  BY NumbersChange DEF Numbers
<1>3. /\ \A states : RowsIn(rows, j, states) \in Nat
      /\ \A whole : SheetsIn(sheets, j, whole) \in Nat
      /\ \A first : HalfSheets(sheets, j, first) \in Nat
  BY NumbersOfBags
<1>4. /\ ~Unprinted(table[d], j) /\ ~Unprinted(new[d], j)
      /\ (Owing(table[d], j) <=> Owing(new[d], j))
      /\ ~Untold(table[d], j) /\ (Untold(new[d], j) <=> k = j)
      /\ \A first : (Begun(table[d], j, first) <=> k = j /\ f = first) /\ ~Begun(new[d], j, first)
  BY PrintingAssumption DEF Unprinted, Owing, Untold, Begun, Outcomes
<1>5. /\ NumberUnprinted(new, j) = NumberUnprinted(table, j)
      /\ NumberOwing(new, j) = NumberOwing(table, j)
      /\ NumberUntold(new, j) = NumberUntold(table, j) + (IF k = j THEN 1 ELSE 0)
      /\ NumberUnprinted(table, j) \in Nat /\ NumberOwing(table, j) \in Nat
      /\ NumberUntold(table, j) \in Nat
  BY <1>2, <1>4 DEF Numbers, Moves
<1>6. /\ RowsIn(rows, j, {"FAILED"}) + SheetsIn(after, j, BOOLEAN) + NumberUnprinted(new, j)
           <= RowsIn(rows, j, {"STARTED"})
      /\ RowsIn(rows, j, {"SUCCEEDED"}) + NumberUntold(new, j) <= SheetsIn(after, j, {TRUE})
      /\ RowsIn(rows, j, Outcomes) + NumberOwing(new, j) <= RowsIn(rows, j, {"STARTED"})
  BY <1>1, <1>3, <1>5 DEF Balanced, OneCompleted
<1>7. ASSUME NEW first \in BOOLEAN
      PROVE  NumberBegun(new, j, first) <= HalfSheets(after, j, first)
  <2>1. /\ NumberBegun(table, j, first) \in Nat
        /\ k = j /\ f = first => NumberBegun(new, j, first) = NumberBegun(table, j, first) - 1
        /\ ~(k = j /\ f = first) => NumberBegun(new, j, first) = NumberBegun(table, j, first)
    BY <1>2, <1>4 DEF Numbers, Moves
  <2>2. NumberBegun(table, j, first) <= HalfSheets(sheets, j, first)
    BY DEF Balanced
  <2>3. HalfSheets(sheets, j, first) \in Nat
    BY <1>3
  <2>4. HalfSheets(after, j, first)
          = HalfSheets(sheets, j, first) - (IF k = j /\ f = first THEN 1 ELSE 0)
    BY <1>1 DEF OneCompleted
  <2> QED BY <2>1, <2>2, <2>3, <2>4
<1>8. Balanced(rows, after, new, j)
  BY <1>6, <1>7 DEF Balanced
<1> QED BY <1>8 DEF after

\* A result that is recorded is not owed any more.
LEMMA ResultKeepsBalance ==
  ASSUME NEW rows, FiniteBag(rows), NEW sheets, FiniteBag(sheets), NEW table, NEW new,
         NEW d \in Dialogs, NEW j \in PrintJobs, Balanced(rows, sheets, table, j),
         \A e \in Dialogs \ {d} : new[e] = table[e],
         NEW k \in PrintJobs, table[d].job = k, NEW outcome \in Outcomes,
         table[d].outcome = outcome, ~table[d].recorded, table[d].step = "saving",
         new[d].step \notin {"writing", "printing"}, new[d].outcome = None \/ new[d].recorded
  PROVE  Balanced(rows (+) One(Row(k, outcome)), sheets, new, j)
<1> DEFINE after == rows (+) One(Row(k, outcome))
<1>1. /\ \A states : RowsIn(rows, j, states) \in Nat
      /\ \A whole : SheetsIn(sheets, j, whole) \in Nat
      /\ \A first : HalfSheets(sheets, j, first) \in Nat
  BY NumbersOfBags
<1>2. \A states :
        RowsIn(after, j, states)
          = RowsIn(rows, j, states) + (IF k = j /\ outcome \in states THEN 1 ELSE 0)
  BY RowAdded
<1> HIDE DEF after
<1>3. /\ RowsIn(after, j, {"STARTED"}) = RowsIn(rows, j, {"STARTED"})
      /\ RowsIn(after, j, {"FAILED"})
           = RowsIn(rows, j, {"FAILED"}) + (IF k = j /\ outcome = "FAILED" THEN 1 ELSE 0)
      /\ RowsIn(after, j, {"SUCCEEDED"})
           = RowsIn(rows, j, {"SUCCEEDED"}) + (IF k = j /\ outcome = "SUCCEEDED" THEN 1 ELSE 0)
      /\ RowsIn(after, j, Outcomes) = RowsIn(rows, j, Outcomes) + (IF k = j THEN 1 ELSE 0)
  BY <1>1, <1>2 DEF Outcomes
<1>4. Numbers(table, new, d, j)
  BY NumbersChange DEF Numbers
<1>5. /\ (Unprinted(table[d], j) <=> k = j /\ outcome = "FAILED") /\ ~Unprinted(new[d], j)
      /\ (Owing(table[d], j) <=> k = j) /\ ~Owing(new[d], j)
      /\ (Untold(table[d], j) <=> k = j /\ outcome = "SUCCEEDED") /\ ~Untold(new[d], j)
      /\ \A first : ~Begun(table[d], j, first) /\ ~Begun(new[d], j, first)
  BY PrintingAssumption DEF Unprinted, Owing, Untold, Begun, Outcomes
<1>6. /\ NumberUnprinted(new, j)
           = NumberUnprinted(table, j) - (IF k = j /\ outcome = "FAILED" THEN 1 ELSE 0)
      /\ NumberOwing(new, j) = NumberOwing(table, j) - (IF k = j THEN 1 ELSE 0)
      /\ NumberUntold(new, j)
           = NumberUntold(table, j) - (IF k = j /\ outcome = "SUCCEEDED" THEN 1 ELSE 0)
      /\ NumberUnprinted(table, j) \in Nat /\ NumberOwing(table, j) \in Nat
      /\ NumberUntold(table, j) \in Nat
  BY <1>4, <1>5 DEF Numbers, Moves
<1>7. \A first \in BOOLEAN : NumberBegun(new, j, first) = NumberBegun(table, j, first)
  BY <1>4, <1>5 DEF Numbers, Moves
<1>8. RowsIn(after, j, {"FAILED"}) + SheetsIn(sheets, j, BOOLEAN) + NumberUnprinted(new, j)
        <= RowsIn(after, j, {"STARTED"})
  BY <1>1, <1>3, <1>6 DEF Balanced
<1>9. RowsIn(after, j, {"SUCCEEDED"}) + NumberUntold(new, j) <= SheetsIn(sheets, j, {TRUE})
  BY <1>1, <1>3, <1>6 DEF Balanced
<1>10. RowsIn(after, j, Outcomes) + NumberOwing(new, j) <= RowsIn(after, j, {"STARTED"})
  BY <1>1, <1>3, <1>6 DEF Balanced
<1>11. \A first \in BOOLEAN : NumberBegun(new, j, first) <= HalfSheets(sheets, j, first)
  BY <1>7 DEF Balanced
<1>12. Balanced(after, sheets, new, j)
  BY <1>8, <1>9, <1>10, <1>11 DEF Balanced
<1> QED BY <1>12 DEF after

-----------------------------------------------------------------------------
(* Printing: the steps that announce, print and record *)

\* The request is served, or refused.
LEMMA StartHolds ==
  ASSUME PrintIInv, NEW d \in Dialogs, Start(d)
  PROVE  PrintIInv'
<1>1. CASE Failed(d) /\ UNCHANGED ledger
  <2>1. /\ dialog[d].step = "starting" /\ late' \in {late, late (+) One(dialog[d].job)}
        /\ UNCHANGED <<link, ledger, paper, active, sent>>
    BY <1>1 DEF Start
  <2> QED BY <1>1, <2>1, FailedHolds
<1>2. CASE /\ dialog[d].job.printer \in active
           /\ ledger' = ledger (+) One(Row(dialog[d].job, "STARTED"))
           /\ dialog' = [dialog EXCEPT ![d].step = "writing"]
  <2> DEFINE r == [dialog[d] EXCEPT !.step = "writing"]
             k == dialog[d].job
  <2>1. /\ dialog[d] \in DialogRecord /\ link[d] \in Adapters /\ DialogFits(dialog[d], link[d])
        /\ FiniteBag(late) /\ DOMAIN late \subseteq PrintJobs
        /\ active \subseteq Printers /\ sent \in 0..MaxPrints
    BY DialogKnown
  <2>2. TablesFit /\ FiniteBag(ledger) /\ FiniteBag(paper) /\ DOMAIN ledger \subseteq Rows
    BY DEF PrintIInv, TablesFit
  <2>3. dialog[d].step = "starting" /\ UNCHANGED <<link, late, paper, active, sent>>
    BY DEF Start
  <2>4. k \in PrintJobs /\ dialog[d].outcome = None
    BY <2>1, <2>3 DEF DialogFits, DialogRecord
  <2>5. /\ r \in DialogRecord /\ DialogFits(r, link[d])
        /\ r.job = k /\ r.outcome = None /\ r.step = "writing"
    BY <2>1, <2>3, <2>4 DEF DialogRecord, DialogSteps, DialogFits
  <2>6. Turn(d, r, link[d])
    <3>1. dialog' = [dialog EXCEPT ![d] = r] /\ link' = [link EXCEPT ![d] = link[d]]
      BY <1>2, <2>2, <2>3 DEF TablesFit
    <3> QED BY <2>1, <2>5, <3>1 DEF Turn
  <2>7. FiniteBag(ledger') /\ DOMAIN ledger' \subseteq Rows
    <3>1. Row(k, "STARTED") \in Rows
      BY <2>4 DEF Row, Rows, PrintJobs
    <3>2. /\ FiniteBag(ledger (+) One(Row(k, "STARTED")))
          /\ DOMAIN (ledger (+) One(Row(k, "STARTED"))) = DOMAIN ledger \cup {Row(k, "STARTED")}
      BY <2>2, BagGrows
    <3> QED BY <1>2, <2>2, <3>1, <3>2
  <2> HIDE DEF r, k
  <2>8. TablesFit' /\ dialog'[d] = r /\ \A e \in Dialogs \ {d} : dialog'[e] = dialog[e]
    <3>1. /\ FiniteBag(late') /\ DOMAIN late' \subseteq PrintJobs
          /\ FiniteBag(paper') /\ DOMAIN paper' \subseteq Sheets
          /\ active' \subseteq Printers /\ sent' \in 0..MaxPrints
      BY <2>1, <2>2, <2>3 DEF TablesFit
    <3> QED BY <2>2, <2>6, <2>7, <3>1, TurnFits
  <2>9. ASSUME NEW j \in PrintJobs PROVE Balanced(ledger', paper', dialog', j)
    <3>1. PICK new : new = dialog'
      OBVIOUS
    <3>2. Balanced(ledger, paper, dialog, j)
      BY DEF PrintIInv
    <3>3. /\ \A e \in Dialogs \ {d} : new[e] = dialog[e]
          /\ new[d].job = k /\ new[d].outcome = None /\ new[d].step = "writing"
      BY <2>5, <2>8, <3>1
    <3>4. dialog[d].job = k
      BY DEF k
    <3>5. Balanced(ledger (+) One(Row(k, "STARTED")), paper, new, j)
      BY <2>2, <2>3, <2>4, <3>2, <3>3, <3>4, AnnouncedKeepsBalance
    <3>6. ledger' = ledger (+) One(Row(k, "STARTED")) /\ paper' = paper
      BY <1>2, <2>3 DEF k
    <3> QED BY <3>1, <3>5, <3>6
  <2>10. LaterSheetsAreMarked'
    BY <2>3 DEF PrintIInv, LaterSheetsAreMarked
  <2> QED BY <2>8, <2>9, <2>10 DEF PrintIInv
<1> QED BY <1>1, <1>2 DEF Start

\* A request nobody waits for.
LEMMA ServeLateHolds ==
  ASSUME PrintIInv, NEW k \in PrintJobs, ServeLate(k)
  PROVE  PrintIInv'
<1>1. /\ FiniteBag(late) /\ FiniteBag(ledger) /\ FiniteBag(paper)
      /\ DOMAIN late \subseteq PrintJobs /\ DOMAIN ledger \subseteq Rows
  BY DEF PrintIInv, TablesFit
<1>2. FiniteBag(late') /\ DOMAIN late' \subseteq PrintJobs
  <2>1. FiniteBag(late (-) One(k)) /\ DOMAIN (late (-) One(k)) \subseteq DOMAIN late
    BY <1>1, BagShrinks DEF ServeLate
  <2> QED BY <1>1, <2>1 DEF ServeLate
<1>3. UNCHANGED <<dialog, link, paper, active, sent>>
  BY DEF ServeLate
<1>4. CASE ledger' = ledger (+) One(Row(k, "STARTED"))
  <2>1. Row(k, "STARTED") \in Rows
    BY DEF Row, Rows, PrintJobs
  <2>2. /\ FiniteBag(ledger (+) One(Row(k, "STARTED")))
        /\ DOMAIN (ledger (+) One(Row(k, "STARTED"))) = DOMAIN ledger \cup {Row(k, "STARTED")}
    BY <1>1, BagGrows
  <2>3. FiniteBag(ledger') /\ DOMAIN ledger' \subseteq Rows
    BY <1>1, <1>4, <2>1, <2>2
  <2>4. TablesFit'
    BY <1>2, <1>3, <2>3 DEF PrintIInv, TablesFit
  <2>5. ASSUME NEW j \in PrintJobs PROVE Balanced(ledger', paper', dialog', j)
    <3>1. Balanced(ledger, paper, dialog, j)
      BY DEF PrintIInv
    <3>2. Balanced(ledger (+) One(Row(k, "STARTED")), paper, dialog, j)
      BY <1>1, <3>1, StartedKeepsBalance
    <3> QED BY <1>3, <1>4, <3>2
  <2> QED BY <1>3, <2>4, <2>5 DEF PrintIInv, LaterSheetsAreMarked
<1>5. CASE UNCHANGED ledger
  <2>1. TablesFit'
    BY <1>2, <1>3, <1>5 DEF PrintIInv, TablesFit
  <2>2. ASSUME NEW j \in PrintJobs PROVE Balanced(ledger', paper', dialog', j)
    BY <1>3, <1>5 DEF PrintIInv
  <2> QED BY <1>3, <2>1, <2>2 DEF PrintIInv, LaterSheetsAreMarked
<1> QED BY <1>4, <1>5 DEF ServeLate

\* What a step on the paper leaves, when the paper stays a bag of marked sheets.
LEMMA PaperStep ==
  ASSUME PrintIInv, NEW d \in Dialogs, NEW r, Turn(d, r, link[d]),
         FiniteBag(paper'), DOMAIN paper' \subseteq Sheets, LaterSheetsAreMarked',
         UNCHANGED <<late, ledger, active, sent>>,
         ASSUME NEW j \in PrintJobs, NEW new, new[d] = r,
                \A e \in Dialogs \ {d} : new[e] = dialog[e]
         PROVE  Balanced(ledger, paper', new, j)
  PROVE  PrintIInv'
<1>1. TablesFit' /\ dialog'[d] = r /\ \A e \in Dialogs \ {d} : dialog'[e] = dialog[e]
  <2>1. /\ TablesFit /\ FiniteBag(late') /\ DOMAIN late' \subseteq PrintJobs
        /\ FiniteBag(ledger') /\ DOMAIN ledger' \subseteq Rows
        /\ active' \subseteq Printers /\ sent' \in 0..MaxPrints
    BY DEF PrintIInv, TablesFit
  <2> QED BY <2>1, TurnFits
<1>2. ASSUME NEW j \in PrintJobs PROVE Balanced(ledger', paper', dialog', j)
  <2>1. PICK new : new = dialog'
    OBVIOUS
  <2>2. Balanced(ledger, paper', new, j)
    BY <1>1, <2>1
  <2> QED BY <2>1, <2>2
<1> QED BY <1>1, <1>2 DEF PrintIInv

\* A first chunk.
LEMMA FirstChunkHolds ==
  ASSUME PrintIInv, NEW d \in Dialogs, FirstChunk(d)
  PROVE  PrintIInv'
<1> DEFINE r == [dialog[d] EXCEPT !.step = "printing"]
           k == dialog[d].job
           f == dialog[d].first
<1>1. /\ dialog[d] \in DialogRecord /\ link[d] \in Adapters /\ DialogFits(dialog[d], link[d])
  BY DialogKnown
<1>2. FiniteBag(ledger) /\ FiniteBag(paper) /\ DOMAIN paper \subseteq Sheets /\ LaterSheetsAreMarked
  BY DEF PrintIInv, TablesFit
<1>3. /\ dialog[d].step = "writing" /\ link[d] # None
      /\ paper' = paper (+) One(SheetOf(d, FALSE))
      /\ dialog' = [dialog EXCEPT ![d].step = "printing"]
      /\ UNCHANGED <<link, late, ledger, active, sent>>
  BY DEF FirstChunk, IsOn
<1>4. /\ k \in PrintJobs /\ dialog[d].outcome = None /\ f \in BOOLEAN
      /\ link[d].device = k.printer /\ (f \/ k.mode = "REPRINT")
  BY <1>1, <1>3 DEF DialogFits, DialogRecord
<1>5. SheetOf(d, FALSE) = SheetFor(k, f, FALSE)
  BY <1>4 DEF SheetOf, SheetFor
<1>6. /\ r \in DialogRecord /\ DialogFits(r, link[d])
      /\ r.job = k /\ r.outcome = None /\ r.step = "printing" /\ r.first = f
  BY <1>1, <1>3, <1>4 DEF DialogRecord, DialogSteps, DialogFits
<1>7. Turn(d, r, link[d])
  <2>1. dialog' = [dialog EXCEPT ![d] = r] /\ link' = [link EXCEPT ![d] = link[d]]
    BY <1>3 DEF PrintIInv, TablesFit
  <2> QED BY <1>1, <1>6, <2>1 DEF Turn
<1>8. /\ SheetFor(k, f, FALSE) \in Sheets
      /\ SheetFor(k, f, FALSE).first \/ SheetFor(k, f, FALSE).mode = "REPRINT"
  BY <1>4 DEF SheetFor, Sheets, PrintJobs
<1>9. dialog[d].job = k /\ dialog[d].first = f
  OBVIOUS
<1> HIDE DEF r, k, f
<1>10. /\ FiniteBag(paper (+) One(SheetFor(k, f, FALSE)))
       /\ DOMAIN (paper (+) One(SheetFor(k, f, FALSE))) = DOMAIN paper \cup {SheetFor(k, f, FALSE)}
  BY <1>2, BagGrows
<1>11. paper' = paper (+) One(SheetFor(k, f, FALSE))
  BY <1>3, <1>5
<1>12. FiniteBag(paper') /\ DOMAIN paper' \subseteq Sheets /\ LaterSheetsAreMarked'
  BY <1>2, <1>8, <1>10, <1>11 DEF LaterSheetsAreMarked
<1>13. ASSUME NEW j \in PrintJobs, NEW new, new[d] = r,
              \A e \in Dialogs \ {d} : new[e] = dialog[e]
       PROVE  Balanced(ledger, paper', new, j)
  <2>1. Balanced(ledger, paper, dialog, j)
    BY DEF PrintIInv
  <2>2. new[d].job = k /\ new[d].outcome = None /\ new[d].step = "printing" /\ new[d].first = f
    BY <1>6, <1>13
  <2>3. Balanced(ledger, paper (+) One(SheetFor(k, f, FALSE)), new, j)
    BY <1>2, <1>3, <1>4, <1>9, <1>13, <2>1, <2>2, BegunKeepsBalance
  <2> QED BY <1>11, <2>3
<1> QED BY <1>3, <1>7, <1>12, <1>13, PaperStep

\* A last chunk.
LEMMA LastChunkHolds ==
  ASSUME PrintIInv, NEW d \in Dialogs, LastChunk(d)
  PROVE  PrintIInv'
<1> DEFINE r == [dialog[d] EXCEPT !.step = "saving", !.outcome = "SUCCEEDED", !.confirm = FALSE]
           k == dialog[d].job
           f == dialog[d].first
<1>1. /\ dialog[d] \in DialogRecord /\ link[d] \in Adapters /\ DialogFits(dialog[d], link[d])
  BY DialogKnown
<1>2. FiniteBag(ledger) /\ FiniteBag(paper) /\ DOMAIN paper \subseteq Sheets /\ LaterSheetsAreMarked
  BY DEF PrintIInv, TablesFit
<1>3. /\ dialog[d].step = "printing" /\ link[d] # None
      /\ paper' = (paper (-) One(SheetOf(d, FALSE))) (+) One(SheetOf(d, TRUE))
      /\ Settled(d, "SUCCEEDED")
      /\ UNCHANGED <<link, late, ledger, active, sent>>
  BY DEF LastChunk, IsOn
<1>4. /\ k \in PrintJobs /\ dialog[d].outcome = None /\ f \in BOOLEAN /\ ~dialog[d].recorded
      /\ link[d].device = k.printer /\ (f \/ k.mode = "REPRINT")
  BY <1>1, <1>3 DEF DialogFits, DialogRecord
<1>5. SheetOf(d, FALSE) = SheetFor(k, f, FALSE) /\ SheetOf(d, TRUE) = SheetFor(k, f, TRUE)
  BY <1>4 DEF SheetOf, SheetFor
<1>6. /\ r \in DialogRecord /\ DialogFits(r, link[d])
      /\ r.job = k /\ r.outcome = "SUCCEEDED" /\ r.step = "saving" /\ ~r.recorded
  BY <1>1, <1>3, <1>4, PrintingAssumption DEF DialogRecord, DialogSteps, DialogFits, Outcomes
<1>7. Turn(d, r, link[d])
  <2>1. dialog' = [dialog EXCEPT ![d] = r] /\ link' = [link EXCEPT ![d] = link[d]]
    BY <1>3 DEF Settled, PrintIInv, TablesFit
  <2> QED BY <1>1, <1>6, <2>1 DEF Turn
<1>8. /\ SheetFor(k, f, TRUE) \in Sheets
      /\ SheetFor(k, f, TRUE).first \/ SheetFor(k, f, TRUE).mode = "REPRINT"
  BY <1>4 DEF SheetFor, Sheets, PrintJobs
<1>9. dialog[d].job = k /\ dialog[d].first = f
  OBVIOUS
<1> HIDE DEF r, k, f
<1>10. SheetFor(k, f, FALSE) \in DOMAIN paper
  <2>1. Balanced(ledger, paper, dialog, k)
    BY <1>4 DEF PrintIInv
  <2> QED BY <1>2, <1>3, <1>4, <1>9, <2>1, HalfSheetIsThere
<1> DEFINE rest == paper (-) One(SheetFor(k, f, FALSE))
<1>11. FiniteBag(rest) /\ DOMAIN rest \subseteq DOMAIN paper
  BY <1>2, <1>10, BagShrinks
<1>12. paper' = rest (+) One(SheetFor(k, f, TRUE))
  BY <1>3, <1>5
<1>13. FiniteBag(paper') /\ DOMAIN paper' \subseteq Sheets /\ LaterSheetsAreMarked'
  <2> HIDE DEF rest
  <2>1. /\ FiniteBag(rest (+) One(SheetFor(k, f, TRUE)))
        /\ DOMAIN (rest (+) One(SheetFor(k, f, TRUE))) = DOMAIN rest \cup {SheetFor(k, f, TRUE)}
    BY <1>11, BagGrows
  <2> QED BY <1>2, <1>8, <1>11, <1>12, <2>1 DEF LaterSheetsAreMarked
<1>14. ASSUME NEW j \in PrintJobs, NEW new, new[d] = r,
              \A e \in Dialogs \ {d} : new[e] = dialog[e]
       PROVE  Balanced(ledger, paper', new, j)
  <2>1. Balanced(ledger, paper, dialog, j)
    BY DEF PrintIInv
  <2>2. new[d].job = k /\ new[d].outcome = "SUCCEEDED" /\ new[d].step = "saving" /\ ~new[d].recorded
    BY <1>6, <1>14
  <2>3. Balanced(ledger, rest (+) One(SheetFor(k, f, TRUE)), new, j)
    BY <1>2, <1>3, <1>4, <1>9, <1>10, <1>14, <2>1, <2>2, CompletedKeepsBalance
  <2> QED BY <1>12, <2>3
<1> QED BY <1>3, <1>7, <1>13, <1>14, PaperStep

\* A result is recorded: dialog d becomes r, which owes no result any more.
LEMMA RecordingHolds ==
  ASSUME PrintIInv, NEW d \in Dialogs, NEW r, NEW a, Turn(d, r, a),
         dialog[d].step = "saving", r.step \in {"closed", "open"}, r.outcome = None \/ r.recorded,
         ledger' = Recorded(d), FiniteBag(late'), DOMAIN late' \subseteq PrintJobs,
         UNCHANGED <<paper, active, sent>>
  PROVE  PrintIInv'
<1> DEFINE k == dialog[d].job
           o == dialog[d].outcome
<1>1. /\ dialog[d] \in DialogRecord /\ DialogFits(dialog[d], link[d])
      /\ active \subseteq Printers /\ sent \in 0..MaxPrints
  BY DialogKnown
<1>2. k \in PrintJobs /\ o \in Outcomes
  BY <1>1 DEF DialogFits, DialogRecord
<1>3. CASE dialog[d].recorded
  <2>1. UNCHANGED <<ledger, paper>>
    BY <1>3 DEF Recorded
  <2>2. Quiet(dialog[d], r)
    BY <1>3, PrintingAssumption DEF Quiet, Unprinted, Untold, Owing, Begun, Outcomes
  <2> QED BY <1>1, <2>1, <2>2, QuietTurn
<1>4. CASE ~dialog[d].recorded
  <2>1. TablesFit /\ FiniteBag(ledger) /\ FiniteBag(paper) /\ DOMAIN ledger \subseteq Rows
    BY DEF PrintIInv, TablesFit
  <2>2. ledger' = ledger (+) One(Row(k, o))
    BY <1>4 DEF Recorded
  <2>3. dialog[d].job = k /\ dialog[d].outcome = o
    OBVIOUS
  <2> HIDE DEF k, o
  <2>4. FiniteBag(ledger') /\ DOMAIN ledger' \subseteq Rows
    <3>1. Row(k, o) \in Rows
      BY <1>2 DEF Row, Rows, PrintJobs
    <3>2. /\ FiniteBag(ledger (+) One(Row(k, o)))
          /\ DOMAIN (ledger (+) One(Row(k, o))) = DOMAIN ledger \cup {Row(k, o)}
      BY <2>1, BagGrows
    <3> QED BY <2>1, <2>2, <3>1, <3>2
  <2>5. TablesFit' /\ dialog'[d] = r /\ \A e \in Dialogs \ {d} : dialog'[e] = dialog[e]
    <3>1. /\ FiniteBag(paper') /\ DOMAIN paper' \subseteq Sheets
          /\ active' \subseteq Printers /\ sent' \in 0..MaxPrints
      BY <1>1, <2>1 DEF TablesFit
    <3> QED BY <2>1, <2>4, <3>1, TurnFits
  <2>6. ASSUME NEW j \in PrintJobs PROVE Balanced(ledger', paper', dialog', j)
    <3>1. PICK new : new = dialog'
      OBVIOUS
    <3>2. Balanced(ledger, paper, dialog, j)
      BY DEF PrintIInv
    <3>3. /\ \A e \in Dialogs \ {d} : new[e] = dialog[e]
          /\ new[d].step \notin {"writing", "printing"} /\ (new[d].outcome = None \/ new[d].recorded)
      BY <2>5, <3>1
    <3>4. Balanced(ledger (+) One(Row(k, o)), paper, new, j)
      BY <1>2, <1>4, <2>1, <2>3, <3>2, <3>3, ResultKeepsBalance
    <3> QED BY <2>2, <3>1, <3>4
  <2>7. LaterSheetsAreMarked'
    BY DEF PrintIInv, LaterSheetsAreMarked
  <2> QED BY <2>5, <2>6, <2>7 DEF PrintIInv
<1> QED BY <1>3, <1>4

\* The result is saved, or refused.
LEMMA SaveHolds ==
  ASSUME PrintIInv, NEW d \in Dialogs, Save(d)
  PROVE  PrintIInv'
<1>1. /\ dialog[d] \in DialogRecord /\ link[d] \in Adapters /\ DialogFits(dialog[d], link[d])
      /\ FiniteBag(late) /\ DOMAIN late \subseteq PrintJobs
      /\ active \subseteq Printers /\ sent \in 0..MaxPrints
  BY DialogKnown
<1>2. dialog[d].step = "saving" /\ UNCHANGED <<link, late, paper, active, sent>>
  BY DEF Save
<1>3. link' = [link EXCEPT ![d] = link[d]]
  BY <1>2 DEF PrintIInv, TablesFit
<1>4. CASE MayRecord(d)
  <2> DEFINE r == [dialog[d] EXCEPT !.step = "open", !.job = None, !.outcome = None,
                                    !.recorded = FALSE]
  <2>1. /\ r \in DialogRecord /\ DialogFits(r, link[d])
        /\ r.step = "open" /\ r.outcome = None
    BY <1>1, <1>2 DEF DialogRecord, DialogSteps, DialogFits
  <2>2. dialog' = [dialog EXCEPT ![d] = r] /\ ledger' = Recorded(d)
    BY <1>4 DEF Save
  <2>3. Turn(d, r, link[d])
    BY <1>1, <1>3, <2>1, <2>2 DEF Turn
  <2> HIDE DEF r
  <2> QED BY <1>1, <1>2, <2>1, <2>2, <2>3, RecordingHolds
<1>5. CASE ~MayRecord(d)
  <2> DEFINE r == [dialog[d] EXCEPT !.step = "open", !.error = TRUE]
  <2>1. r \in DialogRecord /\ DialogFits(r, link[d])
    BY <1>1, <1>2 DEF DialogRecord, DialogSteps, DialogFits
  <2>2. dialog' = [dialog EXCEPT ![d] = r] /\ UNCHANGED ledger
    BY <1>5 DEF Save
  <2>3. Turn(d, r, link[d])
    BY <1>1, <1>3, <2>1, <2>2 DEF Turn
  <2>4. Quiet(dialog[d], r)
    BY <1>1, <1>2 DEF Quiet, Unprinted, Untold, Owing, Begun, DialogRecord
  <2> HIDE DEF r
  <2> QED BY <1>1, <1>2, <2>2, <2>3, <2>4, QuietTurn
<1> QED BY <1>4, <1>5

\* The result is sent and its answer lost.
LEMMA LostSaveHolds ==
  ASSUME PrintIInv, NEW d \in Dialogs, LostSave(d)
  PROVE  PrintIInv'
<1>1. /\ dialog[d] \in DialogRecord /\ link[d] \in Adapters /\ DialogFits(dialog[d], link[d])
      /\ FiniteBag(late) /\ DOMAIN late \subseteq PrintJobs
      /\ active \subseteq Printers /\ sent \in 0..MaxPrints
  BY DialogKnown
<1>2. dialog[d].step = "saving" /\ UNCHANGED <<link, late, paper, active, sent>>
  BY DEF LostSave
<1>3. link' = [link EXCEPT ![d] = link[d]]
  BY <1>2 DEF PrintIInv, TablesFit
<1>4. PICK served \in {FALSE} \cup {MayRecord(d)} :
        /\ dialog' = [dialog EXCEPT ![d].step = "open", ![d].error = TRUE,
                                    ![d].recorded = dialog[d].recorded \/ served]
        /\ ledger' = IF served THEN Recorded(d) ELSE ledger
  BY DEF LostSave
<1>5. CASE served
  <2> DEFINE r == [dialog[d] EXCEPT !.step = "open", !.error = TRUE, !.recorded = TRUE]
  <2>1. /\ r \in DialogRecord /\ DialogFits(r, link[d])
        /\ r.step = "open" /\ r.recorded
    BY <1>1, <1>2 DEF DialogRecord, DialogSteps, DialogFits
  <2>2. dialog' = [dialog EXCEPT ![d] = r] /\ ledger' = Recorded(d)
    BY <1>1, <1>4, <1>5 DEF DialogRecord
  <2>3. Turn(d, r, link[d])
    BY <1>1, <1>3, <2>1, <2>2 DEF Turn
  <2> HIDE DEF r
  <2> QED BY <1>1, <1>2, <2>1, <2>2, <2>3, RecordingHolds
<1>6. CASE ~served
  <2> DEFINE r == [dialog[d] EXCEPT !.step = "open", !.error = TRUE]
  <2>1. r \in DialogRecord /\ DialogFits(r, link[d])
    BY <1>1, <1>2 DEF DialogRecord, DialogSteps, DialogFits
  <2>2. dialog' = [dialog EXCEPT ![d] = r] /\ UNCHANGED ledger
    BY <1>1, <1>4, <1>6 DEF DialogRecord
  <2>3. Turn(d, r, link[d])
    BY <1>1, <1>3, <2>1, <2>2 DEF Turn
  <2>4. Quiet(dialog[d], r)
    BY <1>1, <1>2 DEF Quiet, Unprinted, Untold, Owing, Begun, DialogRecord
  <2> HIDE DEF r
  <2> QED BY <1>1, <1>2, <2>2, <2>3, <2>4, QuietTurn
<1> QED BY <1>5, <1>6

\* The dialog goes.
LEMMA LeaveDialogHolds ==
  ASSUME PrintIInv, NEW d \in Dialogs, LeaveDialog(d)
  PROVE  PrintIInv'
<1>1. /\ dialog[d] \in DialogRecord /\ DialogFits(dialog[d], link[d])
      /\ FiniteBag(late) /\ DOMAIN late \subseteq PrintJobs
      /\ active \subseteq Printers /\ sent \in 0..MaxPrints
  BY DialogKnown
<1>2. UNCHANGED <<paper, active, sent>>
  BY DEF LeaveDialog
<1>3. FiniteBag(late') /\ DOMAIN late' \subseteq PrintJobs
  <2>1. CASE dialog[d].step = "starting"
    <3>1. late' = late (+) One(dialog[d].job)
      BY <2>1 DEF LeaveDialog
    <3>2. dialog[d].job \in PrintJobs
      BY <1>1, <2>1 DEF DialogFits, DialogRecord
    <3>3. /\ FiniteBag(late (+) One(dialog[d].job))
          /\ DOMAIN (late (+) One(dialog[d].job)) = DOMAIN late \cup {dialog[d].job}
      BY <1>1, BagGrows
    <3> QED BY <1>1, <3>1, <3>2, <3>3
  <2>2. CASE dialog[d].step # "starting"
    BY <1>1, <2>2 DEF LeaveDialog
  <2> QED BY <2>1, <2>2
<1>4. Turn(d, Closed, None)
  BY DEF Turn, LeaveDialog, Closed, DialogRecord, DialogSteps, DialogFits, Adapters
<1>5. Closed.step = "closed" /\ Closed.outcome = None /\ Quiet(dialog[d], Closed)
  BY PrintingAssumption DEF Closed, Quiet, Unprinted, Untold, Owing, Begun
<1>6. CASE UNCHANGED ledger
  BY <1>1, <1>2, <1>3, <1>4, <1>5, <1>6, QuietTurn
<1>7. CASE dialog[d].step = "saving" /\ ledger' = Recorded(d)
  BY <1>2, <1>3, <1>4, <1>5, <1>7, RecordingHolds
<1> QED BY <1>6, <1>7 DEF LeaveDialog

-----------------------------------------------------------------------------
(* Printing: theorems *)

\* Nothing is printed or announced at first.
LEMMA PrintInitHolds ==
  ASSUME PrintInit
  PROVE  PrintIInv
<1>1. FiniteBag(EmptyBag) /\ DOMAIN EmptyBag = {}
  BY FS_EmptySet DEF FiniteBag, IsABag, EmptyBag, SetToBag
<1>2. TablesFit
  <2>1. Closed \in DialogRecord /\ DialogFits(Closed, None)
    BY DEF Closed, DialogRecord, DialogSteps, DialogFits
  <2>2. dialog \in [Dialogs -> DialogRecord] /\ \A d \in Dialogs : DialogFits(dialog[d], link[d])
    BY <2>1 DEF PrintInit
  <2>3. sent \in 0..MaxPrints
    BY PrintingAssumption DEF PrintInit
  <2> QED BY <1>1, <2>2, <2>3 DEF TablesFit, PrintInit
<1>3. ASSUME NEW j \in PrintJobs PROVE Balanced(ledger, paper, dialog, j)
  <2>1. /\ \A states : RowsIn(ledger, j, states) = 0
        /\ \A whole : SheetsIn(paper, j, whole) = 0
        /\ \A first : HalfSheets(paper, j, first) = 0
    <3>1. \A S : Count(EmptyBag, S) = 0
      <4>1. ASSUME NEW S PROVE Count(EmptyBag, S) = 0
        <5>1. Count(EmptyBag, S) \in Nat /\ (Count(EmptyBag, S) >= 1 <=> DOMAIN EmptyBag \cap S # {})
          BY <1>1, CountsAreNatural, CountOfPresent
        <5> QED BY <1>1, <5>1
      <4> QED BY <4>1
    <3> QED BY <3>1 DEF RowsIn, SheetsIn, HalfSheets, PrintInit
  <2>2. \A d \in Dialogs :
          /\ ~Unprinted(dialog[d], j) /\ ~Untold(dialog[d], j) /\ ~Owing(dialog[d], j)
          /\ \A first : ~Begun(dialog[d], j, first)
    BY PrintingAssumption DEF PrintInit, Closed, Unprinted, Untold, Owing, Begun
  <2>3. /\ NumberUnprinted(dialog, j) = 0 /\ NumberUntold(dialog, j) = 0
        /\ NumberOwing(dialog, j) = 0
        /\ \A first : NumberBegun(dialog, j, first) = 0
    <3>1. /\ {d \in Dialogs : Unprinted(dialog[d], j)} = {}
          /\ {d \in Dialogs : Untold(dialog[d], j)} = {}
          /\ {d \in Dialogs : Owing(dialog[d], j)} = {}
          /\ \A first : {d \in Dialogs : Begun(dialog[d], j, first)} = {}
      BY <2>2
    <3>2. Cardinality({}) = 0
      BY FS_EmptySet
    <3> QED BY <3>1, <3>2 DEF NumberUnprinted, NumberUntold, NumberOwing, NumberBegun
  <2> QED BY <2>1, <2>3 DEF Balanced
<1>4. LaterSheetsAreMarked
  BY <1>1 DEF PrintInit, LaterSheetsAreMarked
<1> QED BY <1>2, <1>3, <1>4 DEF PrintIInv

\* Every step keeps the invariant.
LEMMA PrintStepHolds ==
  ASSUME PrintIInv, [PrintNext]_printVars
  PROVE  PrintIInv'
<1>1. ASSUME NEW d \in Dialogs, Step(d) PROVE PrintIInv'
  <2>1. CASE Open(d) \/ ReadAgain(d)
    BY <2>1, OpenHolds
  <2>2. CASE \E q \in Printers : Select(d, q)
    BY <2>2, SelectHolds
  <2>3. CASE LeaveDialog(d)
    BY <2>3, LeaveDialogHolds
  <2>4. CASE Connect(d)
    BY <2>4, ConnectHolds
  <2>5. CASE Connected(d)
    BY <2>5, ConnectedHolds
  <2>6. CASE Disconnect(d)
    BY <2>6, DisconnectHolds
  <2>7. CASE Confirm(d)
    BY <2>7, ConfirmHolds
  <2>8. CASE Send(d)
    BY <2>8, SendHolds
  <2>9. CASE Start(d)
    BY <2>9, StartHolds
  <2>10. CASE LostStart(d)
    BY <2>10, FailedHolds DEF LostStart
  <2>11. CASE FirstChunk(d)
    BY <2>11, FirstChunkHolds
  <2>12. CASE NotConnected(d)
    BY <2>12, NotConnectedHolds
  <2>13. CASE LastChunk(d)
    BY <2>13, LastChunkHolds
  <2>14. CASE WriteFails(d)
    BY <2>14, WriteFailsHolds
  <2>15. CASE Save(d)
    BY <2>15, SaveHolds
  <2>16. CASE LostSave(d)
    BY <2>16, LostSaveHolds
  <2>17. CASE SaveAgain(d)
    BY <2>17, SaveAgainHolds
  <2> QED BY <1>1, <2>1, <2>2, <2>3, <2>4, <2>5, <2>6, <2>7, <2>8, <2>9, <2>10, <2>11, <2>12,
             <2>13, <2>14, <2>15, <2>16, <2>17 DEF Step
<1>2. ASSUME NEW k \in PrintJobs, ServeLate(k) PROVE PrintIInv'
  BY <1>2, ServeLateHolds
<1>3. ASSUME NEW q \in Printers, Archive(q) PROVE PrintIInv'
  BY <1>3, ArchiveHolds
<1>4. CASE UNCHANGED printVars
  BY <1>4 DEF printVars, PrintIInv, TablesFit, Balanced, LaterSheetsAreMarked, RowsIn, SheetsIn,
       HalfSheets, NumberUnprinted, NumberBegun, NumberUntold, NumberOwing
<1> QED BY <1>1, <1>2, <1>3, <1>4 DEF PrintNext

\* What the properties count is what the invariant counts.
LEMMA JobOf ==
  ASSUME NEW m \in Modes, NEW q \in Printers
  PROVE  \E j \in PrintJobs :
           /\ \A states : RowsOf(m, q, states) = RowsIn(ledger, j, states)
           /\ \A whole : SheetsOf(m, q, whole) = SheetsIn(paper, j, whole)
<1> DEFINE j == [mode |-> m, printer |-> q]
<1>1. j \in PrintJobs /\ j.mode = m /\ j.printer = q
  BY DEF PrintJobs
<1> HIDE DEF j
<1> QED BY <1>1 DEF RowsOf, SheetsOf, RowsIn, SheetsIn

\* Every dialog at work is covered by an attempt of its own and by what it has printed, in
\* every reachable state.
THEOREM PrintInvariance == PrintSpec => []PrintIInv
  BY PrintInitHolds, PrintStepHolds, PTL DEF PrintSpec

\* The dialogs, the ledger and the paper have their types: a dialog has a job exactly while
\* it works on one or holds its result.
THEOREM PrintTypeCorrect == PrintSpec => []PrintTypeOK
<1>1. ASSUME PrintIInv PROVE PrintTypeOK
  <2>1. TablesFit
    BY <1>1 DEF PrintIInv
  <2>2. dialog \in [Dialogs -> [ step: DialogSteps, printer: Printers \cup {None}, reprint: BOOLEAN,
                                 first: BOOLEAN, confirm: BOOLEAN, error: BOOLEAN,
                                 recorded: BOOLEAN, job: PrintJobs \cup {None}, outcome: Outcomes \cup {None} ]]
    BY <2>1 DEF TablesFit, DialogRecord
  <2>3. ASSUME NEW d \in Dialogs
        PROVE  dialog[d].job # None
                 <=> dialog[d].step \in {"starting", "writing", "printing", "saving"} \/ Pending(d)
    <3>1. DialogFits(dialog[d], link[d])
      BY <2>1 DEF TablesFit
    <3> QED BY <3>1 DEF DialogFits, Pending
  <2>4. /\ link \in [Dialogs -> {None} \cup [device: Printers, up: BOOLEAN]]
        /\ IsABag(late) /\ DOMAIN late \subseteq PrintJobs
        /\ IsABag(ledger) /\ DOMAIN ledger \subseteq Rows
        /\ IsABag(paper) /\ DOMAIN paper \subseteq Sheets
        /\ active \subseteq Printers /\ sent \in 0..MaxPrints
    BY <2>1 DEF TablesFit, FiniteBag
  <2> QED BY <2>2, <2>3, <2>4 DEF PrintTypeOK
<1> QED BY <1>1, PrintInvariance, PTL

\* Never more sheets on a printer, of either mode, than attempts the server has accepted for
\* it: whatever answers were lost, dialogs closed and printers changed.
THEOREM SheetsAreAnnouncedTheorem == PrintSpec => []SheetsAreAnnounced
<1>1. ASSUME PrintIInv PROVE SheetsAreAnnounced
  <2>1. SUFFICES ASSUME NEW m \in Modes, NEW q \in Printers
                 PROVE  SheetsOf(m, q, BOOLEAN) <= RowsOf(m, q, {"STARTED"})
    BY DEF SheetsAreAnnounced
  <2>2. PICK j \in PrintJobs :
          /\ \A states : RowsOf(m, q, states) = RowsIn(ledger, j, states)
          /\ \A whole : SheetsOf(m, q, whole) = SheetsIn(paper, j, whole)
    BY JobOf
  <2>3. /\ \A states : RowsIn(ledger, j, states) \in Nat
        /\ \A whole : SheetsIn(paper, j, whole) \in Nat
        /\ NumberUnprinted(dialog, j) \in Nat
    BY <1>1, NumbersOfBags, NumbersOfTable DEF PrintIInv, TablesFit
  <2>4. RowsIn(ledger, j, {"FAILED"}) + SheetsIn(paper, j, BOOLEAN) + NumberUnprinted(dialog, j)
          <= RowsIn(ledger, j, {"STARTED"})
    BY <1>1 DEF PrintIInv, Balanced
  <2>5. SheetsIn(paper, j, BOOLEAN) <= RowsIn(ledger, j, {"STARTED"})
    BY <2>3, <2>4
  <2> QED BY <2>2, <2>5
<1> QED BY <1>1, PrintInvariance, PTL

\* A sheet of a dialog that could have known of an earlier one is marked as a reprint.
THEOREM LaterSheetsAreMarkedTheorem == PrintSpec => []LaterSheetsAreMarked
<1>1. ASSUME PrintIInv PROVE LaterSheetsAreMarked
  BY <1>1 DEF PrintIInv
<1> QED BY <1>1, PrintInvariance, PTL

\* Results are recorded once, SUCCEEDED only for whole sheets, FAILED only for attempts
\* without a sheet.
THEOREM ResultsAreHonestTheorem == PrintSpec => []ResultsAreHonest
<1>1. ASSUME PrintIInv PROVE ResultsAreHonest
  <2>1. SUFFICES ASSUME NEW m \in Modes, NEW q \in Printers
                 PROVE  /\ RowsOf(m, q, {"SUCCEEDED"}) <= SheetsOf(m, q, {TRUE})
                        /\ RowsOf(m, q, {"FAILED"}) + SheetsOf(m, q, BOOLEAN)
                             <= RowsOf(m, q, {"STARTED"})
                        /\ RowsOf(m, q, Outcomes) <= RowsOf(m, q, {"STARTED"})
    BY DEF ResultsAreHonest
  <2>2. PICK j \in PrintJobs :
          /\ \A states : RowsOf(m, q, states) = RowsIn(ledger, j, states)
          /\ \A whole : SheetsOf(m, q, whole) = SheetsIn(paper, j, whole)
    BY JobOf
  <2>3. /\ \A states : RowsIn(ledger, j, states) \in Nat
        /\ \A whole : SheetsIn(paper, j, whole) \in Nat
        /\ NumberUnprinted(dialog, j) \in Nat /\ NumberUntold(dialog, j) \in Nat
        /\ NumberOwing(dialog, j) \in Nat
    BY <1>1, NumbersOfBags, NumbersOfTable DEF PrintIInv, TablesFit
  <2>4. /\ RowsIn(ledger, j, {"FAILED"}) + SheetsIn(paper, j, BOOLEAN) + NumberUnprinted(dialog, j)
             <= RowsIn(ledger, j, {"STARTED"})
        /\ RowsIn(ledger, j, {"SUCCEEDED"}) + NumberUntold(dialog, j) <= SheetsIn(paper, j, {TRUE})
        /\ RowsIn(ledger, j, Outcomes) + NumberOwing(dialog, j) <= RowsIn(ledger, j, {"STARTED"})
    BY <1>1 DEF PrintIInv, Balanced
  <2>5. /\ RowsIn(ledger, j, {"SUCCEEDED"}) <= SheetsIn(paper, j, {TRUE})
        /\ RowsIn(ledger, j, {"FAILED"}) + SheetsIn(paper, j, BOOLEAN)
             <= RowsIn(ledger, j, {"STARTED"})
        /\ RowsIn(ledger, j, Outcomes) <= RowsIn(ledger, j, {"STARTED"})
    BY <2>3, <2>4
  <2> QED BY <2>2, <2>5
<1> QED BY <1>1, PrintInvariance, PTL
=============================================================================
