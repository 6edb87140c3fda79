------------------------------ MODULE Documents ------------------------------
(***************************************************************************)
(* Portable documents: DocumentService generates the PDF of a business     *)
(* record once, keeps it in a directory beside the database, and repairs   *)
(* it when it is asked again; the page of DocumentCenter asks, polls and   *)
(* downloads.  The directory and the row cannot change together, requests  *)
(* overlap, and a process may stop between any two steps.                  *)
(*                                                                         *)
(* A source is a record that no longer changes: a sale, a confirmed load,  *)
(* a return, a cash close or a report snapshot.  Rendering is a function   *)
(* of the source, so a document has one content.  PostgreSQL (external):   *)
(* the row lock is held to the end of the transaction, which is undone     *)
(* when its process stops.                                                 *)
(***************************************************************************)
EXTENDS Integers, Sequences, SequencesExt

CONSTANTS
  Sources, Null,
  Requests,      \* POST /documents requests being served at the same time
  Pages,         \* open DocumentCenter components
  SourcePages,   \* the pages of a record; the others show a document of the history
  SourceOf,      \* the record or document a page is about
  MaxFaults      \* bound on failures, crashes, impatient users and lost files

VARIABLES
  document,   \* document_output, by source; Null when there is no row
  attempts,   \* the results of the GENERATE attempts of output_attempt, in order
  file,       \* the content in DOCUMENT_STORAGE_PATH
  pc,         \* where each request is
  job,        \* what it works on
  page,       \* what each page asked for and shows
  faults

vars == <<document, attempts, file, pc, job, page, faults>>
server == <<document, attempts, file, pc, job>>

DocumentState == {"PENDING", "READY", "FAILED"}
\* hashed: content_hash is that of the content; stored: storage_key names its file.
DocumentRow == [state: DocumentState, hashed: BOOLEAN, stored: BOOLEAN]
\* absent: never written; whole; lost: deleted or changed by others since.
FileState == {"absent", "whole", "lost"}
Result == {"SUCCEEDED", "FAILED"}
Steps == {"idle", "received", "requested", "created", "locked", "rendered", "stored",
          "generation failed", "storage failed"}

\* What a request works on: its source, and the page that waits for its answer.
Jobs == [source: Sources, page: Pages \cup {Null}]

ASSUME DocumentsAssumption ==
  /\ SourcePages \subseteq Pages
  /\ SourceOf \in [Pages -> Sources]
  /\ Null \notin Pages \cup DocumentRow \cup Jobs
  /\ MaxFaults \in Nat

Fault == faults < MaxFaults /\ faults' = faults + 1

-----------------------------------------------------------------------------
(* The page *)

\* asked: the mutation that generates; shown: the state the status query read last, no
\* state before the page knows the document; refused: the last download failed.
PageRecord ==
  [ asked: {"idle", "waiting", "failed"}, refused: BOOLEAN, got: BOOLEAN,
    shown: DocumentState \cup {"nothing"} ]
NewPage == [asked |-> "idle", shown |-> "nothing", refused |-> FALSE, got |-> FALSE]

\* canGenerate
Offered(p) ==
  /\ page[p].asked # "waiting"
  /\ p \in SourcePages \/ page[p].shown # "nothing"
  /\ page[p].asked = "failed" \/ page[p].shown \in {"nothing", "FAILED"}

\* The user asks for the document: always with the key of this page, which the server
\* accepts again and again, for no answer is replayed without service.request.
Ask(p) ==
  /\ Offered(p)
  /\ \E r \in Requests :
       /\ pc[r] = "idle"
       /\ pc' = [pc EXCEPT ![r] = "received"]
       /\ job' = [job EXCEPT ![r] = [source |-> SourceOf[p], page |-> p]]
  /\ page' = [page EXCEPT ![p].asked = "waiting"]
  /\ UNCHANGED <<document, attempts, file, faults>>

Listening(r) == job[r].page # Null

\* The answer of r reaches its page, if that still waits.
Answered(r, asked, shown) ==
  page' = IF Listening(r)
          THEN [page EXCEPT ![job[r].page] =
                  [@ EXCEPT !.asked = asked, !.shown = shown, !.refused = FALSE]]
          ELSE page

\* Nobody waits for the requests of p any longer.
Abandoned(p) == [r \in Requests |-> IF job[r] # Null /\ job[r].page = p
                                    THEN [job[r] EXCEPT !.page = Null] ELSE job[r]]

\* apiRequest gives up after 15 seconds; the server does not notice.
GiveUp(p) ==
  /\ page[p].asked = "waiting"
  /\ Fault
  /\ page' = [page EXCEPT ![p].asked = "failed"]
  /\ job' = Abandoned(p)
  /\ UNCHANGED <<document, attempts, file, pc>>

Known(p) == page[p].shown # "nothing" \/ p \notin SourcePages

\* The status query, polled while it is PENDING.
Poll(p) ==
  /\ Known(p) /\ document[SourceOf[p]] # Null
  /\ page[p].shown \in {"nothing", "PENDING"}
  /\ page' = [page EXCEPT ![p].shown = document[SourceOf[p]].state]
  /\ UNCHANGED <<server, faults>>

\* The refresh button, which also forgets a failed request.
Refresh(p) ==
  /\ Known(p) /\ document[SourceOf[p]] # Null
  /\ page[p].asked # "waiting"
  /\ page' = [page EXCEPT ![p].shown = document[SourceOf[p]].state, ![p].asked = "idle"]
  /\ UNCHANGED <<server, faults>>

\* readCanonical
Readable(s) == document[s].stored /\ document[s].hashed /\ file[s] = "whole"

\* A READY document whose content can be given out.
Available(s) == document[s] # Null /\ document[s].state = "READY" /\ Readable(s)

\* FileActions: the content is read again for every download.
Download(p) ==
  /\ page[p].shown = "READY" /\ page[p].asked = "idle"
  /\ page' = [page EXCEPT ![p].refused = ~Available(SourceOf[p]),
                          ![p].got = @ \/ Available(SourceOf[p])]
  /\ UNCHANGED <<server, faults>>

Reopened(p) ==
  /\ page' = [page EXCEPT ![p] = [NewPage EXCEPT !.got = page[p].got]]
  /\ job' = Abandoned(p)
  /\ UNCHANGED <<document, attempts, file, pc>>

\* A page that does not get on: it polls a document or was refused the content.
Stuck(p) ==
  /\ page[p].asked # "waiting"
  /\ page[p].shown = "PENDING" \/ page[p].refused

\* The user opens the page again because it is stuck.
OpenAgain(p) ==
  /\ Stuck(p)
  /\ Reopened(p)
  /\ UNCHANGED faults

\* ... or reloads or leaves it at any other time.
Leave(p) ==
  /\ ~Stuck(p)
  /\ Fault
  /\ Reopened(p)

-----------------------------------------------------------------------------
(* The server *)

Goto(r, step) == pc' = [pc EXCEPT ![r] = step]

EndMutKeepsJob(r) ==
  /\ pc' = [pc EXCEPT ![r] = "idle"]
  /\ UNCHANGED job

End(r) ==
  /\ pc' = [pc EXCEPT ![r] = "idle"]
  /\ job' = [job EXCEPT ![r] = Null]

\* POST /documents: a serializable transaction of its own acquires and completes the
\* page's key, or finds it completed.
Admit(r) ==
  /\ pc[r] = "received"
  /\ Goto(r, "requested")
  /\ UNCHANGED <<document, attempts, file, job, page, faults>>

\* createOrReuse: one row per source and template version; committed at once.
CreateOrReuse(r) ==
  /\ pc[r] = "requested"
  /\ document' = [document EXCEPT ![job[r].source] =
                    IF @ = Null THEN [state |-> "PENDING", hashed |-> FALSE, stored |-> FALSE]
                    ELSE @]
  /\ Goto(r, "created")
  /\ UNCHANGED <<attempts, file, job, page, faults>>

InGeneration == {"locked", "rendered", "stored", "generation failed", "storage failed"}
\* The requests that hold the row lock of s.
HoldsMutUnlocked(s) == {r \in Requests : pc[r] = "stored" /\ job[r].source = s}

Holds(s) == {r \in Requests : pc[r] \in InGeneration /\ job[r].source = s}

\* generate has something to do: the document is new, failed, or damaged.
NeedsWorkMutStateOnly(s) == document[s].state # "READY"

NeedsWork(s) == ~Available(s)

\* generate locks the row and finds nothing to do.
Reuse(r) ==
  /\ pc[r] = "created"
  /\ Holds(job[r].source) = {}
  /\ ~NeedsWork(job[r].source)
  /\ Answered(r, "idle", "READY")
  /\ End(r)
  /\ UNCHANGED <<document, attempts, file, faults>>

\* ... or keeps the lock and generates.
Lock(r) ==
  /\ pc[r] = "created"
  /\ Holds(job[r].source) = {}
  /\ NeedsWork(job[r].source)
  /\ Goto(r, "locked")
  /\ UNCHANGED <<document, attempts, file, job, page, faults>>

Render(r) ==
  /\ pc[r] = "locked"
  /\ \/ Goto(r, "rendered") /\ UNCHANGED faults
     \/ Goto(r, "generation failed") /\ Fault
  /\ UNCHANGED <<document, attempts, file, job, page>>

\* storeCanonical writes a file of another name and renames it: all or nothing.
Store(r) ==
  /\ pc[r] = "rendered"
  /\ \/ /\ Goto(r, "stored")
        /\ file' = [file EXCEPT ![job[r].source] = "whole"]
        /\ UNCHANGED faults
     \/ Goto(r, "storage failed") /\ Fault /\ UNCHANGED file
  /\ UNCHANGED <<document, attempts, job, page>>

\* generate ends: the row and the attempt are written in the transaction of the lock.
CommitMutUnstored(r) ==
  /\ pc[r] \in {"rendered", "stored", "generation failed", "storage failed"}
  /\ LET s == job[r].source
         ok == pc[r] \in {"rendered", "stored"}
     IN /\ document' = [document EXCEPT ![s] =
                          [ state |-> IF ok THEN "READY" ELSE "FAILED",
                            hashed |-> @.hashed \/ pc[r] # "generation failed",
                            stored |-> ok ]]
        /\ attempts' = [attempts EXCEPT ![s] = Append(@, IF ok THEN "SUCCEEDED" ELSE "FAILED")]
        /\ Answered(r, "idle", document'[s].state)
  /\ End(r)
  /\ UNCHANGED <<file, faults>>

CommitMutSilent(r) ==
  /\ pc[r] \in {"stored", "generation failed", "storage failed"}
  /\ LET s == job[r].source
         ok == pc[r] = "stored"
     IN /\ document' = [document EXCEPT ![s] =
                          [ state |-> IF ok THEN "READY" ELSE "FAILED",
                            hashed |-> @.hashed \/ pc[r] # "generation failed",
                            stored |-> ok ]]
        /\ attempts' = [attempts EXCEPT ![s] = IF ok THEN Append(@, "SUCCEEDED") ELSE @]
        /\ Answered(r, "idle", document'[s].state)
  /\ End(r)
  /\ UNCHANGED <<file, faults>>

Commit(r) ==
  /\ pc[r] \in {"stored", "generation failed", "storage failed"}
  /\ LET s == job[r].source
         ok == pc[r] = "stored"
     IN /\ document' = [document EXCEPT ![s] =
                          [ state |-> IF ok THEN "READY" ELSE "FAILED",
                            hashed |-> @.hashed \/ pc[r] # "generation failed",
                            stored |-> ok ]]
        /\ attempts' = [attempts EXCEPT ![s] = Append(@, IF ok THEN "SUCCEEDED" ELSE "FAILED")]
        /\ Answered(r, "idle", document'[s].state)
  /\ End(r)
  /\ UNCHANGED <<file, faults>>

\* The process stops or loses the database: its transaction leaves nothing but files.
Crash(r) ==
  /\ pc[r] # "idle"
  /\ Fault
  /\ page' = IF Listening(r) THEN [page EXCEPT ![job[r].page].asked = "failed"] ELSE page
  /\ End(r)
  /\ UNCHANGED <<document, attempts, file>>

\* Somebody deletes or damages a file of the directory.
Lose(s) ==
  /\ file[s] = "whole"
  /\ Fault
  /\ file' = [file EXCEPT ![s] = "lost"]
  /\ UNCHANGED <<document, attempts, pc, job, page>>

-----------------------------------------------------------------------------
Init ==
  /\ document = [s \in Sources |-> Null]
  /\ attempts = [s \in Sources |-> <<>>]
  /\ file = [s \in Sources |-> "absent"]
  /\ pc = [r \in Requests |-> "idle"]
  /\ job = [r \in Requests |-> Null]
  /\ page = [p \in Pages |-> NewPage]
  /\ faults = 0

Serve(r) ==
  Admit(r) \/ CreateOrReuse(r) \/ Reuse(r) \/ Lock(r) \/ Render(r) \/ Store(r) \/ Commit(r)

Next ==
  \/ \E p \in Pages :
       Ask(p) \/ GiveUp(p) \/ Poll(p) \/ Refresh(p) \/ Download(p) \/ OpenAgain(p) \/ Leave(p)
  \/ \E r \in Requests : Serve(r) \/ Crash(r)
  \/ \E s \in Sources : Lose(s)

Spec == Init /\ [][Next]_vars

\* The event loop and PostgreSQL run what can run; users press the button they are offered,
\* download what is ready, and open a stuck page of a record again.
FairSpec ==
  /\ Spec
  /\ \A r \in Requests : WF_vars(Serve(r))
  /\ \A p \in SourcePages :
       WF_vars(Ask(p)) /\ WF_vars(Download(p)) /\ WF_vars(OpenAgain(p))

-----------------------------------------------------------------------------
(* Properties *)

\* Type correctness, of the tables and of every request and page.
TypeOK ==
  /\ document \in [Sources -> DocumentRow \cup {Null}]
  /\ attempts \in [Sources -> Seq(Result)]
  /\ file \in [Sources -> FileState]
  /\ pc \in [Requests -> Steps]
  /\ job \in [Requests -> Jobs \cup {Null}]
  /\ \A r \in Requests : (job[r] = Null) <=> (pc[r] = "idle")
  /\ page \in [Pages -> PageRecord]
  /\ faults \in 0..MaxFaults

\* However requests overlap and whenever a process stops, a READY row names a file that
\* was written whole before the row was: only others can take it away.
ReadyWasStored ==
  \A s \in Sources :
    document[s] # Null /\ document[s].state = "READY" =>
      document[s].stored /\ document[s].hashed /\ file[s] # "absent"

\* The append-only attempts tell the state of the row: no generation is forgotten, none is
\* recorded that was undone.
AttemptsTellState ==
  \A s \in Sources :
    document[s] # Null =>
      document[s].state = IF attempts[s] = <<>> THEN "PENDING"
                          ELSE IF Last(attempts[s]) = "SUCCEEDED" THEN "READY" ELSE "FAILED"

\* The row of a document that can be read never changes: a request that waited for the
\* lock of another one does not act on what it saw before.
AvailableStays ==
  [][\A s \in Sources : Available(s) => document'[s] = document[s]]_vars

\* The user of a record's page gets the file in the end, whatever fails on the way: after
\* a crash of the server, a failed generation, a full disk and a lost file too.
SourcePagesGetFile == \A p \in SourcePages : <>page[p].got
=============================================================================
