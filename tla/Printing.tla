------------------------------ MODULE Printing ------------------------------
(***************************************************************************)
(* Printing a document from the browser: the dialog of print-dialog.tsx    *)
(* records STARTED with the server, hands the bytes to the printer through *)
(* WebBluetoothPrinterAdapter, and records the result.  Every answer may   *)
(* be lost, the page may go away at any moment, several dialogs of the     *)
(* same document may be open on several screens, and the printers and the  *)
(* document change meanwhile.                                              *)
(*                                                                         *)
(* All dialogs print one document.  Test prints are left out: they carry   *)
(* no document.  Web Bluetooth and the printer are external: a write that  *)
(* fails may have printed all, some or nothing.                            *)
(***************************************************************************)
EXTENDS Integers, FiniteSets, Bags, FiniteSetsExt

CONSTANTS
  Dialogs,    \* the pages that may show a dialog of the document
  Printers,   \* printer profiles
  None,
  MaxPrints   \* bound on the STARTED requests

VARIABLES
  dialog,    \* the dialog of each page
  link,      \* its adapter: None, or the printer it connects to and whether it is CONNECTED
  late,      \* STARTED requests nobody waits for that the server may still serve
  ledger,    \* the PRINT and REPRINT rows of output_attempt
  paper,     \* what was handed to the printers
  active,    \* the printers that are not archived
  sent       \* the STARTED requests so far

printVars == <<dialog, link, late, ledger, paper, active, sent>>
world == <<late, ledger, paper, active, sent>>

Modes == {"PRINT", "REPRINT"}
Outcomes == {"SUCCEEDED", "FAILED", "UNKNOWN"}
PrintJobs == [mode: Modes, printer: Printers]
Row(job, state) == [mode |-> job.mode, printer |-> job.printer, state |-> state]
Rows == [mode: Modes, printer: Printers, state: Outcomes \cup {"STARTED"}]
\* device: the printer that got the bytes; first: not marked as a reprint, by a dialog that
\* read the history when there was no paper, kept for the properties only.
Sheets == [mode: Modes, device: Printers, first: BOOLEAN, whole: BOOLEAN]
DialogSteps == {"closed", "open", "connecting", "starting", "writing", "printing", "saving"}

ASSUME PrintingAssumption ==
  /\ MaxPrints \in Nat
  /\ IsFiniteSet(Dialogs)
  /\ None \notin Printers \cup PrintJobs \cup Outcomes

One(x) == SetToBag({x})

\* How often elements of S are in bag b.
Count(b, S) == SumFunctionOnSet(b, DOMAIN b \cap S)

\* printer: the selected one; reprint: a query found attempts, or this dialog sent one;
\* first: there was no paper then; error: nothing can be sent until it is cleared; job: what
\* is being printed; outcome: its result to be recorded (pending); recorded: the server
\* has it.
Closed ==
  [ step |-> "closed", printer |-> None, reprint |-> FALSE, first |-> FALSE, confirm |-> FALSE,
    error |-> FALSE, job |-> None, outcome |-> None, recorded |-> FALSE ]

Idle(d) == dialog[d].step = "open"
Pending(d) == dialog[d].outcome # None
Reprint(d) == dialog[d].reprint
IsOn(d) == link[d] # None /\ link[d].up

-----------------------------------------------------------------------------
(* The dialog *)

\* The print-history query: an attempt of any state counts.
HistoryMutFinished == Count(ledger, {x \in DOMAIN ledger : x.state # "STARTED"}) > 0

History == DOMAIN ledger # {}

\* The queries of d answer.
Loaded(d, printer) ==
  dialog' = [dialog EXCEPT ![d] =
    [ @ EXCEPT !.step = "open", !.printer = printer, !.error = FALSE,
               !.reprint = Reprint(d) \/ History, !.first = ~Reprint(d) /\ ~History /\ DOMAIN paper = {} ]]

\* The dialog opens over a page that shows a READY document, with the preferred printer,
\* and has read what it needs.
Open(d) ==
  /\ dialog[d].step = "closed"
  /\ \E q \in Printers : Loaded(d, q)
  /\ UNCHANGED <<link, world>>

\* It reads again, on a focus of the window or after the refresh button.
ReadAgain(d) ==
  /\ Idle(d) /\ ~Pending(d)
  /\ Loaded(d, dialog[d].printer)
  /\ UNCHANGED <<link, world>>

\* The user selects a printer, or the lists of printers and preferences are read again,
\* which may happen at any moment: another printer ends the connection.
SelectMutKeepsConnection(d, q) ==
  /\ dialog[d].step # "closed"
  /\ q # dialog[d].printer
  /\ dialog' = [dialog EXCEPT ![d].printer = q]
  /\ UNCHANGED <<link, world>>

Select(d, q) ==
  /\ dialog[d].step # "closed"
  /\ q # dialog[d].printer
  /\ dialog' = [dialog EXCEPT ![d].printer = q]
  /\ link' = [link EXCEPT ![d] = None]
  /\ UNCHANGED world

\* adapter.connect: the button that chooses a device is there after an error, too, and perform
\* clears that.
Connect(d) ==
  /\ Idle(d) /\ ~Pending(d)
  /\ dialog' = [dialog EXCEPT ![d].step = "connecting", ![d].error = FALSE]
  /\ link' = [link EXCEPT ![d] = [device |-> dialog[d].printer, up |-> FALSE]]
  /\ UNCHANGED world

\* ... ends; a connection whose generation has passed was disconnected and is not used.
\* The error of a failed one stands in nobody's way.
Connected(d) ==
  /\ dialog[d].step = "connecting"
  /\ dialog' = [dialog EXCEPT ![d].step = "open"]
  /\ \/ link[d] # None /\ link' = [link EXCEPT ![d].up = TRUE]
     \/ link' = [link EXCEPT ![d] = None]
  /\ UNCHANGED world

\* gattserverdisconnected, or a new version of the profile.
Disconnect(d) ==
  /\ link[d] # None
  /\ link' = [link EXCEPT ![d] = None]
  /\ UNCHANGED <<dialog, world>>

CanSend(d) ==
  /\ Idle(d) /\ ~Pending(d) /\ ~dialog[d].error
  /\ IsOn(d)

\* The first press on a document with attempts only warns.
Confirm(d) ==
  /\ CanSend(d) /\ Reprint(d) /\ ~dialog[d].confirm
  /\ dialog' = [dialog EXCEPT ![d].confirm = TRUE]
  /\ UNCHANGED <<link, world>>

\* send: the request to record STARTED leaves.
Send(d) ==
  /\ CanSend(d)
  /\ Reprint(d) => dialog[d].confirm
  /\ sent < MaxPrints
  /\ sent' = sent + 1
  /\ dialog' = [dialog EXCEPT ![d].step = "starting", ![d].reprint = TRUE,
                              ![d].job = [ mode |-> IF Reprint(d) THEN "REPRINT" ELSE "PRINT",
                                           printer |-> dialog[d].printer ]]
  /\ UNCHANGED <<link, late, ledger, paper, active>>

FailedMutKeepsJob(d) == dialog' = [dialog EXCEPT ![d].step = "open", ![d].error = TRUE]

\* An error ends the press; the refresh button, which loads again, and a new connection clear
\* it.
Failed(d) == dialog' = [dialog EXCEPT ![d].step = "open", ![d].job = None, ![d].error = TRUE]

\* POST /output-attempts: the attempt is recorded, or refused, for an archived printer and
\* for a document that is not READY any more.
Start(d) ==
  /\ dialog[d].step = "starting"
  /\ \/ /\ dialog[d].job.printer \in active
        /\ ledger' = ledger (+) One(Row(dialog[d].job, "STARTED"))
        /\ dialog' = [dialog EXCEPT ![d].step = "writing"]
     \/ Failed(d) /\ UNCHANGED ledger
  /\ UNCHANGED <<link, late, paper, active, sent>>

\* The request is lost, late, or its answer is: nothing is printed, and nothing is sent
\* again by itself.
LostStart(d) ==
  /\ dialog[d].step = "starting"
  /\ Failed(d)
  /\ late' = late (+) One(dialog[d].job)
  /\ UNCHANGED <<link, ledger, paper, active, sent>>

\* A request nobody waits for is served, refused, or never arrives.
ServeLate(job) ==
  /\ job \in DOMAIN late
  /\ late' = late (-) One(job)
  /\ \/ job.printer \in active /\ ledger' = ledger (+) One(Row(job, "STARTED"))
     \/ UNCHANGED ledger
  /\ UNCHANGED <<dialog, link, paper, active, sent>>

-----------------------------------------------------------------------------
(* The device *)

\* The result of print waits in the dialog, and saveResult sends it.
Settled(d, outcome) ==
  dialog' = [dialog EXCEPT ![d].step = "saving", ![d].outcome = outcome, ![d].confirm = FALSE]

SheetOf(d, whole) ==
  [ mode |-> dialog[d].job.mode, device |-> link[d].device, first |-> dialog[d].first,
    whole |-> whole ]

\* The first chunk of WebBluetoothPrinterAdapter.send: from here on bytes may be printed.
FirstChunk(d) ==
  /\ dialog[d].step = "writing" /\ IsOn(d)
  /\ paper' = paper (+) One(SheetOf(d, FALSE))
  /\ dialog' = [dialog EXCEPT ![d].step = "printing"]
  /\ UNCHANGED <<link, late, ledger, active, sent>>

\* NOT_CONNECTED, before any byte.
NotConnected(d) ==
  /\ dialog[d].step = "writing" /\ ~IsOn(d)
  /\ Settled(d, "FAILED")
  /\ UNCHANGED <<link, world>>

LastChunk(d) ==
  /\ dialog[d].step = "printing" /\ IsOn(d)
  /\ paper' = (paper (-) One(SheetOf(d, FALSE))) (+) One(SheetOf(d, TRUE))
  /\ Settled(d, "SUCCEEDED")
  /\ UNCHANGED <<link, late, ledger, active, sent>>

\* A write fails or the link drops under it: the adapter disconnects and cannot tell.
WriteFails(d) ==
  /\ dialog[d].step = "printing"
  /\ link' = [link EXCEPT ![d] = None]
  /\ Settled(d, "UNKNOWN")
  /\ UNCHANGED world

-----------------------------------------------------------------------------
(* The result *)

\* The result row is written once for the key of the result, for an active printer.
Recorded(d) ==
  IF dialog[d].recorded THEN ledger ELSE ledger (+) One(Row(dialog[d].job, dialog[d].outcome))

MayRecord(d) == dialog[d].recorded \/ dialog[d].job.printer \in active

\* saveResult succeeds, or is refused because the printer was archived.
Save(d) ==
  /\ dialog[d].step = "saving"
  /\ IF MayRecord(d)
     THEN /\ ledger' = Recorded(d)
          /\ dialog' = [dialog EXCEPT ![d].step = "open", ![d].job = None, ![d].outcome = None,
                                      ![d].recorded = FALSE]
     ELSE /\ dialog' = [dialog EXCEPT ![d].step = "open", ![d].error = TRUE]
          /\ UNCHANGED ledger
  /\ UNCHANGED <<link, late, paper, active, sent>>

\* The request or its answer is lost.
LostSaveMutNewKey(d) ==
  /\ dialog[d].step = "saving"
  /\ dialog' = [dialog EXCEPT ![d].step = "open", ![d].error = TRUE]
  /\ ledger' = IF MayRecord(d) THEN Recorded(d) ELSE ledger
  /\ UNCHANGED <<link, late, paper, active, sent>>

LostSave(d) ==
  /\ dialog[d].step = "saving"
  /\ \E served \in {FALSE} \cup {MayRecord(d)} :
       /\ dialog' = [dialog EXCEPT ![d].step = "open", ![d].error = TRUE,
                                   ![d].recorded = @ \/ served]
       /\ ledger' = IF served THEN Recorded(d) ELSE ledger
  /\ UNCHANGED <<link, late, paper, active, sent>>

\* The button that saves the result again, with its key.
SaveAgain(d) ==
  /\ Idle(d) /\ Pending(d)
  /\ dialog' = [dialog EXCEPT ![d].step = "saving", ![d].error = FALSE]
  /\ UNCHANGED <<link, world>>

\* The dialog goes, by its button or with its page, which may be reloaded or no longer show
\* the document: what it asked the server may still be served, its result is forgotten.
LeaveDialog(d) ==
  /\ dialog[d].step # "closed"
  /\ dialog' = [dialog EXCEPT ![d] = Closed]
  /\ link' = [link EXCEPT ![d] = None]
  /\ late' = IF dialog[d].step = "starting" THEN late (+) One(dialog[d].job) ELSE late
  /\ \/ UNCHANGED ledger
     \/ dialog[d].step = "saving" /\ MayRecord(d) /\ ledger' = Recorded(d)
  /\ UNCHANGED <<paper, active, sent>>

-----------------------------------------------------------------------------
(* The others *)

\* PrinterSettingsService.update archives a printer for good.
Archive(q) ==
  /\ q \in active
  /\ active' = active \ {q}
  /\ UNCHANGED <<dialog, link, late, ledger, paper, sent>>

PrintInit ==
  /\ dialog = [d \in Dialogs |-> Closed]
  /\ link = [d \in Dialogs |-> None]
  /\ late = EmptyBag
  /\ ledger = EmptyBag
  /\ paper = EmptyBag
  /\ active = Printers
  /\ sent = 0

Step(d) ==
  \/ Open(d) \/ ReadAgain(d) \/ (\E q \in Printers : Select(d, q)) \/ LeaveDialog(d)
  \/ Connect(d) \/ Connected(d) \/ Disconnect(d) \/ Confirm(d) \/ Send(d) \/ Start(d) \/ LostStart(d)
  \/ FirstChunk(d) \/ NotConnected(d) \/ LastChunk(d) \/ WriteFails(d)
  \/ Save(d) \/ LostSave(d) \/ SaveAgain(d)

PrintNext ==
  \/ \E d \in Dialogs : Step(d)
  \/ \E job \in PrintJobs : ServeLate(job)
  \/ \E q \in Printers : Archive(q)

PrintSpec == PrintInit /\ [][PrintNext]_printVars

-----------------------------------------------------------------------------
(* Properties *)

\* Type correctness of the dialogs, the ledger and the paper.
PrintTypeOK ==
  /\ dialog \in [Dialogs -> [ step: DialogSteps, printer: Printers \cup {None}, reprint: BOOLEAN,
                              first: BOOLEAN, confirm: BOOLEAN, error: BOOLEAN, recorded: BOOLEAN,
                              job: PrintJobs \cup {None}, outcome: Outcomes \cup {None} ]]
  /\ \A d \in Dialogs :
       dialog[d].job # None <=> dialog[d].step \in {"starting", "writing", "printing", "saving"}
                                  \/ Pending(d)
  /\ link \in [Dialogs -> {None} \cup [device: Printers, up: BOOLEAN]]
  /\ IsABag(late) /\ DOMAIN late \subseteq PrintJobs
  /\ IsABag(ledger) /\ DOMAIN ledger \subseteq Rows
  /\ IsABag(paper) /\ DOMAIN paper \subseteq Sheets
  /\ active \subseteq Printers /\ sent \in 0..MaxPrints

RowsOf(m, q, states) == Count(ledger, [mode: {m}, printer: {q}, state: states])
SheetsOf(m, q, whole) ==
  Count(paper, [mode: {m}, device: {q}, first: BOOLEAN, whole: whole])

\* Nothing reaches a printer that the ledger has not accepted first, for this printer and
\* this mode: whatever answers were lost, dialogs closed, or printers changed while a
\* connection was being made, there are never more sheets than STARTED attempts.
SheetsAreAnnounced ==
  \A m \in Modes, q \in Printers : SheetsOf(m, q, BOOLEAN) <= RowsOf(m, q, {"STARTED"})

\* A dialog opened, or refreshed, after a sheet was begun prints only copies marked as
\* reprints, which the user confirmed: also when the earlier dialog was lost with its
\* page before any result was recorded.
LaterSheetsAreMarked == \A x \in DOMAIN paper : x.first \/ x.mode = "REPRINT"

\* The ledger says no more than the browser knew: results are recorded once, SUCCEEDED only
\* for sheets that were handed over whole, FAILED only for attempts without a sheet.
ResultsAreHonest ==
  \A m \in Modes, q \in Printers :
    /\ RowsOf(m, q, {"SUCCEEDED"}) <= SheetsOf(m, q, {TRUE})
    /\ RowsOf(m, q, {"FAILED"}) + SheetsOf(m, q, BOOLEAN) <= RowsOf(m, q, {"STARTED"})
    /\ RowsOf(m, q, Outcomes) <= RowsOf(m, q, {"STARTED"})
=============================================================================
