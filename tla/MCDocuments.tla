----------------------------- MODULE MCDocuments -----------------------------
(* A sale's page and a page of the document history, served by two workers.  *)
EXTENDS Documents
CONSTANTS ticket, salePage, historyPage
MCSourceOf == [p \in {salePage, historyPage} |-> ticket]
=============================================================================
