CONSTANTS
  ticket = ticket
  salePage = salePage
  historyPage = historyPage
  Sources = {ticket}
  Null = Null
  Requests = {r1, r2}
  Pages = {salePage, historyPage}
  SourcePages = {salePage}
  SourceOf <- MCSourceOf
  MaxFaults = 2
SPECIFICATION FairSpec
INVARIANTS TypeOK ReadyWasStored AttemptsTellState
PROPERTIES AvailableStays SourcePagesGetFile
CHECK_DEADLOCK FALSE
