SPECIFICATION Spec
CONSTANTS
  Codes <- MCCodes
  Evidence <- MCEvidence
  Notes <- MCNotes
  IssueOf <- MCIssueOf
  Reviewed <- MCReviewed
  UnknownRoots = {"u1"}
  CoreRoots = {"h1", "m1", "m2"}
  InitialTree <- MCInitialTree
  InitialAuthorities <- MCInitialAuthorities
  MaxCommits = 6
  MaxStrays = 0
  MaxLag = 1
  Misjudged = {"h1"}
  MaxUnread = 5
  Stray <- StrayBytes
CHECK_DEADLOCK FALSE
INVARIANTS
  MainIsTheLedger
PROPERTIES
  LedgerIsAuthority
