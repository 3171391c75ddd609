\* A subscriber approves in the handler of the event, as the README shows.
SPECIFICATION FairSpec
CONSTANTS
  First = "execute"
  Resumes = {"resume"}
  Budget <- SmallBudget
  Tools = {"delete", "search"}
  NeedsApproval = {"delete"}
  Retries <- OneRetry
  Listening = TRUE
PROPERTIES ApprovalIsHeard
CHECK_DEADLOCK FALSE
