\* An execution that may be cancelled, late, and resumed while it goes on.
SPECIFICATION FairSpec
CONSTANTS
  First = "execute"
  Resumes = {"resume"}
  Budget <- SmallBudget
  Tools = {"delete", "search"}
  NeedsApproval = {"delete"}
  Retries <- OneRetry
  Listening = FALSE
INVARIANTS ApprovedFirst StepsWithinBudget CompletedIsAnswered
PROPERTIES EveryRunSettles
CHECK_DEADLOCK FALSE
