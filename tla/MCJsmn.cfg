SPECIFICATION FairSpec
CONSTANTS
  Builds <- AllBuilds
  Inputs <- WholeTexts
  StreamBuilds <- StrictBuilds
  StreamInputs <- StreamTexts
  MaxLen = 5
CHECK_DEADLOCK FALSE
INVARIANTS TypeOK ResumeIsInvisible NullCountAgrees SizeCountsChildren TokensNest
  TokensAreTheTree StringEndsAtItsQuote
PROPERTY CallerIsAnswered
