SPECIFICATION SFairSpec
CONSTANTS
  MaxEdits = 4
  MaxFails = 2
CHECK_DEADLOCK FALSE
INVARIANT SavedIsTrue
PROPERTIES ClosingLosesNothing ServerNeverGoesBack TypingIsSaved
