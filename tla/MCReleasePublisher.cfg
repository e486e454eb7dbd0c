CONSTANTS
    Last = 3
    MaxTrouble = 2
    MaxOthers = 1
SPECIFICATION FairSpec
INVARIANTS DependenciesFirst NeverRepublishes NewerEndsTheRun ResultsAreTrue
PROPERTIES Completes
