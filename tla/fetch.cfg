CONSTANTS
    Pool <- MCPool
    KeyOf <- MCKeyOf
    MaxPlan = 2
SPECIFICATION FairSpec
INVARIANT SendsNeverBlock
INVARIANT NothingAfterClose
INVARIANT LastShown
INVARIANT AppliedInSync
PROPERTY FetchEnds
