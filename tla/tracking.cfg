CONSTANTS
    Ws <- MCWs
    Path = {"p1", "p2"}
    Hash = {"h1", "h2"}
    Alias = {"a"}
    Commit = {"c1", "c2"}
    NoHead = "nohead"
    Trees <- MCTrees
    Contents <- MCContents
    Invalid = "invalid"
    Template <- MCTemplate
    MaxIssues = 2
    Matches <- MCMatches
    Names <- MCNames
    Sprints <- MCSprints
    MaxEvents = 2
SPECIFICATION FairSpec
INVARIANT FSComparisonExact
INVARIANT CursorUsable
INVARIANT InProgressJustified
 
INVARIANT ImportAccounted
INVARIANT InProgressKept
PROPERTY CommandsReturn
