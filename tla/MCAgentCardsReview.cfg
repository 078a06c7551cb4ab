SPECIFICATION Spec
CONSTANTS
    Agents = {a1}
    Operators = {o1, o2}
    Contents <- MCContents
    Blank = 0
    Bodies <- MCBodies
    MaxDeploys = 2
INVARIANTS
    ApprovedAsReviewed
\* After Stop, with nothing pending and nobody deciding, nothing happens.
CHECK_DEADLOCK FALSE
