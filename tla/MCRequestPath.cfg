SPECIFICATION Spec
CONSTANTS
    r1 = r1
    r2 = r2
    a1 = a1
    a2 = a2
    client = client
    proxy = proxy
    n1 = n1
    n2 = n2
    NoAgent = NoAgent
    NoURL = NoURL
    NoNonce = NoNonce
    Unparsable = Unparsable
    Requests <- MCRequests
    Agents <- MCAgents
    Shapes <- MCShapes
    Configs <- MCConfigs
    PolicySets <- MCPolicySets
    Hours <- MCHours
    MaxChanges = 1
    MaxUpdates = 1
SYMMETRY Symmetry
INVARIANTS
    HandledIsChecked
    BudgetHeld
    NonceOfAdmitted
PROPERTIES
    JudgedByOneSet
    RoutedWhereHealthy
    AdmissionSpec
