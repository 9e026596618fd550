CONSTANTS
    n1 = n1
    n2 = n2
    a1 = a1
    a2 = a2
    Nodes = {n1, n2}
    Apps = {a1, a2}
    Levels = 2
    LoadWeights = {2}
    MaxAsking = 2
    MaxIds = 3
    MayLeave = TRUE
SPECIFICATION Spec
SYMMETRY NodeAppSymmetry
INVARIANTS DispatcherInv IdsStayGood ListMatchesConnections BindingsCounted
PROPERTIES HeaviestFirst
CHECK_DEADLOCK FALSE
