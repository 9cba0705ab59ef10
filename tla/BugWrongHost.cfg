CONSTANTS
    NULL = NULL
    Segments <- MCTwoHosts
    Node <- MCTwoHostsNode
SPECIFICATION Spec
INVARIANT HostsKeptApart
