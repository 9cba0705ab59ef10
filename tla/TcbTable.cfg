CONSTANTS
    NULL = NULL
    Segments <- MCSegments
    Node <- MCNode
SPECIFICATION Spec
INVARIANTS TypeOK RedBlack SessionsFound ClientsKeptApart PageListsSessions
