SPECIFICATION Spec
CONSTANTS
    NX = 5
    NY = 3
    Configs <- AdaptiveTorus
    None = None
INVARIANT RequestAssignable
