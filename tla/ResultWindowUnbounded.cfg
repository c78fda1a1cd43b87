SPECIFICATION Spec
CONSTANTS
    Unbounded = 15
    MaxTemplates = 2
    Templates <- MCTemplates
    Calls <- MCUnboundedCalls
INVARIANTS
    EmptyMeansNoMore
