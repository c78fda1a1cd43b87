SPECIFICATION Spec
CONSTANTS
    Unbounded = 15
    MaxTemplates = 3
    Templates <- MCTemplates
    Calls <- MCCalls
INVARIANTS
    TypeOK
    WindowIsSlice
    TemplatesLastForItems
    NeverDropped
