SPECIFICATION Spec
CONSTANTS
    MaxResults = 3
    KeyCounts = {1, 2}
PROPERTIES
    BoundToEnd
    AnswersInTheEnd
