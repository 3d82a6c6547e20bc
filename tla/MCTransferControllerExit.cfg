SPECIFICATION Spec
CONSTANTS
    Workers = {w1}
    Jobs = {j1}
    Limit = 1
    None = None
PROPERTY
    ExitCancelsNothing
