\* Nothing happens once the file was read and the changes are used up.
SPECIFICATION Spec
CONSTANTS
    MaxChanges = 2
    Limit = 2
CHECK_DEADLOCK FALSE
INVARIANTS
    AcceptedWasThere
