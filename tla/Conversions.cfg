SPECIFICATION Spec
CONSTANTS
    MaxDepth = 1
    MaxNumber = 12
    Pending = Pending
INVARIANTS
    TextsReadBack PacketsEncoded FieldsAreOxm FlowsOverRest LoadedInOrder
CHECK_DEADLOCK FALSE
