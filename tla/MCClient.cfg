SPECIFICATION Spec
CONSTANTS
    None = None
    Clients = {c1, c2}
    Tricklers = {c2}
    Word <- AnyWord
    Asked <- AnyAsked
    Focused <- FocusedArgument
    Outputs <- FocusableOutputs
INVARIANTS
    TypeOK
PROPERTIES
    ImplementsRemoteCall CallsReturn
