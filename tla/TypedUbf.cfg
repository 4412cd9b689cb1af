CONSTANTS
    ShortFlds = {1}
    StringFlds = {2}
    Word = 7
    Bufs = {big, small}
    SmallBufs = {small}
    Space = 2
    Unnamed = {2}
    None = None
SPECIFICATION QueueSpec
VIEW Unread
INVARIANTS
    UbfTypeOK
    IterationExact
    RoundTrip
PROPERTIES
    FastIsAdd
    
    Diagnosed
