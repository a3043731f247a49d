SPECIFICATION Spec
CONSTANTS
    Size = 5
    Time = {1, 2, 3}
    Nothing = Nothing
INVARIANT TypeOK
PROPERTY ImplementsWindow
