CONSTANTS
    Plugins = {p, q}
    Nobody = Nobody
    Names = {x}
    Channels = {"chat"}
    Careful = TRUE
    Asked <- MCAsked
    MaxLoads = 3
    MaxAdds = 2
    MaxDepth = 2
SPECIFICATION Spec
SYMMETRY MCSymmetry
INVARIANT Consistent
PROPERTY ExportsAreNotInTheWay
CHECK_DEADLOCK FALSE
