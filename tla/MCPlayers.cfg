SPECIFICATION Spec
CONSTANTS
    MaxPlayers = 2
    Seen = {1}
    Kinds = {"rights"}
    Interval = 1
    MaxAge = 1
    MaxDepth = 2
INVARIANT Consistent
INVARIANT EventsInOrder
INVARIANT KeyMeetsItsMenu
PROPERTY AuthorizedInTheEnd
