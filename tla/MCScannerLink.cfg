SPECIFICATION Spec
CONSTANTS
    root = root
    outer = outer
    upper = upper
    side = side
    lower = lower
    private = private
    d0 = d0
    d1 = d1
    d2 = d2
    dx = dx
    dp = dp
    big = big
    text = text
    link = link
    fifo = fifo
    Directories = {root, outer, upper, side, lower, private}
    Files = {d0, d1, d2, dx, dp, big, text}
    Links = {link}
    Others = {fifo}
    Root = root
    Nowhere = Nowhere
    Target <- MCTarget
    FileClass <- MCFileClass
    Names <- MCNames
    ExcludedNames <- MCExcluded
    InitialPlace <- MCPlace
    Movable = {upper, link}
    Destinations <- MCDestinations
    Strays <- MCStrays
    Requests <- MCWideRequest
    MaxChanges = 2
    MaxFaults = 0
INVARIANT RootNotBroadened
CHECK_DEADLOCK FALSE
