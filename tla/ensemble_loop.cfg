SPECIFICATION Spec
CONSTANTS
    p = p
    m = m
    n = n
    l1 = l1
    l2 = l2
    Names = {m, n}
    Loaders = {l1, l2}
    Interfaces <- TwoPlain
    Graphs <- EachOther
    MaxLoads = 2
INVARIANT
    NoRequestLoop
