SPECIFICATION Spec
CONSTANTS
    c1 = c1
    c2 = c2
    e1 = e1
    e2 = e2
    x = x
    y = y
    t = t
    u = u
    Cell = {c1, c2}
    Expr = {e1, e2}
    Data = {x, y}
    Celltype = {t, u}
    Produces <- Swap
    Nothing = Nothing
    Fails = Fails
    MaxUses = 5
SYMMETRY Symmetry
INVARIANT ReadsProduced
CHECK_DEADLOCK FALSE
