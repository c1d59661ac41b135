SPECIFICATION Spec
CONSTANTS
    Conns = {c1, c2}
    Handles = {h1, h2}
    Stmts = {s1, s2}
    Guards = {g1, g2}
    Cursors = {k1, k2}
    Null = Null
INVARIANTS OneOwner HandlesRight
CHECK_DEADLOCK FALSE
