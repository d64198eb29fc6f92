SPECIFICATION Spec
CONSTANTS
    Sites = {s1, s2}
    Sids = {p1}
    Starts = {0}
    Reqs = {r1, r2}
    Tabs = {t1, t2}
    MaxDay = 2
    MaxReveals = 2
INVARIANTS
    LedgerAdds
    SidUnique
    BookedWithinProduction
SYMMETRY Symmetry
