\* Every configuration-object handler path run by two connections at once.
CONSTANTS
    Thr = {t1, t2}
    NObj = 2
    MaxReqs = 2
    NoThread = NoThread
    Reqs <- AllReqs
SPECIFICATION Spec
INVARIANTS
    TypeOK
    RefCoversHolders
