\* Two connections updating the same object's enabled flag by name.
CONSTANTS
    Thr = {t1, t2}
    NObj = 1
    MaxReqs = 1
    NoThread = NoThread
    Reqs <- KeyUpdates
SPECIFICATION Spec
INVARIANT
    EventsFollowState
