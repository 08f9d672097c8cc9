CONSTANTS
    P = {p1, p2, p3}
    NUM = 7
    W = 7
    Nobody = Nobody
    Intr = Intr
SPECIFICATION Spec
INVARIANTS QueueAgrees NoneMissed Transferred
PROPERTY Completes
CHECK_DEADLOCK FALSE
