SPECIFICATION Spec
CONSTANTS
    v1 = v1  p1 = p1  p2 = p2  g1 = g1  g2 = g2
    NoCall = NoCall
    Volumes = {v1}
    Pods = {p1, p2}
    Uses <- OneVolume
    Goroutines = {g1}
    Disruptions = {"lateDevice"}
    MaxDisruptions = 1
CHECK_DEADLOCK FALSE
INVARIANT DataSurvives
