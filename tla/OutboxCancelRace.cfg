SPECIFICATION Spec
CONSTANTS
    Events = {e1}
    Publishers = {p1}
    Operators = {o1}
    Tokens = {t1, t2}
    NoToken = NoToken  NoCopy = NoCopy
    MaxAttempts = 2  BatchSize = 1
    MaxCrashes = 0  MaxSlow = 0  MaxOps = 1

PROPERTIES PublishedNeverCancelled
