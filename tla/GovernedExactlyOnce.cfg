\* A command is delivered twice; nothing else goes wrong.
CONSTANTS
    c1 = c1  c2 = c2  d1 = d1
    Commands = {c1, c2}
    Devices = {d1}
    Threads = {t1, t2}
    None = None
    Device <- MCDevice
    Sequence <- MCSequence
    CommandEpoch <- OneEpoch
    Policies <- OnePolicy
    MaxDisturbances = 0
SPECIFICATION Spec
INVARIANT ExactlyOnce
