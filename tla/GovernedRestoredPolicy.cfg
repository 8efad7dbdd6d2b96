\* An operator puts back an older policy file.
CONSTANTS
    c1 = c1  c2 = c2  d1 = d1
    Commands = {c1, c2}
    Devices = {d1}
    Threads = {t1}
    None = None
    Device <- MCDevice
    Sequence <- MCSequence
    CommandEpoch <- TwoEpochs
    Policies <- TwoPolicies
    MaxDisturbances = 1
SPECIFICATION Spec
INVARIANT RestoredPolicyRejected
