\* Two program threads, two thread ids, three CPUs of which one is offline.
CONSTANTS
    Clients = {c1, c2}
    Nobody = Nobody
    Tids <- TwoTids
    Cpus <- MCCpus
    Online <- MCOnline
    NoMask <- MCNoMask
SPECIFICATION Spec
INVARIANTS
    RequestsMet
PROPERTIES
    ImplementsAffinity
