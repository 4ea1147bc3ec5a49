CONSTANTS
    Key = {k1, k2, k3}
    Id = {i1, i2, i3}
    Worker = {v1, v2}
SPECIFICATION FairSpec
INVARIANTS OneToOne AccountedFor
PROPERTIES EntriesKept CommandEnds
