\* Two borrowers beside the events; libvirtd stops or drops a connection three times.
CONSTANTS
    u1 = u1
    u2 = u2
    Enabler = Enabler
    NoConn = NoConn
    Users <- TwoUsers
    Conns <- EightConns
    MaxSize = 1
    MaxCloses = 3
SPECIFICATION FairSpec
INVARIANTS Consistent NothingIsLost
PROPERTY EventsReturn
