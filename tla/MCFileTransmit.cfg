\* Two transmits, crossing without faults or side by side with lost calls and
\* failing copies.
CONSTANTS
    t1 = t1
    t2 = t2
    h1 = h1
    h2 = h2
    NoPort = NoPort
    Transmits <- TwoTransmits
    Hosts <- TwoHosts
    AllPorts <- TwoPorts
    Setups <- ThreeSetups
SPECIFICATION FairSpec
INVARIANTS Consistent FilesAreWhole
PROPERTY TransmitsEndOrHang
\* The transmits are bounded, and a crossing may hang.
CHECK_DEADLOCK FALSE
