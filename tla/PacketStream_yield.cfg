\* A yield on the socket the port is built with, and a broker with nothing to say.
CONSTANTS
    Transports = {"wiznet"}
    Shapes <- ThreeShapes
    Garbage = Garbage
    OutSize = 2  MaxPackets = 2
SPECIFICATION FairSpec
PROPERTY YieldTakesItsTime
\* The socket waits for a byte that need not come.
CHECK_DEADLOCK FALSE
