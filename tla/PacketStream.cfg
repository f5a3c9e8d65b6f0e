\* The three kinds of socket; packets of three shapes in and packets of two bytes out.
CONSTANTS
    Transports = {"rtos", "wiznet", "tls"}
    Shapes <- ThreeShapes
    Garbage = Garbage
    OutSize = 2  MaxPackets = 3
SPECIFICATION FairSpec
INVARIANTS TypeOK SuccessMeansSent
PROPERTIES ImplementsFramedChannel TornOnlyLate YieldReturns
\* The bounds run out; a WIZnet socket waits for a byte that need not come.
CHECK_DEADLOCK FALSE
