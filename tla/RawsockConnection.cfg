SPECIFICATION FairSpec
CONSTANTS
    ClientCodecs = {1, 2, 3}
    ServerCodecs = {1, 2}
    ClientLength = 3
    ServerLength = 15
    ForeignWords <- MCForeignWords
CHECK_DEADLOCK FALSE
INVARIANTS Agreement HandshakeHonoured RefusalIsReported OneOutcome
PROPERTY EstablishEnds
