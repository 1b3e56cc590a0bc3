\* A page shares, and another enters, leaves and comes back: three turns.
SPECIFICATION FairSpec
CONSTANTS
    Host = host
    Viewers = {1, 2}
    Tab <- OneTab
    MaxShares = 2
    MaxTurns = 3
    MaxTrickle = 1
INVARIANTS
    ShownAreServed
    OpenPeersAreRegistered
    SignalsFindTheirPeer
PROPERTIES
    SharesAreSeen
    FrozenPicturesGo
CHECK_DEADLOCK FALSE
