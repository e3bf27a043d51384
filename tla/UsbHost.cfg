SPECIFICATION FairSpec
CONSTANT Worlds <- AllWorlds
INVARIANTS TypeOK SaysDoneWhenServed MessageUsedOnce TogglesAgree AddressedAfterSetAddress
PROPERTY Enumerates
