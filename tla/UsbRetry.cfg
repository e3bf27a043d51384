SPECIFICATION FairSpec
CONSTANT Worlds <- PulledWorlds
PROPERTY SentAgainUntilProcessed
