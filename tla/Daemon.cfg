SPECIFICATION FairSpec

CONSTANTS
  n1 = n1
  ConfigFile <- ConfigFiles
  Env <- Envs
  Key = {k1, k2, k3, k4}
  MaxFaults = 2

INVARIANT OneKeyPerActor
INVARIANT SigningKeyOnFile
INVARIANT Discoverable
INVARIANT PlaintextOnlyToZulip
PROPERTY StopsWhenAsked
PROPERTY KeepsPolling
