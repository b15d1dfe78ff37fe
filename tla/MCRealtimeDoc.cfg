CONSTANTS
  w1 = w1
  w2 = w2
  null = null
  Clients <- MCClients
  Docs <- MCDocs
  InitDoc <- MCInitDoc
  Patches <- MCPatches
  ClientPatches <- MCClientPatches
  Apply <- MCApply
  Valid <- MCValid
  Replace <- MCReplace
  Updater <- MCUpdater
  NoDoc = null
  MaxWrites = 3
  MaxFaults = 2
SPECIFICATION FairSpec
INVARIANTS TypeOK NoLostUpdate BroadcastApplies
PROPERTIES LinearHistory Converges
CHECK_DEADLOCK FALSE
