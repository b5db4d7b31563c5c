\* An offline build of what an online build has locked.
SPECIFICATION Spec
CONSTANTS
  local = local
  nested = nested
  forced = forced
  plain = plain
  main = main
  other = other
  registry1 = registry1
  d1 = d1
  d2 = d2
  Name <- MCName
  Version <- MCVersion
  Digest <- MCDigest
  Registry <- MCRegistry
  RegistryOf <- MCRegistryOf
  Dir <- MCDir
  Needs <- MCNeeds
  LocalOverride <- MCLocalOverride
  LocalNeeds <- MCLocalNeeds
  VersionOverride <- MCVersionOverride
  Listed <- MCListed
  Absent = Absent
  MaxChanges = 0
INVARIANTS OfflineFindsPins
