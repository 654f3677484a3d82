\* More pictures than slots, queue and cache hold together, and a relink.
SPECIFICATION FairSpec
CONSTANTS
  k1 = k1
  k2 = k2
  a1 = a1
  f1 = f1
  f2 = f2
  Keys = {k1, k2}
  AssetOf <- AssetOfKey
  Projects <- Links
  Files = {f1, f2}
  Jobs = {1, 2}
  Watched = k1
  KeyBytes <- BytesOfKey
  ErrorBytes = 1
  QueueLimit = 1
  EntryLimit = 2
  ByteLimit = 4
  MaxChanges = 1
  Offline = {f2}
  Responses = {1}
  OutputLimit = 1
  None = None
INVARIANT CacheCoherent
PROPERTY RequestAnswered
CHECK_DEADLOCK FALSE
