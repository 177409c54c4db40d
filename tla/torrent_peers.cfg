\* Peers that send anything; two of the connections have one address, and only
\* one address may be registered.  One piece, of a full and a short block, holds
\* two files.  And two private trackers, with two accounts; one torrent of both.
CONSTANTS
  a1 = a1
  a2 = a2
  c1 = c1
  c2 = c2
  c3 = c3
  u1 = u1
  u2 = u2
  p1 = p1
  p2 = p2
  Addrs = {a1, a2}
  BlockSize = 2
  Conns = {c1, c2, c3}
  AddrOf <- SharedAddress
  MaxPeers = 1
  PieceLength = 3
  TotalSize = 3
  FileLengths <- PieceOfTwoFiles
  MaxStored = 3
  TrackerIds = {1, 2}
  Configs <- MCConfigs
  Askers <- MCAskers
  MaxTrackers = 2
  Hashes = {1}
  StatTrackers = {1, 2}
  Queriers = {1, 2}
  MaxReports = 2
SPECIFICATION TorrentsSpec
INVARIANTS Types CountsMatch VerifiedIntact SessionsAreOwn CountsAreOwn
PROPERTY VerifiedStays
CHECK_DEADLOCK FALSE
