SPECIFICATION Spec
CONSTANTS
  btc = btc eth = eth userBtc = userBtc
  l2Book = l2Book activeAssetData = activeAssetData alice = alice nobody = nobody
  NoUser = nobody
  Channels = {l2Book, activeAssetData}
  Keys <- MixedKeys
  ChannelOf <- MixedChannelOf
  UserOf <- MixedUserOf
  Callers = {c1, c2}
  MatchAll = {l2Book}
  BufferSize = 1
  MaxSubs = 2
  MaxMessages = 1
CHECK_DEADLOCK FALSE
SYMMETRY CallerSymmetry
INVARIANTS
  RegistryInv
  RegisteredListedOnce
  QuietAgreement
