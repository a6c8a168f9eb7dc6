SPECIFICATION FairSpec
CONSTANTS
  UI = UI
  Web = Web
  Network = Network
  Plugin = Plugin
  uiEnd = uiEnd
  webEnd = webEnd
  uiNetworkEnd = uiNetworkEnd
  networkEnd = networkEnd
  webPluginEnd = webPluginEnd
  pluginEnd = pluginEnd
  All = All
  Loops = {UI, Web, Network}
  Ends = {uiEnd, webEnd, uiNetworkEnd, networkEnd}
  LoopOf <- BrowserLoopOf
  Peer <- BrowserPeer
  OnlyWhenProcessing = {webEnd}
  ExitOnFailure = {webEnd}
  MaxSent <- BrowserMaxSent
  MaxTotal = 3
  MayInvalidate = {uiEnd}
  MayTimeOut = {uiEnd}
  MayCrash = {Web}
INVARIANTS MessagesHaveTasks UnmarkedInOrder NoSyncDeadlock NoLostWakeUp
PROPERTY SyncSendsReturn
CHECK_DEADLOCK FALSE
