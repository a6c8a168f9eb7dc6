SPECIFICATION Spec
CONSTANTS
  UI = UI
  Web = Web
  Network = Network
  Plugin = Plugin
  uiEnd = uiEnd
  webEnd = webEnd
  uiNetworkEnd = uiNetworkEnd
  networkEnd = networkEnd
  webPluginEnd = webPluginEnd
  pluginEnd = pluginEnd
  All = All
  Loops = {UI, Web, Plugin}
  Ends = {uiEnd, webEnd, webPluginEnd, pluginEnd}
  LoopOf <- PluginLoopOf
  Peer <- PluginPeer
  OnlyWhenProcessing = {webEnd, pluginEnd}
  ExitOnFailure = {webEnd}
  MaxSent <- PluginMaxSent
  MaxTotal = 4
  MayInvalidate = {}
  MayTimeOut = {}
  MayCrash = {}
INVARIANT NoSyncDeadlock
CHECK_DEADLOCK FALSE
