---- MODULE MCConnection ----
(* The UI process with a web process and the network process, or the web process with *)
(* the UI process and a plug-in process.                                              *)
EXTENDS Connection, TLC

CONSTANTS UI, Web, Network, Plugin,
          uiEnd, webEnd, uiNetworkEnd, networkEnd, webPluginEnd, pluginEnd

BrowserLoopOf ==
    (uiEnd :> UI) @@ (webEnd :> Web) @@ (uiNetworkEnd :> UI) @@ (networkEnd :> Network)
BrowserPeer ==
    (uiEnd :> webEnd) @@ (webEnd :> uiEnd)
    @@ (uiNetworkEnd :> networkEnd) @@ (networkEnd :> uiNetworkEnd)
BrowserMaxSent ==
    (uiEnd :> 1) @@ (webEnd :> 2) @@ (uiNetworkEnd :> 0) @@ (networkEnd :> 1)

PluginLoopOf ==
    (uiEnd :> UI) @@ (webEnd :> Web) @@ (webPluginEnd :> Web) @@ (pluginEnd :> Plugin)
PluginPeer ==
    (uiEnd :> webEnd) @@ (webEnd :> uiEnd)
    @@ (webPluginEnd :> pluginEnd) @@ (pluginEnd :> webPluginEnd)
PluginMaxSent == [e \in {uiEnd, webEnd, webPluginEnd, pluginEnd} |-> 1]
====
