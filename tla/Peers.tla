-------------------------------- MODULE Peers --------------------------------
(***************************************************************************)
(* The connections of a node, its Start and its Stop (network/node.go,     *)
(* p2p.go, sync.go).                                                       *)
(*                                                                         *)
(* Every connection is served by goroutines of its own, from the dial or   *)
(* the accept to the last message; the table n.peers is keyed by the node  *)
(* id the other side presents.  Start and Stop run in goroutines of their  *)
(* owner, Stop possibly before Start has come to its end.                  *)
(*                                                                         *)
(* Node describes other variables of the same node; what the two modules   *)
(* have in common by name is called Peers... here.                         *)
(***************************************************************************)
EXTENDS Naturals, GoMap

CONSTANTS
    Conn,       \* the connections that may come up
    Bootstrap,  \* those the node dials; it accepts the others
    NodeID,
    Remote      \* the node id that the other side of a connection presents

VARIABLES
    running,    \* n.running
    listening,  \* the port is open
    hasListener,\* P2PNetwork knows the listener
    starting,   \* where Start is
    stopping,   \* where Stop is
    accepting,  \* where acceptConnections is
    mainLoop,   \* mainLoop runs
    syncLoop,   \* where syncLoop is
    peers,      \* node id |-> connection
    connPc,         \* where the goroutine of each connection is
    open,       \* the connections that are open
    stale,      \* those of which nothing was heard for five minutes
    crashed     \* the Go runtime ended the process

node == <<running, listening, hasListener, starting, stopping>>
loops == <<accepting, mainLoop, syncLoop>>
connections == <<peers, connPc, open, stale>>
peersVars == <<node, loops, connections, crashed>>

ASSUME PeersAssumption == /\ Bootstrap \subseteq Conn
                          /\ Remote \in [Conn -> NodeID]

\* NewNode.
PeersInit ==
    /\ running = FALSE /\ listening = FALSE /\ hasListener = FALSE
    /\ starting = "idle" /\ stopping = "idle"
    /\ accepting = "off" /\ mainLoop = FALSE /\ syncLoop = "off"
    /\ peers = EmptyMap
    /\ connPc = [c \in Conn |-> "none"]
    /\ open = {}
    /\ stale = {}
    /\ crashed = FALSE
-----------------------------------------------------------------------------
(* Start.                                                                  *)

BeginStart ==
    /\ starting = "idle"
    /\ ~running
    /\ running' = TRUE
    /\ starting' = "listen"
    /\ UNCHANGED <<listening, hasListener, stopping, loops, connections, crashed>>

\* net.Listen; an error is returned, and n.running stays set.
Listen ==
    /\ starting = "listen"
    /\ \/ listening' = TRUE /\ starting' = "startP2P"
       \/ listening' = FALSE /\ starting' = "returned"
    /\ UNCHANGED <<running, hasListener, stopping, loops, connections, crashed>>

StartP2P ==
    /\ starting = "startP2P"
    /\ hasListener' = TRUE
    /\ starting' = "launch"
    /\ UNCHANGED <<running, listening, stopping, loops, connections, crashed>>

\* The go statements, and connectToBootstrapPeers.
Launch ==
    /\ starting = "launch"
    /\ accepting' = "check" /\ mainLoop' = TRUE /\ syncLoop' = "wait"
    /\ connPc' = [c \in Conn |-> IF c \in Bootstrap THEN "dial" ELSE connPc[c]]
    /\ starting' = "returned"
    /\ UNCHANGED <<running, listening, hasListener, stopping, peers, open, stale,
                   crashed>>
-----------------------------------------------------------------------------
(* Stop.                                                                   *)

BeginStop ==
    /\ stopping = "idle"
    /\ running
    /\ running' = FALSE
    /\ stopping' = "closeChan"
    /\ UNCHANGED <<listening, hasListener, starting, loops, connections, crashed>>

CloseStopChan ==
    /\ stopping = "closeChan"
    /\ stopping' = "stopP2P"
    /\ UNCHANGED <<running, listening, hasListener, starting, loops, connections,
                   crashed>>

\* n.stopChan is closed.
Stopped == stopping \in {"stopP2P", "stopSync", "closePeers", "returned"}

\* Faults seeded to show that the properties can fail are named Faulty...
\* and stand just before the definition they alter.

\* The listener is left open.
FaultyStopP2P ==
    /\ stopping = "stopP2P"
    /\ stopping' = "stopSync"
    /\ UNCHANGED <<running, listening, hasListener, starting, loops, connections,
                   crashed>>

StopP2P ==
    /\ stopping = "stopP2P"
    /\ listening' = (listening /\ ~hasListener)
    /\ stopping' = "stopSync"
    /\ UNCHANGED <<running, hasListener, starting, loops, connections, crashed>>

StopSync ==
    /\ stopping = "stopSync"
    /\ stopping' = "closePeers"
    /\ UNCHANGED <<running, listening, hasListener, starting, loops, connections,
                   crashed>>

SyncStopped == stopping \in {"closePeers", "returned"}

ClosePeers ==
    /\ stopping = "closePeers"
    /\ open' = open \ {peers[i] : i \in DOMAIN peers}
    /\ stopping' = "returned"
    /\ UNCHANGED <<running, listening, hasListener, starting, loops, peers, connPc,
                   stale, crashed>>
-----------------------------------------------------------------------------
(* acceptConnections.                                                      *)

\* select: end, or wait in listener.Accept().
CheckStop ==
    /\ accepting = "check"
    /\ accepting' = IF Stopped THEN "ended" ELSE "accept"
    /\ UNCHANGED <<node, mainLoop, syncLoop, connections, crashed>>

Accept(c) ==
    /\ accepting = "accept"
    /\ listening
    /\ c \notin Bootstrap /\ connPc[c] = "none"
    /\ accepting' = "check"
    /\ connPc' = [connPc EXCEPT ![c] = "handshake"]
    /\ open' = open \cup {c}
    /\ UNCHANGED <<node, mainLoop, syncLoop, peers, stale, crashed>>

\* The listener is closed: an error, and the loop goes on.
AcceptFails ==
    /\ accepting = "accept"
    /\ ~listening
    /\ accepting' = "check"
    /\ UNCHANGED <<node, mainLoop, syncLoop, connections, crashed>>
-----------------------------------------------------------------------------
(* One connection: connectToPeer or handleNewConnection, then handlePeer.  *)

Dial(c) ==
    /\ connPc[c] = "dial"
    /\ \/ connPc' = [connPc EXCEPT ![c] = "handshake"] /\ open' = open \cup {c}
       \/ connPc' = [connPc EXCEPT ![c] = "done"] /\ UNCHANGED open
    /\ UNCHANGED <<node, loops, peers, stale, crashed>>

\* performHandshake: both versions have been sent and the networks agree.
Handshake(c) ==
    /\ connPc[c] = "handshake"
    /\ connPc' = [connPc EXCEPT ![c] = "register"]
    /\ UNCHANGED <<node, loops, peers, open, stale, crashed>>

\* The connection is not closed.
FaultyHandshakeFails(c) ==
    /\ connPc[c] = "handshake"
    /\ connPc' = [connPc EXCEPT ![c] = "done"]
    /\ UNCHANGED <<node, loops, peers, open, stale, crashed>>

\* An error, another message, or another network.
HandshakeFails(c) ==
    /\ connPc[c] = "handshake"
    /\ connPc' = [connPc EXCEPT ![c] = "done"]
    /\ open' = open \ {c}
    /\ UNCHANGED <<node, loops, peers, stale, crashed>>

\* A second connection to a node takes the place of the first.
Register(c) ==
    /\ connPc[c] = "register"
    /\ peers' = Put(peers, Remote[c], c)
    /\ connPc' = [connPc EXCEPT ![c] = "handle"]
    /\ UNCHANGED <<node, loops, open, stale, crashed>>

\* A message comes in.
ReceiveMessage(c) ==
    /\ connPc[c] = "handle"
    /\ c \in open
    /\ stale' = stale \ {c}
    /\ UNCHANGED <<node, loops, peers, connPc, open, crashed>>

\* The table is not updated.
FaultyReceiveFails(c) ==
    /\ connPc[c] = "handle"
    /\ connPc' = [connPc EXCEPT ![c] = "close"]
    /\ UNCHANGED <<node, loops, peers, open, stale, crashed>>

\* The loop goes on as after an error of handleMessage.
FaultyReceiveContinues(c) ==
    /\ connPc[c] = "handle"
    /\ UNCHANGED peersVars

\* An error, because either side has closed the connection or it broke:
\* disconnectPeer deletes whatever is stored under the id ...
ReceiveFails(c) ==
    /\ connPc[c] = "handle"
    /\ peers' = Delete(peers, Remote[c])
    /\ connPc' = [connPc EXCEPT ![c] = "close"]
    /\ UNCHANGED <<node, loops, open, stale, crashed>>

\* ... and closes the connection.
Close(c) ==
    /\ connPc[c] = "close"
    /\ open' = open \ {c}
    /\ connPc' = [connPc EXCEPT ![c] = "done"]
    /\ UNCHANGED <<node, loops, peers, stale, crashed>>

\* Time passes.
GoStale(c) ==
    /\ connPc[c] \in {"handshake", "register", "handle"}
    /\ c \notin stale
    /\ stale' = stale \cup {c}
    /\ UNCHANGED <<node, loops, peers, connPc, open, crashed>>
-----------------------------------------------------------------------------
(* mainLoop and syncLoop.                                                  *)

\* The ids whose connection is stale.
Inactive == {i \in DOMAIN peers : peers[i] \in stale}

\* Inactive peers are removed, but not closed.
FaultyUpdatePeerConnections ==
    /\ mainLoop
    /\ Inactive # {}
    /\ peers' = [i \in DOMAIN peers \ Inactive |-> peers[i]]
    /\ UNCHANGED <<node, loops, connPc, open, stale, crashed>>

UpdatePeerConnections ==
    /\ mainLoop
    /\ Inactive # {}
    /\ open' = open \ {peers[i] : i \in Inactive}
    /\ peers' = [i \in DOMAIN peers \ Inactive |-> peers[i]]
    /\ UNCHANGED <<node, loops, connPc, stale, crashed>>

MainLoopEnds ==
    /\ mainLoop
    /\ Stopped
    /\ mainLoop' = FALSE
    /\ UNCHANGED <<node, accepting, syncLoop, connections, crashed>>

\* synchronize asks every peer for blocks; it holds no lock on n.peers.
Synchronize ==
    /\ syncLoop = "wait"
    /\ syncLoop' = "iterate"
    /\ UNCHANGED <<node, accepting, mainLoop, connections, crashed>>

Synchronized ==
    /\ syncLoop = "iterate"
    /\ syncLoop' = "wait"
    /\ UNCHANGED <<node, accepting, mainLoop, connections, crashed>>

\* A map that is iterated while another goroutine writes it: the runtime may
\* notice, and ends the process.
MapRace ==
    /\ syncLoop = "iterate"
    /\ \/ \E c \in Conn : connPc[c] \in {"register", "handle"}
       \/ mainLoop /\ Inactive # {}
    /\ crashed' = TRUE
    /\ UNCHANGED <<node, loops, connections>>

SyncLoopEnds ==
    /\ syncLoop = "wait"
    /\ SyncStopped
    /\ syncLoop' = "ended"
    /\ UNCHANGED <<node, accepting, mainLoop, connections, crashed>>
-----------------------------------------------------------------------------
StartStep == BeginStart \/ Listen \/ StartP2P \/ Launch
StopStep == BeginStop \/ CloseStopChan \/ StopP2P \/ StopSync \/ ClosePeers
LoopStep ==
    \/ CheckStop \/ AcceptFails \/ MainLoopEnds \/ SyncLoopEnds
    \/ UpdatePeerConnections \/ Synchronize \/ Synchronized \/ MapRace

ConnStep(c) ==
    \/ Accept(c) \/ Dial(c)
    \/ Handshake(c) \/ HandshakeFails(c)
    \/ Register(c) \/ ReceiveMessage(c) \/ ReceiveFails(c) \/ Close(c)
    \/ GoStale(c)

PeersNext ==
    /\ ~crashed
    /\ StartStep \/ StopStep \/ LoopStep \/ \E c \in Conn : ConnStep(c)

\* Goroutines keep running.  A remote node may stay silent for ever, in the
\* handshake or after it; reading from a connection that is closed does fail.
\* A select that finds its stop channel closed does not choose the ticker for
\* ever.  (synchronize writes to connections without a deadline and may hang.)
PeersFairness ==
    /\ WF_peersVars(~crashed /\ (Listen \/ StartP2P \/ Launch))
    /\ WF_peersVars(~crashed /\ (CloseStopChan \/ StopP2P \/ StopSync \/ ClosePeers))
    /\ WF_peersVars(~crashed /\ (CheckStop \/ AcceptFails))
    /\ WF_peersVars(~crashed /\ MainLoopEnds)
    /\ \A c \in Conn :
          /\ WF_peersVars(~crashed /\ (Register(c) \/ Close(c)))
          /\ WF_peersVars(~crashed /\ c \notin open /\ ReceiveFails(c))

PeersSpec == PeersInit /\ [][PeersNext]_peersVars /\ PeersFairness
-----------------------------------------------------------------------------
\* n.peers is keyed by node ids, and every goroutine is at a known place.
TypeOK ==
    /\ {running, listening, hasListener, mainLoop, crashed} \subseteq BOOLEAN
    /\ starting \in {"idle", "listen", "startP2P", "launch", "returned"}
    /\ stopping \in {"idle", "closeChan", "stopP2P", "stopSync", "closePeers",
                     "returned"}
    /\ accepting \in {"off", "check", "accept", "ended"}
    /\ syncLoop \in {"off", "wait", "iterate", "ended"}
    /\ IsMap(peers, NodeID, Conn)
    /\ connPc \in [Conn -> {"none", "dial", "handshake", "register", "handle",
                        "close", "done"}]
    /\ open \subseteq Conn
    /\ stale \subseteq Conn

\* Whatever reconnects, times out or breaks in whatever order: the table never
\* holds a connection that nobody reads from any more, so that broadcasts and
\* synchronisation go to peers whose end will be noticed.
EntriesHandled ==
    \A i \in DOMAIN peers : connPc[peers[i]] = "handle" /\ Remote[peers[i]] = i

\* No goroutine ends without its connection being closed.
NothingLeaked == \A c \in open : connPc[c] \in {"handshake", "register", "handle",
                                            "close"}

\* A node with which only one connection has come this far stays in the table
\* as long as that connection is open: it gets every broadcast.
Sole(c) == \A d \in Conn \ {c} :
              Remote[d] = Remote[c] => connPc[d] \notin {"handle", "close", "done"}

HandledIsRegistered ==
    \A c \in open : connPc[c] = "handle" /\ Sole(c) =>
        Has(peers, Remote[c]) /\ peers[Remote[c]] = c

\* The invariant that is inductive: nothing is dialled before Launch, and the
\* above.
NotLaunched == starting # "returned" => \A c \in Bootstrap : connPc[c] = "none"

PeersInv ==
    /\ TypeOK
    /\ NotLaunched
    /\ EntriesHandled
    /\ NothingLeaked
    /\ HandledIsRegistered

\* When Start and Stop have returned, in whatever order their steps came, the
\* accept loop and the main loop end: neither stays in Accept or on its ticker.
LoopsEnd ==
    starting = "returned" /\ stopping = "returned" ~>
        (accepting \in {"off", "ended"} /\ ~mainLoop) \/ crashed

\* A closed connection leaves the table, or the process ends.
ClosedLeave ==
    \A c \in Conn :
        connPc[c] = "handle" /\ c \notin open ~>
            (\A i \in DOMAIN peers : peers[i] # c) \/ crashed
=============================================================================
