------------------------------ MODULE Exporter ------------------------------
(***************************************************************************)
(* The life of the process: main constructs the collectors one after the   *)
(* other, each with its first refresh, registers those that are enabled,   *)
(* creates the node collectors, binds the web listeners in the VRF, and    *)
(* serves until every listener has failed.                                 *)
(*                                                                         *)
(* The flags of node_exporter and frr_exporter are those of one global     *)
(* kingpin application: parsing arguments sets the flags that are not      *)
(* among them to their defaults.                                           *)
(***************************************************************************)
EXTENDS Naturals, Sequences, FiniteSets

CONSTANTS Order,       \* the collectors in the order main constructs them
          ScrapeTime,  \* interface, hw, crm, queue: always registered
          Frr, Node,
          EnabledSets, \* values of the ..._ENABLED variables
          RootDir,     \* the default of --path.rootfs
          Rootfs,      \* its values
          AddressLists,\* values of --web.listen-address
          Vsock,       \* the addresses that begin with vsock://
          NoVrf,       \* --web.vrf=
          Vrfs,        \* values of --web.vrf
          NoRootfs

Collectors == {Order[i] : i \in DOMAIN Order}
Background == Collectors \ (ScrapeTime \cup {Frr})

ASSUME CollectorsAssumption ==
  /\ Order \in Seq(Collectors)
  /\ ScrapeTime \subseteq Collectors /\ Frr \in Collectors \ ScrapeTime
  /\ Node \notin Collectors
  /\ EnabledSets \subseteq SUBSET (Background \cup {Frr})

Addresses == UNION {{l[i] : i \in DOMAIN l} : l \in AddressLists}

ASSUME WebAssumption ==
  /\ RootDir \in Rootfs /\ NoRootfs \notin Rootfs
  /\ \A l \in AddressLists : l \in Seq(Addresses)
  /\ Vsock \subseteq Addresses /\ NoVrf \in Vrfs

VARIABLES enabled, rootfs, addresses, vrf, systemd,  \* the configuration
          stage,       \* parse, construct, register, node, web, bind, serve,
                       \* unbind, exited
          position,    \* the position in Order, in addresses or in listeners
          refreshed,   \* the collectors whose first refresh has ended
          running,     \* those whose refreshLoop was started
          frr,         \* the FRR exporter was created
          rootfsFlag,  \* the value of node_exporter's --path.rootfs
          nodeRootfs,  \* the value the filesystem collector was created with
          registered,
          listeners,   \* the listeners bound so far, in order
          socket       \* socket[i]: open, closed, or stuck (Close failed)

configuration == <<enabled, rootfs, addresses, vrf, systemd>>
collectors    == <<refreshed, running, frr, registered>>
flags         == <<rootfsFlag, nodeRootfs>>
web           == <<listeners, socket>>
mainVars          == <<configuration, stage, position, collectors, flags, web>>

MainTypeOK ==
  /\ enabled \in EnabledSets /\ rootfs \in Rootfs /\ addresses \in AddressLists
  /\ vrf \in Vrfs /\ systemd \in BOOLEAN
  /\ stage \in {"parse", "construct", "register", "node", "web", "bind", "serve", "unbind",
             "exited"}
  /\ position \in Nat \ {0}
  /\ refreshed \subseteq Background /\ running \subseteq Background
  /\ frr \in BOOLEAN
  /\ rootfsFlag \in Rootfs /\ nodeRootfs \in Rootfs \cup {NoRootfs}
  /\ registered \subseteq Collectors \cup {Node}
  /\ listeners \in Seq(Addresses)
  /\ socket \in Seq({"open", "closed", "stuck"}) /\ Len(socket) = Len(listeners)

MainInit ==
  /\ enabled \in EnabledSets /\ rootfs \in Rootfs /\ addresses \in AddressLists
  /\ vrf \in Vrfs /\ systemd \in BOOLEAN
  /\ stage = "parse" /\ position = 1
  /\ refreshed = {} /\ running = {} /\ frr = FALSE /\ registered = {}
  /\ rootfsFlag = RootDir /\ nodeRootfs = NoRootfs
  /\ listeners = <<>> /\ socket = <<>>

Exit == stage' = "exited"

-----------------------------------------------------------------------------
(* The start.                                                              *)

\* The arguments are parsed, then nodeCollectorArgs by the global application.
ParseFlags ==
  /\ stage = "parse"
  /\ \/ stage' = "construct" /\ rootfsFlag' = rootfs
     \/ Exit /\ UNCHANGED rootfsFlag
  /\ UNCHANGED <<configuration, position, collectors, nodeRootfs, web>>

Construct(c) ==
  /\ stage = "construct"
  /\ position <= Len(Order) /\ Order[position] = c
  /\ position' = position + 1

\* A scrape-time collector reads nothing yet; a disabled one returns at once.
ConstructIdle ==
  /\ \E c \in Collectors : Construct(c) /\ c \in ScrapeTime \cup (Collectors \ enabled)
  /\ UNCHANGED <<configuration, stage, collectors, flags, web>>

\* MUTANT: the first refresh is left to the goroutine.
ConstructBackgroundLoopOnly ==
  /\ \E c \in Background \cap enabled : Construct(c) /\ running' = running \cup {c}
  /\ UNCHANGED <<configuration, stage, refreshed, frr, registered, flags, web>>

\* refreshMetrics is called, successful or not, and go refreshLoop() follows.
ConstructBackground ==
  /\ \E c \in Background \cap enabled :
       /\ Construct(c)
       /\ refreshed' = refreshed \cup {c}
       /\ running' = running \cup {c}
  /\ UNCHANGED <<configuration, stage, frr, registered, flags, web>>

\* The global application parses the arguments of frr_exporter. An error, of
\* the parser or of NewExporter, disables the collector, not the exporter.
ConstructFrr ==
  /\ Frr \in enabled
  /\ Construct(Frr)
  /\ frr' \in BOOLEAN
  /\ \/ rootfsFlag' = RootDir
     \/ ~frr' /\ UNCHANGED rootfsFlag
  /\ UNCHANGED <<configuration, stage, refreshed, running, registered, nodeRootfs, web>>

Constructed ==
  /\ stage = "construct"
  /\ position > Len(Order)
  /\ stage' = "register" /\ position' = 1
  /\ UNCHANGED <<configuration, collectors, flags, web>>

IsEnabled(c) == c \in ScrapeTime \/ (IF c = Frr THEN frr ELSE c \in enabled)

\* MustRegister of those that are enabled.
RegisterEnabled ==
  /\ stage = "register"
  /\ registered' = {c \in Collectors : IsEnabled(c)}
  /\ stage' = "node"
  /\ UNCHANGED <<configuration, position, refreshed, running, frr, flags, web>>

NewNode ==
  /\ stage = "node"
  /\ \/ /\ stage' = "web"
        /\ registered' = registered \cup {Node}
        /\ nodeRootfs' = rootfsFlag
     \/ Exit /\ UNCHANGED <<registered, nodeRootfs>>
  /\ UNCHANGED <<configuration, position, refreshed, running, frr, rootfsFlag, web>>

-----------------------------------------------------------------------------
(* The web listeners.                                                      *)

HasVsock == \E i \in DOMAIN addresses : addresses[i] \in Vsock

\* Socket activation and vsock addresses cannot be bound to a VRF.
Refuse ==
  /\ stage = "web"
  /\ vrf # NoVrf /\ (systemd \/ HasVsock)
  /\ Exit
  /\ UNCHANGED <<configuration, position, collectors, flags, web>>

BindStarts ==
  /\ stage = "web"
  /\ vrf # NoVrf /\ ~systemd /\ ~HasVsock
  /\ stage' = "bind" /\ position' = 1
  /\ UNCHANGED <<configuration, collectors, flags, web>>

Taken(a) == \E i \in DOMAIN listeners : listeners[i] = a /\ socket[i] = "open"

Bind ==
  /\ stage = "bind"
  /\ position <= Len(addresses)
  /\ ~Taken(addresses[position])
  /\ listeners' = Append(listeners, addresses[position])
  /\ socket' = Append(socket, "open")
  /\ position' = position + 1
  /\ UNCHANGED <<configuration, stage, collectors, flags>>

\* MUTANT: the addresses are tried again from the first.
BindFailsRetries ==
  /\ stage = "bind"
  /\ position <= Len(addresses)
  /\ position' = 1
  /\ UNCHANGED <<configuration, stage, collectors, flags, web>>

\* The address is in use (by an earlier listener of ours, too), there is no such
\* device, or no right to bind to it: those bound before are closed.
BindFails ==
  /\ stage = "bind"
  /\ position <= Len(addresses)
  /\ stage' = "unbind" /\ position' = 1
  /\ UNCHANGED <<configuration, collectors, flags, web>>

BindEnds ==
  /\ stage = "bind"
  /\ position > Len(addresses)
  /\ stage' = "serve"
  /\ UNCHANGED <<configuration, position, collectors, flags, web>>

\* MUTANT: closeWebListeners returns the first error.
CloseStopsAtError ==
  /\ stage = "unbind"
  /\ position <= Len(listeners)
  /\ \E s \in {"closed", "stuck"} :
       /\ socket' = [socket EXCEPT ![position] = s]
       /\ IF s = "stuck" THEN Exit ELSE UNCHANGED stage
  /\ position' = position + 1
  /\ UNCHANGED <<configuration, collectors, flags, listeners>>

\* Every listener is closed; an error is kept for later, also the one of a
\* listener that http.Server has closed before.
Close ==
  /\ stage = "unbind"
  /\ position <= Len(listeners)
  /\ \E s \in {"closed", "stuck"} :
       socket' = [socket EXCEPT ![position] = IF @ = "closed" THEN @ ELSE s]
  /\ position' = position + 1
  /\ UNCHANGED <<configuration, stage, collectors, flags, listeners>>

Unbound ==
  /\ stage = "unbind"
  /\ position > Len(listeners)
  /\ Exit
  /\ UNCHANGED <<configuration, position, collectors, flags, web>>

\* --web.vrf=: exporter-toolkit binds its listeners itself, or fails.
ToolkitServes ==
  /\ stage = "web"
  /\ vrf = NoVrf
  /\ \/ /\ stage' = "serve"
        /\ listeners' = addresses
        /\ socket' = [i \in DOMAIN addresses |-> "open"]
     \/ Exit /\ UNCHANGED web
  /\ UNCHANGED <<configuration, position, collectors, flags>>

\* http.Server.Serve returns on one listener and closes it: the others go on.
ServeFails(i) ==
  /\ stage = "serve"
  /\ socket[i] = "open"
  /\ socket' = [socket EXCEPT ![i] = "closed"]
  /\ UNCHANGED <<configuration, stage, position, collectors, flags, listeners>>

\* ServeMultiple returns its error when the last one has.
ServeEnds ==
  /\ stage = "serve"
  /\ \A i \in DOMAIN socket : socket[i] # "open"
  /\ IF vrf = NoVrf
     THEN Exit /\ UNCHANGED position
     ELSE stage' = "unbind" /\ position' = 1
  /\ UNCHANGED <<configuration, collectors, flags, web>>

Start ==
  \/ ParseFlags
  \/ ConstructIdle \/ ConstructBackground \/ ConstructFrr \/ Constructed
  \/ RegisterEnabled \/ NewNode
  \/ Refuse \/ BindStarts \/ Bind \/ BindFails \/ BindEnds \/ Close \/ Unbound
  \/ ToolkitServes

Serving == ServeEnds \/ \E i \in DOMAIN socket : ServeFails(i)

MainNext == Start \/ Serving

\* main runs by itself; nothing makes a listener fail.
MainSpec == MainInit /\ [][MainNext]_mainVars /\ WF_mainVars(Start) /\ WF_mainVars(ServeEnds)

-----------------------------------------------------------------------------
(* Properties.                                                             *)

Listening == \E i \in DOMAIN socket : socket[i] = "open"

\* The port is not open before there is something to answer: every enabled
\* background collector has ended its first refresh, refreshes on, and is
\* registered, as are the scrape-time and the node collectors; and the
\* filesystem collector looks where --path.rootfs says, unless the arguments of
\* FRR were parsed in between.
ListensWhenReady ==
  Listening =>
    /\ ScrapeTime \cup (enabled \ {Frr}) \cup {Node} \subseteq registered
    /\ Frr \in registered <=> frr
    /\ enabled \cap Background \subseteq refreshed \cap running
    /\ nodeRootfs \in {rootfs, RootDir}
    /\ Frr \notin enabled => nodeRootfs = rootfs

\* A process that gives up has closed every listener it bound, whichever bind,
\* serve or close failed; one that cannot be bound to a VRF never opens a port.
ListenersReleased ==
  /\ stage = "exited" => ~Listening
  /\ vrf # NoVrf /\ (systemd \/ HasVsock) => listeners = <<>>

\* The start does not hang on a collector or a listener: the process serves or
\* exits, and it exits when its last listener has failed.
StartEnds ==
  /\ <>(stage \in {"serve", "exited"})
  /\ (stage = "serve" /\ ~Listening) ~> (stage = "exited")

=============================================================================
