-------------------------------- MODULE Eou --------------------------------
(***************************************************************************)
(* The Ethernet over UDP pseudo-device, OpenBSD/Ethernet_over_UDP/sys/net/ *)
(* if_eou.c: interfaces created, configured and destroyed by ioctls, the   *)
(* tunnels they share, the pongs that hold a link up and the two timers of *)
(* each interface.  An ioctl may sleep, to create a tunnel or to send a    *)
(* ping, while others run; searches that find nothing return whatever was  *)
(* on the stack.                                                           *)
(*                                                                         *)
(* A path stands for a source and a destination address with its port.     *)
(* Left out, because nothing modelled depends on them: data packets,       *)
(* IFF_RUNNING, and eou_nets, which only decides whether                   *)
(* eou_tunnel_destroy, an empty function, is called, with the sc_dstport   *)
(* that decides which tunnel counts it down.  The peer may send a pong at  *)
(* any time: the code does not match pongs with pings.                     *)
(***************************************************************************)
EXTENDS Integers, FiniteSets

CONSTANTS Ifs,          \* the interface units
          Paths, None,  \* address pairs; no address (zeroed sc_src, sc_dst)
          VNets,        \* network ids; an interface is created with id 0
          SoftcId,      \* generate_softc_id: [Paths \X VNets -> Nat]
          TunId         \* generate_tun_id: [Paths -> Nat]

ASSUME ConstantsOK ==
  /\ None \notin Paths /\ None \notin Nat
  /\ 0 \in VNets
  /\ SoftcId \in [Paths \X VNets -> Nat]
  /\ TunId \in [Paths -> Nat]

VARIABLES
  ifs,       \* the interfaces that exist
  freed,     \* those that existed and were freed
  up,        \* those with IFF_UP
  linkUp,    \* those with if_link_state = LINK_STATE_UP
  beat,      \* those with timer_heartbeat pending
  attack,    \* those with timer_heartattack pending
  path,      \* sc_src and sc_dst
  vnet,      \* sc_vnetid
  send,      \* the interfaces with a socket in sc_send
  key,       \* sc->tun_id, the key in the tree of interfaces, or None
  tree,      \* the interfaces a walk over eou_softc_tree meets
  linked,    \* those that were linked into the tree once
  torn,      \* the tree is no search tree any more, or has a node twice
  tunnels,   \* the paths of the tunnels in eou_tunnel_tree
  open,      \* the paths with a connected socket that calls the device back
  asking,    \* the path whose tunnel a sleeping configuration is creating
  setting,   \* those whose eou_softc_setup is asleep in the ping
  wild       \* history: freed interfaces an ioctl that slept, or a stray
             \* pointer, may still use

units   == <<ifs, freed, wild>>
timers  == <<beat, attack>>
address == <<path, vnet, send, key>>
nodes   == <<tree, linked, torn>>
tunnel  == <<tunnels, open>>
asleep  == <<asking, setting>>
vars == <<units, up, linkUp, timers, address, nodes, tunnel, asleep>>

\* The variables have their types, and a tunnel in the tree has a socket.
TypeOK ==
  /\ ifs \subseteq Ifs /\ freed \subseteq Ifs \ ifs /\ wild \subseteq freed
  /\ up \subseteq ifs /\ linkUp \subseteq Ifs
  /\ beat \subseteq Ifs /\ attack \subseteq Ifs
  /\ path \in [Ifs -> Paths \cup {None}]
  /\ vnet \in [Ifs -> VNets]
  /\ send \subseteq Ifs
  /\ key \in [Ifs -> Nat \cup {None}]
  /\ tree \subseteq Ifs /\ linked \subseteq Ifs /\ torn \in BOOLEAN
  /\ tunnels \subseteq open /\ open \subseteq Paths
  /\ asking \in [Ifs -> Paths \cup {None}]
  /\ setting \subseteq Ifs

Init ==
  /\ ifs = {} /\ freed = {} /\ wild = {}
  /\ up = {} /\ linkUp = {} /\ beat = {} /\ attack = {}
  /\ path = [i \in Ifs |-> None] /\ vnet = [i \in Ifs |-> 0]
  /\ send = {} /\ key = [i \in Ifs |-> None]
  /\ tree = {} /\ linked = {} /\ torn = FALSE
  /\ tunnels = {} /\ open = {}
  /\ asking = [i \in Ifs |-> None] /\ setting = {}

\* A NULL, stray or freed pointer is followed, or a torn tree: the machine may
\* go down, or hang, and comes up with no device.
Panic ==
  /\ ifs' = {} /\ freed' = {} /\ wild' = {}
  /\ up' = {} /\ linkUp' = {} /\ beat' = {} /\ attack' = {}
  /\ path' = [i \in Ifs |-> None] /\ vnet' = [i \in Ifs |-> 0]
  /\ send' = {} /\ key' = [i \in Ifs |-> None]
  /\ tree' = {} /\ linked' = {} /\ torn' = FALSE
  /\ tunnels' = {} /\ open' = {}
  /\ asking' = [i \in Ifs |-> None] /\ setting' = {}

-----------------------------------------------------------------------------
(* The tree of interfaces. An operation on a torn tree may do anything.    *)

\* The searches find an interface with this path and network id. Otherwise
\* they return an uninitialised pointer: NULL, which every caller takes for
\* "not found", or a stray one.
Taken(p, v) == \E j \in tree : path[j] = p /\ vnet[j] = v

\* RB_INSERT of i gives up, unnoticed, when an interface in the tree has its
\* key. A node that is in the tree with another key is moved under the others'
\* feet, or linked in twice.
Insert(i, k) ==
  LET tears == i \in tree /\ tree # {i} /\ key[i] # k
      refused == \E j \in tree \ {i} : key[j] = k IN
  IF torn \/ tears
  THEN torn' = TRUE /\ tree' \in SUBSET Ifs /\ linked' = linked \cup {i}
  ELSE /\ UNCHANGED torn
       /\ IF refused THEN UNCHANGED <<tree, linked>>
          ELSE tree' = tree \cup {i} /\ linked' = linked \cup {i}

\* RB_REMOVE of an interface that was never linked in, all of whose links are
\* NULL, makes NULL the root: the others fall out of the tree. One that fell
\* out that way has links that point anywhere.
RemoveForgotten(i) == UNCHANGED <<tree, torn>>
Remove(i) ==
  IF torn \/ (i \notin tree /\ i \in linked)
  THEN torn' = TRUE /\ tree' \in SUBSET Ifs
  ELSE UNCHANGED torn /\ tree' = IF i \in tree THEN tree \ {i} ELSE {}

-----------------------------------------------------------------------------
(* eou_clone_create and eou_clone_destroy                                  *)

\* Bound: a unit is not created again while freed memory of it is in use.
Create(i) ==
  /\ i \notin ifs
  /\ i \notin beat \cup attack \cup tree \cup setting /\ asking[i] = None
  /\ ifs' = ifs \cup {i} /\ freed' = freed \ {i} /\ wild' = wild \ {i}
  /\ linkUp' = linkUp \ {i}
  /\ path' = [path EXCEPT ![i] = None] /\ vnet' = [vnet EXCEPT ![i] = 0]
  /\ send' = send \ {i} /\ key' = [key EXCEPT ![i] = None]
  /\ linked' = linked \ {i}
  /\ UNCHANGED <<up, timers, tree, torn, tunnel, asleep>>

\* eou_softc_cleanup, then the interface is freed. Its tunnel is counted down.
\* It may not be found, even if there is one, because a refused configuration
\* leaves another sc_dstport; then some other memory is, if the pointer is stray.
Destroy(i) ==
  /\ i \in ifs
  /\ \/ /\ ifs' = ifs \ {i} /\ freed' = freed \cup {i}
        /\ wild' = IF i \in setting \/ asking[i] # None THEN wild \cup {i} ELSE wild
        /\ Remove(i)
        /\ up' = up \ {i} /\ linkUp' = linkUp \ {i}
        /\ beat' = beat \ {i} /\ attack' = attack \ {i}
        /\ path' = [path EXCEPT ![i] = None] /\ vnet' = [vnet EXCEPT ![i] = 0]
        /\ send' = send \ {i} /\ key' = [key EXCEPT ![i] = None]
        /\ linked' = linked \ {i}
        /\ UNCHANGED <<tunnel, asleep>>
     \/ Panic

-----------------------------------------------------------------------------
(* eouioctl                                                                *)

\* SIOCSIFADDR, SIOCSIFFLAGS with IFF_UP: eou_softc_setup sends a ping, which
\* may sleep. Bound: one setup of an interface at a time.
Up(i) ==
  /\ i \in ifs /\ i \notin setting
  /\ up' = up \cup {i}
  /\ setting' = setting \cup {i}
  /\ UNCHANGED <<units, linkUp, timers, address, nodes, tunnel, asking>>

\* The ping is sent, and both timers are started, whatever happened meanwhile.
\* The ping of an interface that was never configured goes to a NULL socket.
SetupEnds(i) ==
  /\ i \in setting
  /\ \/ /\ i \in send \cup freed
        /\ setting' = setting \ {i}
        /\ beat' = beat \cup {i} /\ attack' = attack \cup {i}
        /\ UNCHANGED <<units, up, linkUp, address, nodes, tunnel, asking>>
     \/ i \notin send /\ Panic

\* SIOCSIFFLAGS without IFF_UP: both timers are deleted; the link state stays.
Down(i) ==
  /\ i \in ifs
  /\ up' = up \ {i}
  /\ beat' = beat \ {i} /\ attack' = attack \ {i}
  /\ UNCHANGED <<units, linkUp, address, nodes, tunnel, asleep>>

\* SIOCDIFPHYADDR: the interface stays in the tree and keeps its socket.
DeleteAddressKeepsLink(i) ==
  /\ i \in ifs
  /\ beat' = beat \ {i} /\ attack' = attack \ {i}
  /\ path' = [path EXCEPT ![i] = None]
  /\ UNCHANGED <<units, up, linkUp, vnet, send, key, nodes, tunnel, asleep>>
DeleteAddress(i) ==
  /\ i \in ifs
  /\ linkUp' = linkUp \ {i}
  /\ beat' = beat \ {i} /\ attack' = attack \ {i}
  /\ path' = [path EXCEPT ![i] = None]
  /\ UNCHANGED <<units, up, vnet, send, key, nodes, tunnel, asleep>>

\* SIOCSVNETID: eou_softc_config(ifp, NULL, NULL) does nothing, so that the
\* interface keeps its key.
SetVnetId(i, v) ==
  /\ i \in ifs
  /\ vnet' = [vnet EXCEPT ![i] = v]
  /\ UNCHANGED <<units, up, linkUp, timers, path, send, key, nodes, tunnel, asleep>>

-----------------------------------------------------------------------------
(* SIOCSLIFPHYADDR: eou_softc_config. A duplicate is refused, and so is    *)
(* any address when the search for one returns a stray pointer: nothing    *)
(* modelled changes. malloc and MGET may sleep while a tunnel is created.  *)

\* The last part: the addresses are copied and the interface inserted.
Enter(i, p) ==
  LET k == SoftcId[<<p, vnet[i]>>] IN
  /\ path' = [path EXCEPT ![i] = p] /\ send' = send \cup {i}
  /\ key' = [key EXCEPT ![i] = k]
  /\ Insert(i, k)
  /\ UNCHANGED <<units, up, linkUp, timers, vnet, setting>>

\* A tunnel is found, or a stray pointer to another one is taken for it and lends
\* its socket, or a new one is begun.
\* Bound: one configuration of an interface at a time.
Configure(i, p) ==
  /\ i \in ifs /\ asking[i] = None
  /\ ~Taken(p, vnet[i])
  /\ \/ Enter(i, p) /\ UNCHANGED <<tunnel, asking>>
     \/ /\ p \notin tunnels
        /\ asking' = [asking EXCEPT ![i] = p]
        /\ UNCHANGED <<units, up, linkUp, timers, address, nodes, tunnel, setting>>
     \/ p \notin tunnels /\ Panic

\* eou_tunnel_create succeeds. RB_INSERT drops the tunnel, unnoticed, when one
\* with its id is in the tree, but its socket works. The interface may have
\* been freed.
TunnelCreated(i) ==
  /\ asking[i] # None
  /\ LET p == asking[i]
         dropped == \E q \in tunnels : TunId[q] = TunId[p]
     IN /\ open' = open \cup {p}
        /\ tunnels' = IF dropped THEN tunnels ELSE tunnels \cup {p}
        /\ Enter(i, p)
  /\ asking' = [asking EXCEPT ![i] = None]

\* sosetopt, sobind or soconnect fails: the tunnel and its socket leak.
TunnelFailed(i) ==
  /\ asking[i] # None
  /\ asking' = [asking EXCEPT ![i] = None]
  /\ UNCHANGED <<units, up, linkUp, timers, address, nodes, tunnel, setting>>

-----------------------------------------------------------------------------
(* The timers, the socket's upcall, and what is wrong with memory          *)

\* eou_softc_heartbeat pings and starts its timer again.
Heartbeat(i) == i \in beat /\ UNCHANGED vars

\* eou_softc_heartattack
HeartattackKeepsBeat(i) ==
  /\ i \in attack
  /\ linkUp' = linkUp \ {i}
  /\ attack' = attack \ {i}
  /\ UNCHANGED <<units, up, beat, address, nodes, tunnel, asleep>>
Heartattack(i) ==
  /\ i \in attack
  /\ linkUp' = linkUp \ {i}
  /\ attack' = attack \ {i} /\ beat' = beat \ {i}
  /\ UNCHANGED <<units, up, address, nodes, tunnel, asleep>>

\* The part of eou_tunnel_upcall that a pong for interface i reaches.
LinkComesUp(i) ==
  /\ linkUp' = linkUp \cup {i}
  /\ attack' = attack \cup {i}
  /\ UNCHANGED <<ifs, freed, up, beat, address, nodes, tunnel, asleep>>

\* The loop over the tree meets an interface the pong is for; what is freed
\* may still look like one.
Pong(i) ==
  /\ i \in tree
  /\ path[i] \in open \/ (i \in freed /\ open # {})
  /\ LinkComesUp(i)
  /\ UNCHANGED wild

\* The pong is for no interface, and the stray pointer happens to be one to an
\* interface that exists or was freed.
StrayPong(i) ==
  /\ \E p \in open, v \in VNets : ~Taken(p, v)
  /\ i \in ifs \cup freed
  /\ LinkComesUp(i)
  /\ wild' = IF i \in freed THEN wild \cup {i} ELSE wild

\* The stray pointer may be one to anything else, and so may those the header
\* of any packet is copied to; and freed memory or a torn tree may be used.
Crash ==
  /\ open # {} \/ torn \/ (beat \cup attack \cup tree \cup setting) \ ifs # {}
  /\ Panic

-----------------------------------------------------------------------------
Ioctl(i) ==
  \/ Create(i) \/ Destroy(i) \/ Up(i) \/ SetupEnds(i) \/ Down(i) \/ DeleteAddress(i)
  \/ \E v \in VNets : SetVnetId(i, v)
  \/ \E p \in Paths : Configure(i, p)
  \/ TunnelCreated(i) \/ TunnelFailed(i)

Interrupt ==
  \E i \in Ifs : Heartbeat(i) \/ Heartattack(i) \/ Pong(i) \/ StrayPong(i)

Next == (\E i \in Ifs : Ioctl(i)) \/ Interrupt \/ Crash

Spec == Init /\ [][Next]_vars

-----------------------------------------------------------------------------
(* An interface that is up and shows a link has its heartattack pending,   *)
(* whatever address, network id or flag changed since and whatever stray   *)
(* pointer a pong was counted for: only a setup that still sleeps may owe  *)
(* it. The upcall, the setup and the places that delete the timer keep     *)
(* together what three fields say.                                         *)
LinkWatched == (up \cap linkUp) \ setting \subseteq attack

(* An interface that pings, freed or not, has its heartattack pending:     *)
(* pings nobody answers come to an end.                                    *)
PingsWatched == beat \subseteq attack

(* While the tree is sound, nothing in the kernel points to an interface   *)
(* that has been freed, its timers and the tree included, but those that   *)
(* were destroyed while an ioctl on them slept or that a stray pointer     *)
(* brought back.                                                           *)
NothingOutlives == ~torn => beat \cup attack \cup tree \subseteq ifs \cup wild
=============================================================================
