----------------------------- MODULE EouProofs -----------------------------
(***************************************************************************)
(* What holds of the pseudo-device for any number of interfaces, paths and *)
(* network ids, with any number of ioctls asleep at once: types, a link    *)
(* that is shown is watched, so is an interface that pings, and what still *)
(* points to a freed interface while the tree is sound.  The last rests on *)
(* AsleepLives: who frees an interface under a sleeping ioctl leaves it    *)
(* wild, so that what the ioctl does when it wakes is no surprise.         *)
(***************************************************************************)
EXTENDS Eou, TLAPS

\* An ioctl sleeps on an interface that exists, or was freed meanwhile.
AsleepLives ==
  \A i \in Ifs : i \in setting \/ asking[i] # None => i \in ifs \cup wild

DInv == TypeOK /\ LinkWatched /\ PingsWatched /\ NothingOutlives /\ AsleepLives

\* The device starts with nothing to point to.
LEMMA InitHolds == Init => DInv
<1> SUFFICES ASSUME Init PROVE DInv
  OBVIOUS
<1>1. TypeOK
  BY ConstantsOK DEF Init, TypeOK
<1>2. LinkWatched /\ PingsWatched /\ NothingOutlives /\ AsleepLives
  BY DEF Init, LinkWatched, PingsWatched, NothingOutlives, AsleepLives
<1> QED
  BY <1>1, <1>2 DEF DInv

\* A panic leaves no device at all.
LEMMA PanicHolds == Panic => DInv'
<1> SUFFICES ASSUME Panic PROVE DInv'
  OBVIOUS
<1>1. TypeOK'
  BY ConstantsOK DEF Panic, TypeOK
<1>2. LinkWatched' /\ PingsWatched' /\ NothingOutlives' /\ AsleepLives'
  BY DEF Panic, LinkWatched, PingsWatched, NothingOutlives, AsleepLives
<1> QED
  BY <1>1, <1>2 DEF DInv

\* RB_INSERT: while the tree stays sound, it gains at most the interface.
LEMMA InsertAdds ==
  ASSUME TypeOK, NEW i \in Ifs, NEW k, Insert(i, k)
  PROVE  /\ tree' \subseteq Ifs /\ linked' \subseteq Ifs /\ torn' \in BOOLEAN
         /\ ~torn' => ~torn /\ tree' \subseteq tree \cup {i}
BY DEF Insert, TypeOK

\* RB_REMOVE: while the tree stays sound, the interface is not in it afterwards.
LEMMA RemoveTakes ==
  ASSUME TypeOK, NEW i \in Ifs, Remove(i)
  PROVE  /\ tree' \subseteq Ifs /\ torn' \in BOOLEAN
         /\ ~torn' => ~torn /\ tree' \subseteq tree \ {i}
BY DEF Remove, TypeOK

\* The end of a configuration, of an interface that exists or is wild.
LEMMA EnterHolds ==
  ASSUME DInv, NEW i \in Ifs, NEW p \in Paths, Enter(i, p), i \in ifs \cup wild,
         \/ UNCHANGED asking
         \/ asking' = [asking EXCEPT ![i] = None],
         tunnels' \subseteq open', open' \subseteq Paths
  PROVE  DInv'
<1> USE DEF DInv
<1> DEFINE k == SoftcId[<<p, vnet[i]>>]
<1>1. /\ path' = [path EXCEPT ![i] = p] /\ send' = send \cup {i}
      /\ key' = [key EXCEPT ![i] = k] /\ Insert(i, k)
      /\ ifs' = ifs /\ freed' = freed /\ wild' = wild /\ up' = up /\ linkUp' = linkUp
      /\ beat' = beat /\ attack' = attack /\ vnet' = vnet /\ setting' = setting
  BY DEF Enter, units, timers
<1>2. k \in Nat
  BY ConstantsOK DEF TypeOK
<1>3. /\ tree' \subseteq Ifs /\ linked' \subseteq Ifs /\ torn' \in BOOLEAN
      /\ ~torn' => ~torn /\ tree' \subseteq tree \cup {i}
  BY <1>1, InsertAdds
<1> HIDE DEF k
<1>4. asking' \in [Ifs -> Paths \cup {None}]
  BY DEF TypeOK
<1>5. TypeOK'
  <2>1. path' \in [Ifs -> Paths \cup {None}] /\ key' \in [Ifs -> Nat \cup {None}]
    BY <1>1, <1>2 DEF TypeOK
  <2> QED
    BY <1>1, <1>3, <1>4, <2>1 DEF TypeOK
<1>6. LinkWatched' /\ PingsWatched'
  BY <1>1 DEF LinkWatched, PingsWatched
<1>7. NothingOutlives'
  BY <1>1, <1>3 DEF NothingOutlives
<1>8. AsleepLives'
  BY <1>1 DEF AsleepLives, TypeOK
<1> QED
  BY <1>5, <1>6, <1>7, <1>8

\* Interfaces come and go.
LEMMA CloneHolds ==
  ASSUME DInv, NEW i \in Ifs, Create(i) \/ Destroy(i)
  PROVE  DInv'
<1> USE DEF DInv
<1>1. CASE Create(i)
  <2>1. TypeOK'
    <3>1. /\ path' \in [Ifs -> Paths \cup {None}] /\ vnet' \in [Ifs -> VNets]
          /\ key' \in [Ifs -> Nat \cup {None}]
      BY <1>1, ConstantsOK DEF Create, TypeOK
    <3> QED
      BY <1>1, <3>1 DEF Create, TypeOK, timers, tunnel, asleep
  <2>2. LinkWatched' /\ PingsWatched'
    BY <1>1 DEF Create, LinkWatched, PingsWatched, timers, asleep
  <2>3. NothingOutlives' /\ AsleepLives'
    BY <1>1 DEF Create, NothingOutlives, AsleepLives, timers, asleep
  <2> QED
    BY <2>1, <2>2, <2>3
<1>2. CASE Destroy(i) /\ ~Panic
  <2>1. /\ ifs' = ifs \ {i} /\ freed' = freed \cup {i}
        /\ wild' = IF i \in setting \/ asking[i] # None THEN wild \cup {i} ELSE wild
        /\ up' = up \ {i} /\ linkUp' = linkUp \ {i}
        /\ beat' = beat \ {i} /\ attack' = attack \ {i}
        /\ Remove(i)
        /\ setting' = setting /\ asking' = asking
    BY <1>2 DEF Destroy, asleep
  <2>2. /\ tree' \subseteq Ifs /\ torn' \in BOOLEAN
        /\ ~torn' => ~torn /\ tree' \subseteq tree \ {i}
    BY <2>1, RemoveTakes
  <2>3. TypeOK'
    <3>1. /\ path' \in [Ifs -> Paths \cup {None}] /\ vnet' \in [Ifs -> VNets]
          /\ key' \in [Ifs -> Nat \cup {None}]
      BY <1>2, ConstantsOK DEF Destroy, TypeOK
    <3>2. wild' \subseteq freed'
      BY <2>1 DEF TypeOK
    <3> QED
      BY <1>2, <2>1, <2>2, <3>1, <3>2 DEF Destroy, TypeOK, tunnel
  <2>4. LinkWatched' /\ PingsWatched'
    BY <2>1 DEF LinkWatched, PingsWatched
  <2>5. NothingOutlives'
    BY <2>1, <2>2 DEF NothingOutlives
  <2>6. AsleepLives'
    BY <2>1 DEF AsleepLives
  <2> QED
    BY <2>3, <2>4, <2>5, <2>6
<1> QED
  BY <1>1, <1>2, PanicHolds DEF Destroy

\* The ioctls on the flags, the address and the network id.
LEMMA FlagsHold ==
  ASSUME DInv, NEW i \in Ifs,
         \/ Up(i) \/ SetupEnds(i) \/ Down(i) \/ DeleteAddress(i)
         \/ \E v \in VNets : SetVnetId(i, v)
  PROVE  DInv'
<1> USE DEF DInv, units, timers, address, nodes, tunnel, asleep
<1>1. CASE Up(i)
  <2>1. TypeOK'
    BY <1>1 DEF Up, TypeOK
  <2> QED
    BY <1>1, <2>1 DEF Up, LinkWatched, PingsWatched, NothingOutlives, AsleepLives
<1>2. CASE SetupEnds(i) /\ ~Panic
  <2>1. TypeOK'
    BY <1>2 DEF SetupEnds, TypeOK
  <2>2. i \in ifs \cup wild
    BY <1>2 DEF SetupEnds, AsleepLives
  <2> QED
    BY <1>2, <2>1, <2>2
    DEF SetupEnds, LinkWatched, PingsWatched, NothingOutlives, AsleepLives
<1>3. CASE Down(i)
  <2>1. TypeOK'
    BY <1>3 DEF Down, TypeOK
  <2> QED
    BY <1>3, <2>1 DEF Down, LinkWatched, PingsWatched, NothingOutlives, AsleepLives
<1>4. CASE DeleteAddress(i)
  <2>1. TypeOK'
    BY <1>4 DEF DeleteAddress, TypeOK
  <2> QED
    BY <1>4, <2>1
    DEF DeleteAddress, LinkWatched, PingsWatched, NothingOutlives, AsleepLives
<1>5. ASSUME NEW v \in VNets, SetVnetId(i, v) PROVE DInv'
  <2>1. TypeOK'
    BY <1>5 DEF SetVnetId, TypeOK
  <2> QED
    BY <1>5, <2>1
    DEF SetVnetId, LinkWatched, PingsWatched, NothingOutlives, AsleepLives
<1> QED
  BY <1>1, <1>2, <1>3, <1>4, <1>5, PanicHolds DEF SetupEnds

\* An address is set, at once or when its tunnel exists.
LEMMA ConfigHolds ==
  ASSUME DInv, NEW i \in Ifs,
         \/ \E p \in Paths : Configure(i, p)
         \/ TunnelCreated(i) \/ TunnelFailed(i)
  PROVE  DInv'
<1>1. ASSUME NEW p \in Paths, Configure(i, p), ~Panic PROVE DInv'
  <2>1. i \in ifs /\ tunnels \subseteq open /\ open \subseteq Paths
    BY <1>1 DEF Configure, DInv, TypeOK
  <2>2. CASE Enter(i, p) /\ UNCHANGED <<tunnel, asking>>
    BY <2>1, <2>2, EnterHolds DEF tunnel
  <2>3. CASE ~(Enter(i, p) /\ UNCHANGED <<tunnel, asking>>)
    <3>1. /\ asking' = [asking EXCEPT ![i] = p]
          /\ UNCHANGED <<units, up, linkUp, timers, address, nodes, tunnel, setting>>
      BY <1>1, <2>3 DEF Configure
    <3>2. TypeOK'
      BY <3>1 DEF DInv, TypeOK, units, timers, address, nodes, tunnel
    <3>3. LinkWatched' /\ PingsWatched' /\ NothingOutlives'
      BY <3>1 DEF DInv, LinkWatched, PingsWatched, NothingOutlives, units, timers, nodes
    <3>4. AsleepLives'
      BY <2>1, <3>1 DEF DInv, AsleepLives, TypeOK, units
    <3> QED
      BY <3>2, <3>3, <3>4 DEF DInv
  <2> QED
    BY <2>2, <2>3
<1>2. CASE TunnelCreated(i)
  <2>1. asking[i] # None /\ asking[i] \in Paths /\ i \in ifs \cup wild
    BY <1>2 DEF TunnelCreated, DInv, TypeOK, AsleepLives
  <2>2. /\ Enter(i, asking[i]) /\ asking' = [asking EXCEPT ![i] = None]
        /\ open' = open \cup {asking[i]}
        /\ tunnels' = tunnels \/ tunnels' = tunnels \cup {asking[i]}
    BY <1>2 DEF TunnelCreated
  <2>3. tunnels' \subseteq open' /\ open' \subseteq Paths
    BY <2>1, <2>2 DEF DInv, TypeOK
  <2> QED
    BY <2>1, <2>2, <2>3, EnterHolds
<1>3. CASE TunnelFailed(i)
  <2>1. TypeOK'
    BY <1>3 DEF TunnelFailed, DInv, TypeOK, units, timers, address, nodes, tunnel
  <2>2. LinkWatched' /\ PingsWatched' /\ NothingOutlives'
    BY <1>3 DEF TunnelFailed, DInv, LinkWatched, PingsWatched, NothingOutlives,
                units, timers, nodes
  <2>3. AsleepLives'
    BY <1>3 DEF TunnelFailed, DInv, AsleepLives, TypeOK, units
  <2> QED
    BY <2>1, <2>2, <2>3 DEF DInv
<1> QED
  BY <1>1, <1>2, <1>3, PanicHolds

\* The timers and the packets.
LEMMA InterruptHolds == DInv /\ Interrupt => DInv'
<1> SUFFICES ASSUME DInv, NEW i \in Ifs,
                    Heartbeat(i) \/ Heartattack(i) \/ Pong(i) \/ StrayPong(i)
             PROVE  DInv'
  BY DEF Interrupt
<1>1. CASE UNCHANGED vars
  <2>1. TypeOK'
    BY <1>1 DEF vars, units, timers, address, nodes, tunnel, asleep, DInv, TypeOK
  <2> QED
    BY <1>1, <2>1 DEF vars, units, timers, nodes, asleep, DInv, LinkWatched,
                      PingsWatched, NothingOutlives, AsleepLives
<1>2. CASE Heartattack(i)
  <2>1. TypeOK'
    BY <1>2 DEF Heartattack, units, address, nodes, tunnel, asleep, DInv, TypeOK
  <2> QED
    BY <1>2, <2>1 DEF Heartattack, units, nodes, asleep, DInv, LinkWatched,
                      PingsWatched, NothingOutlives, AsleepLives
<1>3. ASSUME LinkComesUp(i), wild \subseteq wild', wild' \subseteq freed,
             torn \/ i \in ifs \cup wild'
      PROVE  DInv'
  <2>1. /\ linkUp' = linkUp \cup {i} /\ attack' = attack \cup {i} /\ beat' = beat
        /\ ifs' = ifs /\ freed' = freed /\ up' = up /\ tree' = tree /\ torn' = torn
        /\ setting' = setting /\ asking' = asking
    BY <1>3 DEF LinkComesUp, nodes, asleep
  <2>2. TypeOK'
    BY <1>3, <2>1 DEF LinkComesUp, address, nodes, tunnel, DInv, TypeOK
  <2>3. LinkWatched' /\ PingsWatched'
    BY <2>1 DEF DInv, LinkWatched, PingsWatched
  <2>4. NothingOutlives'
    BY <1>3, <2>1 DEF DInv, NothingOutlives
  <2>5. AsleepLives'
    BY <1>3, <2>1 DEF DInv, AsleepLives
  <2> QED
    BY <2>2, <2>3, <2>4, <2>5 DEF DInv
<1>4. CASE Pong(i)
  <2>1. LinkComesUp(i) /\ wild' = wild /\ i \in tree
    BY <1>4 DEF Pong
  <2>2. torn \/ i \in ifs \cup wild
    BY <2>1 DEF DInv, NothingOutlives
  <2> QED
    BY <1>3, <2>1, <2>2 DEF DInv, TypeOK
<1>5. CASE StrayPong(i)
  <2>1. /\ LinkComesUp(i) /\ i \in ifs \cup freed
        /\ wild' = IF i \in freed THEN wild \cup {i} ELSE wild
    BY <1>5 DEF StrayPong
  <2> QED
    BY <1>3, <2>1 DEF DInv, TypeOK
<1> QED
  BY <1>1, <1>2, <1>4, <1>5 DEF Heartbeat

\* Every step keeps the invariant.
LEMMA InductiveStep == DInv /\ [Next]_vars => DInv'
<1> SUFFICES ASSUME DInv, [Next]_vars PROVE DInv'
  OBVIOUS
<1>1. CASE UNCHANGED vars
  <2>1. TypeOK'
    BY <1>1 DEF vars, units, timers, address, nodes, tunnel, asleep, DInv, TypeOK
  <2> QED
    BY <1>1, <2>1 DEF vars, units, timers, nodes, asleep, DInv, LinkWatched,
                      PingsWatched, NothingOutlives, AsleepLives
<1>2. ASSUME NEW i \in Ifs, Ioctl(i) PROVE DInv'
  BY <1>2, CloneHolds, FlagsHold, ConfigHolds DEF Ioctl
<1> QED
  BY <1>1, <1>2, InterruptHolds, PanicHolds DEF Next, Crash

\* So it always holds.
LEMMA Inductive == Spec => []DInv
BY InductiveStep, InitHolds, PTL DEF Spec

\* The fields of every interface keep their types, and a tunnel in the tree of
\* tunnels has a socket.
THEOREM TypeCorrect == Spec => []TypeOK
<1>1. DInv => TypeOK
  BY DEF DInv
<1> QED
  BY <1>1, Inductive, PTL

\* eou_softc_setup, the pong of eou_tunnel_upcall and the places of eouioctl
\* that delete the timers never leave an interface up, with a link, and with
\* no heartattack to take the link down, but while the setup sleeps.
THEOREM LinksAreWatched == Spec => []LinkWatched
<1>1. DInv => LinkWatched
  BY DEF DInv
<1> QED
  BY <1>1, Inductive, PTL

\* No interface pings without a heartattack pending that will end it, whatever
\* interleaves with eou_softc_setup, and even after it was freed.
THEOREM PingsAreWatched == Spec => []PingsWatched
<1>1. DInv => PingsWatched
  BY DEF DInv
<1> QED
  BY <1>1, Inductive, PTL

\* While the tree is sound, timers and tree hold no freed interface but one that
\* eou_clone_destroy took from under a sleeping ioctl, or that a stray pointer
\* of eou_tunnel_upcall reached.
THEOREM FreedIsForgotten == Spec => []NothingOutlives
<1>1. DInv => NothingOutlives
  BY DEF DInv
<1> QED
  BY <1>1, Inductive, PTL
=============================================================================
