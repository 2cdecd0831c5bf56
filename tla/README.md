# Models of cExamples

`cExamples` is a collection of C programs: two OpenBSD kernel extensions, an
HTTP server, two Unix programming projects, firmware and signal processing.
The parts share no code, so each is modelled by itself. Six are modelled:

* the process zones of `OpenBSD/Zone_isolation`, the most intricate part,
* the Ethernet over UDP device of `OpenBSD/Ethernet_over_UDP`,
* the web server of `OpenBSD/Server`,
* the 499 card game of `Unix/csse2310/assignment4`,
* the maze game of `Unix/csse2310/assignment3`,
* the duplex mode of `Embedded/ARM/Project 1`.

Paths below are relative to `src/`; `kern/` stands for
`OpenBSD/Zone_isolation/src/sys/kern/`, a file without a path for the one of that name
in the component under discussion.

## Inventory

| Component | State | Operations | What is hard |
|---|---|---|---|
| Zone registry (`kern/zones.c`) | red-black tree of zone nodes, `zoneid_head`, `current_zones_total`, `zone_rwlock` | `zone_create`, `_destroy`, `_enter`, `_list`, `_name` | checks made before a sleep, sleeps with the lock held, ids that wrap |
| Zone membership (`kern_fork.c`, `kern_exit.c`) | `ps_zone` of each process, `ps_total` of each zone | fork, thread creation, exit, reaper, wait | counting and uncounting far apart, a store through an uninitialised pointer, zombies |
| Signals and listing (`kern_sig.c`, `kern_sysctl.c`) | none of its own: reads `ps_zone` and credentials | `kill`, `killpg1`, `sysctl_doproc` | pointers compared for identity, tests on some paths only |
| zone(8) (`usr.sbin/zone/main.c`) | local buffers | create, destroy, list, exec by name or id | several system calls per command |
| ps, pkill | none | print and filter | none of interest |
| Ethernet over UDP (`sys/net/if_eou.c`) | interfaces and tunnels in two trees, link state, two timeouts per interface | clone, ioctls, socket upcall, timeouts | PONGs at any time, re-configuration, sleeps in the middle of an ioctl, destruction under a sleeper, uninitialised search results |
| Web server (`OpenBSD/Server/main.c`) | request, response and buffers of each connection | libevent callbacks for accept, read, write | requests in pieces, several requests on one connection, responses in packets, resets |
| 499 game (`Unix/csse2310/assignment4`) | pending and active games, players, bids, tricks, points | lobby, bidding, rounds, scoring | threads sharing a stack variable, blocking reads |
| Maze handler and agents (`Unix/csse2310/assignment3`) | map, positions, agents' processes and memory, pipes | turn loop, signal handlers, four agent programs | SIGCHLD and SIGINT against the turn loop, agents that die at any time |
| Netduino project 1 (`Embedded/ARM/Project 1`) | mode and flags, laser and radio, character awaiting its answer | main loop, two timers, radio interrupt, keyboard | flags set by interrupts against the loop, lost frames and packets, retransmission |
| Encoder and decoder (`Embedded/ARM/Project 2`) | shift register; trellis of 9 stages by 4 states | encode, decode | error correction by a simplified Viterbi search |
| Netduino project 2, Atmega, Arduino (`Embedded`) | peripheral registers, FreeRTOS queues | drivers, main loops | interrupts against main loops |
| DSP | arrays of complex numbers | two Fourier transforms | floating point |

How they interact: the zone system calls, fork, exit and the reaper meet in
`ps_zone` and `ps_total`; `kill` and `sysctl` read `ps_zone`; `zone(8)`, `ps` and
`pkill` use the system calls. The interface driver talks to sockets and timers of
the kernel. The other programs stand alone.

What would make each correct: zones: unique ids and names, a zone goes away only
when nobody is in it, every call returns, processes see and signal their own zone
only. Ethernet over UDP: a link is shown only while a timer is there to take it down,
and nothing points to a destroyed interface. Web server: whole responses, and one for every
request. 499: the contract goes to the player who has the right to it, each game plays with
its own four players. Maze: agents stand on free cells apart from each
other, an answer is about the positions it is judged by, the handler ends. Duplex: what
is heard was typed, what is confirmed was heard, no wait is for ever.

`PROJECT.json` lists the hazards of each component with the line where they bite.

## Modules

| Module | Role |
|---|---|
| `Zones` | the zone registry and the membership of processes: state, one action per piece of kernel code between two sleeps, properties, inductive invariant |
| `ZoneContract` | what the registry promises, without nodes, locks and counters |
| `ZonesRefine` | the refinement mapping from `Zones` to `ZoneContract` |
| `ZoneIsolation` | `kill`, `killpg1` and `sysctl_doproc` running beside `Zones` |
| `Eou` | the Ethernet over UDP device: interfaces, tunnels, timers, the network |
| `WebServer` | the event loop, the connections and the clients of the web server |
| `Bidding` | one auction of the 499 server, `set_bid` |
| `Game499` | `game_thread` and the scoring of `play_round` around `Bidding` |
| `Tricks` | the tricks of a round, `play_trick_round`, with the checks of the four clients |
| `Lobby` | `process_connections`: clients, pending and active games, game threads |
| `Maze` | the turn loop and signal handlers of `handler.c`, with its agents |
| `Duplex` | two stations in duplex mode, the laser and the radio between them |
| `ZonesProofs`, `EouProofs`, `WebServerProofs`, `Game499Proofs`, `TricksProofs`, `LobbyProofs`, `MazeProofs`, `DuplexProofs` | theorems about these modules |
| `MC...` | instances for TLC |

`ZoneIsolation` composes the registry with the calls that read it, `Game499` the bidding
with the scoring, and `Eou`, `WebServer`, `Lobby`, `Maze` and `Duplex` each put a program
together with the clients, agents, peers or networks around it.

Modules hold, beside the definitions that model code, one mutated form of some of them
(`DestroyableOffByOne` beside `Destroyable`): a plausible bug, with which the property that
`PROJECT.json` names beside it is violated. No specification uses them.

### Zones

A system call of this kernel runs under the kernel lock and gives it up only where
it sleeps. An action is therefore the code between two sleep points: `rw_enter` on
`zone_rwlock`, `malloc(M_WAITOK)`, `pool_get(PR_WAITOK)`, and copies from and to user
space. `zone_create`, for example, is `CreateStart` (copy the name in, check
permissions, ask for the lock), `CreateRefused` or `CreateLock` (the lock is there;
either an error path, or both checks pass and the node's `malloc` may sleep with the
lock held) and `CreateInsert` (id, tree, total, unlock). A call that fails before it
sleeps changes nothing and is no step.

| State | Code |
|---|---|
| `tree`, `zone_id`, `zone_name`, `ps_total` | `head` and the fields of `struct zone_node`; a node that is freed keeps its fields until the address is reused |
| `zoneid_head`, `current_zones_total` | the globals of `zones.c` |
| `writer`, `readers` | `zone_rwlock` |
| `ps_zone`, `stat`, `is_root` | fields of `struct process`; `stat` runs through free, idl (embryo), run, dead (or deadnz for `PS_NOZOMBIE`), zombie, free |
| `owner`, `pc` | the process of each thread and where the thread is |
| `buffer`, `zn`, `kernel_zones`, `child` | the locals that survive a sleep |

Three things in the code decide the shape of the model.

* `fork1` stores the zone of the parent through `pr` before `pr` has a value
  (`kern_fork.c` 357-360). The model lets the store hit nothing, or any process of
  the constant `StalePr`. The child's own pointer is zeroed later, in `process_new`, which
  may sleep first; its credentials are copied before that sleep.
* `ps_total` is raised by enter, by every fork and by every thread creation of a
  process in a zone, but lowered once, by the reaper.
* The permission checks of create, destroy and enter run before the wait for the
  lock, so that another thread of the process may change `ps_zone` or give up root
  in between.

Abstracted: the order inside the tree, the bytes of names, error codes, the memory
of buffers. The id and the size a caller passes are chosen where they are first used.
`zoneid_t` and `ps_total` wrap, at `IdMax` and `CountMax`. `zone_rwlock` and `setuid`
(`DropRoot`) are outside the repository and modelled from how it uses them.

### ZoneContract and ZonesRefine

The contract knows a set of pairs of id and name, and for each process the id of its
zone. Zones are created with a fresh id and name while there are fewer than `MaxZones`,
and destroyed only when no process is in them. A process belongs to a zone from the
moment its `ps_zone` is set until the reaper has run.

### ZoneIsolation

`sys_kill`, `killpg1` and `sysctl_doproc` change no registry state and take one step
each. `delivered` and `listed` hold what the last step did. The code compares node
pointers; the history variable `joined` remembers the id of the zone a process last
joined, so that the properties can say whether the pointers still mean that zone. All
processes are in one session and one process group and belong to root or to one user.

### Bidding and Game499

`set_bid` asks one player at a time and waits for the answer, so a step is an answer
(`Answer`) together with the code up to the next question. `pc` says which of its three
questions is open: the first bid (`FirstBid`), a slot of the `for` loop (`Raise`,
`PassOther`) or slot 0 after the loop (`Raise`, `PassZero`). `leadPlayerTracker` holds the
player of each slot and `bidders` counts the slots in use; `Without` is the loop that
moves the players behind a passing one up. The arrays of streams move with the numbers. An
answer the server refuses repeats the question and is no step. `leadPlayer` and `trumpBid`
are what `set_bid` leaves for the round; `leadPlayer` is the static variable that keeps
its value between rounds. `maker` is a history variable: who made the bid to beat.

`passed` is one too: who has passed. A player asked to beat the own bid may pass, which the
code permits (see Findings): `Entitled` says who then has the right to the contract. `Bids` is a subset of
the 24 bids. `Game499` adds
`teamPoints`; its `Round` gives the side of `leadPlayer` any number of tricks, scores
the round, and starts the next auction or ends the game. The condition that ends a
game is the code's, in which the branch of Team 2 repeats the test for Team 1.

### Tricks

A step is a card a client sends, up to the next question: `Lead`, `Follow`, then
`TrickEnd` (credit and next leader) and `NextRound` (scoring clears the credits, a new
hand is dealt). The cards a client accepts (`Leads`, `Follows`) are computed as
`send_lead` and `send_play` do, from `cardsNo`, the counts of cards by suit, and not
from the hand; `Remove` lowers the count of the suit whether or not the card was found.
`Compare` keeps the best card of the suit led and the best trump in the order of the
tests in the code. `Follows` lets a user who is out of the suit led type any card of another
suit, in the hand or not: `send_play` looks for it in the deck only if the suit is the one
led. `Removed` then shortens the wrong array, or none. `table`, `shown`, `left` and `strayed`
are history variables: the cards on the table, the suits each player did not follow, what is
left of the deal, and who typed a card that was not in the hand. The deck line of a round is
one of `Decks`, and every hand, leader and trump may follow from bidding; a deck has no card
twice.

### Lobby

`Accept` greets the first client of the queue; `Register` reads its two lines, which
the accepting thread waits for, seats it, and if its game is full moves the game to
`activeGamesList`, copies it to `giveGameSessionData` and starts the thread. The thread
has the address of that one variable: `Talk` writes to the players found there. `HangUp`
is a client that closes its connection, at any time (`MayHangUp`); if its lines were still to
be read, `fgets` leaves the buffer as it was, and the name is any name or `Garbage`. The server
is one process with one disposition of SIGPIPE: `Accept` of such a client, or a `Talk` in whose
`Audience` such a client is, may go on (nothing tells the server yet) or end the server
(`down`): the write raises SIGPIPE, or the read fails and ends in `exit`. Clients are alike and
numbered as they connect.

Abstracted in these modules: the text of messages, the name and port of a player,
sorting of the players for display. Not modelled: the deck file, clients that hang up during
the bidding or the tricks (`Lobby` has them), the protocol checks of the client.

### Eou

An action is a piece of an ioctl between two places where it may sleep, a timer, or a pong
that the socket's upcall takes. A path stands for the addresses and port of a tunnel. An ioctl
sleeps in two places. `Up` begins `eou_softc_setup`, whose ping may wait for memory and in
`sosend`; `SetupEnds` starts the two timers, whatever happened to the interface meanwhile.
`Configure` begins the creation of a tunnel, `TunnelCreated` or `TunnelFailed` end it. In
either sleep the interface may be changed or destroyed. A heartbeat pings as well, but a
timeout runs where nothing may sleep, so that `Heartbeat` is one step, and one that changes
nothing: its timer is started again.

| State | Code |
|---|---|
| `ifs`, `freed` | the interfaces that exist, and the memory of those that do not any more |
| `up`, `linkUp` | `IFF_UP`, `if_link_state` |
| `beat`, `attack` | `timer_heartbeat`, `timer_heartattack` pending |
| `path`, `vnet`, `send`, `key` | `sc_src` with `sc_dst`, `sc_vnetid`, `sc_send`, the key of the interface |
| `tree`, `linked`, `torn` | what a walk over the tree of interfaces meets, which nodes were linked in once, and whether it is a search tree still |
| `tunnels` | the tree of tunnels |
| `open` | connected sockets, including those whose tunnel fell out of the tree |
| `setting`, `asking` | the ioctls asleep: those in a ping, and the path of those that create a tunnel |
| `wild` | history: the freed interfaces on which an ioctl slept or that a stray pointer reached |

What decides the shape of the model:

* A search without a match returns an uninitialised pointer. It is NULL, which the callers
  take for "not found", or stray. A stray one makes a configuration fail, which changes
  nothing; lends the socket of another tunnel (`Configure`); brings up the link of any
  interface, freed ones included, and starts its heartattack (`StrayPong`); counts down some
  other tunnel when an interface is destroyed (`Destroy`), which changes nothing modelled; or
  is followed to where nothing good is, which may bring the machine down, up again without a
  device (`Panic`).
* The trees compare sums of addresses and ids. `RB_INSERT` of a colliding key does nothing, and
  nobody looks at its result: a running interface may be missing in the tree, and a tunnel in
  its own. `SoftcId` and `TunId` are arbitrary functions.
* `RB_INSERT` of an interface that is in the tree under another key, and `RB_REMOVE` of one
  that fell out of it, tear the tree: from then on (`torn`) an operation may leave anything in
  it. `RB_REMOVE` of one that was never in it empties it.
* The check of the MAC is commented out and nothing matches pongs with pings, so that a pong
  may come at any time while a socket is open.

Left out: data packets, which leave no state behind; `IFF_RUNNING`, which nothing reads; and
`eou_nets` with the `sc_dstport` that decides which tunnel counts it down. The count is not
exact (an interface that is configured again, or whose address is deleted, is counted on; two
configurations that sleep together create one tunnel twice; a stray pointer counts down
another tunnel), but all it decides is a call of `eou_tunnel_destroy`, an empty function. `=`
instead of `==` in the comparison of ports changes nothing, as the addresses compared before it
hold the port. That a tunnel in use is counted, and that no two running interfaces have the
same addresses and id, are no properties of this model because they are false of the code: two
configurations that sleep at the same time, or a network id that changes during the sleep,
break both.

### WebServer

libevent calls one callback at a time, so an action is a callback: `Accept`, `Read`,
`Write` and their ways to fail. A client sends a sequence of tokens (a method, pieces of a
path, the end of the headers, nonsense), and `Read` takes any prefix of what has arrived:
`Execute` runs the tokens through the parser's callbacks, and hands a piece of a path that
the read cuts off to `UrlCallback`, as `http_parser_execute` does. A response is a
sequence of numbered units; `Write` moves up to `PacketSize` of them from `res` to the
history `sent`, adds the event again if something is left, and closes otherwise.

`Fds` are the descriptors left for connections and files. Running out ends the program in
`AcceptFails`, and in `Respond` where the NULL of `fopen` goes to `fileno`. A write to a
connection that was reset ends it too (SIGPIPE), or fails. `Respond` may also answer 500
for want of memory. Sockets are blocking, so a write is never short and never fails with
EAGAIN, and no signal is caught, so it never fails with EINTR: the branch for both
(`main.c` 674-678), in which the packet taken out of the buffer is lost, is not modelled. The
parser is a library: its state machine is modelled as far as its callbacks go. Logging, options,
header lines and the family options `-4` and `-6`, with which `webserver_init` always
fails, are left out; `Start` says which families could be bound.

### Maze

The turn loop of the handler takes one action per pipe operation: `SendInit`, then
`SendCoords`, `ReadMove` and `JudgeMove` (or `InvalidResponse`) for each turn, and
`KillAll`, `WaitOne` and `ExitHandler` for the end. `Intercept` and `InterceptWait` are the
SIGCHLD handler, before and in its `wait`; the loop stands still meanwhile, and signals
that arrive merge. `Interrupt` is the SIGINT handler.

`Decide` is what the program of an agent answers: `Waller`, `Simple`, `FromFile` and
`Slow` are translations of the four programs, each with what it remembers in `mem`. `life`
is the process of an agent; its pipes close (`closing`) before SIGCHLD is posted
(`zombie`). `FailAtStart` is an agent that exits at once, `Crash` one that is killed from
outside. A `read` at the end of file leaves the buffer as it was, so the move of another
agent may be judged. `StaleStatus` are the exit codes to which the uninitialised
`extStatus` may lead when `wait` fails. `agent_in_path` compares a point it never set when
its direction is `H`: both results are possible. Exit codes of the handler are those of
`handler.c` 11-24, 7 for an agent that could not be started among them.

The newline in the format of `scanf` (`sharing.c` 51) also swallows the blank rows a map begins
with (`OpenRows`), and coordinates are then read as rows. If there are enough of them, the
agent finds the map wrong and ends (`MisreadMap`); if there are fewer agents than such rows, it
waits for more (`StarveInMap`), and handler for its answer, for ever, unless the lines do not fit
the buffer of a row (`LinesFit`), which ends the agent as well. Agents start where their
file says, on walls or on top of each other too, as `init_game_session` (`handler.c` 254-259)
checks nothing; that it is on the map is assumed. Agents do
nothing that matters after the handler has ended.

### Duplex

Two stations run the same loop. A round of it is `Round`, or, if a frame was decoded,
`Answer`, then `SentConfirmed` once the radio has reported the end of its transmission, then
`CheckAfterSending`; `Resend` is the wait for the laser inside a retransmission. `Select`,
`SetStation`, `Cancel` and `Type` are keys; the loop looks at one key per round. `FrameHeard`
and `FrameLost` end a frame of the laser, `PacketArrives` and `PacketLost` a packet of the
radio.

A character is the set of its one bits; `Encode` and `Decode` are the Hamming code of the
two sides, with the parity bit of each half and the correction of one bit. `Heard` is what a
character may be decoded as with up to `Flips` wrong bits in each half. The interrupt line
of the radio is low while RX_DR or TX_DS is set (`LineHigh`), and the handler runs when it
falls: a packet that arrives unread hides the end of a transmission.

Not typed: Enter, which ends a packet while it is loaded, and the character that reports an
error. Left out: the times in which a packet arrives between two instructions of
the loop, where flags of the radio may be lost, and all other modes.

## Runs

| Run | Properties | Bounds | Shows |
|---|---|---|---|
| `zones_members` | `NoDangling`, `CountCoversMembers`, `HeldAcrossSleep`, `KeepsContract`, `StaysSealed` | 2 processes, 3 threads, 2 nodes, 1 zone, counts up to 2, stray store into one process | counts, pointers and sleeps under forks, threads, exits, destroys and node reuse; the contract is implemented; who is in a zone stays sealed in |
| `zone_isolation` | `PidSignalsStayInZone`, `LiveListingInZone`, `RegistryOK`, `SyscallReturns` | 2 processes of one thread, 2 nodes, 2 zones, 2 names, 3 ids, counts up to 1 | racing creators keep names, ids and the total right, comparing pointers is right for live processes, every call returns |
| `zone_signals` | `SignalsStayInZone`, violated | | group signals cross zones |
| `game` | `SlotsHoldBidders`, `ContractGoesToBidder`, `EveryAnswerCounts`, `BidderScores` | 3 bids, points up to 600 either way | the slots hold the bidders still in, every answer makes progress, the contract and its points go to who has the right to them |
| `tricks` | `TypeOK`, `HandsAgree`, `NoRevoke`, `CanAnswer`, `TrickToBestCard`, `TricksAddUp` | 9 cards of 3 suits, hands of 2, 3 deals, users type any card their client lets through | how far counts and hands may part, and who is never stuck; tricks go to the best card and are credited once |
| `lobby` | `SeatedOnce`, `TablesFill`, `EveryoneSeated` | 4 clients, tables of 2, 2 names, clients hang up at any time | nobody is lost between the lists, and everybody is seated unless a client that hung up takes the server down |
| `lobby_own` | `OwnPlayers`, violated | as above, nobody hangs up | a game thread writes to the players of another game |
| `webserver` | `TypeOK`, `Watched`, `WholeResponses`, `Answered` | 3 clients with 8, 1 and 1 requests, 2 descriptors, packets of 2 units | events match buffers, responses are whole, requests are answered |
| `maze` | `TypeOK`, `SafePositions`, `InStep`, `SlowTrails`, `WallerKeepsWall`, `GameEnds` | every map of 3 by 4 around a lone waller and 9 games of up to 3 agents, 4 turns, delay 1 | agents that move stay apart and on the map, pipes stay in step, the handler ends unless blank rows starve an agent |
| `eou` | `LinkWatched`, `PingsWatched`, `NothingOutlives` | 2 interfaces, 1 path, 2 network ids, per interface one setup and one configuration asleep | link, timers, tree and freed memory under any order of ioctls that sleep, timers, pongs and stray pointers |
| `duplex` | `HeardWasTyped`, `StuckHasPacket`, `Confirmed`, `WaitEnds` | one key per station, timeout 2, 2 wrong bits per half, cancels | noise is refused, confirmations are true, waits end |
| `duplex_back` | `BackToReceiving`, violated | as above, no noise, no cancels | a station hangs behind an unread packet |

Types. Where TLAPS proves the type invariant for every instance (`Zones`, `Bidding`,
`Lobby`, `Eou`, `Duplex`) and another property of a run is stronger, no run checks it again.

Why the bounds are enough for zones. Every property relates at most two zones, two
processes or two threads. Two threads are needed for a race on the lock, the third for a
process of two threads beside another process. Two nodes and one zone let a node be freed
and its address stay referenced while another is in use. Three ids with a lowest id of 0
let `zoneid_head` wrap past ids in use. `TotalBound` caps `ps_total`, which forks and
threads raise without limit; a count of two distinguishes a member from a leaked count,
and a count of one, in `zone_isolation`, keeps processes in a zone from forking there.
`ThreadsPerProc` caps the threads of a process. `zones_members` has `SYMMETRY` over nodes,
names and the process slots that are not named in `Boot`; no property or definition tells
those apart. Two zones together with stray stores and threads are beyond TLC; the theorems
cover them. So in `zones_members` a process has no second zone to move to: the run exercises
that a sealed process never gets out or enters again, and the theorem `SealedForGood` covers
moves between zones as well.

And for the game. A bid matters only by its rank and by what it is worth: the lowest, one
between and the highest make every branch of the loops happen, and the theorems hold for
all 24. `PointBound` (600) lies above 499 and lets both sides get there. Three suits and
nine cards, one of which is in no hand, give a suit led, trumps and a third suit, and let a
player run out of one, type a card of somebody else or of nobody, and be refused every card
one trick later; the deals are a mixed one, one of whole suits and one in which a player lacks
the suit of the others. Two tables of two are the least in which one full game follows another.

And for the others. `eou`: two interfaces can share a tunnel, share a key, and empty or tear the
tree under each other; on one path and two network ids one interface can move to the place of
the other. Configuring an interface again needs no second path, because the id may have
changed. Three bounds are in the guards: an interface has one setup and one configuration
asleep at a time, and a unit is not created again while freed memory of it is in use. More of
the first would arm the same two timers again; the others keep one name for one piece of memory.
`webserver`: three clients and two descriptors make the third fail; the responses are of
one to three units, so that packets of two end inside and between responses. `maze`: every
map of three by four cells has corners, dead ends and islands for a waller to follow, and the
theorem covers larger maps. `HandOnWall` is about the waller's left hand, on purpose: a wall
beside it on the right only, an island that it passes, is lost on maps with more room. The
groups have each kind of agent, agents that fail with each class of status and an
interrupt. Four turns fill the delay of one and move on. `duplex`: two flips are what the
code must detect; `HalvesDecoded` of `MCDuplex` evaluates it for all sixteen halves. A
timeout of two rounds lets an answer come in time, late, or between a retransmission and
its timeout.

Deadlock is checked in the runs on zones, where init never exits and can always make a
call, and in `eou`, where an interface can always be created, changed or
destroyed. It is not checked where the program may stop: a game that was won or that reached
`PointBound`, a trick in which a client refuses every card, a lobby in which everybody is seated
and every game over or whose server is down, a web server that ended or whose clients are all
served, a maze handler that ended or waits for an agent without rows, stations that are stuck.

Fairness of `zone_isolation` (`Fairness` of `Zones`). A thread in the kernel that waits for
nobody is scheduled (weak fairness of `Proceed`), and the reaper, a kernel thread,
runs. A thread that waits for `zone_rwlock` gets it if the lock is free again and again
(strong fairness of `TakeLock`): the kernel's rwlock wakes the waiters at each release. No
fairness is assumed of user programs, nor of signals and listings. With three threads two
readers that overlap for ever could keep the lock from ever being free; whether the rwlock then prefers a writer is decided outside the
repository. The run has two threads, which never overlap as readers while a third waits.

Fairness of `lobby` (`FairSpec` of `Lobby`). The accepting thread runs, and a client that
was greeted sends its lines or has closed its connection: `client499.c` (148-153) writes
both lines without waiting for a user. The server does not enforce it. Nothing
is assumed of game threads or of clients that have not connected. A client that stays silent would block everybody behind it.

Fairness of `webserver`. libevent polls level-triggered and calls every event that is ready,
so `Serve` of each connection is weakly fair. That a pending write becomes ready assumes
that the client reads on; one that does not would block the server, whose sockets block.
Clients need not send anything, and the connections in the backlog need not be accepted.

Fairness of `maze`. The handler, its signal handlers and the agents are scheduled. Nobody
has to kill an agent or interrupt the game.

Fairness of `duplex`. The main loop of each station runs, a frame ends, and a packet is sent,
whether or not it arrives. Users may stop typing at any time.

That a process stays in the one zone it entered is not a property, because it is false: two
threads that both pass the check of `zone_enter` before either has the lock take their process
from one zone to another, and the stray store of `fork1`, which happens when a process in a zone
forks, may move any process. Neither makes a pointer dangle, and `StaysSealed` says what is left:
once no thread of the process is between the check and the lock, it never becomes global or
enters again, and only the stray store moves it. Of tricks in which trumps are led
`TrickToBestCard` says less: `serv499.c` (710-718) takes a card lower than the one led for a
trump on another suit, and lets it win, so that the highest is sure to win only if no lower one
comes after it. `CanAnswer` says when a client refuses every card: when its count of the suit led
is below zero, which needs a card that was not in the hand. `Confirmed` says that the character
was decoded at some time; a frame carries no number, so nothing can tell a late answer from the answer to a
second character that is the same.

## Findings

Shown by a run:

* `cansignal` does not stop a sender in a zone, and `killpg1` has no test of its own
  (`SignalsStayInZone`), although `README.txt` says that signals cannot cross zones.
* A game thread uses a variable of the accepting loop, which the next full game
  overwrites: a running game continues with the players of the later one (`OwnPlayers`).
* A station waits for ever for the end of its transmission if a packet came in just before
  (`BackToReceiving`), where `main.c` 541 says that it is "switching back to receiving".

Seen in the source while modelling it, without a run of their own:

* Zones. `fork1` stores the parent's zone through a pointer that has no value yet, and
  the child starts in the global zone (`kern_fork.c` 353-360). `ps_total` counts forks and
  threads that are never uncounted, so that a zone in which a process once forked can
  never be destroyed; after 2^32 of them it wraps. A zombie keeps the pointer to its zone
  after that zone may be destroyed, and is shown in the zone that reuses the node.
* 499. When the opener passes, the loop of `set_bid` next asks the player who holds the bid
  to beat; if that player passes too, the contract goes to the one who is left, with a bid of
  somebody else (`serv499.c` 228). A card that is not in the hand, typed by a user who is out
  of the suit led, lowers the count of its suit, in the end below zero, and the client then
  refuses every card (`client499.c` 653). `serv499.c` 615 repeats the condition of 606, so that
  points of Team 2 never end a game; 754 announces the best card of the suit led as the
  winner although a trump took the trick.
* Ethernet over UDP. The searches return uninitialised pointers (131-169). `up` before a
  configuration pings on a NULL socket. Two interfaces whose ids add up to one sum leave the
  second, running, out of the tree. A new network id leaves the old key in use. Tunnels are
  found by such a sum too (200-222): while a configuration sleeps, a second tunnel with the
  sum of the first can be dropped unnoticed and the network id of another interface changed,
  after which two running interfaces have the same addresses and id. A setup that sleeps in its
  ping starts the timers of an interface that was put down or destroyed meanwhile.
* Web server. The callback that is to "copy and store the requested filepath" (`main.c` 395)
  keeps the last piece of a path that arrives in two reads. Running out of descriptors, and
  a write to a connection that was reset, end the server.
* Maze. To "check if I can turn left" (`waller.c` 156) the waller looks to the left of the
  direction it has already turned to. It loses a wall that it has on its right only
  (`waller.c` 111: only the left is looked at). The flag that is to have other signals "ignored if
  someone has won" (`handler.c` 102) is set only when the first killed agent is waited for.
  After the death of an agent a stale move of another agent is executed for it
  (`handler.c` 166-169), unless SIGCHLD comes first. On a map with more blank rows at its top
  than agents, handler and agent wait for each other for ever (`sharing.c` 69, `handler.c` 168).

## Proofs

`ZonesProofs` proves, for all values of the constants that the assumptions of `Zones`
admit:

| Theorem | Says |
|---|---|
| `TypeCorrect` | `Spec => []TypeOK` |
| `RegistryCorrect` | names and ids are unique, the total is exact and at most `MaxZones` |
| `InvariantCorrect` | `Spec => []IInv` |
| `NeverDangling`, `HeldSafely` | two of its conjuncts, `NoDangling` and `HeldAcrossSleep` |
| `CountsCover` | `CountCoversMembers`, the reason why the test of destroy for a count of 0 is enough |
| `ContractKept` | `Spec => KeepsContract` |
| `PidSignalsStay`, `LiveListingStays` | `PidSignalsStayInZone` and `LiveListingInZone` of `ZoneIsolation` |
| `SealedForGood` | `StaysSealed` |

All but `TypeCorrect`, `RegistryCorrect` and `SealedForGood` assume `TotalBound <= CountMax`: no
`ps_total` wraps. That is a true restriction of the code, which would wrap after 2^32 forks, and
the only one of these theorems. The assumptions on the constants are that
the sets of nodes, processes and threads do not contain their null values, that process
slots and nodes are finite, that init has a thread at boot, and that there are more ids than
zones.

Why a strengthening is needed, and how the argument goes:

1. `TypeOK` is inductive with `ThreadsOk`: a thread in the kernel belongs to a live
   process, and two forks in flight have different embryos.
2. `LockOk` follows: whoever sleeps with the lock is recorded in it.
3. `CreatorOk` carries the two checks of a creator across its sleep; from it and
   `LockOk` follows `RegistryOK`: `UniqueNames`, `UniqueIds` and `TotalExact`.
4. `CountCoversMembers` and `NoDangling` are inductive only together: a destroy needs
   the count to be at least the number of members, and a fork needs the parent's zone to
   exist. The stray store of `fork1` moves a process into a zone whose count has just
   been raised, and keeps both.
5. `ListerOk` says that no running process returns to the global zone, which
   `zone_list` relies on when it follows `ps_zone` after its sleep; with `LockOk` and
   `TotalExact` it gives `HeldAcrossSleep`.
6. Under `IInv` each step of `Zones` is a step of `ZoneContract` or a stutter.
7. A behaviour of `ZoneIsolation` is one of `Zones` (`IsolationReads`), so that `IInv` holds there,
   and with it `JoinedOK`: the node a process not yet reaped points to still has the id of the
   zone that the process joined. It makes the comparison of pointers in `sys_kill` and
   `sysctl_doproc` one of zones; for a zombie after the reaper it would not hold.
8. `SealedForGood` needs only `TypeOK` and `ThreadsOk`: a thread that enters belongs to a process
   that is not sealed, a new thread starts in user mode, and `process_new` zeroes the zone of an
   embryo, which no live process is.

`Game499Proofs` proves, for every set of bids:

| Theorem | Says |
|---|---|
| `BiddingInvariant` | `BidSpec => []BidInv`, `TypeOK` among its conjuncts |
| `SlotsCorrect` | the slots hold the bidders still in, each once and in their order |
| `ContractCorrect` | the contract goes to the player who made its bid or, after a pass on it, to the only one left |
| `BiddingAdvances` | every answer accepted raises the bid, removes a bidder or ends the auction |
| `GameBids` | `Spec => BidSpec`: what holds of one auction holds of every auction of a game |
| `BidderIsScored` | a round is scored for the side of that player, by what the bid is worth |

The argument: `WithoutDrops` says what the shifting loop does to the slots; from it
the slots in use stay a list of distinct players in table order, those who have not passed. The
last one left is thus the maker of the bid to beat, unless that player passed, and then it is who
`Entitled` names. The highest bid ends the auction, so that the bid to beat is never 9 hearts while a
question is open, and every raise leaves room. `Round` of `Game499` starts an auction over,
which `BidSpec` allows.

`TricksProofs` proves all six properties of the run `tricks`, for every deck file, hand size,
leader and trump, and whatever users type. `TypeCorrect` and `CreditsCorrect` (`TypeOK`,
`TricksAddUp`) come first; `HandsCorrect`, `NobodyRevokes`, `AnswerExists` and `TricksGoToBest` are
parts or consequences of `PlayInv` (`PlayInvariant`), whose parts are:

* `CountsOk`: the client's counts by suit are those of its arrays until they fall below zero, and
  the arrays hold a card for each trick left. Who has typed only own cards (is not in `strayed`)
  has exactly what is left of the deal. `PlayCounts` says what `Removed` does to arrays and counts
  for a card that is there and for one that is not.
* `TurnOk`: the cards on the table are those of the players from the leader up to the one asked.
* `ShownOk`: who did not follow a suit has none of it in the arrays, and never gets one back.
* `BestOk`: `leadCard` is the best of its suit on the table and, when another suit than trumps is
  led, `trumpLeadCard` the best trump. When trumps are led a lower trump may stand in its place, so
  that all that is left is that it is a trump.

The other proof modules, each for all values of the constants that the assumptions of its
module admit:

| Theorem | Says | Argument |
|---|---|---|
| `LobbyProofs`: `TypeCorrect`, `TablesCorrect` | no game outgrows its array; games of one name do not split, active games are full | Pending games are short of a player before each registration and have different names (`Tables`). A registration fills at most one, which is then moved: `JoinTables` and the lemmas on sequences say what joining, appending and removing do. |
| `LobbyProofs`: `SeatedCorrect` | `SeatedOnce`: who is seated has exactly one place in the two lists, everybody else none | `Seating`, with `Waiting` (the queue has nobody twice, and only clients who are not seated). Registering adds one place (`JoinSeats`), moving a full game keeps the places, and the end of a game takes away those of its players. |
| `WebServerProofs`: `EventsFollowBuffers` | `Watched` | With the types of the buffers `Watched` is inductive: every action that fills a buffer adds the event, and every action that empties it closes. `ResponseUnits` says that no response is empty. |
| `WebServerProofs`: `TypeCorrect`, `ResponsesAreWhole` | `TypeOK`, and `WholeResponses` for all requests, however they are cut into reads, and packets of any size | `StreamInv`: what was sent and what waits are together whole responses, and while no request was complete there is at most the one unit of an error response (`StreamWhole`), so that closing after it cuts nothing. `WholeIsJoined` turns wholeness into a claim about each unit and the one before it, which appending a response (`WholeAppend`) and moving units from one buffer to the other (`Moved`) keep. What a read does to the parser is an induction over its tokens (`ExecuteStates`). |
| `MazeProofs`: `PositionsSafe` | `SafePositions`, on every map and wherever the agents start | `PlacesInv`. Only `JudgeMove` moves anybody (`OthersStay`), and what passes its two tests leads to a free cell (`JudgedMove`), whoever the move came from. An agent that comes to stand on a cell finds nobody there, so that those who have moved never share one (`MoveSafe`). |
| `MazeProofs`: `HandlerInStep` | `InStep` | `PipesInv`: a pipe holds at most one line, and one only from the agent whose turn it is. A bad agent writes without being asked, but then it no longer runs. |
| `MazeProofs`: `TypeCorrect` | `TypeOK`, for agents with arguments their programs accept (`ArgumentOK`) | What an agent remembers has its type (`MemOf`), so that what it answers is a move (`DecideTyped`); a game that goes on has a turn left. |
| `MazeProofs`: `WallerFollowsWall` | `WallerKeepsWall` on every map | `LoneInv`: the line under way is the step the waller remembers, and no wall is there. `Touch`: the hand is on the wall, or will be after that step. `WallerStep` goes through the four branches of the program: after a left turn around a corner the wall is on the left of the new cell (`CornerKept`), after right turns the wall passed over is on the left, and straight on the wall on the left becomes the one behind on the left. |
| `MazeProofs`: `SlowRepeats` | `SlowTrails` for every delay, target and order of play | `Trail`: the positions remembered are a step apart each, and the last one is where the target is, or a step from it if the target has had its turn (`Since`). `SlowOf` adds that the way gone, with the answer under way (`LineOf`), is the way to the oldest position remembered. |
| `EouProofs`: `TypeCorrect`, `LinksAreWatched`, `PingsAreWatched`, `FreedIsForgotten` | `TypeOK`, `LinkWatched`, `PingsWatched`, `NothingOutlives`, with any number of ioctls asleep at once | Inductive together as `DInv`, with `AsleepLives`: an ioctl sleeps on an interface that exists or that is recorded in `wild`, so that what it does when it wakes up is accounted for. `InsertAdds` and `RemoveTakes` say what the tree may hold after an operation while it is not torn; `NothingOutlives` says nothing of a torn one. |
| `DuplexProofs`: `TypeCorrect`, `StuckByPacket` | `TypeOK`, `StuckHasPacket` | `LineOK`: only a sending station has TX_DS set and nothing arrives there, so what holds its line down came before. |
| `DuplexProofs`: `ConfirmedIsHeard` | `Confirmed`, for all keys and any noise | `AnswersHeard`: what is in the radio is an error report or was decoded by its sender; an error report is no key. |
| `DuplexProofs`: `HeardIsTyped` | `HeardWasTyped` for all 256 keys and up to two flips in each half | A word is a set of bits, and the syndrome of a sum is the sum of the syndromes (`Odd` over symmetric differences). One flip has the syndrome of its own column and is undone. Two flips have different columns, so that the syndrome is not empty; the decoder flips one more bit, the parity is odd, and the half is refused. |

Every invariant and action property that a passing run checks is thus proved. Induction over
data is used in one place: `LeastNat` of `WebServerProofs` takes the least counterexample that
the well-foundedness of the naturals gives, and needs no induction rule. Only model-checked are
`SyscallReturns`, `EveryoneSeated`, `Answered`, `GameEnds` and `WaitEnds`, because
liveness under fairness is beyond the prover, and the violated properties.

## Not modelled

* `ifconfig`, `kern_sysctl.c`, `kern_sig.c`, `kern_fork.c`, `kern_exit.c`, `ps`, `pkill`: whole files
  of OpenBSD, of which the repository changed a few dozen lines. The parts that touch zones are
  modelled. They make up half of the repository's lines, which is why the share of lines that a
  definition stands for is low whatever else is modelled.
* The tables of system calls, the build lists and the headers generated from them: no
  behaviour.
* Register-level drivers, the Atmega and Arduino programs, most of project 2: every line is
  input or output of a peripheral. The codecs of project 2 are not used by its `main.c`.
* The Fourier transforms: arithmetic on floating-point numbers.
* The convolutional encoder and decoder: pure functions of a byte that nothing else calls.
* zone(8): arguments and printing around the system calls of `Zones`.
* Of the modelled programs: what the sections above name.
