---------------------------- MODULE ChannelServer ----------------------------
(* A server and its channels, as the main loop sees them: ServerBase       *)
(* accepts connections while asyncore.socket_map is below the connection   *)
(* limit, every channel is entered in the socket map and in the class's    *)
(* active_channels, and the constructor of a channel closes the channels   *)
(* that have been inactive for too long.                                   *)
(*                                                                         *)
(* asyncore and the socket module are external: a new socket gets the      *)
(* lowest free descriptor, and a closed one is free again.                 *)
EXTENDS Naturals, FiniteSets, Functions

CONSTANTS
  Channels,    \* bound: the connections that are ever accepted
  Fds,         \* descriptors for channels
  Reserved,    \* other entries of the socket map: the trigger, the server
  Limit        \* adj.connection_limit

ASSUME FdsAssumption   == Fds \subseteq Nat /\ IsFiniteSet(Fds)
ASSUME LimitAssumption == Reserved \in Nat /\ Limit \in Nat

VARIABLES
  state,             \* of each channel: "new", "open" or "closed"
  socket_map,        \* descriptor -> channel, of asyncore
  active_channels,   \* descriptor -> channel, of the channel class
  running_tasks,     \* channels whose tasks are queued or running
  inactive,          \* channels with last_activity < now - adj.channel_timeout
  cleanup            \* now >= next_channel_cleanup[0]

vars == <<state, socket_map, active_channels, running_tasks, inactive, cleanup>>

NoEntries == [fd \in {} |-> CHOOSE c \in Channels : TRUE]

Init ==
  /\ state = [c \in Channels |-> "new"]
  /\ socket_map = NoEntries /\ active_channels = NoEntries
  /\ running_tasks = {} /\ inactive = {}
  /\ cleanup = FALSE

open == {c \in Channels : state[c] = "open"}

\* f with fd mapped to c; f without the entries of some channels.
With(f, fd, c) == [x \in DOMAIN f \cup {fd} |-> IF x = fd THEN c ELSE f[x]]
Without(f, cs) == [x \in {fd \in DOMAIN f : f[fd] \notin cs} |-> f[x]]

-----------------------------------------------------------------------------
readable == Cardinality(DOMAIN socket_map) + Reserved < Limit

Lowest(fd) == \A x \in Fds \ DOMAIN socket_map : fd <= x

\* Mutant: an entry that is there already is kept.
EnteredOnce(fd, c) == IF fd \in DOMAIN active_channels THEN active_channels
                      ELSE With(active_channels, fd, c)
Entered(fd, c) == With(active_channels, fd, c)

\* Mutant: a running task does not keep a channel alive.
zombiesByAge(actives) == {c \in Range(actives) : c \in inactive}
zombies(actives) == {c \in Range(actives) : c \notin running_tasks /\ c \in inactive}

\* handle_accept() and the constructor of the channel.  The socket map loses
\* the channels that are closed; active_channels does not, for del_channel()
\* looks for a descriptor that asyncore has just forgotten.  A channel that is
\* in neither map is garbage, and its name stands for a new one.
handle_accept(c) ==
  /\ readable
  /\ state[c] = "new" \/ (state[c] = "closed" /\ c \notin Range(active_channels))
  /\ \E fd \in Fds \ DOMAIN socket_map :
       /\ Lowest(fd)
       /\ active_channels' = Entered(fd, c)
       /\ LET dead == IF cleanup THEN zombies(active_channels') \ {c} ELSE {} IN
          /\ state' = [x \in Channels |-> IF x = c THEN "open"
                                          ELSE IF x \in dead THEN "closed" ELSE state[x]]
          /\ socket_map' = With(Without(socket_map, dead), fd, c)
  /\ cleanup' = FALSE
  /\ running_tasks' = running_tasks \ {c} /\ inactive' = inactive \ {c}

\* The channel is closed in the main loop, by its peer or after its last
\* response.
close(c) ==
  /\ state[c] = "open"
  /\ state' = [state EXCEPT ![c] = "closed"]
  /\ socket_map' = Without(socket_map, {c})
  /\ UNCHANGED <<active_channels, running_tasks, inactive, cleanup>>

\* A request arrives and its task is queued; the task ends.
queue_task(c) ==
  /\ state[c] = "open" /\ c \notin running_tasks
  /\ running_tasks' = running_tasks \cup {c}
  /\ inactive' = inactive \ {c}
  /\ UNCHANGED <<state, socket_map, active_channels, cleanup>>

set_async(c) ==
  /\ c \in running_tasks
  /\ running_tasks' = running_tasks \ {c}
  /\ inactive' = inactive \ {c}
  /\ UNCHANGED <<state, socket_map, active_channels, cleanup>>

\* Time passes: adj.channel_timeout for a channel, adj.cleanup_interval for
\* the next cleanup.
ChannelTimeout(c) ==
  /\ state[c] = "open" /\ c \notin inactive
  /\ inactive' = inactive \cup {c}
  /\ UNCHANGED <<state, socket_map, active_channels, running_tasks, cleanup>>

CleanupInterval ==
  /\ ~cleanup /\ cleanup' = TRUE
  /\ UNCHANGED <<state, socket_map, active_channels, running_tasks, inactive>>

Next == \/ \E c \in Channels : \/ handle_accept(c) \/ close(c)
                               \/ queue_task(c) \/ set_async(c) \/ ChannelTimeout(c)
        \/ CleanupInterval

Spec == Init /\ [][Next]_vars

-----------------------------------------------------------------------------
(* Properties.                                                             *)

\* Every variable keeps its type; the socket map holds the open channels, each
\* under one descriptor.
TypeOK ==
  /\ state \in [Channels -> {"new", "open", "closed"}]
  /\ DOMAIN socket_map \subseteq Fds /\ Range(socket_map) = open
  /\ \A x, y \in DOMAIN socket_map : socket_map[x] = socket_map[y] => x = y
  /\ DOMAIN active_channels \subseteq Fds /\ Range(active_channels) \subseteq Channels
  /\ running_tasks \subseteq Channels /\ inactive \subseteq Channels
  /\ cleanup \in BOOLEAN

\* The connection limit is respected, counting every entry of the socket map.
WithinLimit == Reserved < Limit => Cardinality(DOMAIN socket_map) + Reserved <= Limit

\* kill_zombies() finds every open channel: each is in active_channels under
\* its own descriptor, however often descriptors were used again.
OpenIsTracked ==
  \A fd \in DOMAIN socket_map :
     fd \in DOMAIN active_channels /\ active_channels[fd] = socket_map[fd]

\* The two maps and the limit together. (handle_accept, del_channel, readable)
MapsInv == TypeOK /\ WithinLimit /\ OpenIsTracked

\* A cleanup closes all the open channels that were inactive for too long and
\* run no task, and no other.
ZombiesReaped ==
  [][cleanup /\ ~cleanup' =>
       \A c \in open : state'[c] = "closed" <=> c \in inactive \ running_tasks]_vars
=============================================================================
