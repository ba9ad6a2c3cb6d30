--------------------------- MODULE ConnectionPool ---------------------------
(***************************************************************************)
(* The pooled handles of one saved connection (src-tauri/src/pool.rs): the *)
(* clients or database pools its commands share, and the SSH tunnel they   *)
(* go through.  Every map has a lock of its own, held for one read or one  *)
(* write; opening a tunnel or a client holds none of them, so each action  *)
(* below is what runs between two awaits.  The setup lock is fair: its     *)
(* waiters are served in turn.                                             *)
(*                                                                         *)
(* A handle is the settings and the tunnel it was made with, a tunnel its  *)
(* number.  MaxTunnels and MaxChanges are the model's bounds on the        *)
(* tunnels opened and on the edits, disconnects and tunnel failures.       *)
(***************************************************************************)
EXTENDS Integers, Sequences

CONSTANTS
    Task,           \* the commands that run at once
    Database,       \* the databases they open on the connection
    NoHandle,       \* no handle in the map
    MaxTunnels,
    MaxChanges

ConstantsAssumption == MaxTunnels \in Nat /\ MaxChanges \in Nat

VARIABLES
    config,     \* the saved settings: their edit and whether they use SSH
    handles,    \* clients, pg_pools, mysql_pools: the handle of each database
    tunnel,     \* the tunnel in the map, or NoTunnel
    alive,      \* the tunnels whose alive flag is set
    waiting,    \* the setup lock: its holder, then who waits for it
    command,    \* what each command is doing
    remover     \* what pool.remove has left to do

\* What the properties ask about, and the use made of the bounds.
VARIABLES
    overtaken,  \* whether a change ever fell into a connect under way
    opened,     \* the tunnels opened so far
    changes     \* the changes so far

shared == <<config, handles, tunnel, alive>>
used   == <<opened, changes>>
vars   == <<shared, waiting, command, remover, overtaken, used>>

-----------------------------------------------------------------------------
NoTunnel == 0
Tunnel   == 1..MaxTunnels
Config   == [edit : 0..MaxChanges, ssh : BOOLEAN]
Handle   == [config : Config, tunnel : Tunnel \cup {NoTunnel}]

At == {"idle", "tunnel", "lock", "check", "drop dead", "remove dead", "dial",
       "handshake", "authenticate", "drop old", "insert", "look", "make", "keep"}

Locked == {"check", "drop dead", "remove dead", "dial", "handshake", "authenticate",
           "drop old", "insert"}

\* A command that got its handle, or failed, remembers nothing.
Idle == [at |-> "idle", db |-> CHOOSE db \in Database : TRUE,
         config |-> [edit |-> 0, ssh |-> FALSE], tunnel |-> NoTunnel]

Working(t) == command[t].at # "idle"

Init ==
    /\ config \in {c \in Config : c.edit = 0}
    /\ handles = [db \in Database |-> NoHandle]
    /\ tunnel = NoTunnel
    /\ alive = {}
    /\ waiting = <<>>
    /\ command = [t \in Task |-> Idle]
    /\ remover = "idle"
    /\ overtaken = FALSE
    /\ opened = 0 /\ changes = 0

GoTo(t, where)  == command' = [command EXCEPT ![t].at = where]
Ends(t)         == command' = [command EXCEPT ![t] = Idle]
TunnelOf(t, n)  == command' = [command EXCEPT ![t].at = "look", ![t].tunnel = n]
DropHandles     == handles' = [db \in Database |-> NoHandle]
Unlock          == waiting' = Tail(waiting)
Overtakes(busy) == overtaken' = (overtaken \/ busy)

-----------------------------------------------------------------------------
(* A command that needs the connection: AppContext::client, pg_pool, mysql_pool. *)

\* The settings are read once, before anything else.
Begin(t, db) ==
    /\ ~Working(t)
    /\ command' = [command EXCEPT ![t] = [at |-> IF config.ssh THEN "tunnel" ELSE "look", db |-> db,
                                          config |-> config, tunnel |-> NoTunnel]]
    /\ UNCHANGED <<shared, waiting, remover, overtaken, used>>

\* A mistake the checks must catch: any tunnel in the map will do.
FastPathAny(t) ==
    /\ command[t].at = "tunnel"
    /\ IF tunnel # NoTunnel
       THEN TunnelOf(t, tunnel) /\ UNCHANGED waiting
       ELSE GoTo(t, "lock") /\ waiting' = Append(waiting, t)
    /\ UNCHANGED <<shared, remover, overtaken, used>>

\* ensure_tunnel: a live tunnel is there, or the setup lock is asked for.
FastPath(t) ==
    /\ command[t].at = "tunnel"
    /\ IF tunnel \in alive
       THEN TunnelOf(t, tunnel) /\ UNCHANGED waiting
       ELSE GoTo(t, "lock") /\ waiting' = Append(waiting, t)
    /\ UNCHANGED <<shared, remover, overtaken, used>>

GetLock(t) ==
    /\ command[t].at = "lock" /\ Head(waiting) = t
    /\ GoTo(t, "check")
    /\ UNCHANGED <<shared, waiting, remover, overtaken, used>>

\* Another command may have opened one meanwhile; a dead one goes first.
CheckAgain(t) ==
    /\ command[t].at = "check"
    /\ \/ tunnel \in alive /\ TunnelOf(t, tunnel) /\ Unlock
       \/ tunnel = NoTunnel /\ GoTo(t, "dial") /\ UNCHANGED waiting
       \/ tunnel \notin alive \cup {NoTunnel} /\ GoTo(t, "drop dead") /\ UNCHANGED waiting
    /\ UNCHANGED <<shared, remover, overtaken, used>>

DropDeadHandles(t) ==
    /\ command[t].at = "drop dead"
    /\ DropHandles
    /\ GoTo(t, "remove dead")
    /\ UNCHANGED <<config, tunnel, alive, waiting, remover, overtaken, used>>

RemoveDeadTunnel(t) ==
    /\ command[t].at = "remove dead"
    /\ tunnel' = NoTunnel
    /\ GoTo(t, "dial")
    /\ UNCHANGED <<config, handles, alive, waiting, remover, overtaken, used>>

\* Refused, timed out or not trusted: the command fails and the lock is free.
NotOpened(t) == Ends(t) /\ Unlock

\* ssh::establish reaches the bastion over TCP within SSH_CONNECT_TIMEOUT_SECS, or not.
Dial(t) ==
    /\ command[t].at = "dial"
    /\ \/ GoTo(t, "handshake") /\ UNCHANGED waiting
       \/ NotOpened(t)
    /\ UNCHANGED <<shared, remover, overtaken, used>>

\* The SSH handshake on that stream, the question about the host key in it.  The
\* question has a timeout; the bastion's answers have none.
Handshake(t) ==
    /\ command[t].at = "handshake"
    /\ \/ GoTo(t, "authenticate") /\ UNCHANGED waiting
       \/ NotOpened(t)
    /\ UNCHANGED <<shared, remover, overtaken, used>>

Opened(t) ==
    /\ opened < MaxTunnels
    /\ opened' = opened + 1
    /\ alive' = alive \cup {opened + 1}
    /\ command' = [command EXCEPT ![t].at = "drop old", ![t].tunnel = opened + 1]
    /\ UNCHANGED waiting

\* A mistake the checks must catch: an authentication with no timeout, which a bastion
\* that opens no more tunnels leaves waiting.
AuthenticateUntimed(t) ==
    /\ command[t].at = "authenticate"
    /\ Opened(t)
    /\ UNCHANGED <<config, handles, tunnel, remover, overtaken, changes>>

\* The authentication, with a timeout again, and the local port the tunnel listens on.
Authenticate(t) ==
    /\ command[t].at = "authenticate"
    /\ Opened(t) \/ (NotOpened(t) /\ UNCHANGED <<opened, alive>>)
    /\ UNCHANGED <<config, handles, tunnel, remover, overtaken, changes>>

\* A fresh tunnel has another local port.
DropOldHandles(t) ==
    /\ command[t].at = "drop old"
    /\ DropHandles
    /\ GoTo(t, "insert")
    /\ UNCHANGED <<config, tunnel, alive, waiting, remover, overtaken, used>>

InsertTunnel(t) ==
    /\ command[t].at = "insert"
    /\ tunnel' = command[t].tunnel
    /\ GoTo(t, "look") /\ Unlock
    /\ UNCHANGED <<config, handles, alive, remover, overtaken, used>>

Cached(t) == handles[command[t].db] # NoHandle

\* A cached handle needs no password; without one, the keychain is read next.
Look(t) ==
    /\ command[t].at = "look"
    /\ IF Cached(t) THEN Ends(t) ELSE GoTo(t, "make")
    /\ UNCHANGED <<shared, waiting, remover, overtaken, used>>

\* get_or_create looks again, then opens a client of its own, which may fail.
Make(t) ==
    /\ command[t].at = "make"
    /\ Ends(t) \/ (~Cached(t) /\ GoTo(t, "keep"))
    /\ UNCHANGED <<shared, waiting, remover, overtaken, used>>

\* Another command may have entered one first, and everyone uses that one.
Keep(t) ==
    /\ command[t].at = "keep"
    /\ handles' = [handles EXCEPT ![command[t].db] =
                       IF Cached(t) THEN @ ELSE [config |-> command[t].config, tunnel |-> command[t].tunnel]]
    /\ Ends(t)
    /\ UNCHANGED <<config, tunnel, alive, waiting, remover, overtaken, used>>

-----------------------------------------------------------------------------
(* What may happen meanwhile. *)

AnyWorking == \E t \in Task : Working(t)

\* update_connection saves the record, as a sync does before settle, and then removes.
Edit ==
    /\ remover = "idle" /\ changes < MaxChanges
    /\ config' \in {c \in Config : c.edit = config.edit + 1}
    /\ remover' = "drop"
    /\ changes' = changes + 1
    /\ Overtakes(AnyWorking)
    /\ UNCHANGED <<handles, tunnel, alive, waiting, command, opened>>

Disconnect ==
    /\ remover = "idle" /\ changes < MaxChanges
    /\ remover' = "drop"
    /\ changes' = changes + 1
    /\ UNCHANGED <<shared, waiting, command, overtaken, opened>>

\* pool.remove: the handles, then the tunnel.
RemoveHandles ==
    /\ remover = "drop"
    /\ DropHandles
    /\ remover' = "remove"
    /\ Overtakes(AnyWorking)
    /\ UNCHANGED <<config, tunnel, alive, waiting, command, used>>

RemoveTunnel ==
    /\ remover = "remove"
    /\ tunnel' = NoTunnel
    /\ remover' = "idle"
    /\ Overtakes(AnyWorking)
    /\ UNCHANGED <<config, handles, alive, waiting, command, used>>

\* A forward fails, and the tunnel is marked dead.
TunnelDies(n) ==
    /\ n \in alive /\ changes < MaxChanges
    /\ alive' = alive \ {n}
    /\ changes' = changes + 1
    /\ Overtakes(\E t \in Task : Working(t) /\ command[t].tunnel = n)
    /\ UNCHANGED <<config, handles, tunnel, waiting, command, remover, opened>>

-----------------------------------------------------------------------------
\* What the command does by itself, timeouts included.
OwnStep(t) ==
    \/ FastPath(t) \/ GetLock(t) \/ CheckAgain(t) \/ DropDeadHandles(t) \/ RemoveDeadTunnel(t)
    \/ Dial(t) \/ Authenticate(t) \/ DropOldHandles(t) \/ InsertTunnel(t)
    \/ Look(t) \/ Make(t) \/ Keep(t)

Step(t) == OwnStep(t) \/ Handshake(t)

Next ==
    \/ \E t \in Task : Step(t) \/ \E db \in Database : Begin(t, db)
    \/ Edit \/ Disconnect \/ RemoveHandles \/ RemoveTunnel
    \/ \E n \in Tunnel : TunnelDies(n)

Spec == Init /\ [][Next]_vars

\* A command goes on when it can, and each call it makes ends, in an answer or by its
\* timeout; only the bastion's part of a handshake is owed by nobody.
FairSpec == Spec /\ \A t \in Task : WF_vars(OwnStep(t))

-----------------------------------------------------------------------------
\* The type invariant.  The setup lock's queue holds each command that wants it once.
TypeOK ==
    /\ config \in Config
    /\ handles \in [Database -> Handle \cup {NoHandle}]
    /\ tunnel \in Tunnel \cup {NoTunnel} /\ alive \subseteq Tunnel
    /\ command \in [Task -> [at : At, db : Database, config : Config,
                          tunnel : Tunnel \cup {NoTunnel}]]
    /\ remover \in {"idle", "drop", "remove"}
    /\ overtaken \in BOOLEAN
    /\ opened \in 0..MaxTunnels /\ changes \in 0..MaxChanges
    /\ \A t \in Task :
        (\E i \in 1..Len(waiting) : waiting[i] = t) <=> command[t].at \in Locked \cup {"lock"}

\* No cached handle is stuck on another tunnel: while one is alive, so that the next
\* command uses it and what is cached, everything cached goes through it, unless a
\* change fell into a connect under way (pool.rs ensure_tunnel).
NoStuckHandle ==
    ~overtaken /\ remover = "idle" /\ tunnel \in alive =>
        \A db \in Database : handles[db] # NoHandle => handles[db].tunnel = tunnel

\* At its end a command has the handle that is there, or has failed to make one.
GetsHandle(t) ==
    /\ command[t].at \in {"look", "make", "keep"} /\ command'[t].at = "idle"
    /\ handles'[command[t].db] # NoHandle

\* A command that got its tunnel from ensure_tunnel gets a handle through that tunnel,
\* alive, and made with the settings it read (pool.rs connect).
GetsWhatItAskedFor(t) ==
    LET handle == handles'[command[t].db]
    IN  /\ handle.tunnel = command[t].tunnel /\ handle.config = command[t].config
        /\ command[t].config.ssh => command[t].tunnel \in alive

CommandsGetLiveHandles ==
    [][\A t \in Task : GetsHandle(t) /\ ~overtaken /\ remover = "idle" => GetsWhatItAskedFor(t)]_vars

\* Commands that run at once share one handle for each database: what a command got is
\* replaced only after it was dropped (pool.rs get_or_create).
HandlesAreShared ==
    [][\A db \in Database :
        handles[db] # NoHandle => handles'[db] \in {handles[db], NoHandle}]_vars

\* No handshake lasts for ever: what the code leaves to the bastion.
HandshakesEnd == \A t \in Task : []<>(command[t].at # "handshake")

\* While handshakes end, every connect ends, however the tunnel fares and whoever waits
\* for the setup lock (pool.rs ensure_tunnel, ssh.rs establish).
ConnectsEnd == HandshakesEnd => \A t \in Task : []<>~Working(t)

=============================================================================
