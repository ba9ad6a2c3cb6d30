------------------------- MODULE MCFilesAndTunnels ---------------------------
(* Instances for TLC of a store in its file, of the pooled handles of a connection, and   *)
(* of the host keys its tunnels trust.  No change of a store reaches a server, the pool   *)
(* looks at no key and a handshake at no handle, so each behaviour is of one of the three. *)
EXTENDS JsonStore

CONSTANTS
    Task, Database, NoHandle, MaxTunnels, MaxChanges, Handshakes, Hosts, Keys

VARIABLES
    part, config, handles, tunnel, alive, waiting, command, remover, overtaken, opened,
    store, hs, pending, dialog, warning, replies, trusted, changes

poolVars == <<config, handles, tunnel, alive, waiting, command, remover, overtaken, opened>>
hostVars == <<store, hs, pending, dialog, warning, replies, trusted>>

P == INSTANCE ConnectionPool
H == INSTANCE HostKeys

ASSUME TunnelsAssumption == P!ConstantsAssumption /\ H!NobodyAssumption

OfStore(A) == part = "store" /\ A /\ UNCHANGED <<part, poolVars, hostVars, changes>>
OfPool(A)  == part = "pool" /\ A /\ UNCHANGED <<part, storeVars, hostVars>>
OfKeys(A)  == part = "keys" /\ A /\ UNCHANGED <<part, storeVars, poolVars>>

InitPart ==
    /\ part \in {"store", "pool", "keys"}
    /\ StoreInit /\ P!Init /\ H!Init
    /\ part # "store" => kind = "query"
    /\ part # "pool" => ~config.ssh

NextStore ==
    \/ \E t \in Thread :
        \/ OfStore(\E change \in ChangeTo(kind) : Update(t, change))
        \/ OfStore(Load(t)) \/ OfStore(Read(t)) \/ OfStore(ReadFails(t))
        \/ OfStore(Quarantine(t)) \/ OfStore(QuarantineFails(t))
        \/ OfStore(WriteTemporary(t)) \/ OfStore(Rename(t)) \/ OfStore(WriteFails(t))
    \/ OfStore(Damage) \/ OfStore(Crash)

NextPool ==
    \/ \E t \in Task : OfPool(P!Step(t)) \/ \E db \in Database : OfPool(P!Begin(t, db))
    \/ OfPool(P!Edit) \/ OfPool(P!Disconnect) \/ OfPool(P!RemoveHandles) \/ OfPool(P!RemoveTunnel)
    \/ \E n \in 1..MaxTunnels : OfPool(P!TunnelDies(n))

NextKeys ==
    \/ \E t \in Handshakes :
        \/ \E h \in Hosts : OfKeys(H!Dial(t, h))
        \/ \E k \in Keys : OfKeys(H!CheckServerKey(t, k))
        \/ OfKeys(H!HandshakeFails(t)) \/ OfKeys(H!Establish(t)) \/ OfKeys(H!TunnelFails(t))
        \/ \E trust \in BOOLEAN : OfKeys(H!Resolve(t, trust))
    \/ \E trust \in BOOLEAN : OfKeys(H!Answer(trust))
    \/ OfKeys(H!Forget)
    \/ \E h \in Hosts : OfKeys(H!OtherDevice(h))

SpecPart ==
    /\ InitPart /\ [][NextStore \/ NextPool \/ NextKeys]_<<part, storeVars, poolVars, hostVars, changes>>
    /\ \A t \in Task : WF_poolVars(OfPool(P!OwnStep(t)))

\* Commands get a handle through a live tunnel (pool.rs connect), as ConnectionPool
\* states it.
CommandsGetLiveHandles == P!CommandsGetLiveHandles

\* While handshakes end, every connect ends (pool.rs ensure_tunnel), as ConnectionPool
\* states it.
ConnectsEnd == P!ConnectsEnd

\* A handshake is accepted only with a key the user has trusted for that very host, and
\* with that key on file (ssh.rs:195-251), as HostKeys states it.
OnlyTrustedKeys == H!OnlyTrustedKeys
=============================================================================
