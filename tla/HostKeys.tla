------------------------------ MODULE HostKeys ------------------------------
(* SSH tunnels and the host keys they trust on first use: `establish`      *)
(* connects, check_server_key compares the key presented with the one on   *)
(* file and asks the user about a host it does not know, the answer racing *)
(* a timeout and other prompts, and the tunnel then authenticates and      *)
(* forwards.  A handshake asks at most once, so it stands for the id of    *)
(* its prompt.                                                             *)
EXTENDS FiniteSets, Naturals

CONSTANTS Handshakes,  \* calls of establish
          Hosts,       \* host:port
          Keys,        \* public keys
          Nobody,      \* no key, and no handshake
          MaxChanges   \* hosts forgotten here, or trusted on another device

NobodyAssumption == Nobody \notin Keys \cup Handshakes \cup Hosts

VARIABLES store,    \* per host: the key on file, or Nobody
          hs,       \* per handshake: [st, host, key]
          pending,  \* prompts registered and not resolved
          dialog,   \* the prompt on the screen, or Nobody
          warning,  \* the host whose changed key is on the screen, or Nobody
          replies,  \* answers on their way: <<handshake, trust>>
          trusted,  \* what the user has said to trust: <<host, key>>
          changes   \* bound on Forget and OtherDevice

vars == <<store, hs, pending, dialog, warning, replies, trusted, changes>>

NotStarted == [st |-> "idle", host |-> Nobody, key |-> Nobody]

Init ==
    /\ store = [h \in Hosts |-> Nobody]
    /\ hs = [t \in Handshakes |-> NotStarted]
    /\ pending = {} /\ dialog = Nobody /\ warning = Nobody
    /\ replies = {} /\ trusted = {} /\ changes = 0

(* ---------------------------------------------------------------------- *)

(* The TCP connection to the bastion, in a time of its own.                *)
Dial(t, h) ==
    /\ hs[t].st = "idle"
    /\ hs' = [hs EXCEPT ![t] = [@ EXCEPT !.st = "dialing", !.host = h]]
    /\ UNCHANGED <<store, pending, dialog, warning, replies, trusted, changes>>

Goes(t, st) == hs' = [hs EXCEPT ![t].st = st]

DialEnds(t) ==
    /\ hs[t].st = "dialing"
    /\ \E st \in {"handshaking", "refused"} : Goes(t, st)
    /\ UNCHANGED <<store, pending, dialog, warning, replies, trusted, changes>>

(* check_server_key: the host presents a key.                              *)
Present(t, k) == hs[t].st = "handshaking" /\ hs[t].key = Nobody
                 /\ k \in Keys

Match(t, k) ==
    /\ Present(t, k) /\ store[hs[t].host] = k
    /\ hs' = [hs EXCEPT ![t].st = "authing", ![t].key = k]
    /\ UNCHANGED <<store, pending, dialog, warning, replies, trusted, changes>>

(* First contact: the prompt is registered and shown, over any other.      *)
Unknown(t, k) ==
    /\ Present(t, k) /\ store[hs[t].host] = Nobody
    /\ hs' = [hs EXCEPT ![t].st = "prompting", ![t].key = k]
    /\ pending' = pending \cup {t}
    /\ dialog' = t
    /\ UNCHANGED <<store, warning, replies, trusted, changes>>

Changed(t, k) ==
    /\ Present(t, k) /\ store[hs[t].host] \notin {k, Nobody}
    /\ hs' = [hs EXCEPT ![t].st = "refused", ![t].key = k]
    /\ warning' = hs[t].host
    /\ UNCHANGED <<store, pending, dialog, replies, trusted, changes>>

(* The handshake fails before a key, with a certificate or a key that      *)
(* cannot be read, or the prompt cannot be shown.  Nothing bounds the wait *)
(* for the server.                                                         *)
HandshakeFails(t) ==
    /\ hs[t].st = "handshaking"
    /\ Goes(t, "refused")
    /\ UNCHANGED <<store, pending, dialog, warning, replies, trusted, changes>>

(* The user answers the prompt that is on the screen.                      *)
Answer(trust) ==
    /\ dialog # Nobody
    /\ replies' = replies \cup {<<dialog, trust>>}
    /\ trusted' = IF trust THEN trusted \cup {<<hs[dialog].host, hs[dialog].key>>}
                  ELSE trusted
    /\ dialog' = Nobody
    /\ UNCHANGED <<store, hs, pending, warning, changes>>

(* A mistake the checks must catch: an answer is for whoever waits.        *)
AnyWaiting(t) == pending
Asked(t) == pending \cap {t}

(* record: the key is written over whatever is on file.                    *)
RecordKey(t) == store' = [store EXCEPT ![hs[t].host] = hs[t].key]

RecordFails(t) == Goes(t, "refused") /\ UNCHANGED store

Refuses(t) == Goes(t, "refused") /\ UNCHANGED store

(* respond_ssh_host_key resolves its prompt, if it still waits, and the    *)
(* handshake goes on: a key trusted is recorded first.                     *)
Resolve(t, trust) ==
    /\ <<t, trust>> \in replies
    /\ replies' = replies \ {<<t, trust>>}
    /\ IF Asked(t) = {} THEN UNCHANGED <<store, hs, pending>>
       ELSE \E u \in Asked(t) :
                /\ pending' = pending \ {u}
                /\ \/ trust /\ RecordKey(u) /\ Goes(u, "authing")
                   \/ trust /\ RecordFails(u)
                   \/ ~trust /\ Refuses(u)
    /\ UNCHANGED <<dialog, warning, trusted, changes>>

TimedOut(t) == Refuses(t)

(* PROMPT_TIMEOUT_SECS: the prompt may still be on the screen.             *)
MayTimeOut(t) == hs[t].st = "prompting"
PromptTimesOut(t) ==
    /\ MayTimeOut(t)
    /\ pending' = pending \ {t}
    /\ TimedOut(t)
    /\ UNCHANGED <<dialog, warning, replies, trusted, changes>>

(* Authentication, in a time of its own, and the local listener.           *)
AuthEnds(t) ==
    /\ hs[t].st = "authing"
    /\ \E st \in {"up", "refused"} : Goes(t, st)
    /\ UNCHANGED <<store, pending, dialog, warning, replies, trusted, changes>>

(* A channel cannot be opened, or the listener fails: the tunnel is dead   *)
(* to the pool; or its owner drops it.                                     *)
TunnelFails(t) ==
    /\ hs[t].st = "up"
    /\ Goes(t, "dead")
    /\ UNCHANGED <<store, pending, dialog, warning, replies, trusted, changes>>

(* The user forgets the host of the warning.                               *)
Forget ==
    /\ warning # Nobody /\ changes < MaxChanges
    /\ store' = [store EXCEPT ![warning] = Nobody]
    /\ warning' = Nobody
    /\ changes' = changes + 1
    /\ UNCHANGED <<hs, pending, dialog, replies, trusted>>

(* A sync brings a key the user trusted on another device, or takes one    *)
(* they forgot there.                                                      *)
OtherDevice(h) ==
    /\ changes < MaxChanges
    /\ changes' = changes + 1
    /\ \E k \in Keys \cup {Nobody} :
           /\ store' = [store EXCEPT ![h] = k]
           /\ trusted' = IF k = Nobody THEN trusted ELSE trusted \cup {<<h, k>>}
    /\ UNCHANGED <<hs, pending, dialog, warning, replies>>

CheckServerKey(t, k) == Match(t, k) \/ Unknown(t, k) \/ Changed(t, k)
Establish(t) == DialEnds(t) \/ PromptTimesOut(t) \/ AuthEnds(t)

Next ==
    \/ \E t \in Handshakes :
           \/ \E h \in Hosts : Dial(t, h)
           \/ \E k \in Keys : CheckServerKey(t, k)
           \/ HandshakeFails(t) \/ Establish(t) \/ TunnelFails(t)
           \/ \E trust \in BOOLEAN : Resolve(t, trust)
    \/ \E trust \in BOOLEAN : Answer(trust)
    \/ Forget
    \/ \E h \in Hosts : OtherDevice(h)

(* The three waits are bounded by timers; the handshake's own is not.      *)
Fairness == \A t \in Handshakes : WF_vars(Establish(t))

Spec == Init /\ [][Next]_vars
FairSpec == Spec /\ Fairness

----------------------------------------------------------------------------

TypeOK ==
    /\ store \in [Hosts -> Keys \cup {Nobody}]
    /\ hs \in [Handshakes ->
                 [st : {"idle", "dialing", "handshaking", "prompting", "authing",
                        "up", "dead", "refused"},
                  host : Hosts \cup {Nobody}, key : Keys \cup {Nobody}]]
    /\ pending \subseteq Handshakes
    /\ dialog \in Handshakes \cup {Nobody} /\ warning \in Hosts \cup {Nobody}
    /\ replies \subseteq Handshakes \X BOOLEAN
    /\ trusted \subseteq Hosts \X Keys /\ changes \in 0..MaxChanges

Accepted(t) == hs[t].st \in {"authing", "up"}

(* A handshake is accepted only with a key the user has trusted for that   *)
(* very host, and with that key on file, whichever prompts were open,      *)
(* overwritten or out of time when the answer came (ssh.rs:195-251,        *)
(* `resolve` :104-113).                                                    *)
OnlyTrustedKeys ==
    [][\A t \in Handshakes :
           ~Accepted(t) /\ Accepted(t)' =>
               /\ <<hs[t].host, hs'[t].key>> \in trusted
               /\ store'[hs[t].host] = hs'[t].key]_vars

=============================================================================
