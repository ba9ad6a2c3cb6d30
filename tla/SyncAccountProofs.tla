------------------------- MODULE SyncAccountProofs --------------------------
(***************************************************************************)
(* SyncAccount for any number of accounts, sessions, keys, failures and    *)
(* commands at once.                                                       *)
(*                                                                         *)
(* Matching says what keeps an account's data readable: wherever a key and *)
(* its wrapped copies are together, they are halves of one.  Alone says    *)
(* what keeps it sealed for its account while one command runs at a time:  *)
(* whatever keys the device has, or the command in hand, were made for the *)
(* account the device is signed in to.                                     *)
(***************************************************************************)
EXTENDS SyncAccount, TLAPS

-----------------------------------------------------------------------------
(* The inductive invariants. *)

AnyKey == Key \cup {None}
AnySession == Session \cup {None}

Command == {"idle", "sign in", "refresh", "sign out", "delete", "pass", "create", "finish", "unlock",
            "relock", "turn off"}

Syncing == {"download", "upload", "save state"}
Keeping == {"keep keys", "keep file"}

Place == Syncing \cup Keeping \cup
         {"", "pickup", "forget session", "forget keys", "forget file", "forget entitlement", "forget state",
          "keep session", "me", "end session", "hold", "fetch"}

CommandState == [cmd : Command, at : Place, session : AnySession, key : AnyKey, lock : AnyKey, got : AnyKey,
                 ok : BOOLEAN]

\* The commands, and the places of a command, that have a session.
Signed(c) ==
    \/ c.cmd \in {"refresh", "delete", "pass", "create", "finish", "unlock"}
    \/ c.cmd = "sign in" /\ c.at # "pickup"
    \/ c.at \in Syncing \cup {"me", "keep session", "end session"}

RunningOK ==
    /\ running \in [Role -> CommandState]
    /\ \A r \in Role : /\ Signed(running[r]) => running[r].session \in Session
                       /\ running[r].at = "pickup" => running[r].cmd = "sign in"

ValuesOK ==
    /\ session \in AnySession /\ data_key \in AnyKey /\ wrapped \in AnyKey
    /\ entitlement \in Account \cup {None} /\ state \in Account \cup {None}
    /\ pending \in [session : AnySession, key : AnyKey]
    /\ valid \subseteq Session /\ given \subseteq Session
    /\ sealed \in [Account -> [data : AnyKey, lock : AnyKey]]
    /\ made \in [Key -> Account \cup {None}]
    /\ fails \in Nat

\* The type invariant.
TypeOK == ValuesOK /\ RunningOK /\ raced \in BOOLEAN /\ torn \in BOOLEAN

\* The steps that begin a command.
Beginning ==
    SignIn \/ Refresh \/ SignOut \/ DeleteAccount \/ StartPass \/ CreateKeys \/ FinishSetup \/ Unlock \/ Relock \/ TurnOff

\* A command that syncs, or keeps keys, holds both halves of one key.
Matched(c) ==
    /\ c.at \in Syncing \cup Keeping => c.key = c.lock /\ c.key # None
    /\ c.cmd = "relock" => c.key # None

\* As long as the device keeps two halves of one key, so does every command, and the server.
Matching ==
    /\ NobodyIsLockedOut
    /\ data_key # None /\ wrapped # None => data_key = wrapped
    /\ \A r \in Role : Matched(running[r])
    /\ running["setup"].at = "keep file" => data_key \in {None, running["setup"].key}
                                            /\ wrapped \in {None, running["setup"].key}

ReadableInv == ~torn => Matching

\* A key the device has while it is signed in was made for the account it is signed in to.
Own(k) == session # None /\ k # None => made[k] = Owner[session]

\* So was one that a command syncs with, keeps or is about to wrap; and signing in keeps
\* no session before every key of the account before it is forgotten.
OwnCommand(c) ==
    /\ c.at \in Syncing \cup Keeping \cup {"fetch"} => Own(c.key) /\ Own(c.lock) /\ c.session \in {None, session}
    /\ c.cmd = "sign in" /\ c.ok =>
         /\ c.at = "forget file" => data_key = None
         /\ c.at \in {"forget entitlement", "forget state", "keep session"} => data_key = None /\ wrapped = None
    /\ c.at = "keep session" => c.cmd = "sign in" /\ c.ok

\* While no commands overlap: one runs, and every key is where the account it was made for is.
Alone ==
    /\ \A r, q \in Role : running[r] # Idle /\ running[q] # Idle => r = q
    /\ \A a \in Account : \A k \in {sealed[a].data, sealed[a].lock} : k # None => made[k] = a
    /\ Own(data_key) /\ Own(wrapped)
    /\ \A r \in Role : OwnCommand(running[r])

\* Keys that are held, and those of a setup that ends, are of the session they were made under.
PendingOwn == pending.key # None => pending.session \in Session /\ made[pending.key] = Owner[pending.session]

HoldOwn ==
    \A r \in Role :
        running[r].cmd = "finish" => running[r].key # None /\ made[running[r].key] = Owner[running[r].session]

SealedInv == PendingOwn /\ HoldOwn /\ (~raced => Alone)

-----------------------------------------------------------------------------
(* Types. *)

\* At the beginning.
LEMMA TypeInit ==
    ASSUME ConstantsAssumption, Init
    PROVE  TypeOK
BY DEF ConstantsAssumption, Init, TypeOK, ValuesOK, RunningOK, Idle, Nothing, NoPending, CommandState, Signed, AnyKey, AnySession, Command,
       Place, Syncing, Keeping, Role

\* Command r goes on at p with what it holds.
Goes(r, p) ==
    /\ running' = [running EXCEPT ![r] = running'[r]] /\ running'[r] \in CommandState
    /\ running'[r].at = p /\ running'[r].cmd = running[r].cmd /\ running'[r].session = running[r].session
    /\ running'[r].key = running[r].key /\ running'[r].lock = running[r].lock
    /\ (running'[r].ok => running[r].ok)

Ends(r) == running' = [running EXCEPT ![r] = Idle] /\ running'[r] = Idle

LEMMA GoToGoes ==
    ASSUME running \in [Role -> CommandState], NEW r \in Role, NEW p \in Place, GoTo(r, p)
    PROVE  Goes(r, p)
<1> DEFINE n == [running[r] EXCEPT !.at = p]
<1>1. running' = [running EXCEPT ![r] = n]
  BY DEF GoTo
<1>2. running[r] \in CommandState
  OBVIOUS
<1>3. n \in CommandState /\ n.at = p /\ n.cmd = running[r].cmd /\ n.session = running[r].session
      /\ n.key = running[r].key /\ n.lock = running[r].lock /\ n.ok = running[r].ok
  BY <1>2 DEF CommandState
<1> HIDE DEF n
<1>4. running'[r] = n
  BY <1>1
<1> QED BY <1>1, <1>3, <1>4 DEF Goes

LEMMA StumblesGoes ==
    ASSUME running \in [Role -> CommandState], NEW r \in Role, NEW p \in Place,
           running' = [running EXCEPT ![r].at = p, ![r].ok = FALSE]
    PROVE  Goes(r, p) /\ ~running'[r].ok
<1> DEFINE n == [running[r] EXCEPT !.at = p, !.ok = FALSE]
<1>1. running' = [running EXCEPT ![r] = n]
  OBVIOUS
<1>2. running[r] \in CommandState
  OBVIOUS
<1>3. n \in CommandState /\ n.at = p /\ n.cmd = running[r].cmd /\ n.session = running[r].session
      /\ n.key = running[r].key /\ n.lock = running[r].lock /\ n.ok = FALSE
  BY <1>2 DEF CommandState
<1> HIDE DEF n
<1>4. running'[r] = n
  BY <1>1
<1> QED BY <1>1, <1>3, <1>4 DEF Goes

LEMMA DoneEnds ==
    ASSUME running \in [Role -> CommandState], NEW r \in Role, Done(r)
    PROVE  Ends(r)
BY DEF Done, Ends

LEMMA ForgetGoes ==
    ASSUME TypeOK, NEW r \in Role, Forgetting(r)
    PROVE  \/ Ends(r)
           \/ \E p \in {"forget keys", "forget file", "forget entitlement", "forget state", "keep session", "end session", "hold"} :
                /\ Goes(r, p)
                /\ p = "keep session" => running[r].cmd = "sign in"
                /\ p = "end session" => running[r].session # None
                /\ p = "hold" => running[r].cmd = "finish"
<1>r. running \in [Role -> CommandState]
  BY DEF TypeOK, RunningOK
<1>1. CASE ForgetSession(r)
  BY <1>1, <1>r, GoToGoes, StumblesGoes DEF ForgetSession, Place
<1>2. CASE ForgetDataKey(r)
  BY <1>2, <1>r, GoToGoes, StumblesGoes DEF ForgetDataKey, Place
<1>3. CASE ForgetWrapped(r)
  BY <1>3, <1>r, GoToGoes, StumblesGoes DEF ForgetWrapped, Place
<1>4. CASE ForgetEntitlement(r)
  BY <1>4, <1>r, GoToGoes, DoneEnds DEF ForgetEntitlement, Place, Failed
<1>5. CASE ForgetState(r)
  BY <1>5, <1>r, GoToGoes, DoneEnds DEF ForgetState, Place, Failed, Forgotten
<1> QED BY <1>1, <1>2, <1>3, <1>4, <1>5 DEF Forgetting

LEMMA FailsType ==
    ASSUME TypeOK, Works \/ Fails
    PROVE  fails' \in Nat /\ raced' = raced
<1>1. fails \in Nat
  BY DEF TypeOK, ValuesOK
<1> QED BY <1>1 DEF Works, Fails

\* What has ended, and what goes on, is a command.
LEMMA EndsType ==
    ASSUME TypeOK, NEW r \in Role, Ends(r)
    PROVE  RunningOK'
<1>1. Idle \in CommandState /\ ~Signed(Idle) /\ Idle.at # "pickup"
  BY DEF Idle, CommandState, Signed, AnyKey, AnySession, Command, Place, Syncing
<1> QED BY <1>1 DEF Ends, TypeOK, RunningOK

LEMMA GoesType ==
    ASSUME TypeOK, NEW r \in Role, NEW p \in Place \ {"pickup"}, Goes(r, p), running[r].at # "pickup",
           p \in Syncing \cup {"me", "keep session", "end session"} => running[r].session \in Session
    PROVE  RunningOK'
<1>1. Signed(running'[r]) => running'[r].session \in Session
  BY DEF Goes, Signed, TypeOK, RunningOK
<1>2. running'[r].at # "pickup"
  BY DEF Goes
<1> QED BY <1>1, <1>2 DEF Goes, TypeOK, RunningOK

LEMMA TypeForget ==
    ASSUME TypeOK, NEW r \in Role, Forgetting(r)
    PROVE  TypeOK'
<1>1. RunningOK'
  <2>1. running[r].at # "pickup"
    BY DEF Forgetting, ForgetSession, ForgetDataKey, ForgetWrapped, ForgetEntitlement, ForgetState, At
  <2>2. running[r].at \in {"forget session", "forget keys", "forget file", "forget entitlement", "forget state"}
    BY DEF Forgetting, ForgetSession, ForgetDataKey, ForgetWrapped, ForgetEntitlement, ForgetState, At
  <2>3. ASSUME NEW p \in {"forget keys", "forget file", "forget entitlement", "forget state", "keep session",
                          "end session", "hold"},
               Goes(r, p), p = "keep session" => running[r].cmd = "sign in",
               p = "end session" => running[r].session # None
        PROVE  RunningOK'
    <3>1. running[r].session \in AnySession
      BY DEF TypeOK, RunningOK, CommandState
    <3>2. p = "keep session" => running[r].session \in Session
      BY <2>1, <2>3 DEF TypeOK, RunningOK, Signed
    <3>3. p \in Place \ {"pickup"}
      BY DEF Place
    <3> QED BY <2>1, <2>3, <3>1, <3>2, <3>3, GoesType DEF Syncing, AnySession
  <2> QED BY <2>3, ForgetGoes, EndsType
<1>2. /\ session' \in {session, None} /\ data_key' \in {data_key, None} /\ wrapped' \in {wrapped, None}
      /\ entitlement' \in {entitlement, None} /\ state' \in {state, None}
      /\ UNCHANGED <<pending, valid, given, sealed, made, raced, torn>>
  BY DEF Forgetting, ForgetSession, ForgetDataKey, ForgetWrapped, ForgetEntitlement, ForgetState, keys, world, Works, Fails
<1>3. fails' \in Nat
  <2>1. Works \/ Fails
    BY DEF Forgetting, ForgetSession, ForgetDataKey, ForgetWrapped, ForgetEntitlement, ForgetState
  <2> QED BY <2>1, FailsType
<1>4. ValuesOK'
  BY <1>2, <1>3 DEF TypeOK, ValuesOK, AnySession, AnyKey
<1> QED BY <1>1, <1>2, <1>4 DEF TypeOK

LEMMA BeginType ==
    ASSUME TypeOK, NEW r \in Role, NEW c \in CommandState, Begin(r, c),
           Signed(c) => c.session \in Session, c.at = "pickup" => c.cmd = "sign in"
    PROVE  RunningOK' /\ raced' \in BOOLEAN /\ running'[r] = c
BY DEF Begin, TypeOK, RunningOK, AllIdle

LEMMA TypeBegin ==
    ASSUME TypeOK, Beginning
    PROVE  TypeOK'
<1> DEFINE New(c) == [Idle EXCEPT !.cmd = c]
<1>i. Idle = [cmd |-> "idle", at |-> "", session |-> None, key |-> None, lock |-> None, got |-> None, ok |-> TRUE]
  BY DEF Idle
<1>u. ASSUME NEW r \in Role, NEW c \in CommandState, Begin(r, c),
             Signed(c) => c.session \in Session, c.at = "pickup" => c.cmd = "sign in",
             pending' \in {pending, NoPending},
             UNCHANGED <<session, data_key, wrapped, torn, entitlement, state, valid, given, sealed, made, fails>>
      PROVE  TypeOK'
  <2>1. RunningOK' /\ raced' \in BOOLEAN
    BY <1>u, BeginType
  <2>2. ValuesOK'
    <3>1. NoPending \in [session : AnySession, key : AnyKey]
      BY DEF NoPending, AnySession, AnyKey
    <3>2. ValuesOK
      BY DEF TypeOK
    <3>3. UNCHANGED <<session, data_key, wrapped, entitlement, state, valid, given, sealed, made, fails>>
      BY <1>u
    <3>4. pending' \in [session : AnySession, key : AnyKey]
      BY <1>u, <3>1, <3>2 DEF ValuesOK
    <3> QED BY <3>2, <3>3, <3>4 DEF ValuesOK
  <2>3. torn' = torn
    BY <1>u
  <2>4. torn' \in BOOLEAN
    BY <2>3 DEF TypeOK
  <2> QED BY <2>1, <2>2, <2>4 DEF TypeOK
<1>k. Role = {"sync", "sign", "setup"} /\ pending.session \in AnySession /\ pending.key \in AnyKey
      /\ session \in AnySession /\ data_key \in AnyKey /\ wrapped \in AnyKey
  BY DEF Role, TypeOK, ValuesOK
<1> USE DEF device, keys, world, CommandState, Command, Place, Syncing, Keeping, AnyKey, AnySession, Signed
<1>1. CASE SignIn
  BY <1>1, <1>i, <1>k, <1>u DEF SignIn
<1>2. CASE Refresh
  BY <1>2, <1>i, <1>k, <1>u DEF Refresh
<1>3. CASE SignOut
  BY <1>3, <1>i, <1>k, <1>u DEF SignOut
<1>4. CASE DeleteAccount
  BY <1>4, <1>i, <1>k, <1>u DEF DeleteAccount
<1>5. CASE StartPass
  BY <1>5, <1>i, <1>k, <1>u DEF StartPass
<1>6. CASE CreateKeys
  BY <1>6, <1>i, <1>k, <1>u DEF CreateKeys
<1>7. CASE FinishSetup
  BY <1>7, <1>i, <1>k, <1>u DEF FinishSetup
<1>8. CASE Unlock
  BY <1>8, <1>i, <1>k, <1>u DEF Unlock
<1>9. CASE Relock
  BY <1>9, <1>i, <1>k, <1>u DEF Relock
<1>10. CASE TurnOff
  BY <1>10, <1>i, <1>k, <1>u DEF TurnOff
<1> QED BY <1>1, <1>2, <1>3, <1>4, <1>5, <1>6, <1>7, <1>8, <1>9, <1>10 DEF Beginning

\* The account a command reaches, and what is held of it.
LEMMA ItsAccount ==
    ASSUME ConstantsAssumption, TypeOK, NEW r \in Role, running[r].session \in Session
    PROVE  /\ Its(r) \in Account
           /\ sealed[Its(r)] \in [data : AnyKey, lock : AnyKey]
           /\ sealed[Its(r)].data \in AnyKey /\ sealed[Its(r)].lock \in AnyKey
<1>1. Its(r) \in Account
  BY DEF ConstantsAssumption, Its
<1>2. sealed[Its(r)] \in [data : AnyKey, lock : AnyKey]
  BY <1>1 DEF TypeOK, ValuesOK
<1> QED BY <1>1, <1>2

\* Where the commands that sync, and those of the dialogs, go on.
LEMMA SyncGoes ==
    ASSUME ConstantsAssumption, TypeOK, NEW r \in Role, Download(r) \/ Upload(r) \/ SaveState(r) \/ Interrupted(r)
    PROVE  /\ running[r].at \in Syncing /\ running[r].session \in Session
           /\ \/ Ends(r)
              \/ \E p \in {"upload", "download", "save state", "forget session", "keep keys", "hold"} :
                   /\ Goes(r, p)
                   /\ p \in {"keep keys", "hold"} => running[r].cmd = "finish"
<1>r. running \in [Role -> CommandState]
  BY DEF TypeOK, RunningOK
<1>s. running[r].at \in Syncing => running[r].session \in Session
  BY DEF TypeOK, RunningOK, Signed
<1>1. CASE Download(r)
  <2>1. ASSUME running' = [running EXCEPT ![r].at = "upload", ![r].got = sealed[Its(r)].data]
        PROVE  Goes(r, "upload")
    <3> DEFINE n == [running[r] EXCEPT !.at = "upload", !.got = sealed[Its(r)].data]
    <3>1. running' = [running EXCEPT ![r] = n]
      BY <2>1
    <3>2. running[r] \in CommandState /\ running[r].session \in Session
      BY <1>1, <1>r, <1>s DEF Download, At, Syncing
    <3>3. sealed[Its(r)].data \in AnyKey
      BY <3>2, ItsAccount
    <3>4. n \in CommandState /\ n.at = "upload" /\ n.cmd = running[r].cmd /\ n.session = running[r].session
          /\ n.key = running[r].key /\ n.lock = running[r].lock /\ n.ok = running[r].ok
      BY <3>2, <3>3 DEF CommandState, Place, Syncing
    <3> HIDE DEF n
    <3>5. running'[r] = n
      BY <1>r, <3>1
    <3> QED BY <3>1, <3>4, <3>5 DEF Goes
  <2>2. Failed(r) => Ends(r) \/ (Goes(r, "hold") /\ running[r].cmd = "finish")
    BY <1>r, GoToGoes, DoneEnds DEF Failed, Place
  <2> QED BY <1>1, <1>r, <1>s, <2>1, <2>2, DoneEnds DEF Download, At, Syncing
<1>2. CASE Upload(r)
  BY <1>2, <1>r, <1>s, GoToGoes DEF Upload, At, Syncing, Place
<1>3. CASE SaveState(r)
  BY <1>3, <1>r, <1>s, GoToGoes, DoneEnds DEF SaveState, Failed, At, Syncing, Keeping, Place
<1>4. CASE Interrupted(r)
  BY <1>4, <1>r, <1>s, GoToGoes, DoneEnds DEF Interrupted, Failed, At, Syncing, Place
<1> QED BY <1>1, <1>2, <1>3, <1>4

LEMMA DialogGoes ==
    ASSUME TypeOK
    PROVE  /\ NotPickedUp \/ EndSession => Ends("sign")
           /\ KeepSession => Ends("sign") \/ Goes("sign", "me")
           /\ DeletedAccount => Ends("sign") \/ Goes("sign", "forget session")
           /\ HoldAgain \/ KeepWrapped \/ (\E k \in Key : HoldNewKeys(k)) => Ends("setup")
           /\ KeepDataKey => Ends("setup") \/ Goes("setup", "keep file")
<1>1. running \in [Role -> CommandState] /\ "sign" \in Role /\ "setup" \in Role
  BY DEF TypeOK, RunningOK, Role
<1>2. {"me", "forget session", "keep file"} \subseteq Place
  BY DEF Place, Keeping
<1> QED BY <1>1, <1>2, GoToGoes, DoneEnds
        DEF NotPickedUp, EndSession, KeepSession, DeletedAccount, HoldAgain, KeepWrapped, HoldNewKeys, KeepDataKey

LEMMA MovesType ==
    ASSUME TypeOK, NEW r \in Role, running' = [running EXCEPT ![r] = running'[r]], running'[r] \in CommandState,
           Signed(running'[r]) => running'[r].session \in Session,
           running'[r].at = "pickup" => running'[r].cmd = "sign in"
    PROVE  RunningOK'
BY DEF TypeOK, RunningOK

\* The session is found to be gone: the answer of GET /me has the device forget it.
LEMMA RecordMoves ==
    ASSUME TypeOK, NEW r \in Role, RecordAccount(r)
    PROVE  /\ running[r].at = "me" /\ running[r].session \in Session
           /\ \/ Ends(r)
              \/ /\ running' = [running EXCEPT ![r] = running'[r]]
                 /\ running'[r] \in CommandState
                 /\ running'[r].cmd = "refresh" /\ running'[r].at = "forget session"
                 /\ running'[r].session = running[r].session
<1>1. running \in [Role -> CommandState]
  BY DEF TypeOK, RunningOK
<1>2. running[r].at = "me"
  BY DEF RecordAccount, At
<1>3. running[r].session \in Session
  BY <1>2 DEF TypeOK, RunningOK, Signed
<1>4. ASSUME running' = [running EXCEPT ![r].cmd = "refresh", ![r].at = "forget session"]
      PROVE  /\ running' = [running EXCEPT ![r] = running'[r]]
             /\ running'[r] \in CommandState
             /\ running'[r].cmd = "refresh" /\ running'[r].at = "forget session"
             /\ running'[r].session = running[r].session
  <2> DEFINE n == [running[r] EXCEPT !.cmd = "refresh", !.at = "forget session"]
  <2>1. running' = [running EXCEPT ![r] = n]
    BY <1>4
  <2>2. running[r] \in CommandState
    BY <1>1
  <2>3. n \in CommandState /\ n.at = "forget session" /\ n.cmd = "refresh" /\ n.session = running[r].session
    BY <2>2 DEF CommandState, Place, Command
  <2> HIDE DEF n
  <2>4. running'[r] = n
    BY <1>1, <2>1
  <2> QED BY <2>1, <2>3, <2>4
<1> QED BY <1>1, <1>2, <1>3, <1>4, DoneEnds DEF RecordAccount

\* The server gives out a session.
LEMMA PickUpMoves ==
    ASSUME TypeOK, NEW s \in Session, PickUp(s)
    PROVE  /\ running' = [running EXCEPT !["sign"] = running'["sign"]]
           /\ running'["sign"] \in CommandState
           /\ running'["sign"].cmd = "sign in" /\ running'["sign"].at = "forget session"
           /\ running'["sign"].session = s
           /\ running["sign"].cmd = "sign in" /\ running["sign"].at = "pickup"
<1>1. running \in [Role -> CommandState] /\ "sign" \in Role
  BY DEF TypeOK, RunningOK, Role
<1>2. running["sign"].cmd = "sign in" /\ running["sign"].at = "pickup"
  BY <1>1 DEF PickUp, At, TypeOK, RunningOK
<1> DEFINE n == [running["sign"] EXCEPT !.session = s, !.at = "forget session"]
<1>3. running' = [running EXCEPT !["sign"] = n]
  BY DEF PickUp
<1>4. running["sign"] \in CommandState
  BY <1>1
<1>5. n \in CommandState /\ n.at = "forget session" /\ n.cmd = "sign in" /\ n.session = s
  BY <1>2, <1>4 DEF CommandState, Place, AnySession
<1> HIDE DEF n
<1>6. running'["sign"] = n
  BY <1>1, <1>3
<1> QED BY <1>2, <1>3, <1>5, <1>6

\* The wrapped copies arrive and are unlocked, or a key is wrapped anew.
LEMMA KeysMove ==
    ASSUME ConstantsAssumption, TypeOK, FetchKeys \/ PutLock
    PROVE  \/ Ends("setup") /\ UNCHANGED sealed
           \/ /\ running' = [running EXCEPT !["setup"] = running'["setup"]]
              /\ running'["setup"] \in CommandState
              /\ running["setup"].at = "fetch" /\ running'["setup"].at = "keep keys"
              /\ running'["setup"].cmd = running["setup"].cmd /\ running'["setup"].session = running["setup"].session
              /\ running'["setup"].lock = running'["setup"].key
              /\ \/ /\ running["setup"].cmd = "unlock" /\ running["setup"].session \in Session
                    /\ sealed[Its("setup")] # Nothing /\ running'["setup"].key = sealed[Its("setup")].lock
                    /\ UNCHANGED sealed
                 \/ /\ running["setup"].cmd = "relock" /\ running'["setup"].key = running["setup"].key
                    /\ session \in valid /\ sealed[Owner[session]].data = running["setup"].key
                    /\ sealed' = [sealed EXCEPT ![Owner[session]].lock = running["setup"].key]
<1>1. running \in [Role -> CommandState] /\ "setup" \in Role
  BY DEF TypeOK, RunningOK, Role
<1>2. running["setup"] \in CommandState
  BY <1>1
<1>3. CASE FetchKeys
  <2>1. running["setup"].at = "fetch" /\ running["setup"].cmd = "unlock" /\ UNCHANGED sealed
    BY <1>3 DEF FetchKeys, At, world
  <2>2. running["setup"].session \in Session
    BY <1>1, <2>1 DEF TypeOK, RunningOK, Signed
  <2>3. sealed[Its("setup")].lock \in AnyKey
    BY <1>1, <2>2, ItsAccount
  <2> DEFINE l == sealed[Its("setup")].lock
             n == [running["setup"] EXCEPT !.at = "keep keys", !.key = l, !.lock = l]
  <2>4. n \in CommandState /\ n.at = "keep keys" /\ n.cmd = running["setup"].cmd
        /\ n.session = running["setup"].session /\ n.lock = n.key /\ n.key = l
    BY <1>2, <2>3 DEF CommandState, Place, Keeping
  <2>5. CASE Done("setup")
    BY <1>1, <2>1, <2>5, DoneEnds
  <2>6. CASE ~Done("setup")
    <3>1. running' = [running EXCEPT !["setup"] = n] /\ sealed[Its("setup")] # Nothing
      BY <1>3, <2>6 DEF FetchKeys
    <3> HIDE DEF n
    <3>2. running'["setup"] = n
      BY <1>1, <3>1
    <3> QED BY <2>1, <2>2, <2>4, <3>1, <3>2
  <2> QED BY <2>5, <2>6
<1>4. CASE PutLock
  <2>1. running["setup"].at = "fetch" /\ running["setup"].cmd = "relock"
    BY <1>4 DEF PutLock, At
  <2> DEFINE n == [running["setup"] EXCEPT !.at = "keep keys", !.lock = running["setup"].key]
  <2>2. n \in CommandState /\ n.at = "keep keys" /\ n.cmd = running["setup"].cmd
        /\ n.session = running["setup"].session /\ n.lock = n.key /\ n.key = running["setup"].key
    BY <1>2 DEF CommandState, Place, Keeping
  <2>3. CASE session \in valid /\ Fits(sealed[Owner[session]])
    <3>1. running' = [running EXCEPT !["setup"] = n]
          /\ sealed' = [sealed EXCEPT ![Owner[session]].lock = running["setup"].key]
      BY <1>4, <2>3 DEF PutLock
    <3> HIDE DEF n
    <3>2. running'["setup"] = n
      BY <1>1, <3>1
    <3> QED BY <2>1, <2>2, <2>3, <3>1, <3>2 DEF Fits
  <2>4. CASE ~(session \in valid /\ Fits(sealed[Owner[session]]))
    BY <1>1, <1>4, <2>4, DoneEnds DEF PutLock
  <2> QED BY <2>3, <2>4
<1> QED BY <1>3, <1>4

LEMMA TypeRunning ==
    ASSUME ConstantsAssumption, TypeOK, Next,
           ~Beginning
    PROVE  RunningOK'
<1>r. "sign" \in Role /\ "setup" \in Role /\ running \in [Role -> CommandState]
  BY DEF Role, TypeOK, RunningOK
<1>1. ASSUME NEW r \in Role, Forgetting(r)
      PROVE  RunningOK'
  BY <1>1, TypeForget DEF TypeOK
<1>2. ASSUME NEW r \in Role, RecordAccount(r)
      PROVE  RunningOK'
  <2>1. running'[r].at = "forget session" /\ running'[r].session = running[r].session
        => running'[r].session \in Session
    BY <1>2, RecordMoves
  <2> QED BY <1>2, <2>1, RecordMoves, EndsType, MovesType
<1>3. ASSUME NEW r \in Role, Download(r) \/ Upload(r) \/ SaveState(r) \/ Interrupted(r)
      PROVE  RunningOK'
  <2>1. running[r].at # "pickup" /\ running[r].session \in Session
    BY <1>3, SyncGoes DEF Syncing
  <2>2. ASSUME NEW p \in {"upload", "download", "save state", "forget session", "keep keys", "hold"}, Goes(r, p)
        PROVE  RunningOK'
    BY <2>1, <2>2, GoesType DEF Place, Syncing, Keeping
  <2> QED BY <1>3, <2>2, SyncGoes, EndsType
<1>4. CASE NotPickedUp \/ EndSession \/ HoldAgain \/ KeepWrapped \/ (\E k \in Key : HoldNewKeys(k))
  BY <1>4, <1>r, DialogGoes, EndsType
<1>5. CASE KeepSession
  <2>1. running["sign"].at = "keep session"
    BY <1>5 DEF KeepSession, At
  <2>2. running["sign"].session \in Session
    BY <1>r, <2>1 DEF TypeOK, RunningOK, Signed
  <2>3. "me" \in Place \ {"pickup"}
    BY DEF Place
  <2> QED BY <1>5, <1>r, <2>1, <2>2, <2>3, DialogGoes, EndsType, GoesType
<1>6. CASE DeletedAccount
  <2>1. running["sign"].at = "end session"
    BY <1>6 DEF DeletedAccount, At
  <2>2. "forget session" \in Place \ {"pickup"} /\ "forget session" \notin Syncing \cup {"me", "keep session", "end session"}
    BY DEF Place, Syncing
  <2> QED BY <1>6, <1>r, <2>1, <2>2, DialogGoes, EndsType, GoesType
<1>7. CASE KeepDataKey
  <2>1. running["setup"].at = "keep keys"
    BY <1>7 DEF KeepDataKey, At
  <2>2. "keep file" \in Place \ {"pickup"} /\ "keep file" \notin Syncing \cup {"me", "keep session", "end session"}
    BY DEF Place, Syncing, Keeping
  <2> QED BY <1>7, <1>r, <2>1, <2>2, DialogGoes, EndsType, GoesType
<1>8. CASE FetchKeys \/ PutLock
  <2>1. CASE Ends("setup")
    BY <1>r, <2>1, EndsType
  <2>2. CASE ~Ends("setup")
    <3> DEFINE c == running["setup"]  n == running'["setup"]
    <3>1. /\ running' = [running EXCEPT !["setup"] = n] /\ n \in CommandState
          /\ c.at = "fetch" /\ n.at = "keep keys" /\ n.cmd = c.cmd /\ n.session = c.session
      BY <1>8, <2>2, KeysMove
    <3>2. Signed(c) => c.session \in Session
      BY <1>r DEF TypeOK, RunningOK
    <3>3. Signed(n) => Signed(c)
      BY <3>1 DEF Signed, Syncing
    <3> QED BY <1>r, <3>1, <3>2, <3>3, MovesType
  <2> QED BY <2>1, <2>2
<1>9. ASSUME NEW s \in Session, PickUp(s)
      PROVE  RunningOK'
  BY <1>9, <1>r, PickUpMoves, MovesType
<1>10. CASE \/ \E s \in Session : SessionEnds(s)
            \/ \E k \in Key, a \in Account : SetUpElsewhere(a, k)
            \/ \E a \in Account : DataRemoved(a)
  <2>1. running' = running
    BY <1>10 DEF SessionEnds, SetUpElsewhere, DataRemoved
  <2> QED BY <2>1 DEF TypeOK, RunningOK
<1> QED BY <1>1, <1>2, <1>3, <1>4, <1>5, <1>6, <1>7, <1>8, <1>9, <1>10 DEF Next, Beginning

\* The rest of the values, of the steps that are no beginning.
LEMMA TypeValues ==
    ASSUME ConstantsAssumption, TypeOK, Next,
           ~Beginning
    PROVE  ValuesOK' /\ raced' = raced /\ torn' \in BOOLEAN
<1>r. "sign" \in Role /\ "setup" \in Role /\ running \in [Role -> CommandState]
  BY DEF Role, TypeOK, RunningOK
<1>v. ValuesOK /\ torn \in BOOLEAN
  BY DEF TypeOK
<1>f. Works \/ Fails => fails' \in Nat /\ raced' = raced
  BY FailsType
<1>1. ASSUME NEW r \in Role, Forgetting(r)
      PROVE  ValuesOK' /\ raced' = raced /\ torn' \in BOOLEAN
  <2>1. Works \/ Fails
    BY <1>1 DEF Forgetting, ForgetSession, ForgetDataKey, ForgetWrapped, ForgetEntitlement, ForgetState
  <2> QED BY <1>1, <1>f, <2>1, TypeForget DEF TypeOK
<1>2. ASSUME NEW r \in Role, RecordAccount(r)
      PROVE  ValuesOK' /\ raced' = raced /\ torn' = torn
  <2>1. Its(r) \in Account
    BY <1>2, RecordMoves, ItsAccount
  <2>2. entitlement' \in {entitlement, Its(r)} /\ (Works \/ Fails)
        /\ UNCHANGED <<session, data_key, wrapped, torn, state, pending, valid, given, sealed, made>>
    BY <1>2 DEF RecordAccount, keys, world
  <2> QED BY <1>v, <1>f, <2>1, <2>2 DEF ValuesOK
<1>3. ASSUME NEW r \in Role, Download(r) \/ Interrupted(r)
      PROVE  ValuesOK' /\ raced' = raced /\ torn' = torn
  <2>1. (Works \/ Fails)
        /\ UNCHANGED <<session, data_key, wrapped, torn, entitlement, state, pending, valid, given, sealed, made>>
    BY <1>3 DEF Download, Interrupted, device, keys, world
  <2> QED BY <1>v, <1>f, <2>1 DEF ValuesOK
<1>4. ASSUME NEW r \in Role, Upload(r)
      PROVE  ValuesOK' /\ raced' = raced /\ torn' = torn
  <2>1. Its(r) \in Account /\ running[r].key \in AnyKey /\ running[r].lock \in AnyKey
    BY <1>4, <1>r, SyncGoes, ItsAccount DEF CommandState
  <2>2. sealed' \in {sealed, [sealed EXCEPT ![Its(r)] = [data |-> running[r].key, lock |-> running[r].lock]]}
        /\ UNCHANGED <<session, data_key, wrapped, torn, entitlement, state, pending, valid, given, made, fails, raced>>
    BY <1>4 DEF Upload, device, keys
  <2>3. sealed' \in [Account -> [data : AnyKey, lock : AnyKey]]
    BY <1>v, <2>1, <2>2 DEF ValuesOK
  <2> QED BY <1>v, <2>2, <2>3 DEF ValuesOK
<1>5. ASSUME NEW r \in Role, SaveState(r)
      PROVE  ValuesOK' /\ raced' = raced /\ torn' = torn
  <2>1. Its(r) \in Account
    BY <1>5, SyncGoes, ItsAccount
  <2>2. state' \in {state, Its(r)} /\ (Works \/ Fails)
        /\ UNCHANGED <<session, data_key, wrapped, torn, entitlement, pending, valid, given, sealed, made>>
    BY <1>5 DEF SaveState, keys, world
  <2> QED BY <1>v, <1>f, <2>1, <2>2 DEF ValuesOK
<1>6. CASE NotPickedUp
  <2>1. UNCHANGED <<session, data_key, wrapped, torn, entitlement, state, pending, valid, given, sealed, made, fails, raced>>
    BY <1>6 DEF NotPickedUp, device, keys, world
  <2> QED BY <1>v, <2>1 DEF ValuesOK
<1>7. CASE KeepSession
  <2>1. running["sign"].session \in AnySession
    BY <1>r DEF CommandState
  <2>2. session' \in {session, running["sign"].session} /\ (Works \/ Fails)
        /\ UNCHANGED <<data_key, wrapped, torn, entitlement, state, pending, valid, given, sealed, made>>
    BY <1>7 DEF KeepSession, keys, world
  <2> QED BY <1>v, <1>f, <2>1, <2>2 DEF ValuesOK
<1>8. CASE EndSession \/ DeletedAccount
  <2>1. /\ valid' \subseteq valid /\ sealed' \in {sealed, [sealed EXCEPT ![Its("sign")] = Nothing]}
        /\ Works \/ Fails
        /\ UNCHANGED <<session, data_key, wrapped, torn, entitlement, state, pending, given, made>>
    BY <1>8 DEF EndSession, DeletedAccount, device, keys
  <2>2. Nothing \in [data : AnyKey, lock : AnyKey]
    BY DEF Nothing, AnyKey
  <2>3. sealed' \in [Account -> [data : AnyKey, lock : AnyKey]]
    BY <1>v, <2>1, <2>2 DEF ValuesOK
  <2> QED BY <1>v, <1>f, <2>1, <2>3 DEF ValuesOK
<1>9. ASSUME NEW k \in Key, HoldNewKeys(k)
      PROVE  ValuesOK' /\ raced' = raced /\ torn' = torn
  <2>1. running["setup"].cmd = "create"
    BY <1>9 DEF HoldNewKeys
  <2>2. running["setup"].session \in Session
    BY <1>r, <2>1 DEF TypeOK, RunningOK, Signed
  <2>3. Its("setup") \in Account
    BY <1>r, <2>2, ItsAccount
  <2>4. /\ made' = [made EXCEPT ![k] = Its("setup")]
        /\ pending' = [session |-> running["setup"].session, key |-> k]
        /\ UNCHANGED <<session, data_key, wrapped, torn, entitlement, state, valid, given, sealed, fails, raced>>
    BY <1>9 DEF HoldNewKeys, keys
  <2>5. pending' \in [session : AnySession, key : AnyKey]
    BY <2>2, <2>4 DEF AnySession, AnyKey
  <2>6. made' \in [Key -> Account \cup {None}]
    BY <1>v, <2>3, <2>4 DEF ValuesOK
  <2> QED BY <1>v, <2>4, <2>5, <2>6 DEF ValuesOK
<1>10. CASE HoldAgain
  <2>1. running["setup"].session \in AnySession /\ running["setup"].key \in AnyKey
    BY <1>r DEF CommandState
  <2>2. /\ pending' = [session |-> running["setup"].session, key |-> running["setup"].key]
        /\ UNCHANGED <<session, data_key, wrapped, torn, entitlement, state, valid, given, sealed, made, fails, raced>>
    BY <1>10 DEF HoldAgain, keys, world
  <2>3. pending' \in [session : AnySession, key : AnyKey]
    BY <2>1, <2>2
  <2> QED BY <1>v, <2>2, <2>3 DEF ValuesOK
<1>11. CASE KeepDataKey
  <2>1. running["setup"].key \in AnyKey
    BY <1>r DEF CommandState
  <2>2. /\ data_key' \in {data_key, running["setup"].key} /\ (Works \/ Fails)
        /\ UNCHANGED <<session, wrapped, entitlement, state, pending, valid, given, sealed, made>>
    BY <1>11 DEF KeepDataKey, world
  <2>3. torn' \in BOOLEAN
    BY <1>11, <1>v, Zenon DEF KeepDataKey
  <2>4. ValuesOK'
    BY <1>v, <1>f, <2>1, <2>2 DEF ValuesOK
  <2> QED BY <1>f, <2>2, <2>3, <2>4
<1>12. CASE KeepWrapped
  <2>1. running["setup"].lock \in AnyKey
    BY <1>r DEF CommandState
  <2>2. /\ wrapped' \in {wrapped, running["setup"].lock} /\ (Works \/ Fails)
        /\ UNCHANGED <<session, data_key, torn, entitlement, state, pending, valid, given, sealed, made>>
    BY <1>12 DEF KeepWrapped, world
  <2> QED BY <1>v, <1>f, <2>1, <2>2 DEF ValuesOK
<1>13. CASE FetchKeys \/ PutLock
  <2>1. UNCHANGED <<session, data_key, wrapped, torn, entitlement, state, pending, valid, given, made, fails, raced>>
    BY <1>13 DEF FetchKeys, PutLock, device, keys, world
  <2>2. sealed' \in {sealed, [sealed EXCEPT ![Owner[session]].lock = running["setup"].key]}
    BY <1>13 DEF FetchKeys, PutLock, world
  <2>3. running["setup"].key \in AnyKey
    BY <1>r DEF CommandState
  <2>4. sealed' \in [Account -> [data : AnyKey, lock : AnyKey]]
    BY <1>v, <2>2, <2>3 DEF ValuesOK
  <2> QED BY <1>v, <2>1, <2>4 DEF ValuesOK
<1>14. ASSUME NEW s \in Session, PickUp(s) \/ SessionEnds(s)
       PROVE  ValuesOK' /\ raced' = raced /\ torn' = torn
  <2>1. /\ valid' \subseteq valid \cup {s} /\ given' \in {given, given \cup {s}}
        /\ UNCHANGED <<session, data_key, wrapped, torn, entitlement, state, pending, sealed, made>>
    BY <1>14 DEF PickUp, SessionEnds, device, keys
  <2>2. fails' \in Nat /\ raced' = raced
    BY <1>14, <1>v, <1>f DEF PickUp, SessionEnds, ValuesOK
  <2> QED BY <1>v, <2>1, <2>2 DEF ValuesOK
<1>15. ASSUME NEW a \in Account, DataRemoved(a) \/ \E k \in Key : SetUpElsewhere(a, k)
       PROVE  ValuesOK' /\ raced' = raced /\ torn' = torn
  <2>1. UNCHANGED <<session, data_key, wrapped, torn, entitlement, state, pending, valid, given>>
    BY <1>15 DEF DataRemoved, SetUpElsewhere, device, keys
  <2>2. fails' \in Nat /\ raced' = raced
    BY <1>15, <1>v, <1>f DEF DataRemoved, SetUpElsewhere, ValuesOK
  <2>3. Nothing \in [data : AnyKey, lock : AnyKey]
    BY DEF Nothing, AnyKey
  <2>4. sealed' \in [Account -> [data : AnyKey, lock : AnyKey]]
    BY <1>15, <1>v, <2>3 DEF DataRemoved, SetUpElsewhere, ValuesOK, AnyKey
  <2>5. made' \in [Key -> Account \cup {None}]
    BY <1>15, <1>v DEF DataRemoved, SetUpElsewhere, ValuesOK
  <2> QED BY <1>v, <2>1, <2>2, <2>4, <2>5 DEF ValuesOK
<1> QED BY <1>1, <1>2, <1>3, <1>4, <1>5, <1>6, <1>7, <1>8, <1>9, <1>10, <1>11, <1>12, <1>13, <1>14, <1>15, <1>v DEF Next, Beginning

LEMMA TypeStep ==
    ASSUME ConstantsAssumption, TypeOK, [Next]_vars
    PROVE  TypeOK'
<1>1. CASE Beginning
  BY <1>1, TypeBegin
<1>2. CASE Next /\ ~Beginning
  <2>1. RunningOK' /\ ValuesOK' /\ torn' \in BOOLEAN
    BY <1>2, TypeRunning, TypeValues
  <2>2. raced' = raced
    BY <1>2, TypeValues
  <2>3. raced' \in BOOLEAN
    BY <2>2 DEF TypeOK
  <2> QED BY <2>1, <2>3 DEF TypeOK
<1>3. CASE UNCHANGED vars
  <2>1. RunningOK' /\ ValuesOK'
    BY <1>3 DEF vars, device, keys, world, TypeOK, RunningOK, ValuesOK
  <2>2. raced' = raced /\ torn' = torn
    BY <1>3 DEF vars, device, keys, world
  <2>3. raced' \in BOOLEAN /\ torn' \in BOOLEAN
    BY <2>2 DEF TypeOK
  <2> QED BY <2>1, <2>3 DEF TypeOK
<1> QED BY <1>1, <1>2, <1>3

\* The variables keep their types.
THEOREM TypeCorrect == ASSUME ConstantsAssumption PROVE Spec => []TypeOK
<1>1. Init => TypeOK
  BY TypeInit
<1>2. TypeOK /\ [Next]_vars => TypeOK'
  BY TypeStep
<1> QED BY <1>1, <1>2, PTL DEF Spec

-----------------------------------------------------------------------------
(* What the server holds can be read. *)

LEMMA EndsMatched ==
    ASSUME NEW r \in Role, Ends(r)
    PROVE  Matched(running'[r]) /\ running'[r].at # "keep file"
<1>1. Idle.at = "" /\ Idle.cmd = "idle"
  BY DEF Idle
<1>2. running'[r] = Idle
  BY DEF Ends
<1> QED BY <1>1, <1>2 DEF Matched, Syncing, Keeping

LEMMA GoesMatched ==
    ASSUME NEW r \in Role, NEW p \in Place, Goes(r, p), Matched(running[r]),
           p \in Syncing \cup Keeping => running[r].at \in Syncing \cup Keeping
    PROVE  Matched(running'[r]) /\ running'[r].at = p
BY DEF Goes, Matched

\* A step of one command that saves no keys.
LEMMA QuietStep ==
    ASSUME TypeOK, Matching, NEW r \in Role, running' = [running EXCEPT ![r] = running'[r]],
           Matched(running'[r]), running'[r].at # "keep file", NobodyIsLockedOut',
           data_key' \in {data_key, None}, wrapped' \in {wrapped, None}
    PROVE  Matching'
<1>1. running \in [Role -> CommandState]
  BY DEF TypeOK, RunningOK
<1>2. \A q \in Role : running'[q] = IF q = r THEN running'[r] ELSE running[q]
  BY <1>1
<1>3. \A q \in Role : Matched(running'[q])
  BY <1>2 DEF Matching
<1>4. running'["setup"].at = "keep file" => data_key' \in {None, running'["setup"].key}
                                            /\ wrapped' \in {None, running'["setup"].key}
  <2>1. "setup" \in Role
    BY DEF Role
  <2> QED BY <1>2, <2>1 DEF Matching
<1>5. data_key' # None /\ wrapped' # None => data_key' = wrapped'
  BY DEF Matching
<1> QED BY <1>3, <1>4, <1>5 DEF Matching

\* A command begins with the halves the device has, or with none.
LEMMA MatchingBegin ==
    ASSUME TypeOK, Matching, Beginning
    PROVE  Matching'
<1>u. ASSUME NEW r \in Role, NEW c, Begin(r, c), Matched(c), c.at # "keep file",
             UNCHANGED <<data_key, wrapped, sealed>>
      PROVE  Matching'
  <2>1. running \in [Role -> CommandState]
    BY DEF TypeOK, RunningOK
  <2>2. running' = [running EXCEPT ![r] = c] /\ running'[r] = c
    BY <1>u, <2>1 DEF Begin
  <2>3. NobodyIsLockedOut'
    BY <1>u DEF Matching, NobodyIsLockedOut
  <2> QED BY <1>u, <2>2, <2>3, QuietStep
<1>k. Role = {"sync", "sign", "setup"}
  BY DEF Role
<1>i. Idle = [cmd |-> "idle", at |-> "", session |-> None, key |-> None, lock |-> None, got |-> None, ok |-> TRUE]
  BY DEF Idle
<1> USE DEF device, keys, world, Matched, Syncing, Keeping
<1>1. CASE SignIn
  BY <1>1, <1>i, <1>k, <1>u DEF SignIn
<1>2. CASE Refresh
  BY <1>2, <1>i, <1>k, <1>u DEF Refresh
<1>3. CASE SignOut
  BY <1>3, <1>i, <1>k, <1>u DEF SignOut
<1>4. CASE DeleteAccount
  BY <1>4, <1>i, <1>k, <1>u DEF DeleteAccount
<1>5. CASE StartPass
  <2>1. data_key = wrapped /\ data_key # None
    BY <1>5 DEF StartPass, SetUp, Matching
  <2> QED BY <1>5, <1>i, <1>k, <1>u, <2>1 DEF StartPass
<1>6. CASE CreateKeys
  BY <1>6, <1>i, <1>k, <1>u DEF CreateKeys
<1>7. CASE FinishSetup
  BY <1>7, <1>i, <1>k, <1>u DEF FinishSetup, Takes
<1>8. CASE Unlock
  BY <1>8, <1>i, <1>k, <1>u DEF Unlock
<1>9. CASE Relock
  BY <1>9, <1>i, <1>k, <1>u DEF Relock, SetUp
<1>10. CASE TurnOff
  BY <1>10, <1>i, <1>k, <1>u DEF TurnOff
<1> QED BY <1>1, <1>2, <1>3, <1>4, <1>5, <1>6, <1>7, <1>8, <1>9, <1>10 DEF Beginning

\* Forgetting, looking at the account, and syncing.
LEMMA MatchingCommand ==
    ASSUME ConstantsAssumption, TypeOK, Matching, NEW r \in Role,
           Forgetting(r) \/ RecordAccount(r) \/ Download(r) \/ Upload(r) \/ SaveState(r) \/ Interrupted(r)
    PROVE  Matching'
<1>m. Matched(running[r])
  BY DEF Matching
<1>e. Ends(r) => /\ running' = [running EXCEPT ![r] = running'[r]]
                 /\ Matched(running'[r]) /\ running'[r].at # "keep file"
  BY EndsMatched DEF Ends
<1>1. CASE Forgetting(r)
  <2>1. data_key' \in {data_key, None} /\ wrapped' \in {wrapped, None} /\ UNCHANGED sealed
    BY <1>1 DEF Forgetting, ForgetSession, ForgetDataKey, ForgetWrapped, ForgetEntitlement, ForgetState, keys, world
  <2>2. NobodyIsLockedOut'
    BY <2>1 DEF Matching, NobodyIsLockedOut
  <2>3. CASE Ends(r)
    BY <1>e, <2>1, <2>2, <2>3, QuietStep
  <2>4. ASSUME NEW p \in {"forget keys", "forget file", "forget entitlement", "forget state", "keep session",
                          "end session", "hold"}, Goes(r, p)
        PROVE  Matching'
    <3>1. p \in Place /\ p \notin Syncing \cup Keeping
      BY DEF Place, Syncing, Keeping
    <3>2. Matched(running'[r]) /\ running'[r].at = p
      BY <1>m, <2>4, <3>1, GoesMatched
    <3>3. running' = [running EXCEPT ![r] = running'[r]]
      BY <2>4 DEF Goes
    <3> QED BY <2>1, <2>2, <3>2, <3>3, QuietStep
  <2> QED BY <1>1, <2>3, <2>4, ForgetGoes
<1>2. CASE RecordAccount(r)
  <2>1. UNCHANGED <<data_key, wrapped, sealed>>
    BY <1>2 DEF RecordAccount, keys, world
  <2>2. NobodyIsLockedOut'
    BY <2>1 DEF Matching, NobodyIsLockedOut
  <2>3. CASE Ends(r)
    BY <1>e, <2>1, <2>2, <2>3, QuietStep
  <2>4. CASE ~Ends(r)
    <3>1. running' = [running EXCEPT ![r] = running'[r]] /\ running'[r].cmd = "refresh"
          /\ running'[r].at = "forget session"
      BY <1>2, <2>4, RecordMoves
    <3>2. Matched(running'[r])
      BY <3>1 DEF Matched, Syncing, Keeping
    <3> QED BY <2>1, <2>2, <3>1, <3>2, QuietStep
  <2> QED BY <2>3, <2>4
<1>3. CASE Download(r) \/ Upload(r) \/ SaveState(r) \/ Interrupted(r)
  <2>1. UNCHANGED <<data_key, wrapped>>
    BY <1>3 DEF Download, Upload, SaveState, Interrupted, device, keys
  <2>2. running[r].at \in Syncing /\ running[r].session \in Session
    BY <1>3, SyncGoes
  <2>3. NobodyIsLockedOut'
    <3>1. Its(r) \in Account /\ running[r].key = running[r].lock
      BY <1>m, <2>2, ItsAccount DEF Matched
    <3>2. sealed' \in {sealed, [sealed EXCEPT ![Its(r)] = [data |-> running[r].key, lock |-> running[r].lock]]}
      BY <1>3 DEF Download, Upload, SaveState, Interrupted, world
    <3>3. sealed \in [Account -> [data : AnyKey, lock : AnyKey]]
      BY DEF TypeOK, ValuesOK
    <3>4. \A a \in Account : sealed[a].lock = sealed[a].data
      BY DEF Matching, NobodyIsLockedOut
    <3>5. \A a \in Account : sealed'[a].lock = sealed'[a].data
      BY <3>1, <3>2, <3>3, <3>4
    <3> QED BY <3>5 DEF NobodyIsLockedOut
  <2>4. CASE Ends(r)
    BY <1>e, <2>1, <2>3, <2>4, QuietStep
  <2>5. ASSUME NEW p \in {"upload", "download", "save state", "forget session", "keep keys", "hold"}, Goes(r, p)
        PROVE  Matching'
    <3>1. p \in Place /\ p # "keep file"
      BY DEF Place, Syncing, Keeping
    <3>2. Matched(running'[r]) /\ running'[r].at = p
      BY <1>m, <2>2, <2>5, <3>1, GoesMatched
    <3>3. running' = [running EXCEPT ![r] = running'[r]]
      BY <2>5 DEF Goes
    <3> QED BY <2>1, <2>3, <3>1, <3>2, <3>3, QuietStep
  <2> QED BY <1>3, <2>4, <2>5, SyncGoes
<1> QED BY <1>1, <1>2, <1>3

\* The steps of the dialogs.
LEMMA MatchingDialog ==
    ASSUME ConstantsAssumption, TypeOK, Matching,
           NotPickedUp \/ EndSession \/ KeepSession \/ DeletedAccount \/ HoldAgain \/ (\E k \in Key : HoldNewKeys(k))
           \/ (\E s \in Session : PickUp(s)) \/ FetchKeys \/ PutLock
    PROVE  Matching'
<1>r. "sign" \in Role /\ "setup" \in Role
  BY DEF Role
<1>m. \A r \in Role : Matched(running[r])
  BY DEF Matching
<1>e. ASSUME NEW r \in Role, Ends(r)
      PROVE  /\ running' = [running EXCEPT ![r] = running'[r]]
             /\ Matched(running'[r]) /\ running'[r].at # "keep file"
  BY <1>e, EndsMatched DEF Ends
<1>k. UNCHANGED <<data_key, wrapped>>
  BY DEF NotPickedUp, EndSession, KeepSession, DeletedAccount, HoldAgain, HoldNewKeys, PickUp, FetchKeys, PutLock, device, keys
<1>s. sealed \in [Account -> [data : AnyKey, lock : AnyKey]]
  BY DEF TypeOK, ValuesOK
<1>l. \A a \in Account : sealed[a].lock = sealed[a].data
  BY DEF Matching, NobodyIsLockedOut
<1>1. CASE NotPickedUp \/ EndSession \/ HoldAgain \/ \E k \in Key : HoldNewKeys(k)
  <2>1. UNCHANGED sealed
    BY <1>1 DEF NotPickedUp, EndSession, HoldAgain, HoldNewKeys, world
  <2>2. NobodyIsLockedOut'
    BY <1>l, <2>1 DEF NobodyIsLockedOut
  <2>3. Ends("sign") \/ Ends("setup")
    BY <1>1, DialogGoes
  <2> QED BY <1>r, <1>e, <1>k, <2>2, <2>3, QuietStep
<1>2. CASE KeepSession \/ DeletedAccount
  <2>1. sealed' \in {sealed, [sealed EXCEPT ![Its("sign")] = Nothing]}
    BY <1>2 DEF KeepSession, DeletedAccount, world
  <2>2. \A a \in Account : sealed'[a].lock = sealed'[a].data
    BY <1>l, <1>s, <2>1 DEF Nothing
  <2>3. NobodyIsLockedOut'
    BY <2>2 DEF NobodyIsLockedOut
  <2>4. CASE Ends("sign")
    BY <1>r, <1>e, <1>k, <2>3, <2>4, QuietStep
  <2>5. ASSUME NEW p \in {"me", "forget session"}, Goes("sign", p)
        PROVE  Matching'
    <3>1. p \in Place /\ p \notin Syncing \cup Keeping
      BY DEF Place, Syncing, Keeping
    <3>2. Matched(running'["sign"]) /\ running'["sign"].at = p /\ p # "keep file"
      BY <1>r, <1>m, <2>5, <3>1, GoesMatched
    <3>3. running' = [running EXCEPT !["sign"] = running'["sign"]]
      BY <2>5 DEF Goes
    <3> QED BY <1>r, <1>k, <2>3, <3>2, <3>3, QuietStep
  <2> QED BY <1>2, <2>4, <2>5, DialogGoes
<1>3. ASSUME NEW s \in Session, PickUp(s)
      PROVE  Matching'
  <2>1. UNCHANGED sealed
    BY <1>3 DEF PickUp
  <2>2. NobodyIsLockedOut'
    BY <1>l, <2>1 DEF NobodyIsLockedOut
  <2>3. running' = [running EXCEPT !["sign"] = running'["sign"]] /\ running'["sign"].cmd = "sign in"
        /\ running'["sign"].at = "forget session"
    BY <1>3, PickUpMoves
  <2>4. Matched(running'["sign"])
    BY <2>3 DEF Matched, Syncing, Keeping
  <2> QED BY <1>r, <1>k, <2>2, <2>3, <2>4, QuietStep
<1>4. CASE FetchKeys \/ PutLock
  <2> DEFINE c == running["setup"]  n == running'["setup"]
  <2>1. CASE Ends("setup") /\ UNCHANGED sealed
    <3>1. NobodyIsLockedOut'
      BY <1>l, <2>1 DEF NobodyIsLockedOut
    <3> QED BY <1>r, <1>e, <1>k, <2>1, <3>1, QuietStep
  <2>2. CASE ~(Ends("setup") /\ UNCHANGED sealed)
    <3>1. /\ running' = [running EXCEPT !["setup"] = n] /\ n.at = "keep keys" /\ n.lock = n.key /\ n.cmd = c.cmd
          /\ \/ /\ c.cmd = "unlock" /\ c.session \in Session
                /\ sealed[Its("setup")] # Nothing /\ n.key = sealed[Its("setup")].lock
                /\ UNCHANGED sealed
             \/ /\ c.cmd = "relock" /\ n.key = c.key
                /\ session \in valid /\ sealed[Owner[session]].data = c.key
                /\ sealed' = [sealed EXCEPT ![Owner[session]].lock = c.key]
      BY <1>4, <2>2, KeysMove
    <3>2. CASE c.cmd = "unlock"
      <4>1. UNCHANGED sealed /\ n.key = sealed[Its("setup")].lock /\ sealed[Its("setup")] # Nothing
        BY <3>1, <3>2
      <4>2. Its("setup") \in Account /\ sealed[Its("setup")] \in [data : AnyKey, lock : AnyKey]
        BY <1>r, <3>1, <3>2, ItsAccount
      <4>3. n.key # None
        BY <1>l, <4>1, <4>2 DEF Nothing
      <4>4. Matched(n)
        BY <3>1, <3>2, <4>3 DEF Matched
      <4>5. NobodyIsLockedOut'
        BY <1>l, <4>1 DEF NobodyIsLockedOut
      <4> QED BY <1>r, <1>k, <3>1, <4>4, <4>5, QuietStep
    <3>3. CASE c.cmd = "relock"
      <4>1. n.key = c.key /\ sealed[Owner[session]].data = c.key
            /\ sealed' = [sealed EXCEPT ![Owner[session]].lock = c.key]
        BY <3>1, <3>3
      <4>2. \A a \in Account : sealed'[a].lock = sealed'[a].data
        BY <1>l, <1>s, <4>1
      <4>3. NobodyIsLockedOut'
        BY <4>2 DEF NobodyIsLockedOut
      <4>4. Matched(n)
        BY <1>r, <1>m, <3>1, <3>3, <4>1 DEF Matched
      <4> QED BY <1>r, <1>k, <3>1, <4>3, <4>4, QuietStep
    <3> QED BY <3>1, <3>2, <3>3
  <2> QED BY <2>1, <2>2
<1> QED BY <1>1, <1>2, <1>3, <1>4

\* Saving keys.
LEMMA MatchingKeep ==
    ASSUME ConstantsAssumption, TypeOK, Matching, KeepDataKey \/ KeepWrapped, ~torn, ~torn'
    PROVE  Matching'
<1>r. "setup" \in Role /\ running \in [Role -> CommandState]
  BY DEF Role, TypeOK, RunningOK
<1> DEFINE c == running["setup"]
<1>1. c.at \in Keeping /\ c.key = c.lock /\ c.key # None
  BY <1>r DEF KeepDataKey, KeepWrapped, At, Keeping, Matching, Matched
<1>2. UNCHANGED sealed
  BY DEF KeepDataKey, KeepWrapped, world
<1>3. NobodyIsLockedOut'
  BY <1>2 DEF Matching, NobodyIsLockedOut
<1>4. Ends("setup") \/ (Goes("setup", "keep file") /\ KeepDataKey)
  BY DialogGoes
<1>5. \A r \in Role : Matched(running'[r])
  <2>1. Matched(running'["setup"])
    BY <1>r, <1>1, <1>4, EndsMatched, GoesMatched DEF Matching, Keeping, Place
  <2>2. running' = [running EXCEPT !["setup"] = running'["setup"]]
    BY <1>4 DEF Ends, Goes
  <2> QED BY <1>r, <2>1, <2>2 DEF Matching
<1>6. CASE KeepDataKey
  <2>1. UNCHANGED wrapped
    BY <1>6 DEF KeepDataKey
  <2>2. CASE Fails /\ UNCHANGED <<data_key, torn>> /\ Done("setup")
    <3>1. running'["setup"].at # "keep file"
      BY <1>r, <2>2, DoneEnds, EndsMatched
    <3> QED BY <1>3, <1>5, <2>1, <2>2, <3>1 DEF Matching
  <2>3. CASE /\ data_key' = c.key /\ GoTo("setup", "keep file")
             /\ torn' = (torn \/ wrapped \notin {None, c.key})
    <3>1. wrapped \in {None, c.key}
      BY <2>3
    <3>2. running'["setup"].key = c.key
      BY <1>r, <2>3, GoToGoes DEF Goes, Place, Keeping
    <3> QED BY <1>3, <1>5, <2>1, <2>3, <3>1, <3>2 DEF Matching
  <2> QED BY <1>6, <2>2, <2>3 DEF KeepDataKey
<1>7. CASE KeepWrapped
  <2>1. wrapped' \in {wrapped, c.key} /\ UNCHANGED data_key
    BY <1>1, <1>7 DEF KeepWrapped
  <2>2. c.at = "keep file"
    BY <1>7 DEF KeepWrapped, At
  <2>3. data_key \in {None, c.key} /\ wrapped \in {None, c.key}
    BY <2>2 DEF Matching
  <2>4. running'["setup"].at # "keep file"
    BY <1>r, <1>7, DoneEnds, EndsMatched DEF KeepWrapped
  <2> QED BY <1>3, <1>5, <2>1, <2>3, <2>4 DEF Matching
<1> QED BY <1>6, <1>7

\* The steps of the server, and none.
LEMMA MatchingServer ==
    ASSUME TypeOK, Matching,
           \/ \E s \in Session : SessionEnds(s)
           \/ \E k \in Key, a \in Account : SetUpElsewhere(a, k)
           \/ \E a \in Account : DataRemoved(a)
           \/ UNCHANGED vars
    PROVE  Matching'
<1>1. UNCHANGED <<data_key, wrapped, running>>
  BY DEF SessionEnds, SetUpElsewhere, DataRemoved, vars, device, keys
<1>2. sealed \in [Account -> [data : AnyKey, lock : AnyKey]] /\ \A a \in Account : sealed[a].lock = sealed[a].data
  BY DEF TypeOK, ValuesOK, Matching, NobodyIsLockedOut
<1>3. \/ sealed' = sealed
      \/ \E a \in Account : sealed' = [sealed EXCEPT ![a] = Nothing]
      \/ \E a \in Account, k \in Key : sealed' = [sealed EXCEPT ![a] = [data |-> k, lock |-> k]]
  BY DEF SessionEnds, SetUpElsewhere, DataRemoved, vars, world
<1>4. \A a \in Account : sealed'[a].lock = sealed'[a].data
  BY <1>2, <1>3 DEF Nothing
<1>5. NobodyIsLockedOut'
  BY <1>4 DEF NobodyIsLockedOut
<1> QED BY <1>1, <1>5 DEF Matching

\* Once a data key was saved beside another's wrapped copies, that is remembered.
LEMMA TornStays ==
    ASSUME Next, torn
    PROVE  torn'
BY Zenon
   DEF Next, Forgetting, ForgetSession, ForgetDataKey, ForgetWrapped, ForgetEntitlement, ForgetState, RecordAccount, Download,
       Upload, SaveState, Interrupted, SignIn, NotPickedUp, KeepSession, Refresh, SignOut, EndSession, DeleteAccount,
       DeletedAccount, StartPass, CreateKeys, FinishSetup, HoldAgain, KeepDataKey, KeepWrapped, Unlock, FetchKeys, Relock,
       PutLock, TurnOff, PickUp, SessionEnds, HoldNewKeys, SetUpElsewhere, DataRemoved, device, keys

LEMMA ReadableStep ==
    ASSUME ConstantsAssumption, TypeOK, ReadableInv, [Next]_vars
    PROVE  ReadableInv'
<1> SUFFICES ASSUME ~torn'
             PROVE  Matching'
  BY DEF ReadableInv
<1>1. CASE UNCHANGED vars
  <2>1. torn' = torn
    BY <1>1 DEF vars, device, keys
  <2> QED BY <1>1, <2>1, MatchingServer DEF ReadableInv
<1>2. CASE Next
  <2>1. ~torn /\ Matching
    BY <1>2, TornStays DEF ReadableInv
  <2>2. \A r \in Role :
          Forgetting(r) \/ RecordAccount(r) \/ Download(r) \/ Upload(r) \/ SaveState(r) \/ Interrupted(r) => Matching'
    BY <2>1, MatchingCommand
  <2>3. Beginning => Matching'
    BY <2>1, MatchingBegin
  <2>4. NotPickedUp \/ EndSession \/ KeepSession \/ DeletedAccount \/ HoldAgain \/ (\E k \in Key : HoldNewKeys(k))
        \/ (\E s \in Session : PickUp(s)) \/ FetchKeys \/ PutLock => Matching'
    BY <2>1, MatchingDialog
  <2>5. KeepDataKey \/ KeepWrapped => Matching'
    BY <2>1, MatchingKeep
  <2>6. \/ \E s \in Session : SessionEnds(s)
        \/ \E k \in Key, a \in Account : SetUpElsewhere(a, k)
        \/ \E a \in Account : DataRemoved(a)
        => Matching'
    BY <2>1, MatchingServer
  <2> QED BY <1>2, <2>2, <2>3, <2>4, <2>5, <2>6 DEF Next, Beginning
<1> QED BY <1>1, <1>2

\* However commands overlap and fail: until a data key is saved beside another key's
\* wrapped copies, the wrapped copies the server holds are of the key the data is sealed
\* with.
THEOREM ReadableHolds == ASSUME ConstantsAssumption PROVE Spec => []DataStaysReadable
<1>1. ASSUME Init
      PROVE  ReadableInv
  <2>1. \A r \in Role : running[r] = Idle
    BY <1>1 DEF Init
  <2>2. Matched(Idle) /\ Idle.at # "keep file"
    BY DEF Matched, Idle, Syncing, Keeping
  <2>3. NobodyIsLockedOut
    BY <1>1 DEF Init, NobodyIsLockedOut, Nothing
  <2>4. data_key = None /\ "setup" \in Role
    BY <1>1 DEF Init, Role
  <2> QED BY <2>1, <2>2, <2>3, <2>4 DEF ReadableInv, Matching
<1>2. TypeOK /\ ReadableInv /\ [Next]_vars => ReadableInv'
  BY ReadableStep
<1>3. ReadableInv => DataStaysReadable
  BY DEF ReadableInv, Matching, DataStaysReadable
<1> QED BY <1>1, <1>2, <1>3, TypeCorrect, PTL DEF Spec

-----------------------------------------------------------------------------
(* An account's data is sealed with a key made for it. *)

\* A key is made once.
LEMMA MadeStays ==
    ASSUME ConstantsAssumption, TypeOK, [Next]_vars, NEW k \in Key, made[k] # None
    PROVE  made'[k] = made[k]
<1>1. \/ made' = made
      \/ \E i \in Key : made[i] = None /\ made' = [made EXCEPT ![i] = Its("setup")]
      \/ \E i \in Key, a \in Account : made[i] = None /\ made' = [made EXCEPT ![i] = a]
  BY DEF Next, Forgetting, ForgetSession, ForgetDataKey, ForgetWrapped, ForgetEntitlement, ForgetState, RecordAccount,
         Download, Upload, SaveState, Interrupted, SignIn, NotPickedUp, KeepSession, Refresh, SignOut, EndSession,
         DeleteAccount, DeletedAccount, StartPass, CreateKeys, FinishSetup, HoldAgain, KeepDataKey, KeepWrapped, Unlock,
         FetchKeys, Relock, PutLock, TurnOff, PickUp, SessionEnds, HoldNewKeys, SetUpElsewhere, DataRemoved, world, vars
<1>2. made \in [Key -> Account \cup {None}]
  BY DEF TypeOK, ValuesOK
<1> QED BY <1>1, <1>2

LEMMA OwnedStays ==
    ASSUME ConstantsAssumption, TypeOK, [Next]_vars, NEW k \in AnyKey, k # None, NEW a \in Account, made[k] = a
    PROVE  made'[k] = a
<1>1. k \in Key /\ made[k] # None
  BY DEF AnyKey, ConstantsAssumption
<1> QED BY <1>1, MadeStays

\* Which steps do something to what is held, and to a setup that ends.
LEMMA PendingSame ==
    ASSUME Next, ~FinishSetup, ~HoldAgain, ~(\E k \in Key : HoldNewKeys(k))
    PROVE  pending' = pending
BY DEF Next, Forgetting, ForgetSession, ForgetDataKey, ForgetWrapped, ForgetEntitlement, ForgetState, RecordAccount,
       Download, Upload, SaveState, Interrupted, SignIn, NotPickedUp, KeepSession, Refresh, SignOut, EndSession,
       DeleteAccount, DeletedAccount, StartPass, CreateKeys, KeepDataKey, KeepWrapped, Unlock,
       FetchKeys, Relock, PutLock, TurnOff, PickUp, SessionEnds, SetUpElsewhere, DataRemoved, device

LEMMA PendingStep ==
    ASSUME ConstantsAssumption, TypeOK, PendingOwn, HoldOwn, Next
    PROVE  PendingOwn'
<1>r. "setup" \in Role /\ running["setup"] \in CommandState
  BY DEF Role, TypeOK, RunningOK
<1>1. CASE pending' = pending
  <2> SUFFICES ASSUME pending.key # None
               PROVE  pending.session \in Session /\ made'[pending.key] = Owner[pending.session]
    BY <1>1 DEF PendingOwn
  <2>1. pending.session \in Session /\ made[pending.key] = Owner[pending.session]
    BY DEF PendingOwn
  <2>2. pending.key \in AnyKey
    BY DEF TypeOK, ValuesOK
  <2>3. Owner[pending.session] \in Account
    BY <2>1 DEF ConstantsAssumption
  <2> QED BY <2>1, <2>2, <2>3, OwnedStays
<1>2. CASE FinishSetup
  BY <1>2 DEF FinishSetup, NoPending, PendingOwn
<1>3. CASE HoldAgain
  <2> DEFINE c == running["setup"]
  <2>1. c.cmd = "finish" /\ pending' = [session |-> c.session, key |-> c.key] /\ made' = made
    BY <1>3 DEF HoldAgain, world
  <2>2. c.session \in Session
    BY <1>r, <2>1 DEF TypeOK, RunningOK, Signed
  <2>3. c.key # None /\ made[c.key] = Owner[c.session]
    BY <1>r, <2>1 DEF HoldOwn
  <2> QED BY <2>1, <2>2, <2>3 DEF PendingOwn
<1>4. ASSUME NEW k \in Key, HoldNewKeys(k)
      PROVE  PendingOwn'
  <2> DEFINE c == running["setup"]
  <2>1. c.cmd = "create" /\ pending' = [session |-> c.session, key |-> k]
        /\ made' = [made EXCEPT ![k] = Owner[c.session]]
    BY <1>4 DEF HoldNewKeys, Its
  <2>2. c.session \in Session
    BY <1>r, <2>1 DEF TypeOK, RunningOK, Signed
  <2>3. made'[k] = Owner[c.session]
    BY <2>1 DEF TypeOK, ValuesOK
  <2> QED BY <2>1, <2>2, <2>3 DEF PendingOwn
<1> QED BY <1>1, <1>2, <1>3, <1>4, PendingSame

\* One command moves at a time, and none becomes the end of a setup that was not.
LEMMA OneMoves ==
    ASSUME ConstantsAssumption, TypeOK, Next, ~Beginning
    PROVE  \/ running' = running
           \/ \E r \in Role :
                /\ running' = [running EXCEPT ![r] = running'[r]]
                /\ running'[r].cmd = "finish" => /\ running[r].cmd = "finish"
                                                /\ running'[r].key = running[r].key
                                                /\ running'[r].session = running[r].session
<1> DEFINE Moved(r) ==
             /\ running' = [running EXCEPT ![r] = running'[r]]
             /\ running'[r].cmd = "finish" => /\ running[r].cmd = "finish"
                                             /\ running'[r].key = running[r].key
                                             /\ running'[r].session = running[r].session
<1>r. "sign" \in Role /\ "setup" \in Role
  BY DEF Role
<1>e. ASSUME NEW r \in Role, Ends(r)
      PROVE  Moved(r)
  <2>1. Idle.cmd = "idle"
    BY DEF Idle
  <2> QED BY <1>e, <2>1 DEF Ends
<1>g. ASSUME NEW r \in Role, NEW p, Goes(r, p)
      PROVE  Moved(r)
  BY <1>g DEF Goes
<1>1. ASSUME NEW r \in Role, Forgetting(r)
      PROVE  Moved(r)
  BY <1>1, <1>e, <1>g, ForgetGoes
<1>2. ASSUME NEW r \in Role, RecordAccount(r)
      PROVE  Moved(r)
  BY <1>2, <1>e, RecordMoves
<1>3. ASSUME NEW r \in Role, Download(r) \/ Upload(r) \/ SaveState(r) \/ Interrupted(r)
      PROVE  Moved(r)
  BY <1>3, <1>e, <1>g, SyncGoes
<1>4. ASSUME \/ NotPickedUp \/ EndSession \/ KeepSession \/ DeletedAccount \/ HoldAgain \/ KeepWrapped
             \/ KeepDataKey \/ \E k \in Key : HoldNewKeys(k)
      PROVE  Moved("sign") \/ Moved("setup")
  BY <1>4, <1>r, <1>e, <1>g, DialogGoes
<1>5. ASSUME FetchKeys \/ PutLock
      PROVE  Moved("setup")
  BY <1>5, <1>r, <1>e, KeysMove
<1>6. ASSUME NEW s \in Session, PickUp(s)
      PROVE  Moved("sign")
  BY <1>6, PickUpMoves
<1>7. ASSUME \/ \E s \in Session : SessionEnds(s)
             \/ \E k \in Key, a \in Account : SetUpElsewhere(a, k)
             \/ \E a \in Account : DataRemoved(a)
      PROVE  running' = running
  BY <1>7 DEF SessionEnds, SetUpElsewhere, DataRemoved
<1> HIDE DEF Moved
<1>8. running' = running \/ \E r \in Role : Moved(r)
  BY <1>r, <1>1, <1>2, <1>3, <1>4, <1>5, <1>6, <1>7 DEF Next, Beginning
<1> QED BY <1>8 DEF Moved

LEMMA HoldStep ==
    ASSUME ConstantsAssumption, TypeOK, PendingOwn, HoldOwn, Next
    PROVE  HoldOwn'
<1>r. running \in [Role -> CommandState]
  BY DEF TypeOK, RunningOK
<1>1. ASSUME NEW r \in Role, running[r].cmd = "finish"
      PROVE  running[r].key # None /\ made'[running[r].key] = Owner[running[r].session]
  <2>1. running[r].key # None /\ made[running[r].key] = Owner[running[r].session]
    BY <1>1 DEF HoldOwn
  <2>2. running[r].session \in Session
    BY <1>1 DEF TypeOK, RunningOK, Signed
  <2>3. running[r].key \in AnyKey
    BY <1>r DEF CommandState
  <2>4. Owner[running[r].session] \in Account
    BY <2>2 DEF ConstantsAssumption
  <2> QED BY <2>1, <2>3, <2>4, OwnedStays
<1>2. CASE FinishSetup /\ Takes
  <2> DEFINE c == [Idle EXCEPT !.cmd = "finish", !.at = "download", !.session = session,
                               !.key = pending.key, !.lock = pending.key]
  <2>1. running' = [running EXCEPT !["setup"] = c] /\ made' = made
    BY <1>2 DEF FinishSetup, Begin, world
  <2>2. c.key = pending.key /\ c.session = session
    BY DEF Idle
  <2>3. c.key # None /\ made[c.key] = Owner[c.session]
    BY <1>2, <2>2 DEF Takes, PendingOwn
  <2> HIDE DEF c
  <2>4. ASSUME NEW r \in Role, running'[r].cmd = "finish"
        PROVE  running'[r].key # None /\ made'[running'[r].key] = Owner[running'[r].session]
    <3>1. CASE r = "setup"
      BY <1>r, <2>1, <2>3, <3>1
    <3>2. CASE r # "setup"
      BY <1>r, <1>1, <2>1, <2>4, <3>2
    <3> QED BY <3>1, <3>2
  <2> QED BY <2>4 DEF HoldOwn
<1>3. CASE Beginning /\ ~(FinishSetup /\ Takes)
  <2>1. ASSUME NEW q \in Role, NEW c, Begin(q, c), c.cmd # "finish"
        PROVE  HoldOwn'
    <3>1. \A r \in Role : running'[r] \in {running[r], c}
      BY <1>r, <2>1 DEF Begin
    <3> QED BY <1>1, <2>1, <3>1 DEF HoldOwn
  <2>2. Role = {"sync", "sign", "setup"}
    BY DEF Role
  <2>3. Idle = [cmd |-> "idle", at |-> "", session |-> None, key |-> None, lock |-> None, got |-> None, ok |-> TRUE]
    BY DEF Idle
  <2>4. CASE SignIn
    BY <1>3, <2>1, <2>2, <2>3, <2>4 DEF SignIn
  <2>5. CASE Refresh
    BY <1>3, <2>1, <2>2, <2>3, <2>5 DEF Refresh
  <2>6. CASE SignOut
    BY <1>3, <2>1, <2>2, <2>3, <2>6 DEF SignOut
  <2>7. CASE DeleteAccount
    BY <1>3, <2>1, <2>2, <2>3, <2>7 DEF DeleteAccount
  <2>8. CASE StartPass
    BY <1>3, <2>1, <2>2, <2>3, <2>8 DEF StartPass
  <2>9. CASE CreateKeys
    BY <1>3, <2>1, <2>2, <2>3, <2>9 DEF CreateKeys
  <2>10. CASE FinishSetup
    BY <1>3, <2>1, <2>2, <2>3, <2>10 DEF FinishSetup
  <2>11. CASE Unlock
    BY <1>3, <2>1, <2>2, <2>3, <2>11 DEF Unlock
  <2>12. CASE Relock
    BY <1>3, <2>1, <2>2, <2>3, <2>12 DEF Relock
  <2>13. CASE TurnOff
    BY <1>3, <2>1, <2>2, <2>3, <2>13 DEF TurnOff
  <2> QED BY <1>3, <2>4, <2>5, <2>6, <2>7, <2>8, <2>9, <2>10, <2>11, <2>12, <2>13 DEF Beginning
<1>4. CASE ~Beginning
  <2>1. CASE running' = running
    BY <1>1, <2>1 DEF HoldOwn
  <2>2. ASSUME NEW q \in Role, running' = [running EXCEPT ![q] = running'[q]],
               running'[q].cmd = "finish" => /\ running[q].cmd = "finish"
                                             /\ running'[q].key = running[q].key
                                             /\ running'[q].session = running[q].session
        PROVE  HoldOwn'
    <3>1. ASSUME NEW r \in Role, running'[r].cmd = "finish"
          PROVE  running'[r].key # None /\ made'[running'[r].key] = Owner[running'[r].session]
      <4>1. /\ running[r].cmd = "finish" /\ running'[r].key = running[r].key
            /\ running'[r].session = running[r].session
        BY <1>r, <2>2, <3>1
      <4> QED BY <1>1, <4>1
    <3> QED BY <3>1 DEF HoldOwn
  <2> QED BY <1>4, <2>1, <2>2, OneMoves
<1> QED BY <1>2, <1>3, <1>4 DEF Beginning

\* A command that begins while none runs has the device's session and keys, or none.
LEMMA AloneBegin ==
    ASSUME ConstantsAssumption, TypeOK, PendingOwn, ~raced => Alone, Beginning, ~raced'
    PROVE  Alone'
<1>u. ASSUME NEW r \in Role, NEW c, Begin(r, c), OwnCommand(c),
             UNCHANGED <<session, data_key, wrapped, sealed, made>>
      PROVE  Alone'
  <2>1. running \in [Role -> CommandState]
    BY DEF TypeOK, RunningOK
  <2>2. /\ ~raced /\ \A q \in Role : running[q] = Idle
        /\ running' = [running EXCEPT ![r] = c]
    BY <1>u DEF Begin, AllIdle
  <2>3. Alone
    BY <2>2
  <2>4. \A q \in Role : running'[q] = IF q = r THEN c ELSE running[q]
    BY <2>1, <2>2
  <2>5. \A q, p \in Role : running'[q] # Idle /\ running'[p] # Idle => q = p
    BY <2>2, <2>4
  <2>6. \A q \in Role : OwnCommand(running'[q])
    BY <1>u, <2>3, <2>4 DEF Alone
  <2>7. \A q \in Role : OwnCommand(running[q])'
    BY <1>u, <2>6 DEF OwnCommand, Own
  <2>8. \A a \in Account : \A k \in {sealed'[a].data, sealed'[a].lock} : k # None => made'[k] = a
    BY <1>u, <2>3 DEF Alone
  <2>9. Own(data_key)' /\ Own(wrapped)'
    BY <1>u, <2>3 DEF Alone, Own
  <2> QED BY <2>5, <2>7, <2>8, <2>9 DEF Alone
<1>k. Role = {"sync", "sign", "setup"}
  BY DEF Role
<1>i. Idle = [cmd |-> "idle", at |-> "", session |-> None, key |-> None, lock |-> None, got |-> None, ok |-> TRUE]
  BY DEF Idle
<1>o. Own(data_key) /\ Own(wrapped) /\ Own(None)
  <2>1. ~raced
    BY DEF Beginning, SignIn, Refresh, SignOut, DeleteAccount, StartPass, CreateKeys, FinishSetup, Unlock, Relock, TurnOff,
           Begin
  <2> QED BY <2>1 DEF Alone, Own
<1> USE DEF device, keys, world, OwnCommand, Syncing, Keeping, Own
<1>1. CASE SignIn
  BY <1>1, <1>i, <1>k, <1>o, <1>u DEF SignIn
<1>2. CASE Refresh
  BY <1>2, <1>i, <1>k, <1>o, <1>u DEF Refresh
<1>3. CASE SignOut
  BY <1>3, <1>i, <1>k, <1>o, <1>u DEF SignOut
<1>4. CASE DeleteAccount
  BY <1>4, <1>i, <1>k, <1>o, <1>u DEF DeleteAccount
<1>5. CASE StartPass
  BY <1>5, <1>i, <1>k, <1>o, <1>u DEF StartPass, SetUp
<1>6. CASE CreateKeys
  BY <1>6, <1>i, <1>k, <1>o, <1>u DEF CreateKeys
<1>7. CASE FinishSetup
  BY <1>7, <1>i, <1>k, <1>o, <1>u DEF FinishSetup, Takes, PendingOwn
<1>8. CASE Unlock
  BY <1>8, <1>i, <1>k, <1>o, <1>u DEF Unlock
<1>9. CASE Relock
  BY <1>9, <1>i, <1>k, <1>o, <1>u DEF Relock, SetUp
<1>10. CASE TurnOff
  BY <1>10, <1>i, <1>k, <1>o, <1>u DEF TurnOff
<1> QED BY <1>1, <1>2, <1>3, <1>4, <1>5, <1>6, <1>7, <1>8, <1>9, <1>10 DEF Beginning

\* A step of the one command that runs.
LEMMA AloneStep ==
    ASSUME TypeOK, Alone, NEW r \in Role, running' = [running EXCEPT ![r] = running'[r]], running[r].at # "",
           OwnCommand(running[r])', Own(data_key)', Own(wrapped)',
           \A a \in Account : \A k \in {sealed'[a].data, sealed'[a].lock} : k # None => made'[k] = a
    PROVE  Alone'
<1>1. running \in [Role -> CommandState] /\ running[r] # Idle
  <2>1. Idle.at = ""
    BY DEF Idle
  <2> QED BY <2>1 DEF TypeOK, RunningOK
<1>2. \A q \in Role : running'[q] = IF q = r THEN running'[r] ELSE running[q]
  BY <1>1
<1>3. \A q \in Role : q # r => running'[q] = Idle
  BY <1>1, <1>2 DEF Alone
<1>4. OwnCommand(Idle)'
  <2>1. Idle.at = "" /\ Idle.cmd = "idle"
    BY DEF Idle
  <2> QED BY <2>1 DEF OwnCommand, Syncing, Keeping
<1>5. \A q \in Role : OwnCommand(running[q])'
  BY <1>3, <1>4
<1> QED BY <1>3, <1>5 DEF Alone

LEMMA EndsOwn ==
    ASSUME NEW r \in Role, Ends(r)
    PROVE  /\ running' = [running EXCEPT ![r] = running'[r]]
           /\ OwnCommand(running[r])'
<1>1. Idle.at = "" /\ Idle.cmd = "idle"
  BY DEF Idle
<1>2. running'[r] = Idle /\ running' = [running EXCEPT ![r] = running'[r]]
  BY DEF Ends
<1> QED BY <1>1, <1>2 DEF OwnCommand, Syncing, Keeping

\* What stays of one's own while the session does.
LEMMA OwnStays ==
    ASSUME ConstantsAssumption, TypeOK, [Next]_vars, UNCHANGED session, NEW k \in AnyKey, Own(k)
    PROVE  session' # None /\ k # None => made'[k] = Owner[session']
<1> SUFFICES ASSUME session # None, k # None
             PROVE  made'[k] = Owner[session]
  OBVIOUS
<1>1. Owner[session] \in Account
  BY DEF ConstantsAssumption, TypeOK, ValuesOK, AnySession
<1>2. made[k] = Owner[session]
  BY DEF Own
<1> QED BY <1>1, <1>2, OwnedStays

\* Forgetting.
LEMMA AloneForget ==
    ASSUME ConstantsAssumption, TypeOK, Alone, NEW r \in Role, Forgetting(r)
    PROVE  Alone'
<1> DEFINE c == running[r]  n == running'[r]
<1>r. running \in [Role -> CommandState]
  BY DEF TypeOK, RunningOK
<1>c. OwnCommand(c)
  BY DEF Alone
<1>1. session' \in {session, None} /\ data_key' \in {data_key, None} /\ wrapped' \in {wrapped, None}
      /\ UNCHANGED <<sealed, made>>
  BY DEF Forgetting, ForgetSession, ForgetDataKey, ForgetWrapped, ForgetEntitlement, ForgetState, keys, world
<1>2. Own(data_key)' /\ Own(wrapped)'
  BY <1>1 DEF Alone, Own
<1>3. \A a \in Account : \A k \in {sealed'[a].data, sealed'[a].lock} : k # None => made'[k] = a
  BY <1>1 DEF Alone
<1>4. c.at # ""
  BY DEF Forgetting, ForgetSession, ForgetDataKey, ForgetWrapped, ForgetEntitlement, ForgetState, At
<1>p. {"forget keys", "forget file", "forget entitlement", "forget state", "keep session", "end session", "hold"} \subseteq Place
  BY DEF Place
<1>5. CASE Ends(r)
  BY <1>2, <1>3, <1>4, <1>5, EndsOwn, AloneStep
<1>6. CASE ~Ends(r)
  <2>1. running' = [running EXCEPT ![r] = n] /\ n.cmd = c.cmd
        /\ n.at \in {"forget keys", "forget file", "forget entitlement", "forget state", "keep session", "end session", "hold"}
    BY <1>6, ForgetGoes DEF Goes
  <2>2. /\ n.cmd = "sign in" /\ n.ok =>
             /\ n.at = "forget file" => data_key' = None
             /\ n.at \in {"forget entitlement", "forget state", "keep session"} => data_key' = None /\ wrapped' = None
        /\ n.at = "keep session" => n.cmd = "sign in" /\ n.ok
    <3>1. CASE ForgetSession(r)
      <4>1. n.at = "forget keys"
        BY <1>r, <1>p, <3>1, GoToGoes, StumblesGoes DEF ForgetSession, Goes
      <4> QED BY <4>1
    <3>2. CASE ForgetDataKey(r)
      <4>1. n.at = "forget file" /\ (n.ok => data_key' = None)
        BY <1>r, <1>p, <3>2, GoToGoes, StumblesGoes DEF ForgetDataKey, Goes
      <4> QED BY <4>1
    <3>3. CASE ForgetWrapped(r)
      <4>1. n.at \in {"forget entitlement", "forget state"} /\ (n.ok => c.ok /\ wrapped' = None)
            /\ data_key' = data_key /\ c.at = "forget file"
        BY <1>r, <1>p, <3>3, GoToGoes, StumblesGoes DEF ForgetWrapped, Goes, At
      <4> QED BY <1>c, <2>1, <4>1 DEF OwnCommand
    <3>4. CASE ForgetEntitlement(r)
      <4>1. n.at \in {"forget state", "hold"} /\ (n.ok => c.ok) /\ c.at = "forget entitlement"
            /\ UNCHANGED <<data_key, wrapped>>
        BY <1>r, <1>p, <1>6, <3>4, GoToGoes, DoneEnds DEF ForgetEntitlement, Failed, Goes, At, keys
      <4> QED BY <1>c, <2>1, <4>1 DEF OwnCommand
    <3>5. CASE ForgetState(r)
      <4>1. c.at = "forget state" /\ UNCHANGED <<data_key, wrapped>>
        BY <3>5 DEF ForgetState, At, keys
      <4>2. (GoTo(r, "keep session") /\ c.cmd = "sign in" /\ c.ok) \/ GoTo(r, "end session") \/ GoTo(r, "hold")
        BY <1>r, <1>6, <3>5, DoneEnds DEF ForgetState, Forgotten, Failed
      <4>3. CASE GoTo(r, "keep session") /\ c.cmd = "sign in" /\ c.ok
        <5>1. n.at = "keep session" /\ n.ok
          BY <1>r, <1>p, <4>3 DEF GoTo, CommandState
        <5> QED BY <1>c, <2>1, <4>1, <4>3, <5>1 DEF OwnCommand
      <4>4. CASE GoTo(r, "end session") \/ GoTo(r, "hold")
        <5>1. n.at \in {"end session", "hold"}
          BY <1>r, <1>p, <4>4, GoToGoes DEF Goes
        <5> QED BY <5>1
      <4> QED BY <4>2, <4>3, <4>4
    <3> QED BY <3>1, <3>2, <3>3, <3>4, <3>5 DEF Forgetting
  <2>3. n.at \notin Syncing \cup Keeping \cup {"fetch"}
    BY <2>1 DEF Syncing, Keeping
  <2> HIDE DEF n
  <2>4. OwnCommand(running[r])'
    BY <2>2, <2>3 DEF OwnCommand, n
  <2> QED BY <1>2, <1>3, <1>4, <2>1, <2>4, AloneStep DEF n
<1> QED BY <1>5, <1>6

\* Looking at the account, and syncing.
LEMMA AloneSync ==
    ASSUME ConstantsAssumption, TypeOK, Alone, NEW r \in Role,
           RecordAccount(r) \/ Download(r) \/ Upload(r) \/ SaveState(r) \/ Interrupted(r)
    PROVE  Alone'
<1> DEFINE c == running[r]  n == running'[r]
<1>c. OwnCommand(c)
  BY DEF Alone
<1>s. UNCHANGED <<session, data_key, wrapped, made>>
  BY DEF RecordAccount, Download, Upload, SaveState, Interrupted, device, keys, world
<1>o. Own(data_key)' /\ Own(wrapped)'
  BY <1>s DEF Alone, Own
<1>1. CASE RecordAccount(r)
  <2>1. UNCHANGED sealed
    BY <1>1 DEF RecordAccount, world
  <2>2. \A a \in Account : \A k \in {sealed'[a].data, sealed'[a].lock} : k # None => made'[k] = a
    BY <1>s, <2>1 DEF Alone
  <2>3. c.at # ""
    BY <1>1, RecordMoves
  <2>4. CASE Ends(r)
    BY <1>o, <2>2, <2>3, <2>4, EndsOwn, AloneStep
  <2>5. CASE ~Ends(r)
    <3>1. running' = [running EXCEPT ![r] = n] /\ n.cmd = "refresh" /\ n.at = "forget session"
      BY <1>1, <2>5, RecordMoves
    <3>2. OwnCommand(running[r])'
      BY <3>1 DEF OwnCommand, Syncing, Keeping
    <3> QED BY <1>o, <2>2, <2>3, <3>1, <3>2, AloneStep
  <2> QED BY <2>4, <2>5
<1>2. CASE Download(r) \/ Upload(r) \/ SaveState(r) \/ Interrupted(r)
  <2>1. c.at \in Syncing /\ c.session \in Session
    BY <1>2, SyncGoes
  <2>2. c.session = session /\ session # None /\ Own(c.key) /\ Own(c.lock)
    BY <1>c, <2>1 DEF OwnCommand, ConstantsAssumption
  <2>3. Its(r) \in Account
    BY <2>1, ItsAccount
  <2>4. sealed' \in {sealed, [sealed EXCEPT ![Its(r)] = [data |-> c.key, lock |-> c.lock]]}
    BY <1>2 DEF Download, Upload, SaveState, Interrupted, world
  <2>5. \A k \in {c.key, c.lock} : k # None => made[k] = Its(r)
    BY <2>2 DEF Own, Its
  <2>6. \A a \in Account : \A k \in {sealed'[a].data, sealed'[a].lock} : k # None => made'[k] = a
    <3>1. sealed \in [Account -> [data : AnyKey, lock : AnyKey]]
      BY DEF TypeOK, ValuesOK
    <3>2. \A a \in Account : \A k \in {sealed[a].data, sealed[a].lock} : k # None => made[k] = a
      BY DEF Alone
    <3> QED BY <1>s, <2>3, <2>4, <2>5, <3>1, <3>2
  <2>7. c.at # ""
    BY <2>1 DEF Syncing
  <2>8. CASE Ends(r)
    BY <1>o, <2>6, <2>7, <2>8, EndsOwn, AloneStep
  <2>9. ASSUME NEW p \in {"upload", "download", "save state", "forget session", "keep keys", "hold"}, Goes(r, p)
        PROVE  Alone'
    <3>1. running' = [running EXCEPT ![r] = n] /\ n.at = p /\ n.key = c.key /\ n.lock = c.lock /\ n.session = c.session
      BY <2>9 DEF Goes
    <3>2. OwnCommand(running[r])'
      BY <1>s, <2>2, <3>1 DEF OwnCommand, Own
    <3> QED BY <1>o, <2>6, <2>7, <3>1, <3>2, AloneStep
  <2> QED BY <1>2, <2>8, <2>9, SyncGoes
<1> QED BY <1>1, <1>2

\* The steps of signing in and out, and of deleting the account.
LEMMA AloneSign ==
    ASSUME ConstantsAssumption, TypeOK, Alone,
           NotPickedUp \/ EndSession \/ KeepSession \/ DeletedAccount \/ \E s \in Session : PickUp(s)
    PROVE  Alone'
<1> DEFINE c == running["sign"]  n == running'["sign"]
<1>r. "sign" \in Role
  BY DEF Role
<1>c. OwnCommand(c)
  BY <1>r DEF Alone
<1>s. UNCHANGED <<data_key, wrapped, made>>
  BY DEF NotPickedUp, EndSession, KeepSession, DeletedAccount, PickUp, device, keys, world
<1>1. c.at # ""
  BY DEF NotPickedUp, EndSession, KeepSession, DeletedAccount, PickUp, At
<1>2. \A a \in Account : \A k \in {sealed'[a].data, sealed'[a].lock} : k # None => made'[k] = a
  <2>1. sealed' \in {sealed, [sealed EXCEPT ![Its("sign")] = Nothing]}
    BY DEF NotPickedUp, EndSession, KeepSession, DeletedAccount, PickUp, world
  <2>2. sealed \in [Account -> [data : AnyKey, lock : AnyKey]]
    BY DEF TypeOK, ValuesOK
  <2>3. \A a \in Account : \A k \in {sealed[a].data, sealed[a].lock} : k # None => made[k] = a
    BY DEF Alone
  <2> QED BY <1>s, <2>1, <2>2, <2>3 DEF Nothing
<1>3. Own(data_key)' /\ Own(wrapped)'
  <2>1. CASE session' = session
    BY <1>s, <2>1 DEF Alone, Own
  <2>2. CASE session' # session
    <3>1. KeepSession
      BY <2>2 DEF NotPickedUp, EndSession, DeletedAccount, PickUp, device
    <3>2. c.at = "keep session"
      BY <3>1 DEF KeepSession, At
    <3>3. data_key' = None /\ wrapped' = None
      BY <1>c, <1>s, <3>2 DEF OwnCommand
    <3> QED BY <3>3 DEF Own
  <2> QED BY <2>1, <2>2
<1>4. CASE Ends("sign")
  BY <1>r, <1>1, <1>2, <1>3, <1>4, EndsOwn, AloneStep
<1>5. CASE ~Ends("sign")
  <2>1. running' = [running EXCEPT !["sign"] = n] /\ n.at \in {"me", "forget session"}
    BY <1>5, DialogGoes, PickUpMoves DEF Goes
  <2>2. OwnCommand(running["sign"])'
    BY <2>1 DEF OwnCommand, Syncing, Keeping
  <2> QED BY <1>r, <1>1, <1>2, <1>3, <2>1, <2>2, AloneStep
<1> QED BY <1>4, <1>5

\* What the server holds was made for its account, and stays so when it does not change.
LEMMA ServerStays ==
    ASSUME ConstantsAssumption, TypeOK, Alone, [Next]_vars, UNCHANGED sealed
    PROVE  \A a \in Account : \A k \in {sealed'[a].data, sealed'[a].lock} : k # None => made'[k] = a
<1> SUFFICES ASSUME NEW a \in Account, NEW k \in {sealed[a].data, sealed[a].lock}, k # None
             PROVE  made'[k] = a
  OBVIOUS
<1>1. k \in AnyKey
  BY DEF TypeOK, ValuesOK
<1>2. made[k] = a
  BY DEF Alone
<1> QED BY <1>1, <1>2, OwnedStays

\* The steps of setting sync up.
LEMMA AloneSetup ==
    ASSUME ConstantsAssumption, TypeOK, Alone, Next,
           HoldAgain \/ (\E k \in Key : HoldNewKeys(k)) \/ KeepDataKey \/ KeepWrapped \/ FetchKeys \/ PutLock
    PROVE  Alone'
<1> DEFINE c == running["setup"]  n == running'["setup"]
<1>r. "setup" \in Role /\ running \in [Role -> CommandState]
  BY DEF Role, TypeOK, RunningOK
<1>c. OwnCommand(c)
  BY <1>r DEF Alone
<1>1. c.at # "" /\ UNCHANGED session
  BY DEF HoldAgain, HoldNewKeys, KeepDataKey, KeepWrapped, FetchKeys, PutLock, At, device
<1>t. data_key \in AnyKey /\ wrapped \in AnyKey /\ Own(data_key) /\ Own(wrapped)
  BY DEF TypeOK, ValuesOK, Alone
<1>2. CASE HoldAgain \/ \E k \in Key : HoldNewKeys(k)
  <2>1. Ends("setup") /\ UNCHANGED <<data_key, wrapped, sealed>>
    BY <1>2, DialogGoes DEF HoldAgain, HoldNewKeys, keys, world
  <2>2. Own(data_key)' /\ Own(wrapped)'
    BY <1>1, <1>t, <2>1, OwnStays DEF Own
  <2>3. \A a \in Account : \A k \in {sealed'[a].data, sealed'[a].lock} : k # None => made'[k] = a
    BY <2>1, ServerStays
  <2> QED BY <1>r, <1>1, <2>1, <2>2, <2>3, EndsOwn, AloneStep
<1>3. CASE KeepDataKey \/ KeepWrapped
  <2>1. c.at \in Keeping
    BY <1>3 DEF KeepDataKey, KeepWrapped, At, Keeping
  <2>2. Own(c.key) /\ Own(c.lock) /\ c.session \in {None, session}
    BY <1>c, <2>1 DEF OwnCommand
  <2>3. data_key' \in {data_key, c.key} /\ wrapped' \in {wrapped, c.lock} /\ UNCHANGED <<sealed, made>>
    BY <1>3 DEF KeepDataKey, KeepWrapped, world
  <2>4. Own(data_key)' /\ Own(wrapped)'
    BY <1>1, <1>t, <2>2, <2>3 DEF Own
  <2>5. \A a \in Account : \A k \in {sealed'[a].data, sealed'[a].lock} : k # None => made'[k] = a
    BY <2>3, ServerStays
  <2>6. CASE Ends("setup")
    BY <1>r, <1>1, <2>4, <2>5, <2>6, EndsOwn, AloneStep
  <2>7. CASE Goes("setup", "keep file")
    <3>1. running' = [running EXCEPT !["setup"] = n] /\ n.at = "keep file" /\ n.key = c.key /\ n.lock = c.lock
          /\ n.session = c.session
      BY <2>7 DEF Goes
    <3>2. OwnCommand(running["setup"])'
      BY <1>1, <2>2, <2>3, <3>1 DEF OwnCommand, Own
    <3> QED BY <1>r, <1>1, <2>4, <2>5, <3>1, <3>2, AloneStep
  <2> QED BY <1>3, <2>6, <2>7, DialogGoes
<1>4. CASE FetchKeys \/ PutLock
  <2>1. UNCHANGED <<data_key, wrapped, made>>
    BY <1>4 DEF FetchKeys, PutLock, device, keys, world
  <2>2. Own(data_key)' /\ Own(wrapped)'
    BY <1>1, <1>t, <2>1 DEF Own
  <2>3. CASE Ends("setup") /\ UNCHANGED sealed
    BY <1>r, <1>1, <2>2, <2>3, ServerStays, EndsOwn, AloneStep
  <2>4. CASE ~(Ends("setup") /\ UNCHANGED sealed)
    <3>1. /\ running' = [running EXCEPT !["setup"] = n] /\ c.at = "fetch" /\ n.at = "keep keys" /\ n.lock = n.key
          /\ n.session = c.session
          /\ \/ /\ c.session \in Session
                /\ sealed[Its("setup")] # Nothing /\ n.key = sealed[Its("setup")].lock
                /\ UNCHANGED sealed
             \/ /\ n.key = c.key /\ session \in valid
                /\ sealed' = [sealed EXCEPT ![Owner[session]].lock = c.key]
      BY <1>4, <2>4, KeysMove
    <3>2. Own(c.key) /\ c.session \in {None, session}
      BY <1>c, <3>1 DEF OwnCommand
    <3>3. /\ Own(n.key)
          /\ \A a \in Account : \A k \in {sealed'[a].data, sealed'[a].lock} : k # None => made'[k] = a
      <4>1. CASE c.session \in Session /\ n.key = sealed[Its("setup")].lock /\ UNCHANGED sealed
        <5>1. c.session = session
          BY <3>2, <4>1 DEF ConstantsAssumption
        <5>2. Its("setup") \in Account /\ Its("setup") = Owner[session]
          BY <1>r, <4>1, <5>1, ItsAccount DEF Its
        <5>3. Own(n.key)
          BY <4>1, <5>2 DEF Alone, Own
        <5> QED BY <4>1, <5>3, ServerStays
      <4>2. CASE /\ n.key = c.key /\ session \in valid
                 /\ sealed' = [sealed EXCEPT ![Owner[session]].lock = c.key]
        <5>1. session \in Session /\ session # None
          BY <4>2 DEF TypeOK, ValuesOK, ConstantsAssumption
        <5>2. Owner[session] \in Account
          BY <5>1 DEF ConstantsAssumption
        <5>3. c.key # None => made[c.key] = Owner[session]
          BY <3>2, <5>1 DEF Own
        <5>4. sealed \in [Account -> [data : AnyKey, lock : AnyKey]]
          BY DEF TypeOK, ValuesOK
        <5>5. \A a \in Account : \A k \in {sealed[a].data, sealed[a].lock} : k # None => made[k] = a
          BY DEF Alone
        <5>6. \A a \in Account : \A k \in {sealed'[a].data, sealed'[a].lock} : k # None => made'[k] = a
          BY <2>1, <4>2, <5>2, <5>3, <5>4, <5>5
        <5> QED BY <3>2, <4>2, <5>6
      <4> QED BY <3>1, <4>1, <4>2
    <3>4. OwnCommand(running["setup"])'
      BY <1>1, <2>1, <3>1, <3>2, <3>3 DEF OwnCommand, Own
    <3> QED BY <1>r, <1>1, <2>2, <3>1, <3>3, <3>4, AloneStep
  <2> QED BY <2>3, <2>4
<1> QED BY <1>2, <1>3, <1>4

\* The steps of the server, and none.
LEMMA AloneServer ==
    ASSUME ConstantsAssumption, TypeOK, Alone, [Next]_vars,
           \/ \E s \in Session : SessionEnds(s)
           \/ \E k \in Key, a \in Account : SetUpElsewhere(a, k)
           \/ \E a \in Account : DataRemoved(a)
           \/ UNCHANGED vars
    PROVE  Alone'
<1>1. UNCHANGED <<session, data_key, wrapped, running>>
  BY DEF SessionEnds, SetUpElsewhere, DataRemoved, vars, device, keys
<1>2. sealed \in [Account -> [data : AnyKey, lock : AnyKey]] /\ made \in [Key -> Account \cup {None}]
      /\ data_key \in AnyKey /\ wrapped \in AnyKey /\ Own(data_key) /\ Own(wrapped)
  BY DEF TypeOK, ValuesOK, Alone
<1>3. Own(data_key)' /\ Own(wrapped)'
  BY <1>1, <1>2, OwnStays DEF Own
<1>4. \A r \in Role : OwnCommand(running[r])'
  <2> SUFFICES ASSUME NEW r \in Role
               PROVE  OwnCommand(running[r])'
    OBVIOUS
  <2>1. OwnCommand(running[r]) /\ running[r].key \in AnyKey /\ running[r].lock \in AnyKey
    BY DEF Alone, TypeOK, RunningOK, CommandState
  <2>2. Own(running[r].key) => Own(running[r].key)'
    BY <1>1, <2>1, OwnStays DEF Own
  <2>3. Own(running[r].lock) => Own(running[r].lock)'
    BY <1>1, <2>1, OwnStays DEF Own
  <2> QED BY <1>1, <2>1, <2>2, <2>3 DEF OwnCommand
<1>5. \A a \in Account : \A k \in {sealed'[a].data, sealed'[a].lock} : k # None => made'[k] = a
  <2>1. CASE UNCHANGED sealed
    BY <2>1, ServerStays
  <2>2. ASSUME NEW a \in Account, NEW k \in Key, SetUpElsewhere(a, k)
        PROVE  \A b \in Account : \A i \in {sealed'[b].data, sealed'[b].lock} : i # None => made'[i] = b
    <3> SUFFICES ASSUME NEW b \in Account, NEW i \in {sealed'[b].data, sealed'[b].lock}, i # None
                 PROVE  made'[i] = b
      OBVIOUS
    <3>1. sealed' = [sealed EXCEPT ![a] = [data |-> k, lock |-> k]] /\ made' = [made EXCEPT ![k] = a]
      BY <2>2 DEF SetUpElsewhere
    <3>2. CASE b = a
      BY <1>2, <3>1, <3>2
    <3>3. CASE b # a
      <4>1. i \in {sealed[b].data, sealed[b].lock} /\ i \in AnyKey
        BY <1>2, <3>1, <3>3
      <4>2. made[i] = b
        BY <4>1 DEF Alone
      <4> QED BY <4>1, <4>2, OwnedStays
    <3> QED BY <3>2, <3>3
  <2>3. ASSUME NEW a \in Account, DataRemoved(a)
        PROVE  \A b \in Account : \A i \in {sealed'[b].data, sealed'[b].lock} : i # None => made'[i] = b
    <3>1. sealed' = [sealed EXCEPT ![a] = Nothing] /\ made' = made
      BY <2>3 DEF DataRemoved
    <3>2. \A b \in Account : \A i \in {sealed[b].data, sealed[b].lock} : i # None => made[i] = b
      BY DEF Alone
    <3> QED BY <1>2, <3>1, <3>2 DEF Nothing
  <2> QED BY <2>1, <2>2, <2>3 DEF SessionEnds, vars, world
<1> QED BY <1>1, <1>3, <1>4, <1>5 DEF Alone

LEMMA SealedStep ==
    ASSUME ConstantsAssumption, TypeOK, SealedInv, [Next]_vars
    PROVE  SealedInv'
<1>1. CASE UNCHANGED vars
  <2>1. UNCHANGED <<pending, made, running, raced>>
    BY <1>1 DEF vars, device, world
  <2>2. PendingOwn' /\ HoldOwn'
    BY <2>1 DEF SealedInv, PendingOwn, HoldOwn
  <2>3. Alone => Alone'
    BY <1>1, AloneServer
  <2> QED BY <2>1, <2>2, <2>3 DEF SealedInv
<1>2. CASE Next
  <2>1. PendingOwn' /\ HoldOwn'
    BY <1>2, PendingStep, HoldStep DEF SealedInv
  <2>2. ASSUME ~raced'
        PROVE  Alone'
    <3>1. CASE Beginning
      BY <2>2, <3>1, AloneBegin DEF SealedInv
    <3>2. CASE ~Beginning
      <4>1. Alone
        BY <1>2, <2>2, <3>2, TypeValues DEF SealedInv
      <4>2. ASSUME NEW r \in Role, Forgetting(r) \/ RecordAccount(r) \/ Download(r) \/ Upload(r) \/ SaveState(r)
                                  \/ Interrupted(r)
            PROVE  Alone'
        BY <4>1, <4>2, AloneForget, AloneSync
      <4>3. NotPickedUp \/ EndSession \/ KeepSession \/ DeletedAccount \/ (\E s \in Session : PickUp(s)) => Alone'
        BY <4>1, AloneSign
      <4>4. HoldAgain \/ (\E k \in Key : HoldNewKeys(k)) \/ KeepDataKey \/ KeepWrapped \/ FetchKeys \/ PutLock => Alone'
        BY <1>2, <4>1, AloneSetup
      <4>5. \/ \E s \in Session : SessionEnds(s)
            \/ \E k \in Key, a \in Account : SetUpElsewhere(a, k)
            \/ \E a \in Account : DataRemoved(a)
            => Alone'
        BY <4>1, AloneServer
      <4> QED BY <1>2, <3>2, <4>2, <4>3, <4>4, <4>5 DEF Next, Beginning
    <3> QED BY <3>1, <3>2
  <2> QED BY <2>1, <2>2 DEF SealedInv
<1> QED BY <1>1, <1>2

\* While no commands overlap, an account's data is sealed with a key made for that account,
\* whatever fails on the way.
THEOREM SealedHolds == ASSUME ConstantsAssumption PROVE Spec => []SealedForItsAccount
<1>1. ASSUME Init
      PROVE  SealedInv
  <2>1. \A r \in Role : running[r] = Idle
    BY <1>1 DEF Init
  <2>2. Idle.at = "" /\ Idle.cmd = "idle"
    BY DEF Idle
  <2>3. OwnCommand(Idle)
    BY <2>2 DEF OwnCommand, Syncing, Keeping
  <2>4. \A a \in Account : \A k \in {sealed[a].data, sealed[a].lock} : k # None => made[k] = a
    BY <1>1 DEF Init, Nothing
  <2>5. session = None /\ pending.key = None
    BY <1>1 DEF Init, NoPending
  <2> QED BY <2>1, <2>2, <2>3, <2>4, <2>5 DEF SealedInv, PendingOwn, HoldOwn, Alone, Own
<1>2. TypeOK /\ SealedInv /\ [Next]_vars => SealedInv'
  BY SealedStep
<1>3. SealedInv => SealedForItsAccount
  BY DEF SealedInv, Alone, SealedForItsAccount
<1> QED BY <1>1, <1>2, <1>3, TypeCorrect, PTL DEF Spec

=============================================================================
