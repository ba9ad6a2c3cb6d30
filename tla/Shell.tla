------------------------------- MODULE Shell -------------------------------
(* The MongoDB shell: run_shell_command takes a client and the read-only   *)
(* flag from the saved connection in two steps and queues the code to the  *)
(* session's own worker thread, which binds the `db` global to them and    *)
(* evaluates it.  A find or an aggregate is a lazy cursor, so the code of  *)
(* one submission can run what an earlier one only described.  Documents   *)
(* are abstract; a server is a collection "c" and the target "t" of a      *)
(* rename or of an $out.                                                   *)
EXTENDS Naturals, Sequences, FiniteSets

CONSTANTS Sessions,  \* shell tabs
          Patient,   \* the tabs whose servers answer every call in the end
          Servers,   \* what a saved connection can point to
          Doc,       \* documents
          MaxSubmissions,  \* per tab
          MaxCalls   \* driver calls of one evaluation

VARIABLES saved,   \* the record of the connection, or Gone
          edits,   \* edits made to it
          data,    \* per server: the documents of its two collections, indexed or not
          tab,     \* per tab: [open, runs, cmd, client]
          engine,  \* per tab: [sender, queue] of its entry in ShellEngine::sessions
          worker   \* per tab: [st, eval, call, left, held]

vars == <<saved, edits, data, tab, engine, worker>>

Gone == [server |-> "gone", readOnly |-> FALSE]
Record == [server : Servers, readOnly : BOOLEAN]
(* The slot before an evaluation binds it: a DbInner is a client's server  *)
(* and a flag, as a Record is.                                             *)
NotBound == Gone

(* ---------------------------------------------------------------------- *)
(* The calls of the `db` bridge, and what a read-only connection refuses.  *)

(* countDocuments is as find is here, estimatedDocumentCount and distinct   *)
(* as findOne.                                                             *)
Reads == {"find", "findOne"}
Writes == {"insertOne", "insertMany", "updateMany", "deleteMany", "drop",
           "createIndex", "renameCollection"}

(* A call: its method, the command it names if it is runCommand, and       *)
(* whether its pipeline, if it has one, ends in $out or $merge.            *)
Call == [method : Reads \cup Writes, command : {"none"}, out : {FALSE}]
        \cup [method : {"aggregate"}, command : {"none"}, out : BOOLEAN]
        \cup [method : {"runCommand"}, command : {"find", "drop"},
              out : {FALSE}]
        \cup [method : {"runCommand"}, command : {"aggregate"}, out : BOOLEAN]
NoCall == [method |-> "none", command |-> "none", out |-> FALSE]

IsReadCommand(name) == name \in {"find", "aggregate"}
PipelineWrites(c) == c.out

CommandRefusal(c) == ~IsReadCommand(c.command) \/ PipelineWrites(c)

ReadOnlyRefusal(c) ==
    CASE c.method \in Reads -> FALSE
      [] c.method = "aggregate" -> PipelineWrites(c)
      [] c.method = "runCommand" -> CommandRefusal(c)
      [] OTHER -> TRUE

(* The find and aggregate methods and countDocuments ask the server to     *)
(* give up after a minute; nothing else does.                              *)
Capped(c) == c.method \in {"find", "aggregate"}

(* ---------------------------------------------------------------------- *)
(* What a call may leave of a database.  An insertMany or a deleteMany     *)
(* that fails has done a part.                                             *)

Holds(d, docs) == [d EXCEPT !.c = docs]
InsertOne(d) == {Holds(d, d.c \cup {x}) : x \in Doc}
InsertMany(d) == {Holds(d, d.c \cup X) : X \in SUBSET Doc}
Update(d) == {Holds(d, (d.c \ {x}) \cup {y}) : x \in d.c, y \in Doc}
Delete(d) == {Holds(d, X) : X \in SUBSET d.c}
Drop(d) == {[Holds(d, {}) EXCEPT !.indexed = FALSE]}
CreateIndex(d) == {[d EXCEPT !.indexed = TRUE]}
Rename(d) == {[c |-> {}, t |-> d.c, indexed |-> FALSE]}
Out(d) == {[d EXCEPT !.t = d.c]}

Results(d, c) ==
    LET does == IF c.method = "runCommand" THEN c.command ELSE c.method
    IN {d} \cup
       (CASE does = "insertOne" -> InsertOne(d)
          [] does = "insertMany" -> InsertMany(d)
          [] does = "updateMany" -> Update(d)
          [] does = "deleteMany" -> Delete(d)
          [] does = "drop" -> Drop(d)
          [] does = "createIndex" -> CreateIndex(d)
          [] does = "renameCollection" -> Rename(d)
          [] c.out -> Out(d)
          [] OTHER -> {d})

(* ---------------------------------------------------------------------- *)

NoWorker == [st |-> "none", eval |-> NotBound, call |-> NoCall, left |-> 0,
             held |-> NoCall]

Init ==
    /\ saved \in {r \in Record : r.server = CHOOSE v \in Servers : TRUE}
    /\ edits = 0
    /\ data = [v \in Servers |-> [c |-> {}, t |-> {}, indexed |-> FALSE]]
    /\ tab = [s \in Sessions |-> [open |-> "yes", runs |-> 0, cmd |-> "idle",
                                  client |-> "gone"]]
    /\ engine = [s \in Sessions |-> [sender |-> "none", queue |-> <<>>]]
    /\ worker = [s \in Sessions |-> NoWorker]

(* The connection is edited, or deleted: `edits` bounds both.              *)
EditConnection ==
    /\ edits < 1 /\ saved # Gone
    /\ saved' \in (Record \cup {Gone}) \ {saved}
    /\ edits' = edits + 1
    /\ UNCHANGED <<data, tab, engine, worker>>

(* A tab runs one submission at a time (isRunning): the command takes the  *)
(* pooled client of the record as it is now ...                            *)
Run(s) ==
    /\ tab[s].open = "yes" /\ tab[s].cmd = "idle" /\ tab[s].runs < MaxSubmissions[s]
    /\ saved # Gone
    /\ tab' = [tab EXCEPT ![s].cmd = "connecting", ![s].runs = @ + 1,
                          ![s].client = saved.server]
    /\ UNCHANGED <<saved, edits, data, engine, worker>>

(* ... or it cannot be had; once it is, the flag is read from the record   *)
(* as it is then, FALSE when it is gone, and submit_eval queues the code,  *)
(* starting a worker if the session has none.                              *)
ConnectFails(s) ==
    /\ tab[s].cmd = "connecting"
    /\ tab' = [tab EXCEPT ![s].cmd = "idle", ![s].client = "gone"]
    /\ UNCHANGED <<saved, edits, data, engine, worker>>

SubmitEval(s) ==
    /\ tab[s].cmd = "connecting"
    /\ LET e == [server |-> tab[s].client, readOnly |-> saved.readOnly]
       IN engine' = [engine EXCEPT ![s] = [sender |-> "open", queue |-> Append(engine[s].queue, e)]]
    /\ worker' = IF engine[s].sender = "open" THEN worker
                 ELSE [worker EXCEPT ![s] = [NoWorker EXCEPT !.st = "waiting"]]
    /\ tab' = [tab EXCEPT ![s].cmd = "awaiting", ![s].client = "gone"]
    /\ UNCHANGED <<saved, edits, data>>

Closed(s) == IF engine[s].sender = "open" THEN "closed" ELSE "none"

(* The tab is closed: its sender is dropped, and what is queued still runs.*)
(* A close that overtakes a command still connecting finds no sender to    *)
(* drop, or drops one that the command then replaces.                      *)
Close(s) ==
    /\ tab[s].open = "yes"
    /\ tab' = [tab EXCEPT ![s].open = IF tab[s].cmd = "connecting" THEN "overtook"
                                      ELSE "no"]
    /\ engine' = [engine EXCEPT ![s].sender = Closed(s)]
    /\ UNCHANGED <<saved, edits, data, worker>>

(* ---------------------------------------------------------------------- *)
(* The worker thread: session_loop, eval_in, and the calls it makes.       *)

(* A mistake the checks must catch: one thread for every session.          *)
OneThread(s) == \A t \in Sessions : worker[t].st \in {"none", "waiting"}
Free(s) == worker[s].st = "waiting"

(* The slot of the `db` global is rebound to the evaluation's client and   *)
(* flag; nothing reads it again before the next evaluation rebinds it.     *)
Take(s) ==
    /\ Free(s) /\ worker[s].st = "waiting" /\ engine[s].queue # <<>>
    /\ LET e == Head(engine[s].queue)
       IN worker' = [worker EXCEPT ![s].st = "evaluating", ![s].eval = e,
                                   ![s].left = MaxCalls]
    /\ engine' = [engine EXCEPT ![s].queue = Tail(@)]
    /\ UNCHANGED <<saved, edits, data, tab>>

Evaluating(s) == worker[s].st = "evaluating" /\ worker[s].left > 0

(* The code makes a cursor over a pipeline that writes and keeps it in a   *)
(* variable: nothing is called.                                            *)
MakeCursor(s) ==
    /\ Evaluating(s) /\ worker[s].held = NoCall
    /\ \E c \in {k \in Call : k.method = "aggregate" /\ k.out} :
           worker' = [worker EXCEPT ![s].held = c, ![s].left = @ - 1]
    /\ UNCHANGED <<saved, edits, data, tab, engine>>

(* A mistake the checks must catch: a kept cursor was judged when made.    *)
RefusedWhenMade(s, c) ==
    worker[s].eval.readOnly /\ ReadOnlyRefusal(c) /\ c # worker[s].held
Refused(s, c) == worker[s].eval.readOnly /\ ReadOnlyRefusal(c)

(* __mongo: run_op refuses, and the code sees an exception, or blocks the  *)
(* worker on the driver.                                                   *)
MongoCall(s) ==
    /\ Evaluating(s)
    /\ \E c \in Call :
           /\ c.method = "aggregate" /\ c.out => c = worker[s].held
           /\ worker' = IF Refused(s, c)
                        THEN [worker EXCEPT ![s].left = @ - 1]
                        ELSE [worker EXCEPT ![s].st = "calling", ![s].call = c,
                                            ![s].left = @ - 1]
    /\ UNCHANGED <<saved, edits, data, tab, engine>>

(* The server answers the call, having done all, a part or nothing of it.  *)
Return(s) ==
    /\ worker[s].st = "calling"
    /\ \E d \in Results(data[worker[s].eval.server], worker[s].call) :
           data' = [data EXCEPT ![worker[s].eval.server] = d]
    /\ worker' = [worker EXCEPT ![s].st = "evaluating", ![s].call = NoCall]
    /\ UNCHANGED <<saved, edits, tab, engine>>

(* The evaluation ends, its transcript is sent, and the command answers.   *)
Reply(s) ==
    /\ worker[s].st = "evaluating"
    /\ worker' = [worker EXCEPT ![s].st = "waiting", ![s].eval = NotBound,
                                ![s].left = 0]
    /\ tab' = [tab EXCEPT ![s].cmd = "idle"]
    /\ UNCHANGED <<saved, edits, data, engine>>

(* The channel is closed and empty: the thread and its context go.         *)
Exit(s) ==
    /\ worker[s].st = "waiting" /\ engine[s].sender = "closed"
    /\ engine[s].queue = <<>>
    /\ worker' = [worker EXCEPT ![s] = NoWorker]
    /\ engine' = [engine EXCEPT ![s].sender = "none"]
    /\ UNCHANGED <<saved, edits, data, tab>>

SessionLoop(s) == Take(s) \/ Reply(s) \/ Exit(s)

Next ==
    \/ EditConnection
    \/ \E s \in Sessions :
           \/ Run(s) \/ ConnectFails(s) \/ SubmitEval(s) \/ Close(s)
           \/ SessionLoop(s) \/ MakeCursor(s) \/ MongoCall(s) \/ Return(s)

(* The thread goes on by itself and an evaluation ends (the loop limit); a *)
(* capped call returns, and a patient tab's server answers every call.     *)
Fairness ==
    \A s \in Sessions :
        /\ WF_vars(SessionLoop(s))
        /\ WF_vars(Return(s) /\ (s \in Patient \/ Capped(worker[s].call)))

Spec == Init /\ [][Next]_vars
FairSpec == Spec /\ Fairness

----------------------------------------------------------------------------

(* A server's data change only while code runs that was submitted for that *)
(* server without the read-only flag, whatever cursors earlier submissions *)
(* of the tab left behind (shell/engine.rs:139-145, bridge/mod.rs:166-182: *)
(* the slot is rebound for every evaluation and read by every call).       *)
WritesAreAllowed ==
    [][\A v \in Servers : data'[v] # data[v] =>
           \E s \in Sessions : /\ worker[s].st = "calling"
                               /\ worker[s].eval = [server |-> v, readOnly |-> FALSE]]_vars

(* A tab whose server answers gets its transcript, even while another tab  *)
(* waits for a server that never does: "a slow/blocking eval in one        *)
(* session can't stall the others" (shell/engine.rs:5-6).                  *)
SlowTabsHoldNobodyUp ==
    \A s \in Patient : tab[s].cmd = "awaiting" ~> tab[s].cmd # "awaiting"

=============================================================================
