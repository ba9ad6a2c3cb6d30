--------------------------- MODULE MongoCommands ---------------------------
(***************************************************************************)
(* MongoDB's commands (commands/mongo/): the read-only gate every command  *)
(* passes (commands/access.rs, commands/mod.rs), the clients the pool      *)
(* keeps for the connections (pool.rs), documents and the history          *)
(* their edits are undone from, aggregations and mapReduce, collections,   *)
(* indexes, users, functions and GridFS buckets.                           *)
(*                                                                         *)
(* A command resolves its connection, waits for the pool, and then talks   *)
(* to the server, one call at a time; other commands, other clients of the *)
(* server and edits of the connection come in between.  A server is one    *)
(* database: one collection of documents, a set of the other things it     *)
(* has, and GridFS buckets.  Every command may fail at each of its calls.  *)
(***************************************************************************)
EXTENDS Integers, Sequences, FiniteSets

CONSTANTS
    Conn, Server,      \* saved connections and the servers they lead to
    Id, Value,         \* the documents of a collection and what they may hold
    Big,               \* the values too large to keep a copy of
    None,              \* no document, no record, no copy
    Slot,              \* commands that may run at once
    MaxCommands,       \* bound: commands, restores aside
    MaxRestores,       \* bound: edits undone
    MaxChanges         \* bound: edits of connections and other clients' writes

VARIABLES
    saved,    \* [Conn -> the record in storage, or None]
    client,   \* ConnectionPool.clients: [Conn -> the server the cached client leads to, or None]
    evicting, \* edited connections whose client pool.remove has still to drop
    torn,     \* connections an eviction of which ever fell into a connect under way
    db,       \* [Server -> what it holds]
    cmd,      \* [Slot -> the running command]
    history,  \* collection_history.rs: the changes that can be undone
    left      \* what the bounds still allow

pooled == <<client, evicting, torn>>
vars   == <<saved, pooled, db, cmd, history, left>>

Bucket == {"from", "to"}
File == Slot

Record == [server : Server, readOnly : BOOLEAN]

Idle == [at |-> "idle"]

Init ==
    /\ saved \in [Conn -> Record]
    /\ client = [c \in Conn |-> None] /\ evicting = {} /\ torn = {}
    /\ \E docs \in [Id -> Value \cup {None}] :
        db = [s \in Server |-> [docs |-> docs, has |-> {},
                                files |-> [b \in Bucket |-> {}], chunks |-> [b \in Bucket |-> {}]]]
    /\ cmd = [k \in Slot |-> Idle]
    /\ history = {}
    /\ left = [commands |-> MaxCommands, restores |-> MaxRestores, changes |-> MaxChanges]

-----------------------------------------------------------------------------
(* Requests.  What a command asks for, its connection aside. *)

FileKinds     == {"upload", "dropBucket", "copyBucket"}
CatalogKinds  == {"createCollection", "createView", "setValidator", "renameCollection", "dropCollection",
                  "dropDatabase", "createIndex", "dropIndex", "hideIndex", "createUser", "dropUser",
                  "saveFunction", "dropFunction", "profile", "renameFile"}

Request ==
    [kind : {"insert", "replace", "updateMany"}, id : Id, value : Value]
        \cup [kind : {"delete"}, id : Id] \cup [kind : {"insertMany"}, value : Value]
        \cup [kind : {"aggregate", "mapReduce"}, out : BOOLEAN]
        \cup [kind : {"deleteFile"}, file : File]
        \cup [kind : FileKinds \cup CatalogKinds \cup {"deleteMany"}]
        \cup [kind : {"copyUsers"}, target : Conn]
        \cup [kind : {"restore"}, entry : history]

\* map_reduce writes when it is given a collection to write to.
MapReduceWrites(r) == r.out

\* The commands that resolve through client_for_write; every other through client.  An
\* aggregation is one of the others, whatever its pipeline ends in (query.rs:359).
AsksToWrite(r) ==
    CASE r.kind = "aggregate" -> FALSE
      [] r.kind = "mapReduce" -> MapReduceWrites(r)
      [] r.kind = "copyUsers" -> FALSE
      [] OTHER                -> TRUE

\* config_for
MayRun(c, r) == saved[c] # None /\ (AsksToWrite(r) => ~saved[c].readOnly)

Resolved(c, r) == [at |-> "connect", asks |-> r, conn |-> c, config |-> saved[c],
                   server |-> None, before |-> None, seen |-> None, was |-> None, listed |-> {}]

Invoke(k, c, r) ==
    /\ IF r.kind = "restore" THEN c = r.entry.conn /\ left.restores > 0 ELSE left.commands > 0
    /\ left' = IF r.kind = "restore" THEN [left EXCEPT !.restores = @ - 1] ELSE [left EXCEPT !.commands = @ - 1]
    /\ cmd' = IF MayRun(c, r) THEN [cmd EXCEPT ![k] = Resolved(c, r)] ELSE cmd
    /\ UNCHANGED <<saved, pooled, db, history>>

Command(k) == cmd[k] = Idle /\ \E c \in Conn, r \in Request : Invoke(k, c, r)

-----------------------------------------------------------------------------
(* ConnectionPool.connect: the client cached under the connection's id, whatever the      *)
(* settings the command read, or one made from these.                                     *)

Connecting(c) == \E k \in Slot : cmd[k].at \in {"connect", "open"} /\ cmd[k].conn = c

UsesClient(k, server) ==
    /\ cmd' = [cmd EXCEPT ![k].at = "run", ![k].server = server]
    /\ torn' = IF cmd[k].conn \in evicting THEN torn \cup {cmd[k].conn} ELSE torn

Connected(k) ==
    /\ cmd[k].at = "connect"
    /\ IF client[cmd[k].conn] # None THEN UsesClient(k, client[cmd[k].conn])
       ELSE cmd' = [cmd EXCEPT ![k].at = "open"] /\ UNCHANGED torn
    /\ UNCHANGED <<saved, client, evicting, db, history, left>>

\* get_or_create: a client of its own is opened first; whichever entered the map first stays.
Opened(k) ==
    /\ cmd[k].at = "open"
    /\ client' = [client EXCEPT ![cmd[k].conn] = IF @ = None THEN cmd[k].config.server ELSE @]
    /\ UsesClient(k, client'[cmd[k].conn])
    /\ UNCHANGED <<saved, evicting, db, history, left>>

\* pool.remove, after an edit was saved.
Evict(c) ==
    /\ c \in evicting
    /\ evicting' = evicting \ {c}
    /\ client' = [client EXCEPT ![c] = None]
    /\ torn' = IF Connecting(c) THEN torn \cup {c} ELSE torn
    /\ UNCHANGED <<saved, db, cmd, history, left>>

Running(k, kinds, at) == cmd[k].at = at /\ cmd[k].asks.kind \in kinds
Docs(k)               == db[cmd[k].server].docs
Then(k, at)           == cmd' = [cmd EXCEPT ![k].at = at]
End(k)                == cmd' = [cmd EXCEPT ![k] = Idle]

\* The pool can't connect, or the server refuses a call or goes away.  (A restore that fails
\* later does nothing either.)
Fails(k) ==
    /\ cmd[k].at # "idle" /\ ~Running(k, {"restore"}, "run")
    /\ cmd' = [cmd EXCEPT ![k] = Idle]
    /\ UNCHANGED <<saved, pooled, db, history, left>>

-----------------------------------------------------------------------------
(* Documents, one at a time, and their history. *)

SetDoc(s, i, v) == db' = [db EXCEPT ![s].docs[i] = v]

\* insert_document
InsertDocument(k) ==
    /\ Running(k, {"insert"}, "run") /\ Docs(k)[cmd[k].asks.id] = None
    /\ SetDoc(cmd[k].server, cmd[k].asks.id, cmd[k].asks.value)
    /\ Then(k, "record")
    /\ UNCHANGED <<saved, pooled, history, left>>

\* A mistake the checks must catch: the pre-image of a replacement read after it.
ImageAfter(k) == IF cmd[k].asks.kind = "replace" THEN cmd[k].asks.value ELSE Docs(k)[cmd[k].asks.id]

PreImage(k) == Docs(k)[cmd[k].asks.id]

\* replace_document, delete_document: the pre-image is read first.
ReadBefore(k) ==
    /\ Running(k, {"replace", "delete"}, "run")
    /\ cmd' = [cmd EXCEPT ![k].at = "write", ![k].before = PreImage(k), ![k].seen = Docs(k)[cmd[k].asks.id]]
    /\ UNCHANGED <<saved, pooled, db, history, left>>

\* The write finds the document or it doesn't; a pre-image is recorded either way.
WriteDocument(k, v) ==
    /\ db' = IF Docs(k)[cmd[k].asks.id] = None THEN db
             ELSE [db EXCEPT ![cmd[k].server].docs[cmd[k].asks.id] = v]
    /\ cmd' = [cmd EXCEPT ![k] = IF @.before = None THEN Idle ELSE [@ EXCEPT !.at = "record", !.was = Docs(k)[cmd[k].asks.id]]]
    /\ UNCHANGED <<saved, pooled, history, left>>

ReplaceDocument(k) == Running(k, {"replace"}, "write") /\ WriteDocument(k, cmd[k].asks.value)
DeleteDocument(k)  == Running(k, {"delete"}, "write") /\ WriteDocument(k, None)

\* CollectionHistoryStore.push: a pre-image too large isn't kept, the change is.  What the
\* edit overwrote, where, and whether it had read something else, no entry knows.
Entry(k) ==
    LET was == cmd[k].before IN
    [conn |-> cmd[k].conn, id |-> cmd[k].asks.id, op |-> cmd[k].asks.kind,
     before |-> IF was \in Big THEN None ELSE was, dropped |-> was \in Big,
     was |-> cmd[k].was, server |-> cmd[k].server, overtaken |-> cmd[k].seen # cmd[k].was]

\* record_history: best-effort, so it may be that nothing is recorded.
RecordHistory(k) ==
    /\ cmd[k].at = "record"
    /\ history' \in {history, history \cup {Entry(k)}}
    /\ End(k)
    /\ UNCHANGED <<saved, pooled, db, left>>

\* restore_history: an insert is undone by a delete; anything else by its pre-image, in
\* place of whatever the document holds by now.
RestoreHistory(k) ==
    /\ Running(k, {"restore"}, "run")
    /\ LET entry == cmd[k].asks.entry IN
       IF entry.dropped THEN UNCHANGED db ELSE SetDoc(cmd[k].server, entry.id, entry.before)
    /\ End(k)
    /\ UNCHANGED <<saved, pooled, history, left>>

\* clear_collection_history
ClearHistory ==
    /\ history # {} /\ history' = {}
    /\ UNCHANGED <<saved, pooled, db, cmd, left>>

-----------------------------------------------------------------------------
(* Documents, many at a time. *)

Existing(docs) == {i \in Id : docs[i] # None}

\* update_many: with an upsert when nothing matches.  (The first only, when not multi.)
Updated(docs, id, v) ==
    IF Existing(docs) = {} THEN [docs EXCEPT ![id] = v]
    ELSE [i \in Id |-> IF docs[i] = None THEN None ELSE v]

UpdatedMany(docs, id, v) == {Updated(docs, id, v)} \cup {[docs EXCEPT ![i] = v] : i \in Existing(docs)}

\* insert_many: the documents before the first the server refuses stay.
InsertedMany(docs, v) == {[i \in Id |-> IF i \in new THEN v ELSE docs[i]] : new \in SUBSET (Id \ Existing(docs))}

ManyDocuments(k) ==
    /\ Running(k, {"insertMany", "updateMany", "deleteMany"}, "run")
    /\ LET docs == Docs(k)
           r    == cmd[k].asks
           kind == r.kind IN
       \E new \in IF kind = "insertMany" THEN InsertedMany(docs, r.value)
                  ELSE IF kind = "updateMany" THEN UpdatedMany(docs, r.id, r.value)
                  ELSE {[i \in Id |-> None]} :
           db' = [db EXCEPT ![cmd[k].server].docs = new]
    /\ End(k)
    /\ UNCHANGED <<saved, pooled, history, left>>

-----------------------------------------------------------------------------
(* Collections, indexes, users, functions: one call each, and what it makes of the set of *)
(* things a database has.                                                                  *)

CreateCollection(has) == has \cup {"collection"}
CreateView(has)       == has \cup {"view"}
SetValidator(has)     == IF "collection" \in has THEN has \cup {"validator"} ELSE has
OfCollection          == {"collection", "validator", "index", "hidden"}
DropCollection(has)   == has \ OfCollection
DropDatabase(has)     == has \cap {"user", "profile"}
RenameCollection(has) == IF "collection" \in has THEN (has \ OfCollection) \cup {"renamed"} ELSE has
CreateIndex(has)      == has \cup {"collection", "index"}
DropIndex(has)        == has \ {"index", "hidden"}
SetIndexHidden(has)   == IF "index" \in has THEN has \cup {"hidden"} ELSE has
CreateUser(has)       == has \cup {"user"}
DropUser(has)         == has \ {"user"}
SaveFunction(has)     == has \cup {"function"}
DropFunction(has)     == has \ {"function"}
SetProfiling(has)     == has \cup {"profile"}
RenameFile(has)       == has \cup {"renamedFile"}

Effect(kind, has) ==
    CASE kind = "createCollection" -> CreateCollection(has)
      [] kind = "createView"       -> CreateView(has)
      [] kind = "setValidator"     -> SetValidator(has)
      [] kind = "renameCollection" -> RenameCollection(has)
      [] kind = "dropCollection"   -> DropCollection(has)
      [] kind = "dropDatabase"     -> DropDatabase(has)
      [] kind = "createIndex"      -> CreateIndex(has)
      [] kind = "dropIndex"        -> DropIndex(has)
      [] kind = "hideIndex"        -> SetIndexHidden(has)
      [] kind = "createUser"       -> CreateUser(has)
      [] kind = "dropUser"         -> DropUser(has)
      [] kind = "saveFunction"     -> SaveFunction(has)
      [] kind = "dropFunction"     -> DropFunction(has)
      [] kind = "profile"          -> SetProfiling(has)
      [] kind = "renameFile"       -> RenameFile(has)

Catalog(k) ==
    /\ Running(k, CatalogKinds, "run")
    /\ db' = [db EXCEPT ![cmd[k].server].has = Effect(cmd[k].asks.kind, @),
                        ![cmd[k].server].docs = IF cmd[k].asks.kind \in {"dropCollection", "dropDatabase", "renameCollection"}
                                                THEN [i \in Id |-> None] ELSE @]
    /\ End(k)
    /\ UNCHANGED <<saved, pooled, history, left>>

\* copy_users_to_connection: the source's users are read, then the target is resolved,
\* through its own gate.
CopyUsers(k) ==
    /\ Running(k, {"copyUsers"}, "run")
    /\ LET create == [kind |-> "createUser"]  target == cmd[k].asks.target IN
       cmd' = [cmd EXCEPT ![k] = IF "user" \in db[cmd[k].server].has /\ MayRun(target, create)
                                 THEN Resolved(target, create) ELSE Idle]
    /\ UNCHANGED <<saved, pooled, db, history, left>>

\* run_aggregate, map_reduce: $out, $merge and out replace a collection.
Aggregate(k) ==
    /\ Running(k, {"aggregate", "mapReduce"}, "run")
    /\ db' = IF cmd[k].asks.out THEN [db EXCEPT ![cmd[k].server].has = @ \cup {"out"}] ELSE db
    /\ End(k)
    /\ UNCHANGED <<saved, pooled, history, left>>

-----------------------------------------------------------------------------
(* GridFS: a file is listed by one collection and its chunks are in another. *)

SetFiles(s, b, files)   == db' = [db EXCEPT ![s].files[b] = files]
SetChunks(s, b, chunks) == db' = [db EXCEPT ![s].chunks[b] = chunks]

\* gridfs_upload: write_all stores the chunks, close lists the file.
UploadChunks(k) ==
    /\ Running(k, {"upload"}, "run")
    /\ SetChunks(cmd[k].server, "from", db[cmd[k].server].chunks["from"] \cup {k})
    /\ Then(k, "close")
    /\ UNCHANGED <<saved, pooled, history, left>>

CloseUpload(k) ==
    /\ Running(k, {"upload"}, "close")
    /\ SetFiles(cmd[k].server, "from", db[cmd[k].server].files["from"] \cup {k})
    /\ End(k)
    /\ UNCHANGED <<saved, pooled, history, left>>

Unlists(r) == IF r.kind = "dropBucket" THEN File ELSE {r.file}

\* A mistake the checks must catch: the chunks dropped before the listing.
ChunksFirst(k) ==
    /\ Running(k, {"dropBucket", "deleteFile"}, "run")
    /\ LET s == cmd[k].server IN
        /\ SetChunks(s, "from", db[s].chunks["from"] \ Unlists(cmd[k].asks))
        /\ cmd' = [cmd EXCEPT ![k].at = "chunks", ![k].listed = db[s].files["from"]]
    /\ UNCHANGED <<saved, pooled, history, left>>

\* gridfs_drop_bucket, gridfs_delete: the listing goes first.
DropListing(k) ==
    /\ Running(k, {"dropBucket", "deleteFile"}, "run")
    /\ LET s == cmd[k].server IN
        /\ SetFiles(s, "from", db[s].files["from"] \ Unlists(cmd[k].asks))
        /\ cmd' = [cmd EXCEPT ![k].at = "chunks", ![k].listed = db[s].files["from"]]
    /\ UNCHANGED <<saved, pooled, history, left>>

DropChunks(k) ==
    /\ Running(k, {"dropBucket", "deleteFile"}, "chunks")
    /\ SetChunks(cmd[k].server, "from", db[cmd[k].server].chunks["from"] \ Unlists(cmd[k].asks))
    /\ End(k)
    /\ UNCHANGED <<saved, pooled, history, left>>

\* gridfs_copy_bucket: the listing is replaced, and then the chunks.
CopyListing(k) ==
    /\ Running(k, {"copyBucket"}, "run")
    /\ SetFiles(cmd[k].server, "to", db[cmd[k].server].files["from"])
    /\ Then(k, "chunks")
    /\ UNCHANGED <<saved, pooled, history, left>>

CopyChunks(k) ==
    /\ Running(k, {"copyBucket"}, "chunks")
    /\ SetChunks(cmd[k].server, "to", db[cmd[k].server].chunks["from"])
    /\ End(k)
    /\ UNCHANGED <<saved, pooled, history, left>>

-----------------------------------------------------------------------------
(* Everyone else. *)

Changes == left.changes > 0 /\ left' = [left EXCEPT !.changes = @ - 1]

\* A mistake the checks must catch: the cached client outlives the edit.
EditKeepsClient ==
    /\ Changes
    /\ \E c \in Conn, r \in Record \cup {None} : saved[c] \notin {None, r} /\ saved' = [saved EXCEPT ![c] = r]
    /\ UNCHANGED <<pooled, db, cmd, history>>

\* The user edits or deletes the connection, or a sync does: the record first, then the
\* eviction of its client.  (One edit of a connection at a time.)
EditConnection ==
    /\ Changes
    /\ \E c \in Conn, r \in Record \cup {None} :
        /\ saved[c] \notin {None, r} /\ c \notin evicting
        /\ saved' = [saved EXCEPT ![c] = r]
        /\ evicting' = evicting \cup {c}
    /\ UNCHANGED <<client, torn, db, cmd, history>>

OtherClient ==
    /\ Changes
    /\ \E s \in Server, i \in Id, v \in Value \cup {None} : SetDoc(s, i, v)
    /\ UNCHANGED <<saved, pooled, cmd, history>>

Step(k) ==
    \/ Command(k)
    \/ Connected(k) \/ Opened(k) \/ Fails(k)
    \/ InsertDocument(k) \/ ReadBefore(k) \/ ReplaceDocument(k) \/ DeleteDocument(k)
    \/ RecordHistory(k) \/ RestoreHistory(k) \/ ManyDocuments(k)
    \/ Catalog(k) \/ CopyUsers(k) \/ Aggregate(k)
    \/ UploadChunks(k) \/ CloseUpload(k) \/ DropListing(k) \/ DropChunks(k)
    \/ CopyListing(k) \/ CopyChunks(k)

Next ==
    \/ \E k \in Slot : Step(k)
    \/ \E c \in Conn : Evict(c)
    \/ ClearHistory \/ EditConnection \/ OtherClient

Spec == Init /\ [][Next]_vars

-----------------------------------------------------------------------------
\* What a command changes is on the server its connection's settings named when the gate
\* let it through, and they allowed it, however the connection is edited while the command
\* waits and whatever client the pool holds ("the read-only check and the connect see one
\* consistent view", commands/mod.rs:97-99; aggregations pass no gate to write).  A connect
\* that an edit's save or its eviction falls into may be led by a client of the other
\* settings, and may leave one in the pool: of such a connection only the gate is kept.
Changed(s) == db'[s] # db[s]

GateHolds(k) ==
    \A s \in Server : Changed(s) /\ cmd'[k] # cmd[k] =>
        /\ cmd[k].config.server = s \/ cmd[k].conn \in torn
        /\ cmd[k].asks.kind # "aggregate" => ~cmd[k].config.readOnly

OthersKeepReadOnly == [][\A k \in Slot : GateHolds(k)]_vars

\* A read-only connection is written to by no command at all ("a read-only connection now
\* blocks every way of writing", CHANGELOG.md:178).
ReadOnlyIsKept ==
    [][\A k \in Slot : cmd'[k] # cmd[k] /\ db' # db => ~cmd[k].config.readOnly]_vars

\* Undoing an edit puts back what the edit overwrote, exactly, unless another writer came
\* between the edit's read of the document and its write (documents.rs:66-78, history.rs).
UndoIsExact ==
    [][\A k \in Slot :
        Running(k, {"restore"}, "run") /\ cmd'[k] # cmd[k] =>
            LET entry == cmd[k].asks.entry  s == cmd[k].server IN
            \/ entry.dropped \/ entry.overtaken
            \/ db'[s] = [db[s] EXCEPT !.docs[entry.id] = entry.was]]_vars

\* A file listed before a delete, a drop or a copy began loses its chunks only when it isn't
\* listed any more: a bucket half dropped lists no file that can't be downloaded
\* (gridfs/mod.rs:260-275).
ListedFilesKeepTheirChunks ==
    [][\A k \in Slot, s \in Server, b \in Bucket :
        cmd'[k] # cmd[k] => \A f \in db[s].chunks[b] \ db'[s].chunks[b] : 
            f \in db[s].files[b] => cmd[k].at = "chunks" /\ f \notin cmd[k].listed]_vars
=============================================================================
