----------------------------- MODULE MCDataEdits -----------------------------
(* Instances for TLC of the edits of servers' data: a table tab's saves and undone rows,  *)
(* and MongoDB's commands.  They share no state, so each behaviour is of one of the two.  *)
EXTENDS RowEdits, TLC

CONSTANTS Conn, Server, Id, Document, Big, None, Slot, MaxCommands, MaxRestores, MaxChanges

VARIABLES part, saved, client, evicting, torn, db, cmd, undoable, left

mongoVars == <<saved, client, evicting, torn, db, cmd, undoable, left>>

M == INSTANCE MongoCommands WITH Value <- Document, history <- undoable

Same == Permutations(Tab) \cup Permutations(Conn) \cup Permutations(Server) \cup Permutations(Slot)

OfRows(A)  == part = "rows" /\ A /\ UNCHANGED <<part, mongoVars>>
OfMongo(A) == part = "mongo" /\ A /\ UNCHANGED <<part, vars>>

\* Keys are alike, and so are values: every table is one of these, renamed.
Canonical == rows[1] # "y" /\ (rows[1] = NoRow => rows[2] = NoRow)

\* The other part stays in one of its initial states.
AnyRows  == engine = "mysql" /\ rows = [k \in Key |-> NoRow]
AnyMongo ==
    /\ \A c, e \in Conn : ~saved[c].readOnly /\ saved[c].server = saved[e].server
    /\ \A s \in Server, i \in Id : db[s].docs[i] = None

InitPart ==
    /\ part \in {"rows", "mongo"}
    /\ Init /\ Canonical /\ (part = "mongo" => AnyRows)
    /\ M!Init /\ (part = "rows" => AnyMongo)

NextRows ==
    \/ OfRows(OtherClient)
    \/ \E t \in Tab :
        \/ OfRows(Load(t)) \/ OfRows(StartSave(t)) \/ OfRows(Execute(t)) \/ OfRows(SaveFails(t))
        \/ OfRows(Commit(t)) \/ OfRows(Record(t))
        \/ OfRows(UndoPg(t)) \/ OfRows(UndoReads(t)) \/ OfRows(UndoWrites(t))

NextMongo ==
    \/ \E k \in Slot :
        \/ OfMongo(M!Command(k)) \/ OfMongo(M!Connected(k)) \/ OfMongo(M!Opened(k)) \/ OfMongo(M!Fails(k))
        \/ OfMongo(M!InsertDocument(k)) \/ OfMongo(M!ReadBefore(k))
        \/ OfMongo(M!ReplaceDocument(k)) \/ OfMongo(M!DeleteDocument(k))
        \/ OfMongo(M!RecordHistory(k)) \/ OfMongo(M!RestoreHistory(k))
        \/ OfMongo(M!ManyDocuments(k)) \/ OfMongo(M!Catalog(k))
        \/ OfMongo(M!CopyUsers(k)) \/ OfMongo(M!Aggregate(k))
        \/ OfMongo(M!UploadChunks(k)) \/ OfMongo(M!CloseUpload(k))
        \/ OfMongo(M!DropListing(k)) \/ OfMongo(M!DropChunks(k))
        \/ OfMongo(M!CopyListing(k)) \/ OfMongo(M!CopyChunks(k))
    \/ \E c \in Conn : OfMongo(M!Evict(c))
    \/ OfMongo(M!ClearHistory) \/ OfMongo(M!EditConnection) \/ OfMongo(M!OtherClient)

NextPart == NextRows \/ NextMongo

SpecPart == InitPart /\ [][NextPart]_<<part, vars, mongoVars>>

\* What a command changes is on the server of the settings its gate let through
\* (access.rs:16-19, pool.rs:102-120), as MongoCommands states it.
OthersKeepReadOnly == M!OthersKeepReadOnly

\* Undoing an edit of a document puts back what it overwrote (documents.rs:66-78), as
\* MongoCommands states it.
UndoIsExact == M!UndoIsExact

\* A listed file keeps its chunks (gridfs/mod.rs:260-275), as MongoCommands states it.
ListedFilesKeepTheirChunks == M!ListedFilesKeepTheirChunks
=============================================================================
