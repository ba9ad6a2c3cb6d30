----------------------------- MODULE Transfers ------------------------------
(***************************************************************************)
(* Documents on their way between MongoDB collections and files: imports   *)
(* (commands/import.rs), exports, whole and incremental (commands/export.rs *)
(* and mongo/admin/transfer.rs), copies (mongo/copyops.rs) and duplicates  *)
(* (mongo/duplicate), several at once, while other clients of the servers  *)
(* insert and delete and while servers and files fail.                     *)
(*                                                                         *)
(* A document is its _id; a collection is the set of its documents, or     *)
(* Missing, and a cursor returns documents in the order of their _id,      *)
(* those inserted ahead of it too.  That order is BSON's, of any two _ids, *)
(* types first; a comparison in a filter only holds within a type.  A file *)
(* to import is a sequence of documents, some of which may not parse.      *)
(* MaxId, MaxEvents and the files of the .cfg are the model's bounds.      *)
(***************************************************************************)
EXTENDS Integers, Sequences, FiniteSets, SequencesExt, FiniteSetsExt

CONSTANTS
    Job,            \* the commands that may run at once
    Conn, Coll,     \* saved connections, collections
    Server,         \* the server each connection leads to
    File,           \* what there is to import
    Type,           \* the BSON type of each _id: numbers, strings, ObjectIds, ...
    Missing, Bad,   \* no such collection; an element that does not parse
    BatchSize,      \* IMPORT_BATCH_SIZE
    MaxId, MaxEvents

Id    == 1..MaxId
Place == Conn \X Coll
Where(p) == <<Server[p[1]], p[2]>>      \* two connections may lead to one server
Stored   == {Where(p) : p \in Place}

ASSUME TransfersAssumption ==
    /\ BatchSize \in Nat \ {0} /\ MaxId \in Nat \ {0} /\ MaxEvents \in Nat
    /\ Type \in [Id -> Nat] /\ \A d, e \in Id : d <= e => Type[d] <= Type[e]
    /\ DOMAIN Server = Conn /\ File \subseteq Seq(Id \cup {Bad})
    /\ \A D \in SUBSET Id : Missing # D
    /\ Bad \notin Id

VARIABLES
    data,           \* what each server stores
    watermark,      \* ExportWatermarkStorage: per connection and collection, 0 for none
    job, events,
    exported,       \* what incremental exports wrote to files they completed
    passed          \* documents that came behind a watermark, or that a filter left out

vars == <<data, watermark, job, events, exported, passed>>
watched == <<exported, passed>>

Docs(w) == IF data[w] = Missing THEN {} ELSE data[w]

Idle == [kind |-> "idle", at |-> "start", answer |-> "none", parser |-> "end"]

Init ==
    /\ \E w \in Stored : data = [v \in Stored |-> IF v = w THEN {1} ELSE Missing]
    /\ watermark = [p \in Place |-> 0]
    /\ job = [j \in Job |-> Idle]
    /\ events = 0
    /\ exported = [p \in Place |-> {}] /\ passed = [p \in Place |-> {}]

\* A failure, or a write of another client.
Event   == events < MaxEvents /\ events' = events + 1
NoEvent == UNCHANGED events
Is(j, kind, at)  == job[j].kind = kind /\ job[j].at = at
Becomes(j, r)    == job' = [job EXCEPT ![j] = r]

\* Nothing is kept of a command that has answered, but for its parser's state.
Ended(j, answer) ==
    [kind |-> job[j].kind, at |-> "end", answer |-> answer,
     parser |-> IF job[j].kind = "import" THEN job[j].parser ELSE "end"]

\* Whether document d, stored now, comes behind what p's exports have taken.
Behind(p, d) ==
    \/ d <= watermark[p]
    \/ \E j \in Job : /\ job[j].kind = "export" /\ job[j].at # "end" /\ job[j].incremental
                      /\ job[j].from = p /\ d <= job[j].boundary

\* Documents D are stored at w, and the exports they come too late for noted.
Store(w, D) ==
    /\ data' = [data EXCEPT ![w] = Docs(w) \cup D]
    /\ passed' = [p \in Place |-> IF Where(p) = w THEN passed[p] \cup {d \in D : Behind(p, d)} ELSE passed[p]]

-----------------------------------------------------------------------------
(* Imports.  A parser thread fills batches and sends them through a        *)
(* channel that holds one; the command receives a batch and inserts it.    *)

StartImport(j) ==
    /\ job[j] = Idle
    /\ \E p \in Place, f \in File :
           Becomes(j, [kind |-> "import", answer |-> IF f = <<>> THEN "ok" ELSE "none",
                       at |-> IF f = <<>> THEN "end" ELSE "run",
                       to |-> Where(p), file |-> f, next |-> 1, batch |-> <<>>, inserted |-> <<>>,
                       parser |-> IF f = <<>> THEN "end" ELSE "parse",
                       channel |-> <<>>, receiving |-> TRUE, hand |-> <<>>])
    /\ UNCHANGED <<data, watermark, events, watched>>

Parser(j, state) == job[j].kind = "import" /\ job[j].parser = state

\* The next element, or the end of the file: a last batch may be smaller.
Parse(j) ==
    /\ Parser(j, "parse")
    /\ LET r == job[j]
           batch == Append(r.batch, r.file[r.next])
       IN  Becomes(j,
              CASE r.next > Len(r.file) /\ r.batch = <<>> -> [r EXCEPT !.parser = "end"]
                [] r.next > Len(r.file) /\ r.batch # <<>> -> [r EXCEPT !.parser = "send"]
                [] r.next <= Len(r.file) /\ r.file[r.next] = Bad -> [r EXCEPT !.parser = "failed", !.batch = <<>>]
                [] OTHER -> [r EXCEPT !.next = @ + 1, !.batch = batch,
                                      !.parser = IF Len(batch) >= BatchSize THEN "send" ELSE "parse"])
    /\ UNCHANGED <<data, watermark, events, watched>>

Full(channel) == Len(channel) = 1

\* sender.send: blocks while the channel is full, fails once nobody receives.
Send(j) ==
    /\ Parser(j, "send")
    /\ LET r == job[j] IN
           \/ /\ r.receiving /\ ~Full(r.channel)
              /\ Becomes(j, [r EXCEPT !.channel = Append(@, r.batch), !.batch = <<>>, !.parser = "parse"])
           \/ /\ ~r.receiving
              /\ Becomes(j, [r EXCEPT !.batch = <<>>, !.parser = "failed"])
    /\ UNCHANGED <<data, watermark, events, watched>>

Receive(j) ==
    /\ Is(j, "import", "run") /\ job[j].hand = <<>> /\ job[j].channel # <<>>
    /\ Becomes(j, [job[j] EXCEPT !.hand = Head(job[j].channel), !.channel = Tail(@)])
    /\ UNCHANGED <<data, watermark, events, watched>>

\* insert_many, ordered: a document that is there already ends it, and so may
\* the server, whose answer then does not tell how much it had inserted.
Insertable(w, batch) == \A i \in 1..Len(batch) : batch[i] \notin Docs(w) \cup ToSet(SubSeq(batch, 1, i - 1))
InsertMany(w, batch) == Insertable(w, batch) /\ NoEvent /\ Store(w, ToSet(batch))
InsertFails(w, batch, k) ==
    /\ k \in 0..Len(batch) /\ Insertable(w, SubSeq(batch, 1, k))
    /\ \/ k < Len(batch) /\ ~Insertable(w, SubSeq(batch, 1, k + 1)) /\ NoEvent
       \/ Event
    /\ Store(w, ToSet(SubSeq(batch, 1, k)))

Insert(j) ==
    /\ Is(j, "import", "run") /\ job[j].hand # <<>>
    /\ LET r == job[j] IN
           /\ InsertMany(r.to, r.hand)
           /\ Becomes(j, [r EXCEPT !.inserted = @ \o r.hand, !.hand = <<>>])
    /\ UNCHANGED <<watermark, exported>>

\* A mistake the checks must catch: the channel outlives the command.
FailedReceiving(r) == [r EXCEPT !.at = "end", !.answer = "failed"]

\* A failed insert ends the command and drops the receiver.
Failed(r) == [r EXCEPT !.at = "end", !.answer = "failed", !.receiving = FALSE, !.channel = <<>>]

ImportFails(j) ==
    /\ Is(j, "import", "run") /\ job[j].hand # <<>>
    /\ \E k \in 0..Len(job[j].hand) :
           /\ InsertFails(job[j].to, job[j].hand, k)
           /\ Becomes(j, Failed([job[j] EXCEPT !.inserted = @ \o SubSeq(job[j].hand, 1, k), !.hand = <<>>]))
    /\ UNCHANGED <<watermark, exported>>

\* A mistake the checks must catch: what the parser answered is not looked at.
AnswerRegardless(r) == "ok"

ParserAnswer(r) == IF r.parser = "end" THEN "ok" ELSE "failed"

\* The sender is gone and the channel drained.
ImportEnds(j) ==
    /\ Is(j, "import", "run") /\ job[j].hand = <<>> /\ job[j].channel = <<>>
    /\ job[j].parser \in {"end", "failed"}
    /\ Becomes(j, Ended(j, ParserAnswer(job[j])))
    /\ UNCHANGED <<data, watermark, events, watched>>

-----------------------------------------------------------------------------
(* Copies. *)

\* What a job must have read at its end: what was there all along.
Reads(r) == IF r.kind = "copy" THEN r.from ELSE Where(r.from)
Gone(w, D) ==
    [j \in Job |-> IF job[j].kind \in {"copy", "export"} /\ job[j].at # "end" /\ Reads(job[j]) = w
                   THEN [job[j] EXCEPT !.present = @ \ D] ELSE job[j]]

\* $out replaces its target in one step of the server; job j becomes r.
Out(from, to, j, r) ==
    /\ data' = [data EXCEPT ![to] = Docs(from)]
    /\ job' = [Gone(to, Docs(to) \ Docs(from)) EXCEPT ![j] = r]
    /\ passed' = [p \in Place |-> IF Where(p) = to THEN passed[p] \cup {d \in Docs(from) \ Docs(to) : Behind(p, d)}
                                  ELSE passed[p]]

CopyHere(j) ==      \* copy_collection, on one server
    /\ job[j] = Idle
    /\ \E p, q \in Place :
           /\ p[1] = q[1]
           /\ Out(Where(p), Where(q), j, [Idle EXCEPT !.kind = "copy here", !.at = "end", !.answer = "ok"])
    /\ UNCHANGED <<watermark, events, exported>>

\* duplicate_collection: the names first, then $out.
StartDuplicate(j) ==
    /\ job[j] = Idle
    /\ \E p, q \in Place :
           /\ p[1] = q[1] /\ p # q /\ data[Where(q)] = Missing
           /\ Becomes(j, [kind |-> "duplicate", at |-> "out", answer |-> "none", from |-> Where(p), to |-> Where(q)])
    /\ UNCHANGED <<data, watermark, events, watched>>

Duplicate(j) ==
    /\ Is(j, "duplicate", "out")
    /\ Out(job[j].from, job[j].to, j, Ended(j, "ok"))
    /\ UNCHANGED <<watermark, events, exported>>

NotItself(p, q) == p # q

\* copy_collection_to_connection: drop the target, then read and insert.
StartCopy(j) ==
    /\ job[j] = Idle
    /\ \E p, q \in Place :
           /\ NotItself(p, q)
           /\ Becomes(j, [kind |-> "copy", at |-> "drop", answer |-> "none", from |-> Where(p), to |-> Where(q),
                          last |-> 0, batch |-> <<>>, copied |-> {}, present |-> Docs(Where(p))])
    /\ UNCHANGED <<data, watermark, events, watched>>

DropTarget(j) ==
    /\ Is(j, "copy", "drop")
    /\ LET w == job[j].to IN
           /\ data' = [data EXCEPT ![w] = Missing]
           /\ job' = [Gone(w, Docs(w)) EXCEPT ![j].at = "read"]
    /\ UNCHANGED <<watermark, events, watched>>

Ahead(w, last, D) == {d \in Docs(w) \cap D : d > last}

ReadToCopy(j) ==
    /\ Is(j, "copy", "read")
    /\ LET r == job[j]
           ahead == Ahead(r.from, r.last, Id)
       IN  \/ /\ ahead # {} /\ Len(r.batch) < BatchSize
              /\ Becomes(j, [r EXCEPT !.batch = Append(@, Min(ahead)), !.last = Min(ahead)])
           \/ /\ ahead = {} /\ r.batch = <<>>
              /\ Becomes(j, Ended(j, "ok"))
    /\ UNCHANGED <<data, watermark, events, watched>>

BatchDue(r) == Len(r.batch) = BatchSize \/ (r.batch # <<>> /\ Ahead(r.from, r.last, Id) = {})

InsertCopy(j) ==
    /\ Is(j, "copy", "read") /\ BatchDue(job[j])
    /\ LET r == job[j] IN
           \/ /\ InsertMany(r.to, r.batch)
              /\ Becomes(j, [r EXCEPT !.batch = <<>>, !.copied = @ \cup ToSet(r.batch)])
           \/ \E k \in 0..Len(r.batch) : InsertFails(r.to, r.batch, k) /\ Becomes(j, Ended(j, "failed"))
    /\ UNCHANGED <<watermark, exported>>

-----------------------------------------------------------------------------
(* Exports. *)

\* incremental_filter: $lte finds what is of the boundary's type only, and $gt,
\* once there is a watermark, what is of the watermark's.
Window(previous, boundary) ==
    {d \in Id : /\ d <= boundary /\ Type[d] = Type[boundary]
                /\ previous # 0 => d > previous /\ Type[d] = Type[previous]}

\* CSV reads everything once for its header; JSON and XLSX do not.
First(format) == IF format = "csv" THEN "headers" ELSE "rows"

\* export_collection_fields; export_collection is the one that is not
\* incremental.  The boundary is the largest _id there is, of whatever type.
StartExport(j) ==
    /\ job[j] = Idle
    /\ \E p \in Place, format \in {"csv", "json"}, matching \in {Id, Id \ {1}}, incremental \in BOOLEAN :
           LET docs == Docs(Where(p))
           IN  Becomes(j, IF incremental /\ docs = {}
                          THEN [Idle EXCEPT !.kind = "export nothing", !.at = "end", !.answer = "ok"]
                          ELSE [kind |-> "export", at |-> "window", answer |-> "none", from |-> p, format |-> format,
                                incremental |-> incremental, boundary |-> IF incremental THEN Max(docs) ELSE MaxId,
                                window |-> matching, left |-> {}, last |-> 0, rows |-> {}, present |-> docs])
    /\ UNCHANGED <<data, watermark, events, watched>>

\* The user's own filter is an $and with the window.
FindWindow(j) ==
    /\ Is(j, "export", "window")
    /\ LET r == job[j]
           due    == IF r.incremental THEN Window(watermark[r.from], r.boundary) ELSE Id
           window == due \cap r.window
       IN  Becomes(j, [r EXCEPT !.at = First(r.format), !.window = window, !.left = due \ window,
                                !.present = @ \cap window])
    /\ UNCHANGED <<data, watermark, events, watched>>

ReadOn(j, at) ==
    LET r == job[j]
        ahead == Ahead(Where(r.from), r.last, r.window)
    IN  IF ahead = {} THEN [r EXCEPT !.at = at, !.last = 0]
        ELSE [r EXCEPT !.last = Min(ahead), !.rows = IF r.at = "rows" THEN @ \cup {Min(ahead)} ELSE @]

ReadHeaders(j) ==
    /\ Is(j, "export", "headers") /\ Becomes(j, ReadOn(j, "rows"))
    /\ UNCHANGED <<data, watermark, events, watched>>

ReadRows(j) ==
    /\ Is(j, "export", "rows") /\ Becomes(j, ReadOn(j, "flush"))
    /\ UNCHANGED <<data, watermark, events, watched>>

\* The file is complete, flushed or saved; then the watermark moves.
FlushExport(j) ==
    /\ Is(j, "export", "flush")
    /\ exported' = [exported EXCEPT ![job[j].from] = IF job[j].incremental THEN @ \cup job[j].rows ELSE @]
    /\ Becomes(j, IF job[j].incremental THEN [job[j] EXCEPT !.at = "mark"] ELSE Ended(j, "ok"))
    /\ UNCHANGED <<data, watermark, events, passed>>

\* A mistake the checks must catch: the largest _id is looked up again.
SetWatermarkAnew(j) ==
    /\ Is(j, "export", "mark") /\ Docs(Where(job[j].from)) # {}
    /\ LET r == job[j] IN
           /\ watermark' = [watermark EXCEPT ![r.from] = Max(Docs(Where(r.from)))]
           /\ passed' = [passed EXCEPT ![r.from] = @ \cup r.left]
    /\ Becomes(j, Ended(j, "ok"))
    /\ UNCHANGED <<data, events, exported>>

SetWatermark(j) ==
    /\ Is(j, "export", "mark")
    /\ LET r == job[j] IN
           /\ watermark' = [watermark EXCEPT ![r.from] = r.boundary]
           /\ passed' = [passed EXCEPT ![r.from] = @ \cup r.left]
    /\ Becomes(j, Ended(j, "ok"))
    /\ UNCHANGED <<data, events, exported>>

\* Any of its steps fails: the server's, the file's, the watermark's.
ExportFails(j) ==
    /\ job[j].kind = "export" /\ job[j].at # "end"
    /\ Event /\ Becomes(j, Ended(j, "failed"))
    /\ UNCHANGED <<data, watermark, watched>>

-----------------------------------------------------------------------------
(* Everything else that happens. *)

ParseFails(j) ==
    /\ Parser(j, "parse") /\ Event
    /\ Becomes(j, [job[j] EXCEPT !.parser = "failed", !.batch = <<>>])
    /\ UNCHANGED <<data, watermark, watched>>

CopyFails(j) ==
    /\ job[j].kind \in {"copy", "duplicate"} /\ job[j].at # "end"
    /\ Event /\ Becomes(j, Ended(j, "failed"))
    /\ UNCHANGED <<data, watermark, watched>>

\* The app is quit or crashes: nothing of its commands is left.
Quit ==
    /\ Event
    /\ job' = [j \in Job |-> IF job[j].at = "end" THEN job[j] ELSE [Idle EXCEPT !.kind = "gone", !.at = "end"]]
    /\ UNCHANGED <<data, watermark, watched>>

\* Another client of the server inserts a document, or deletes one.
Others ==
    /\ Event
    /\ \E w \in Stored, d \in Id :
           \/ d \notin Docs(w) /\ Store(w, {d}) /\ UNCHANGED job
           \/ /\ d \in Docs(w) /\ data' = [data EXCEPT ![w] = @ \ {d}]
              /\ job' = Gone(w, {d}) /\ UNCHANGED passed
    /\ UNCHANGED <<watermark, exported>>

ImportStep(j) == Parse(j) \/ Send(j) \/ Receive(j) \/ Insert(j) \/ ImportEnds(j)
CopyStep(j)   == Duplicate(j) \/ DropTarget(j) \/ ReadToCopy(j) \/ InsertCopy(j)
ExportStep(j) == FindWindow(j) \/ ReadHeaders(j) \/ ReadRows(j) \/ FlushExport(j) \/ SetWatermark(j)
Start(j) == StartImport(j) \/ CopyHere(j) \/ StartDuplicate(j) \/ StartCopy(j) \/ StartExport(j)
Fails(j) == ParseFails(j) \/ ImportFails(j) \/ CopyFails(j) \/ ExportFails(j)
Goes(j)  == ImportStep(j) \/ CopyStep(j) \/ ExportStep(j) \/ ImportFails(j)

Next == (\E j \in Job : Start(j) \/ Goes(j) \/ Fails(j)) \/ Quit \/ Others

Spec == Init /\ [][Next]_vars

\* Servers answer and threads run: a command that can go on does.
FairSpec == Spec /\ \A j \in Job : WF_vars(Goes(j))

-----------------------------------------------------------------------------
(* What holds. *)

\* Collections have _ids of one type, as they do unless clients choose others.
OneType == \A d, e \in Id : Type[d] = Type[e]

\* "A later incremental export only writes documents added since" leaves none
\* out of collections whose _ids are of one type: a document that is not above
\* the watermark was written to a completed file, unless it was inserted behind
\* the watermark or a filter left it out.
NothingSkipped ==
    OneType => \A p \in Place : \A d \in Docs(Where(p)) : d <= watermark[p] => d \in exported[p] \cup passed[p]

\* "An absent entry means "never exported incrementally" -> export everything"
\* (export_watermarks.rs:9): the export that moves a watermark for the first
\* time has taken every document up to it, of whatever type.
FirstExportTakesAll ==
    [][\A p \in Place : watermark[p] = 0 /\ watermark'[p] # 0 =>
           \A d \in Docs(Where(p)) : d <= watermark'[p] => d \in exported[p] \cup passed'[p]]_vars

\* A command that answers Ok did all of it: the import inserted every document
\* of the file, the copy and the export took every document that was there,
\* and matched, all along.  A failed import leaves a beginning of the file.
AnswersAreTrue ==
    [][\A j \in Job : job[j].at # "end" /\ job'[j].at = "end" =>
        LET r  == job[j]
            ok == job'[j].answer = "ok"
        IN  /\ r.kind = "import" => IsPrefix(r.inserted, r.file) /\ (ok => r.inserted = r.file)
            /\ r.kind = "copy"   => (ok => r.present \subseteq r.copied)
            /\ r.kind = "export" => (ok => r.present \subseteq r.rows)]_vars

\* "We drop the target first, which would wipe the source before anything is
\* read": the drop of a copy takes nothing from what the copy is to read.
CopyKeepsItsSource ==
    [][\A j \in Job : Is(j, "copy", "drop") /\ job'[j].at = "read" => data'[job[j].from] = data[job[j].from]]_vars

\* A command ends, and no parser is left behind blocked on its channel.
TransfersEnd ==
    \A j \in Job : job[j] # Idle ~> job[j].at = "end" /\ job[j].parser \in {"end", "failed"}
=============================================================================
